---------------------------- MODULE BridgeProofs ----------------------------
(***************************************************************************)
(* Proofs about Bridge.  The pieces of a direction are numbered, so each   *)
(* queue of that direction holds consecutive numbers that go on where the  *)
(* queue before it ends; the invariant says where each of them starts.     *)
(***************************************************************************)
EXTENDS Bridge, SequenceLemmas

-----------------------------------------------------------------------------
(***************************************************************************)
(* Queues of consecutive numbers (SequenceLemmas).                         *)
(***************************************************************************)
\* A queue that counts from the start is a beginning of all the numbers up to n,
\* and is all of them when it is as long.
LEMMA CountsUpTo ==
    ASSUME NEW S, NEW q \in Seq(S), NEW n \in Nat, Counts(q, 0), Len(q) <= n
    PROVE  IsPrefix(q, UpTo(n)) /\ (Len(q) = n => q = UpTo(n))
<1>1. UpTo(n) \in Seq(1..n) /\ Len(UpTo(n)) = n
  BY DEF UpTo
<1>2. \A i \in 1..n : UpTo(n)[i] = i
  BY DEF UpTo
<1>3. SubSeq(q, 1, Len(q)) = SubSeq(UpTo(n), 1, Len(q))
  BY <1>1, <1>2 DEF Counts
<1>4. Len(q) = n => q = UpTo(n)
  BY <1>1, <1>2 DEF Counts
<1> QED BY <1>1, <1>3, <1>4 DEF IsPrefix

-----------------------------------------------------------------------------
(***************************************************************************)
(* Types.                                                                  *)
(***************************************************************************)
LEMMA TypeInductive == TypeOK /\ [Next]_vars => TypeOK'
<1> SUFFICES ASSUME TypeOK, [Next]_vars
             PROVE  TypeOK'
  OBVIOUS
<1> USE BridgeAssumption DEF TypeOK, Piece, connVars, procVars, taskVars
<1>1. CASE PeerSends
  BY <1>1 DEF PeerSends
<1>2. CASE PeerLeaves
  BY <1>2 DEF PeerLeaves
<1>3. CASE Accept
  BY <1>3 DEF Accept
<1>4. CASE Spawn
  BY <1>4 DEF Spawn
<1>5. CASE SpawnFails
  BY <1>5 DEF SpawnFails
<1>6. CASE CheckExit
  BY <1>6 DEF CheckExit
<1>7. CASE Read
  BY <1>7 DEF Read
<1>8. CASE ReadClosed
  BY <1>8 DEF ReadClosed
<1>9. CASE Feed
  BY <1>9 DEF Feed, CanFeed, Fed
<1>10. CASE FeedFails
  BY <1>10 DEF FeedFails
<1>11. CASE Recv
  BY <1>11 DEF Recv
<1>12. CASE RecvNone
  BY <1>12 DEF RecvNone
<1>13. CASE Push
  BY <1>13 DEF Push
<1>14. CASE PushFails
  BY <1>14 DEF PushFails
<1>15. CASE Close
  <2>1. hand' \in Seq(Piece) /\ hpc' \in {"last", "sleep"}
    BY <1>15 DEF Close
  <2>2. cut' \in SUBSET {"exit", "unknown", "eof"}
    BY <1>15 DEF Close
  <2> QED BY <1>15, <2>1, <2>2 DEF Close
<1>16. CASE FeedLast
  <2>1. CASE CanFeed /\ Fed /\ UNCHANGED hpc
    BY <1>16, <2>1 DEF FeedLast, CanFeed, Fed
  <2>2. CASE hand = <<>> /\ hpc' = "sleep" /\ UNCHANGED <<stdin, hand>>
    BY <1>16, <2>2 DEF FeedLast
  <2> QED BY <1>16, <2>1, <2>2 DEF FeedLast
<1>17. CASE Kill
  BY <1>17 DEF Kill, NoConnection, NoAdapter
<1>18. CASE TaskReads
  <2>1. Head(stdout) \in Piece /\ Tail(stdout) \in Seq(Piece)
        /\ Len(Tail(stdout)) <= PipeCap
    BY <1>18 DEF TaskReads
  <2>2. carried' \in Seq(Piece) /\ Len(carried') <= 1
    BY <1>18, <2>1 DEF TaskReads
  <2> QED BY <1>18, <2>1, <2>2 DEF TaskReads
<1>19. CASE TaskSends
  BY <1>19 DEF TaskSends
<1>20. CASE TaskEof
  BY <1>20 DEF TaskEof
<1>21. CASE DeviceProduces
  BY <1>21 DEF DeviceProduces
<1>22. CASE DeviceFails
  BY <1>22 DEF DeviceFails
<1>23. CASE WriteLoop
  BY <1>23 DEF WriteLoop
<1>24. CASE AdapterExits
  BY <1>24 DEF AdapterExits
<1>25. CASE UNCHANGED vars
  BY <1>25 DEF vars
<1>26. CASE Abandon
  BY <1>26 DEF Abandon, NoConnection
<1>27. CASE ReadPanics
  BY <1>27 DEF ReadPanics
<1>28. CASE TaskSendFails
  BY <1>28 DEF TaskSendFails
<1>29. CASE ConnFinishes
  BY <1>29 DEF ConnFinishes
<1> QED BY <1>1, <1>2, <1>3, <1>4, <1>5, <1>6, <1>7, <1>8, <1>9, <1>10, <1>11,
           <1>12, <1>13, <1>14, <1>15, <1>16, <1>17, <1>18, <1>19, <1>20, <1>21,
           <1>22, <1>23, <1>24, <1>25, <1>26, <1>27, <1>28, <1>29
       DEF Next, HostRuns, HostWaits, Task

-----------------------------------------------------------------------------
(***************************************************************************)
(* What the places of device_actor say of the rest.                        *)
(***************************************************************************)
\* Before the adapter is spawned nothing of an earlier session is left.
Fresh ==
    hpc \in {"listen", "spawn", "abandon"} =>
        /\ proc = "none" /\ produced = 0 /\ consumed = <<>>
        /\ stdin = <<>> /\ stdout = <<>>
        /\ data_rx = <<>> /\ task = "none" /\ carried = <<>>
        /\ peerGot = <<>> /\ cut = {}
        /\ hpc = "listen" => inbox = <<>> /\ peerSent = 0 /\ conn = "none"

\* What is in hand where, and when there is a connection and an adapter.
InHand ==
    /\ hpc \in {"feed", "push"} => Len(hand) = 1
    /\ hpc \notin {"feed", "push", "last"} => hand = <<>>
    /\ hpc \in {"last", "sleep"} => inbox = <<>> /\ conn = "gone"
    /\ "unknown" \in cut => hpc = "sleep"
    /\ conn = "none" => hpc = "listen"
    /\ proc = "none" => hpc \in {"listen", "spawn", "abandon"}

\* The end of the adapter's output: the reader task has handed on all it read, and
\* recv returned nothing only when all of it had been pushed.
Ended ==
    /\ task = "gone" /\ hpc # "panicked"
           => carried = <<>> /\ stdout = <<>> /\ proc = "exited"
    /\ "eof" \in cut => /\ hpc \in {"close", "last", "sleep"}
                        /\ Len(peerGot) = produced /\ proc = "exited"

Control == Fresh /\ InHand

\* Sessions start with empty pipes, and a hand is full only where the task holds a
\* message.
LEMMA ControlInductive == TypeOK /\ Control /\ [Next]_vars => Control'
<1> SUFFICES ASSUME TypeOK, Control, [Next]_vars
             PROVE  Control'
  OBVIOUS
<1> USE DEF TypeOK, Control, Fresh, InHand, connVars, procVars, taskVars
<1>1. CASE PeerSends
  BY <1>1 DEF PeerSends
<1>2. CASE PeerLeaves
  BY <1>2 DEF PeerLeaves
<1>3. CASE Accept
  BY <1>3 DEF Accept
<1>4. CASE Spawn
  BY <1>4 DEF Spawn
<1>5. CASE SpawnFails
  BY <1>5 DEF SpawnFails
<1>6. CASE CheckExit
  BY <1>6 DEF CheckExit
<1>7. CASE Read
  BY <1>7 DEF Read
<1>8. CASE ReadClosed
  BY <1>8 DEF ReadClosed
<1>9. CASE Feed
  <2>1. Len(hand) = 1
    BY <1>9 DEF Feed
  <2>2. hand \in Seq(Piece)
    OBVIOUS
  <2>3. Tail(hand) = <<>>
    BY <2>1, <2>2, SingletonSeq
  <2> QED BY <1>9, <2>3 DEF Feed, CanFeed, Fed
<1>10. CASE FeedFails
  BY <1>10 DEF FeedFails
<1>11. CASE Recv
  BY <1>11 DEF Recv
<1>12. CASE RecvNone
  BY <1>12 DEF RecvNone
<1>13. CASE Push
  BY <1>13 DEF Push
<1>14. CASE PushFails
  BY <1>14 DEF PushFails
<1>15. CASE Close
  BY <1>15 DEF Close
<1>16. CASE FeedLast
  BY <1>16 DEF FeedLast, CanFeed, Fed
<1>17. CASE Kill
  BY <1>17 DEF Kill, NoConnection, NoAdapter
<1>18. CASE TaskReads
  BY <1>18 DEF TaskReads
<1>19. CASE TaskSends
  BY <1>19 DEF TaskSends
<1>20. CASE TaskEof
  BY <1>20 DEF TaskEof
<1>21. CASE DeviceProduces
  BY <1>21 DEF DeviceProduces
<1>22. CASE DeviceFails
  BY <1>22 DEF DeviceFails
<1>23. CASE WriteLoop
  BY <1>23 DEF WriteLoop
<1>24. CASE AdapterExits
  BY <1>24 DEF AdapterExits
<1>25. CASE UNCHANGED vars
  BY <1>25 DEF vars
<1>26. CASE Abandon
  BY <1>26 DEF Abandon, NoConnection
<1>27. CASE ReadPanics
  BY <1>27 DEF ReadPanics
<1>28. CASE TaskSendFails
  BY <1>28 DEF TaskSendFails
<1>29. CASE ConnFinishes
  BY <1>29 DEF ConnFinishes
<1> QED BY <1>1, <1>2, <1>3, <1>4, <1>5, <1>6, <1>7, <1>8, <1>9, <1>10, <1>11,
           <1>12, <1>13, <1>14, <1>15, <1>16, <1>17, <1>18, <1>19, <1>20, <1>21,
           <1>22, <1>23, <1>24, <1>25, <1>26, <1>27, <1>28, <1>29
       DEF Next, HostRuns, HostWaits, Task

-----------------------------------------------------------------------------
(***************************************************************************)
(* From the peer to the device.                                            *)
(***************************************************************************)
\* Pieces in hand on this way.
Down == IF hpc \in {"feed", "last"} THEN hand ELSE <<>>

\* What the device has been handed, in its stdin or taken from it.
Handed == Len(consumed) + Len(stdin)

\* As long as the adapter lives and close has not failed, every message of the
\* peer is in one of the four places.
Whole == Handed + Len(Down) + Len(inbox) = peerSent

\* No message has been left out so far.
Live == proc # "exited" /\ "unknown" \notin cut

DownWay ==
    /\ Counts(consumed, 0) /\ Counts(stdin, Len(consumed))
    /\ Handed <= peerSent
    /\ Live =>
          /\ Counts(Down, Handed) /\ Counts(inbox, Handed + Len(Down))
          /\ Whole

\* A message written to the adapter goes from the hand to its stdin.
LEMMA FedDown ==
    ASSUME TypeOK, DownWay, CanFeed, Fed, UNCHANGED consumed, Down = hand, Live
    PROVE  /\ Counts(stdin', Len(consumed)) /\ Handed' = Handed + 1
           /\ Counts(hand', Handed + 1) /\ Len(hand') = Len(hand) - 1
<1>1. /\ hand # <<>> /\ stdin' = Append(stdin, Head(hand)) /\ hand' = Tail(hand)
  BY DEF CanFeed, Fed
<1>2. /\ hand \in Seq(Piece) /\ stdin \in Seq(Piece) /\ Len(consumed) \in Nat
      /\ Handed \in Nat /\ Handed = Len(consumed) + Len(stdin)
  BY DEF TypeOK, Handed
<1>3. Counts(hand, Handed) /\ Counts(stdin, Len(consumed))
  BY DEF DownWay
<1>4. /\ Head(hand) = Handed + 1 /\ Len(hand') = Len(hand) - 1
      /\ Counts(hand', Handed + 1)
  BY <1>1, <1>2, <1>3, CountsTail
<1>5. Head(hand) \in Piece
  BY <1>1, <1>2
<1>6. Head(hand) = Len(consumed) + Len(stdin) + 1
  BY <1>2, <1>4
<1>7. Counts(stdin', Len(consumed)) /\ Len(stdin') = Len(stdin) + 1
  BY <1>1, <1>2, <1>3, <1>5, <1>6, CountsAppend
<1>8. Handed' = Handed + 1
  BY <1>2, <1>7 DEF Handed
<1> QED BY <1>4, <1>7, <1>8

\* The messages of the peer keep their order and their numbers on the way down.
LEMMA DownInductive == TypeOK /\ Control /\ DownWay /\ [Next]_vars => DownWay'
<1> SUFFICES ASSUME TypeOK, Control, DownWay, [Next]_vars
             PROVE  DownWay'
  OBVIOUS
<1> USE BridgeAssumption DEF TypeOK, connVars, procVars, taskVars
<1>1. CASE PeerSends
  <2>1. /\ UNCHANGED <<hpc, hand, proc, consumed, stdin, cut>>
        /\ peerSent' = peerSent + 1 /\ inbox' = Append(inbox, peerSent + 1)
        /\ peerSent + 1 \in Piece
    BY <1>1 DEF PeerSends, Piece
  <2>2. UNCHANGED <<Down, Handed, Live>>
    BY <2>1 DEF Down, Handed, Live
  <2>3. Handed \in Nat /\ Len(Down) \in Nat
    BY DEF Handed, Down
  <2>4. /\ Counts(consumed', 0) /\ Counts(stdin', Len(consumed'))
        /\ Handed' <= peerSent'
    BY <2>1, <2>2, <2>3 DEF DownWay
  <2>5. ASSUME Live
        PROVE  Counts(inbox', Handed + Len(Down)) /\ Len(inbox') = Len(inbox) + 1
    <3>1. /\ Counts(inbox, Handed + Len(Down))
          /\ peerSent + 1 = Handed + Len(Down) + Len(inbox) + 1
      BY <2>5 DEF DownWay, Whole
    <3> QED BY <2>1, <2>3, <3>1, CountsAppend
  <2>6. Live' => Whole'
    <3> SUFFICES ASSUME Live
                 PROVE  Handed' + Len(Down') + Len(inbox') = peerSent'
      BY <2>2 DEF Whole
    <3>1. Handed + Len(Down) + Len(inbox) = peerSent
      BY DEF DownWay, Whole
    <3>2. Len(Down) \in Nat /\ Len(inbox) \in Nat /\ peerSent \in Nat
      BY DEF Down
    <3> HIDE DEF TypeOK
    <3> QED BY <2>1, <2>2, <2>3, <2>5, <3>1, <3>2
  <2> QED BY <2>2, <2>4, <2>5, <2>6 DEF DownWay
<1>2. CASE PeerLeaves
  BY <1>2 DEF PeerLeaves, Control, Fresh, InHand, Counts, DownWay, Live,
               Handed, Whole, Down
<1>3. CASE Accept
  BY <1>3 DEF Accept, Control, Fresh, InHand, Counts, DownWay, Live,
               Handed, Whole, Down
<1>4. CASE Spawn
  BY <1>4 DEF Spawn, Control, Fresh, InHand, Counts, DownWay, Live,
               Handed, Whole, Down
<1>5. CASE SpawnFails
  BY <1>5 DEF SpawnFails, Control, Fresh, InHand, Counts, DownWay, Live,
               Handed, Whole, Down
<1>6. CASE CheckExit
  BY <1>6 DEF CheckExit, Control, Fresh, InHand, Counts, DownWay, Live,
               Handed, Whole, Down
<1>7. CASE Read
  <2>1. /\ UNCHANGED <<proc, consumed, stdin, cut, peerSent>>
        /\ hand' = <<Head(inbox)>> /\ inbox' = Tail(inbox) /\ inbox # <<>>
        /\ Down = <<>> /\ Down' = hand'
    BY <1>7 DEF Read, Down
  <2>2. UNCHANGED <<Handed, Live>>
    BY <2>1 DEF Handed, Live
  <2>3. Handed \in Nat
    BY DEF Handed
  <2>4. /\ Counts(consumed', 0) /\ Counts(stdin', Len(consumed'))
        /\ Handed' <= peerSent'
    BY <2>1, <2>2 DEF DownWay
  <2>5. ASSUME Live
        PROVE  /\ Counts(Down', Handed) /\ Len(Down') = 1
               /\ Counts(inbox', Handed + 1) /\ Len(inbox') = Len(inbox) - 1
    <3>1. Counts(inbox, Handed)
      BY <2>1, <2>3, <2>5 DEF DownWay
    <3>2. /\ Head(inbox) = Handed + 1 /\ Len(Tail(inbox)) = Len(inbox) - 1
          /\ Counts(Tail(inbox), Handed + 1)
      BY <2>1, <2>3, <3>1, CountsTail
    <3>3. Counts(<<Handed + 1>>, Handed)
      BY <2>3, CountsShort
    <3> QED BY <2>1, <3>2, <3>3
  <2>6. Live' => Whole'
    <3> SUFFICES ASSUME Live
                 PROVE  Handed' + Len(Down') + Len(inbox') = peerSent'
      BY <2>2 DEF Whole
    <3>1. Handed + Len(Down) + Len(inbox) = peerSent
      BY DEF DownWay, Whole
    <3>2. Len(Down) \in Nat /\ Len(inbox) \in Nat /\ peerSent \in Nat
      BY DEF Down
    <3> HIDE DEF TypeOK
    <3> QED BY <2>1, <2>2, <2>3, <2>5, <3>1, <3>2
  <2> QED BY <2>2, <2>4, <2>5, <2>6 DEF DownWay
<1>8. CASE ReadClosed
  BY <1>8 DEF ReadClosed, Control, Fresh, InHand, Counts, DownWay, Live,
               Handed, Whole, Down
<1>9. CASE Feed
  <2>1. /\ UNCHANGED <<proc, consumed, cut, peerSent, inbox>>
        /\ Down = hand /\ CanFeed /\ Fed /\ Down' = <<>>
    BY <1>9 DEF Feed, Down
  <2>2. Len(hand) = 1 /\ Live /\ Live'
    BY <1>9, <2>1 DEF Feed, Control, InHand, CanFeed, Live
  <2>3. Counts(stdin', Len(consumed)) /\ Handed' = Handed + 1 /\ Handed \in Nat
    BY <2>1, <2>2, FedDown DEF Handed
  <2>4. Counts(Down', Handed + 1)
    BY <2>1 DEF Counts
  <2>5. Counts(consumed, 0) /\ Counts(inbox, Handed + 1) /\ Whole
    BY <2>1, <2>2 DEF DownWay
  <2>6. Whole' /\ Handed' <= peerSent'
    BY <2>1, <2>2, <2>3, <2>5 DEF Whole
  <2> QED BY <2>1, <2>3, <2>4, <2>5, <2>6 DEF DownWay
<1>10. CASE FeedFails
  BY <1>10 DEF FeedFails, Control, Fresh, InHand, Counts, DownWay, Live,
               Handed, Whole, Down
<1>11. CASE Recv
  BY <1>11 DEF Recv, Control, Fresh, InHand, Counts, DownWay, Live,
               Handed, Whole, Down
<1>12. CASE RecvNone
  BY <1>12 DEF RecvNone, Control, Fresh, InHand, Counts, DownWay, Live,
               Handed, Whole, Down
<1>13. CASE Push
  BY <1>13 DEF Push, Control, Fresh, InHand, Counts, DownWay, Live,
               Handed, Whole, Down
<1>14. CASE PushFails
  BY <1>14 DEF PushFails, Control, Fresh, InHand, Counts, DownWay, Live,
               Handed, Whole, Down
<1>15. CASE Close
  <2>1. /\ UNCHANGED <<proc, consumed, stdin, peerSent>>
        /\ inbox' = <<>> /\ Down = <<>>
    BY <1>15 DEF Close, Down
  <2>2. Handed' = Handed /\ Handed \in Nat
    BY <2>1 DEF Handed
  <2>3. /\ Counts(consumed', 0) /\ Counts(stdin', Len(consumed'))
        /\ Handed' <= peerSent'
    BY <2>1, <2>2 DEF DownWay
  <2>4. CASE hand' = inbox /\ hpc' = "last" /\ UNCHANGED cut
    <3>1. Down' = inbox /\ Live' = Live
      BY <2>1, <2>4 DEF Down, Live
    <3>2. Live => Counts(inbox, Handed) /\ Handed + Len(inbox) = peerSent
      BY <2>1, <2>2 DEF DownWay, Whole
    <3>3. Live' => Whole'
      BY <2>1, <2>2, <3>1, <3>2 DEF Whole
    <3>4. Counts(inbox', Handed + Len(inbox))
      BY <2>1 DEF Counts
    <3> QED BY <2>2, <2>3, <3>1, <3>2, <3>3, <3>4 DEF DownWay
  <2>5. CASE cut' = cut \cup {"unknown"}
    <3>1. ~Live'
      BY <2>5 DEF Live
    <3> QED BY <2>3, <3>1 DEF DownWay
  <2> QED BY <1>15, <2>4, <2>5 DEF Close
<1>16. CASE FeedLast
  <2>1. CASE CanFeed /\ Fed /\ UNCHANGED hpc
    <3>1. /\ UNCHANGED <<proc, consumed, cut, peerSent, inbox>>
          /\ Down = hand /\ Down' = hand' /\ inbox = <<>>
      BY <1>16, <2>1 DEF FeedLast, Down, Control, InHand
    <3>2. Live /\ Live'
      BY <1>16, <2>1, <3>1 DEF FeedLast, Control, InHand, CanFeed, Live
    <3>3. /\ Counts(stdin', Len(consumed)) /\ Handed' = Handed + 1
          /\ Counts(hand', Handed + 1) /\ Len(hand') = Len(hand) - 1
          /\ Handed \in Nat /\ Len(hand) \in Nat
      BY <2>1, <3>1, <3>2, FedDown DEF Handed
    <3>4. Counts(consumed, 0) /\ Whole /\ hand # <<>>
      BY <2>1, <3>2 DEF DownWay, CanFeed
    <3>5. Whole' /\ Handed' <= peerSent'
      <4>1. Handed + Len(hand) = peerSent /\ Len(hand) > 0 /\ Len(inbox') = 0
        BY <3>1, <3>3, <3>4 DEF Whole
      <4> HIDE DEF TypeOK
      <4>2. Handed' + Len(hand') + Len(inbox') = peerSent' /\ Handed' <= peerSent'
        BY <3>1, <3>3, <4>1
      <4> QED BY <3>1, <4>2 DEF Whole
    <3>6. Counts(inbox', Handed' + Len(Down'))
      BY <3>1 DEF Counts
    <3> QED BY <3>1, <3>3, <3>4, <3>5, <3>6 DEF DownWay
  <2>2. CASE hand = <<>> /\ hpc' = "sleep" /\ UNCHANGED <<stdin, hand>>
    <3>1. /\ UNCHANGED <<proc, consumed, cut, peerSent, inbox, stdin>>
          /\ Down = <<>> /\ Down' = <<>>
      BY <1>16, <2>2 DEF FeedLast, Down
    <3> QED BY <3>1 DEF DownWay, Live, Handed, Whole
  <2> QED BY <1>16, <2>1, <2>2 DEF FeedLast
<1>17. CASE Kill
  BY <1>17 DEF Kill, NoConnection, NoAdapter, Control, Fresh, InHand, Counts, DownWay, Live,
               Handed, Whole, Down
<1>18. CASE TaskReads
  BY <1>18 DEF TaskReads, Control, Fresh, InHand, Counts, DownWay, Live,
               Handed, Whole, Down
<1>19. CASE TaskSends
  BY <1>19 DEF TaskSends, Control, Fresh, InHand, Counts, DownWay, Live,
               Handed, Whole, Down
<1>20. CASE TaskEof
  BY <1>20 DEF TaskEof, Control, Fresh, InHand, Counts, DownWay, Live,
               Handed, Whole, Down
<1>21. CASE DeviceProduces
  BY <1>21 DEF DeviceProduces, Control, Fresh, InHand, Counts, DownWay, Live,
               Handed, Whole, Down
<1>22. CASE DeviceFails
  BY <1>22 DEF DeviceFails, Control, Fresh, InHand, Counts, DownWay, Live,
               Handed, Whole, Down
<1>23. CASE WriteLoop
  <2>1. /\ UNCHANGED <<hpc, hand, proc, cut, peerSent, inbox>>
        /\ consumed' = Append(consumed, Head(stdin)) /\ stdin' = Tail(stdin)
        /\ stdin # <<>> /\ Head(stdin) \in Piece
    BY <1>23 DEF WriteLoop
  <2>2. Counts(stdin, Len(consumed)) /\ Counts(consumed, 0) /\ Handed <= peerSent
    BY DEF DownWay
  <2>3. /\ Head(stdin) = Len(consumed) + 1 /\ Len(stdin') = Len(stdin) - 1
        /\ Counts(stdin', Len(consumed) + 1)
    BY <2>1, <2>2, CountsTail
  <2>4. Counts(consumed', 0) /\ Len(consumed') = Len(consumed) + 1
    <3>1. Head(stdin) = 0 + Len(consumed) + 1
      BY <2>3
    <3> QED BY <2>1, <2>2, <3>1, CountsAppend
  <2>5. Handed' = Handed
    BY <2>3, <2>4 DEF Handed
  <2>6. Down' = Down /\ Live' = Live
    BY <2>1 DEF Down, Live
  <2>7. Whole' = Whole
    BY <2>1, <2>5, <2>6 DEF Whole
  <2> QED BY <2>1, <2>2, <2>3, <2>4, <2>5, <2>6, <2>7 DEF DownWay
<1>24. CASE AdapterExits
  BY <1>24 DEF AdapterExits, Control, Fresh, InHand, Counts, DownWay, Live,
               Handed, Whole, Down
<1>25. CASE UNCHANGED vars
  BY <1>25 DEF vars, DownWay, Live, Handed, Whole, Down
<1>26. CASE Abandon
  BY <1>26 DEF Abandon, NoConnection, Control, Fresh, InHand, Counts, DownWay, Live,
               Handed, Whole, Down
<1>27. CASE ReadPanics
  BY <1>27 DEF ReadPanics, Control, Fresh, InHand, Counts, DownWay, Live,
               Handed, Whole, Down
<1>28. CASE TaskSendFails
  BY <1>28 DEF TaskSendFails, Control, Fresh, InHand, Counts, DownWay, Live,
               Handed, Whole, Down
<1>29. CASE ConnFinishes
  BY <1>29 DEF ConnFinishes, Control, Fresh, InHand, Counts, DownWay, Live,
               Handed, Whole, Down
<1> QED BY <1>1, <1>2, <1>3, <1>4, <1>5, <1>6, <1>7, <1>8, <1>9, <1>10, <1>11,
           <1>12, <1>13, <1>14, <1>15, <1>16, <1>17, <1>18, <1>19, <1>20, <1>21,
           <1>22, <1>23, <1>24, <1>25, <1>26, <1>27, <1>28, <1>29
       DEF Next, HostRuns, HostWaits, Task

-----------------------------------------------------------------------------
(***************************************************************************)
(* From the device to the peer.                                            *)
(***************************************************************************)
\* Pieces in hand on this way.
Up == IF hpc = "push" THEN hand ELSE <<>>

\* handle_connection is in its loop, or nothing has happened yet.
Open == hpc \in {"listen", "spawn", "abandon", "check", "select", "feed", "push"}

\* The last piece that has left data_rx, that is in it or has left it, and that the
\* reader task has read.
Taken == Len(peerGot) + Len(Up)
Queued == Taken + Len(data_rx)
ReadOff == Queued + Len(carried)

UpWay ==
    /\ Counts(peerGot, 0) /\ Len(peerGot) <= produced
    /\ Open => /\ Counts(Up, Len(peerGot)) /\ Counts(data_rx, Taken)
               /\ Counts(carried, Queued) /\ Counts(stdout, ReadOff)
               /\ ReadOff + Len(stdout) = produced

\* The output of the device keeps its order and its numbers on the way up.
LEMMA UpInductive == TypeOK /\ Control /\ UpWay /\ [Next]_vars => UpWay'
<1> SUFFICES ASSUME TypeOK, Control, UpWay, [Next]_vars
             PROVE  UpWay'
  OBVIOUS
<1> USE BridgeAssumption DEF TypeOK, connVars, procVars, taskVars
<1>1. CASE PeerSends
  BY <1>1 DEF PeerSends, Control, Fresh, InHand, Counts, UpWay, Open,
               Up, Taken, Queued, ReadOff
<1>2. CASE PeerLeaves
  BY <1>2 DEF PeerLeaves, Control, Fresh, InHand, Counts, UpWay, Open,
               Up, Taken, Queued, ReadOff
<1>3. CASE Accept
  BY <1>3 DEF Accept, Control, Fresh, InHand, Counts, UpWay, Open,
               Up, Taken, Queued, ReadOff
<1>4. CASE Spawn
  BY <1>4 DEF Spawn, Control, Fresh, InHand, Counts, UpWay, Open,
               Up, Taken, Queued, ReadOff
<1>5. CASE SpawnFails
  BY <1>5 DEF SpawnFails, Control, Fresh, InHand, Counts, UpWay, Open,
               Up, Taken, Queued, ReadOff
<1>6. CASE CheckExit
  BY <1>6 DEF CheckExit, Control, Fresh, InHand, Counts, UpWay, Open,
               Up, Taken, Queued, ReadOff
<1>7. CASE Read
  BY <1>7 DEF Read, Control, Fresh, InHand, Counts, UpWay, Open,
               Up, Taken, Queued, ReadOff
<1>8. CASE ReadClosed
  BY <1>8 DEF ReadClosed, Control, Fresh, InHand, Counts, UpWay, Open,
               Up, Taken, Queued, ReadOff
<1>9. CASE Feed
  BY <1>9 DEF Feed, CanFeed, Fed, Control, Fresh, InHand, Counts, UpWay, Open,
               Up, Taken, Queued, ReadOff
<1>10. CASE FeedFails
  BY <1>10 DEF FeedFails, Control, Fresh, InHand, Counts, UpWay, Open,
               Up, Taken, Queued, ReadOff
<1>11. CASE Recv
  <2>1. /\ hpc = "select" /\ hpc' = "push" /\ data_rx # <<>>
        /\ hand' = <<Head(data_rx)>> /\ data_rx' = Tail(data_rx)
        /\ UNCHANGED <<peerGot, carried, stdout, produced>>
    BY <1>11 DEF Recv
  <2>2. Up = <<>> /\ Up' = hand' /\ Len(Up') = 1 /\ Len(peerGot) \in Nat
    BY <2>1 DEF Up
  <2>3. Counts(data_rx, Len(peerGot)) /\ Open
    BY <2>1, <2>2 DEF UpWay, Open, Taken
  <2>4. /\ Head(data_rx) = Len(peerGot) + 1 /\ Len(data_rx') = Len(data_rx) - 1
        /\ Counts(data_rx', Len(peerGot) + 1)
    BY <2>1, <2>2, <2>3, CountsTail
  <2>5. Counts(Up', Len(peerGot))
    BY <2>1, <2>2, <2>4, CountsShort
  <2>6. Taken' = Len(peerGot) + 1 /\ Queued' = Queued /\ ReadOff' = ReadOff
    BY <2>1, <2>2, <2>4 DEF Taken, Queued, ReadOff
  <2> QED BY <2>1, <2>3, <2>4, <2>5, <2>6 DEF UpWay
<1>12. CASE RecvNone
  BY <1>12 DEF RecvNone, Control, Fresh, InHand, Counts, UpWay, Open,
               Up, Taken, Queued, ReadOff
<1>13. CASE Push
  <2>1. /\ hpc = "push" /\ hpc' = "check"
        /\ peerGot' = peerGot \o hand
        /\ UNCHANGED <<data_rx, carried, stdout, produced>>
    BY <1>13 DEF Push
  <2>2. Up = hand /\ Up' = <<>> /\ Open
    BY <2>1 DEF Up, Open
  <2>3. Counts(peerGot, 0) /\ Counts(hand, 0 + Len(peerGot))
    BY <2>2 DEF UpWay
  <2>4. Counts(peerGot', 0) /\ Len(peerGot') = Len(peerGot) + Len(hand)
    BY <2>1, <2>3, CountsCat
  <2>5. Taken' = Taken /\ Queued' = Queued /\ ReadOff' = ReadOff
    BY <2>1, <2>2, <2>4 DEF Taken, Queued, ReadOff
  <2>6. Counts(Up', Len(peerGot'))
    BY <2>2 DEF Counts
  <2>7. Len(peerGot') <= produced'
    BY <2>1, <2>2, <2>4 DEF UpWay, Taken, Queued, ReadOff
  <2> QED BY <2>1, <2>2, <2>4, <2>5, <2>6, <2>7 DEF UpWay
<1>14. CASE PushFails
  BY <1>14 DEF PushFails, Control, Fresh, InHand, Counts, UpWay, Open,
               Up, Taken, Queued, ReadOff
<1>15. CASE Close
  BY <1>15 DEF Close, Control, Fresh, InHand, Counts, UpWay, Open,
               Up, Taken, Queued, ReadOff
<1>16. CASE FeedLast
  BY <1>16 DEF FeedLast, CanFeed, Fed, Control, Fresh, InHand, Counts, UpWay, Open,
               Up, Taken, Queued, ReadOff
<1>17. CASE Kill
  BY <1>17 DEF Kill, NoConnection, NoAdapter, Control, Fresh, InHand, Counts, UpWay, Open,
               Up, Taken, Queued, ReadOff
<1>18. CASE TaskReads
  <2>1. /\ carried = <<>> /\ stdout # <<>>
        /\ carried' = <<Head(stdout)>> /\ stdout' = Tail(stdout)
        /\ UNCHANGED <<hpc, hand, peerGot, data_rx, produced>>
    BY <1>18 DEF TaskReads
  <2>2. Up' = Up /\ Open' = Open /\ Taken' = Taken /\ Queued' = Queued
    BY <2>1 DEF Up, Open, Taken, Queued
  <2>3. Queued \in Nat /\ ReadOff = Queued
    BY <2>1 DEF Up, Taken, Queued, ReadOff
  <2>4. ASSUME Open
        PROVE  /\ Counts(carried', Queued) /\ Counts(stdout', Queued + 1)
               /\ Len(stdout') = Len(stdout) - 1
    <3>1. Counts(stdout, Queued)
      BY <2>3, <2>4 DEF UpWay
    <3>2. /\ Head(stdout) = Queued + 1 /\ Len(Tail(stdout)) = Len(stdout) - 1
          /\ Counts(Tail(stdout), Queued + 1)
      BY <2>1, <2>3, <3>1, CountsTail
    <3> QED BY <2>1, <2>3, <3>2, CountsShort
  <2>5. ReadOff' = Queued + 1
    BY <2>1, <2>2, <2>3 DEF ReadOff
  <2>6. ASSUME Open
        PROVE  ReadOff' + Len(stdout') = produced'
    <3>1. Queued + Len(stdout) = produced /\ Len(stdout) \in Nat
      BY <2>3, <2>6 DEF UpWay
    <3> HIDE DEF TypeOK
    <3> QED BY <2>1, <2>3, <2>4, <2>5, <2>6, <3>1
  <2> QED BY <2>1, <2>2, <2>4, <2>5, <2>6 DEF UpWay
<1>19. CASE TaskSends
  <2>1. /\ data_rx' = data_rx \o carried /\ carried' = <<>>
        /\ UNCHANGED <<hpc, hand, peerGot, stdout, produced>>
    BY <1>19 DEF TaskSends
  <2>2. Up' = Up /\ Open' = Open /\ Taken' = Taken /\ Taken \in Nat
    BY <2>1 DEF Up, Open, Taken
  <2>3. Len(data_rx') = Len(data_rx) + Len(carried)
    BY <2>1
  <2>4. Queued' = ReadOff /\ ReadOff' = ReadOff
    BY <2>1, <2>2, <2>3 DEF Queued, ReadOff
  <2>5. Open => Counts(data_rx', Taken)
    BY <2>1, <2>2, CountsCat DEF UpWay, Queued
  <2>6. Counts(carried', ReadOff)
    BY <2>1 DEF Counts
  <2> QED BY <2>1, <2>2, <2>4, <2>5, <2>6 DEF UpWay
<1>20. CASE TaskEof
  BY <1>20 DEF TaskEof, Control, Fresh, InHand, Counts, UpWay, Open,
               Up, Taken, Queued, ReadOff
<1>21. CASE DeviceProduces
  <2>1. /\ produced' = produced + 1 /\ stdout' = Append(stdout, produced + 1)
        /\ produced + 1 \in Piece
        /\ UNCHANGED <<hpc, hand, peerGot, data_rx, carried>>
    BY <1>21 DEF DeviceProduces, Piece
  <2>2. Up' = Up /\ Open' = Open /\ Taken' = Taken /\ Queued' = Queued
    BY <2>1 DEF Up, Open, Taken, Queued
  <2>3. ReadOff' = ReadOff /\ ReadOff \in Nat
    BY <2>1, <2>2 DEF Up, Taken, Queued, ReadOff
  <2>4. ASSUME Open
        PROVE  Counts(stdout', ReadOff) /\ Len(stdout') = Len(stdout) + 1
    <3>1. Counts(stdout, ReadOff) /\ produced + 1 = ReadOff + Len(stdout) + 1
      BY <2>4 DEF UpWay
    <3> QED BY <2>1, <2>3, <3>1, CountsAppend
  <2>5. Open => ReadOff + Len(stdout) + 1 = produced'
    BY <2>1 DEF UpWay
  <2> QED BY <2>1, <2>2, <2>3, <2>4, <2>5 DEF UpWay
<1>22. CASE DeviceFails
  BY <1>22 DEF DeviceFails, Control, Fresh, InHand, Counts, UpWay, Open,
               Up, Taken, Queued, ReadOff
<1>23. CASE WriteLoop
  BY <1>23 DEF WriteLoop, Control, Fresh, InHand, Counts, UpWay, Open,
               Up, Taken, Queued, ReadOff
<1>24. CASE AdapterExits
  BY <1>24 DEF AdapterExits, Control, Fresh, InHand, Counts, UpWay, Open,
               Up, Taken, Queued, ReadOff
<1>25. CASE UNCHANGED vars
  BY <1>25 DEF vars, UpWay, Open, Up, Taken, Queued, ReadOff
<1>26. CASE Abandon
  BY <1>26 DEF Abandon, NoConnection, Control, Fresh, InHand, Counts, UpWay, Open,
               Up, Taken, Queued, ReadOff
<1>27. CASE ReadPanics
  BY <1>27 DEF ReadPanics, Control, Fresh, InHand, Counts, UpWay, Open,
               Up, Taken, Queued, ReadOff
<1>28. CASE TaskSendFails
  BY <1>28 DEF TaskSendFails, Control, Fresh, InHand, Counts, UpWay, Open,
               Up, Taken, Queued, ReadOff
<1>29. CASE ConnFinishes
  BY <1>29 DEF ConnFinishes, Control, Fresh, InHand, Counts, UpWay, Open,
               Up, Taken, Queued, ReadOff
<1> QED BY <1>1, <1>2, <1>3, <1>4, <1>5, <1>6, <1>7, <1>8, <1>9, <1>10, <1>11,
           <1>12, <1>13, <1>14, <1>15, <1>16, <1>17, <1>18, <1>19, <1>20, <1>21,
           <1>22, <1>23, <1>24, <1>25, <1>26, <1>27, <1>28, <1>29
       DEF Next, HostRuns, HostWaits, Task

\* After an end of the output nothing of it is left on the way.
LEMMA EndedInductive ==
    TypeOK /\ Control /\ UpWay /\ Ended /\ [Next]_vars => Ended'
<1> SUFFICES ASSUME TypeOK, Control, UpWay, Ended, [Next]_vars
             PROVE  Ended'
  OBVIOUS
<1> USE DEF TypeOK, Control, Fresh, InHand, Ended, connVars, procVars, taskVars
<1>1. CASE PeerSends
  BY <1>1 DEF PeerSends
<1>2. CASE PeerLeaves
  BY <1>2 DEF PeerLeaves
<1>3. CASE Accept
  BY <1>3 DEF Accept
<1>4. CASE Spawn
  BY <1>4 DEF Spawn
<1>5. CASE SpawnFails
  BY <1>5 DEF SpawnFails
<1>6. CASE CheckExit
  BY <1>6 DEF CheckExit
<1>7. CASE Read
  BY <1>7 DEF Read
<1>8. CASE ReadClosed
  BY <1>8 DEF ReadClosed
<1>9. CASE Feed
  BY <1>9 DEF Feed, CanFeed, Fed
<1>10. CASE FeedFails
  BY <1>10 DEF FeedFails
<1>11. CASE Recv
  BY <1>11 DEF Recv
<1>12. CASE RecvNone
  <2>1. /\ hpc = "select" /\ data_rx = <<>> /\ carried = <<>> /\ stdout = <<>>
        /\ proc = "exited" /\ hpc' = "close" /\ cut' = cut \cup {"eof"}
        /\ UNCHANGED <<peerGot, produced, proc, task, carried, stdout>>
    BY <1>12 DEF RecvNone
  <2>2. Len(peerGot) = produced
    BY <2>1 DEF UpWay, Open, Up, Taken, Queued, ReadOff
  <2> QED BY <2>1, <2>2
<1>13. CASE Push
  BY <1>13 DEF Push
<1>14. CASE PushFails
  BY <1>14 DEF PushFails
<1>15. CASE Close
  BY <1>15 DEF Close
<1>16. CASE FeedLast
  BY <1>16 DEF FeedLast, CanFeed, Fed
<1>17. CASE Kill
  BY <1>17 DEF Kill, NoConnection, NoAdapter
<1>18. CASE TaskReads
  BY <1>18 DEF TaskReads
<1>19. CASE TaskSends
  BY <1>19 DEF TaskSends
<1>20. CASE TaskEof
  BY <1>20 DEF TaskEof
<1>21. CASE DeviceProduces
  BY <1>21 DEF DeviceProduces
<1>22. CASE DeviceFails
  BY <1>22 DEF DeviceFails
<1>23. CASE WriteLoop
  BY <1>23 DEF WriteLoop
<1>24. CASE AdapterExits
  BY <1>24 DEF AdapterExits
<1>25. CASE UNCHANGED vars
  BY <1>25 DEF vars
<1>26. CASE Abandon
  BY <1>26 DEF Abandon, NoConnection
<1>27. CASE ReadPanics
  BY <1>27 DEF ReadPanics
<1>28. CASE TaskSendFails
  BY <1>28 DEF TaskSendFails
<1>29. CASE ConnFinishes
  BY <1>29 DEF ConnFinishes
<1> QED BY <1>1, <1>2, <1>3, <1>4, <1>5, <1>6, <1>7, <1>8, <1>9, <1>10, <1>11,
           <1>12, <1>13, <1>14, <1>15, <1>16, <1>17, <1>18, <1>19, <1>20, <1>21,
           <1>22, <1>23, <1>24, <1>25, <1>26, <1>27, <1>28, <1>29
       DEF Next, HostRuns, HostWaits, Task

-----------------------------------------------------------------------------
(***************************************************************************)
(* The invariant and what follows from it.                                 *)
(***************************************************************************)
Inv == Control /\ Ended /\ DownWay /\ UpWay

\* Every variable stays in its set: the pipes and data_rx within their capacities,
\* the reader task with at most one piece (device_actor, Adapter, base.py).
THEOREM TypeCorrect == Spec => []TypeOK
<1>1. Init => TypeOK
  BY BridgeAssumption DEF Init, TypeOK, Piece
<1>2. TypeOK /\ [Next]_vars => TypeOK'
  BY TypeInductive
<1> QED BY <1>1, <1>2, PTL DEF Spec

\* The strengthened invariant of the bridge.
LEMMA Invariant == Spec => [](TypeOK /\ Inv)
<1>1. Init => Inv
  BY DEF Init, Inv, Control, Fresh, InHand, Ended, DownWay, UpWay, Live, Handed,
         Whole, Down, Open, Up, Taken, Queued, ReadOff, Counts
<1>2. TypeOK /\ Inv /\ [Next]_vars => Inv'
  BY ControlInductive, EndedInductive, DownInductive, UpInductive DEF Inv
<1> QED BY <1>1, <1>2, TypeCorrect, PTL DEF Spec

\* The device gets what the peer of its session sent, in order and once, and all
\* of it before the adapter is killed, unless the adapter has exited or close has
\* failed (handle_connection, Adapter::write and _write_loop).
THEOREM DeviceIsReached == Spec => []ReachesDevice
<1>1. TypeOK /\ Inv => ReachesDevice
  <2> SUFFICES ASSUME TypeOK, Inv
               PROVE  ReachesDevice
    OBVIOUS
  <2> DEFINE got == consumed \o stdin
  <2>1. /\ consumed \in Seq(Piece) /\ stdin \in Seq(Piece) /\ peerSent \in Nat
        /\ Counts(consumed, 0) /\ Counts(stdin, 0 + Len(consumed))
        /\ Handed <= peerSent
    BY BridgeAssumption DEF TypeOK, Inv, DownWay
  <2>2. got \in Seq(Piece) /\ Counts(got, 0) /\ Len(got) = Handed
    BY <2>1, CountsCat DEF Handed
  <2>3. hpc = "sleep" /\ proc = "running" /\ "unknown" \notin cut => Handed = peerSent
    <3> SUFFICES ASSUME hpc = "sleep", proc = "running", "unknown" \notin cut
                 PROVE  Handed = peerSent
      OBVIOUS
    <3>1. Down = <<>> /\ inbox = <<>> /\ Whole
      BY DEF Inv, Control, InHand, DownWay, Live, Down
    <3> QED BY <2>1, <3>1 DEF Whole, Handed
  <2> HIDE DEF got
  <2>4. IsPrefix(got, UpTo(peerSent)) /\ (Len(got) = peerSent => got = UpTo(peerSent))
    BY <2>1, <2>2, CountsUpTo
  <2> QED BY <2>2, <2>3, <2>4 DEF ReachesDevice, got
<1> QED BY <1>1, Invariant, PTL

\* The peer gets what the device of its session produced, in order and once; and
\* when recv says that the adapter's output has ended, all of it has been pushed
\* (handle_connection, the reader task of Adapter::spawn).
THEOREM PeerIsReached == Spec => []ReachesPeer
<1>1. TypeOK /\ Inv => ReachesPeer
  <2> SUFFICES ASSUME TypeOK, Inv
               PROVE  ReachesPeer
    OBVIOUS
  <2>1. /\ peerGot \in Seq(Piece) /\ produced \in Nat
        /\ Counts(peerGot, 0) /\ Len(peerGot) <= produced
        /\ "eof" \in cut => Len(peerGot) = produced
    BY BridgeAssumption DEF TypeOK, Inv, UpWay, Ended
  <2>2. /\ IsPrefix(peerGot, UpTo(produced))
        /\ Len(peerGot) = produced => peerGot = UpTo(produced)
    BY <2>1, CountsUpTo
  <2> QED BY <2>1, <2>2 DEF ReachesPeer
<1> QED BY <1>1, Invariant, PTL
=============================================================================
