------------------------------- MODULE Bridge -------------------------------
(***************************************************************************)
(* One configured device on the host: device_actor and handle_connection   *)
(* of crates/ncd/src/runtime.rs, struct Adapter with its reader task of    *)
(* adapter_loader/adapter.rs, and the two threads of an adapter process,   *)
(* run of crates/ncd/adapters/base.py.  Every connection gets an adapter   *)
(* process of its own.                                                     *)
(*                                                                         *)
(* The connection is what Connection makes of it: an inbox of messages and *)
(* a task that ends, in two steps, since its channels are closed before    *)
(* its JoinHandle is finished.  A pipe carries the pieces that one write   *)
(* puts into it; the k-th piece of a session, in either direction, is k.   *)
(***************************************************************************)
EXTENDS Naturals, Sequences, SequencesExt

CONSTANTS
    PipeCap,      \* pieces that fit an operating-system pipe
    DataCap,      \* capacity of data_rx
    MaxPieces,    \* bound: pieces each way in one session
    MaxSessions   \* bound: connections accepted

ASSUME BridgeAssumption ==
    /\ PipeCap \in Nat \ {0} /\ DataCap \in Nat \ {0}
    /\ MaxPieces \in Nat /\ MaxSessions \in Nat

VARIABLES
    hpc,         \* where device_actor is
    sessions,    \* connections accepted so far
    hand,        \* pieces in hand: read and not yet fed, or received and not
                 \* yet pushed
    conn,        \* the connection's task: "none", "up", "ended" (its
                 \* channels are closed) or "gone" (and it is finished)
    inbox,       \* messages read has not returned
    peerSent,    \* messages the peer has sent
    peerGot,     \* what has been written to the connection
    proc,        \* the adapter process: "none", "running" or "exited"
    device,      \* device thread, _read_loop: "reading" or "dead"
    stdin, stdout, data_rx,
    task,        \* the reader task: "none", "reading" or "gone"
    carried,     \* the piece it carries
    produced,    \* pieces the device has produced
    consumed,    \* what the device has got
    cut          \* history: why pieces may be missing at the end of the session

connVars    == <<conn, inbox, peerSent, peerGot>>
procVars    == <<proc, device, produced, consumed>>
taskVars    == <<data_rx, task, carried>>
vars == <<hpc, sessions, hand, connVars, procVars, stdin, stdout, taskVars, cut>>

Piece == 1..MaxPieces

TypeOK ==
    /\ hpc \in {"listen", "spawn", "abandon", "check", "select", "feed", "push",
                "close", "last", "sleep", "panicked"}
    /\ sessions \in 0..MaxSessions
    /\ hand \in Seq(Piece)
    /\ conn \in {"none", "up", "ended", "gone"}
    /\ inbox \in Seq(Piece)
    /\ peerSent \in 0..MaxPieces
    /\ peerGot \in Seq(Piece)
    /\ proc \in {"none", "running", "exited"}
    /\ device \in {"reading", "dead"}
    /\ stdin \in Seq(Piece) /\ Len(stdin) <= PipeCap
    /\ stdout \in Seq(Piece) /\ Len(stdout) <= PipeCap
    /\ data_rx \in Seq(Piece) /\ Len(data_rx) <= DataCap
    /\ task \in {"none", "reading", "gone"}
    /\ carried \in Seq(Piece) /\ Len(carried) <= 1
    /\ produced \in 0..MaxPieces
    /\ consumed \in Seq(Piece)
    /\ cut \in SUBSET {"exit", "unknown", "eof"}

NoConnection == conn' = "none" /\ inbox' = <<>> /\ peerSent' = 0 /\ peerGot' = <<>>

NoAdapter ==
    /\ proc' = "none" /\ device' = "dead" /\ produced' = 0 /\ consumed' = <<>>
    /\ stdin' = <<>> /\ stdout' = <<>>
    /\ data_rx' = <<>> /\ task' = "none" /\ carried' = <<>>

Init ==
    /\ hpc = "listen" /\ sessions = 0 /\ hand = <<>> /\ cut = {}
    /\ conn = "none" /\ inbox = <<>> /\ peerSent = 0 /\ peerGot = <<>>
    /\ proc = "none" /\ device = "dead" /\ produced = 0 /\ consumed = <<>>
    /\ stdin = <<>> /\ stdout = <<>>
    /\ data_rx = <<>> /\ task = "none" /\ carried = <<>>

-----------------------------------------------------------------------------
(***************************************************************************)
(* The peer and the task of its connection.                                *)
(***************************************************************************)
PeerSends ==
    /\ conn = "up"
    /\ peerSent < MaxPieces
    /\ peerSent' = peerSent + 1
    /\ inbox' = Append(inbox, peerSent')
    /\ UNCHANGED <<hpc, sessions, hand, conn, peerGot, procVars, stdin, stdout,
                   taskVars, cut>>

\* The task returns, whoever is the cause: first what it owned is dropped, its
\* ends of the channels included, and then its JoinHandle is finished.
PeerLeaves ==
    /\ conn = "up"
    /\ conn' = "ended"
    /\ UNCHANGED <<hpc, sessions, hand, inbox, peerSent, peerGot, procVars, stdin,
                   stdout, taskVars, cut>>

ConnFinishes ==
    /\ conn = "ended"
    /\ conn' = "gone"
    /\ UNCHANGED <<hpc, sessions, hand, inbox, peerSent, peerGot, procVars, stdin,
                   stdout, taskVars, cut>>

-----------------------------------------------------------------------------
(***************************************************************************)
(* device_actor.                                                           *)
(***************************************************************************)
Accept ==
    /\ hpc = "listen"
    /\ sessions < MaxSessions
    /\ sessions' = sessions + 1
    /\ conn' = "up"
    /\ hpc' = "spawn"
    /\ UNCHANGED <<hand, inbox, peerSent, peerGot, procVars, stdin, stdout,
                   taskVars, cut>>

Spawn ==
    /\ hpc = "spawn"
    /\ proc' = "running"
    /\ device' = "reading"
    /\ task' = "reading"
    /\ hpc' = "check"
    /\ UNCHANGED <<sessions, hand, connVars, produced, consumed, stdin, stdout,
                   data_rx, carried, cut>>

SpawnFails ==
    /\ hpc = "spawn"
    /\ hpc' = "abandon"
    /\ UNCHANGED <<sessions, hand, connVars, procVars, stdin, stdout, taskVars, cut>>

\* close of a connection that has no adapter has returned.
Abandon ==
    /\ hpc = "abandon"
    /\ NoConnection
    /\ hpc' = "listen"
    /\ UNCHANGED <<sessions, hand, procVars, stdin, stdout, taskVars, cut>>

(***************************************************************************)
(* handle_connection.                                                      *)
(***************************************************************************)
CheckExit ==
    /\ hpc = "check"
    /\ IF proc = "exited"
       THEN hpc' = "close" /\ cut' = cut \cup {"exit"}
       ELSE hpc' = "select" /\ UNCHANGED cut
    /\ UNCHANGED <<sessions, hand, connVars, procVars, stdin, stdout, taskVars>>

Read ==
    /\ hpc = "select"
    /\ inbox # <<>>
    /\ hand' = <<Head(inbox)>>
    /\ inbox' = Tail(inbox)
    /\ hpc' = "feed"
    /\ UNCHANGED <<sessions, conn, peerSent, peerGot, procVars, stdin, stdout,
                   taskVars, cut>>

\* read finds the channel closed and the task finished: an error, or a normal end,
\* with no messages.
ReadClosed ==
    /\ hpc = "select"
    /\ inbox = <<>>
    /\ conn = "gone"
    /\ hpc' = "close"
    /\ UNCHANGED <<sessions, hand, connVars, procVars, stdin, stdout, taskVars, cut>>

\* read finds the channel closed and the task not finished yet, which it takes for
\* impossible.  Unwinding drops the handler and the adapter, whose process lives on.
ReadPanics ==
    /\ hpc = "select"
    /\ inbox = <<>>
    /\ conn = "ended"
    /\ hpc' = "panicked"
    /\ data_rx' = <<>>
    /\ UNCHANGED <<sessions, hand, connVars, procVars, stdin, stdout, task, carried,
                   cut>>

\* adapter.write, here and after close.
CanFeed == hand # <<>> /\ proc = "running" /\ Len(stdin) < PipeCap

Fed == stdin' = Append(stdin, Head(hand)) /\ hand' = Tail(hand)

Feed ==
    /\ hpc = "feed"
    /\ CanFeed
    /\ Fed
    /\ hpc' = "check"
    /\ UNCHANGED <<sessions, connVars, procVars, stdout, taskVars, cut>>

FeedFails ==
    /\ hpc \in {"feed", "last"}
    /\ hand # <<>>
    /\ proc = "exited"
    /\ hand' = <<>>
    /\ cut' = cut \cup {"exit"}
    /\ hpc' = IF hpc = "feed" THEN "close" ELSE "sleep"
    /\ UNCHANGED <<sessions, connVars, procVars, stdin, stdout, taskVars>>

\* adapter.recv.
Recv ==
    /\ hpc = "select"
    /\ data_rx # <<>>
    /\ hand' = <<Head(data_rx)>>
    /\ data_rx' = Tail(data_rx)
    /\ hpc' = "push"
    /\ UNCHANGED <<sessions, connVars, procVars, stdin, stdout, task, carried, cut>>

RecvNone ==
    /\ hpc = "select"
    /\ data_rx = <<>>
    /\ task = "gone"
    /\ cut' = cut \cup {"eof"}
    /\ hpc' = "close"
    /\ UNCHANGED <<sessions, hand, connVars, procVars, stdin, stdout, taskVars>>

Push ==
    /\ hpc = "push"
    /\ conn = "up"
    /\ peerGot' = peerGot \o hand
    /\ hand' = <<>>
    /\ hpc' = "check"
    /\ UNCHANGED <<sessions, conn, inbox, peerSent, procVars, stdin, stdout,
                   taskVars, cut>>

PushFails ==
    /\ hpc = "push"
    /\ conn # "up"
    /\ hand' = <<>>
    /\ hpc' = "close"
    /\ UNCHANGED <<sessions, connVars, procVars, stdin, stdout, taskVars, cut>>

\* Mutant: what close returns is not handed on.
CloseDrops ==
    /\ hpc = "close"
    /\ conn' = "gone"
    /\ inbox' = <<>>
    /\ hpc' = "sleep"
    /\ UNCHANGED <<sessions, hand, peerSent, peerGot, procVars, stdin, stdout,
                   taskVars, cut>>

\* close returns what read has not; or it fails, when the channels are closed and
\* the task is not finished yet, and the messages are lost.
Close ==
    /\ hpc = "close"
    /\ conn' = "gone"
    /\ inbox' = <<>>
    /\ \/ /\ hand' = inbox
          /\ hpc' = "last"
          /\ UNCHANGED cut
       \/ /\ conn = "ended"
          /\ cut' = cut \cup {"unknown"}
          /\ hpc' = "sleep"
          /\ UNCHANGED hand
    /\ UNCHANGED <<sessions, peerSent, peerGot, procVars, stdin, stdout, taskVars>>

\* Mutant: the remainder is popped from its end.
FeedLastReversed ==
    /\ hpc = "last"
    /\ \/ /\ CanFeed
          /\ stdin' = Append(stdin, Last(hand))
          /\ hand' = Front(hand)
          /\ UNCHANGED hpc
       \/ hand = <<>> /\ hpc' = "sleep" /\ UNCHANGED <<stdin, hand>>
    /\ UNCHANGED <<sessions, connVars, procVars, stdout, taskVars, cut>>

FeedLast ==
    /\ hpc = "last"
    /\ \/ CanFeed /\ Fed /\ UNCHANGED hpc
       \/ hand = <<>> /\ hpc' = "sleep" /\ UNCHANGED <<stdin, hand>>
    /\ UNCHANGED <<sessions, connVars, procVars, stdout, taskVars, cut>>

\* Mutant: the channel of the reader task outlives the session.
KillKeepsData ==
    /\ hpc = "sleep"
    /\ NoConnection
    /\ proc' = "none" /\ device' = "dead" /\ produced' = 0 /\ consumed' = <<>>
    /\ stdin' = <<>> /\ stdout' = <<>> /\ task' = "none" /\ carried' = <<>>
    /\ cut' = {}
    /\ hpc' = "listen"
    /\ UNCHANGED <<sessions, hand, data_rx>>

\* The end of the sleep: kill, and everything of the session is dropped.
Kill ==
    /\ hpc = "sleep"
    /\ NoConnection
    /\ NoAdapter
    /\ cut' = {}
    /\ hpc' = "listen"
    /\ UNCHANGED <<sessions, hand>>

-----------------------------------------------------------------------------
(***************************************************************************)
(* The reader task of the adapter.                                         *)
(***************************************************************************)
TaskReads ==
    /\ task = "reading"
    /\ carried = <<>>
    /\ stdout # <<>>
    /\ carried' = <<Head(stdout)>>
    /\ stdout' = Tail(stdout)
    /\ UNCHANGED <<hpc, sessions, hand, connVars, procVars, stdin, data_rx, task, cut>>

\* Mutant: the channel has no bound.
TaskSendsUnbounded ==
    /\ carried # <<>>
    /\ data_rx' = data_rx \o carried
    /\ carried' = <<>>
    /\ UNCHANGED <<hpc, sessions, hand, connVars, procVars, stdin, stdout, task, cut>>

TaskSends ==
    /\ carried # <<>>
    /\ hpc # "panicked"
    /\ Len(data_rx) < DataCap
    /\ data_rx' = data_rx \o carried
    /\ carried' = <<>>
    /\ UNCHANGED <<hpc, sessions, hand, connVars, procVars, stdin, stdout, task, cut>>

\* The receiver of data_rx has been dropped.
TaskSendFails ==
    /\ carried # <<>>
    /\ hpc = "panicked"
    /\ carried' = <<>>
    /\ task' = "gone"
    /\ UNCHANGED <<hpc, sessions, hand, connVars, procVars, stdin, stdout, data_rx, cut>>

\* Mutant: the task looks for the exit and not for the end of the pipe.
TaskEofAtExit ==
    /\ task = "reading"
    /\ proc = "exited"
    /\ task' = "gone"
    /\ UNCHANGED <<hpc, sessions, hand, connVars, procVars, stdin, stdout, data_rx,
                   carried, cut>>

TaskEof ==
    /\ task = "reading"
    /\ carried = <<>>
    /\ stdout = <<>>
    /\ proc = "exited"
    /\ task' = "gone"
    /\ UNCHANGED <<hpc, sessions, hand, connVars, procVars, stdin, stdout, data_rx,
                   carried, cut>>

-----------------------------------------------------------------------------
(***************************************************************************)
(* The adapter process.                                                    *)
(***************************************************************************)
DeviceProduces ==
    /\ proc = "running"
    /\ device = "reading"
    /\ produced < MaxPieces
    /\ Len(stdout) < PipeCap
    /\ produced' = produced + 1
    /\ stdout' = Append(stdout, produced')
    /\ UNCHANGED <<hpc, sessions, hand, connVars, proc, device, consumed, stdin,
                   taskVars, cut>>

\* sys.exit in a thread ends that thread, not the process.
DeviceFails ==
    /\ proc = "running"
    /\ device = "reading"
    /\ device' = "dead"
    /\ UNCHANGED <<hpc, sessions, hand, connVars, proc, produced, consumed, stdin,
                   stdout, taskVars, cut>>

\* Mutant: one thread reads and writes, and waits until its output is read.
WriteLoopWaits ==
    /\ proc = "running"
    /\ stdin # <<>>
    /\ stdout = <<>>
    /\ consumed' = Append(consumed, Head(stdin))
    /\ stdin' = Tail(stdin)
    /\ UNCHANGED <<hpc, sessions, hand, connVars, proc, device, produced, stdout,
                   taskVars, cut>>

\* _write_loop.
WriteLoop ==
    /\ proc = "running"
    /\ stdin # <<>>
    /\ consumed' = Append(consumed, Head(stdin))
    /\ stdin' = Tail(stdin)
    /\ UNCHANGED <<hpc, sessions, hand, connVars, proc, device, produced, stdout,
                   taskVars, cut>>

\* The process ends by itself: open or _write_loop fails.
AdapterExits ==
    /\ proc = "running"
    /\ proc' = "exited"
    /\ UNCHANGED <<hpc, sessions, hand, connVars, device, produced, consumed, stdin,
                   stdout, taskVars, cut>>

-----------------------------------------------------------------------------
HostRuns == \/ Spawn \/ SpawnFails \/ CheckExit \/ Read \/ ReadClosed \/ ReadPanics
            \/ Feed \/ FeedFails \/ Recv \/ RecvNone \/ PushFails \/ FeedLast \/ Kill

\* write and close, which wait for the connection's task while there is one.
HostWaits == Push \/ Close \/ Abandon

Task == TaskReads \/ TaskSends \/ TaskSendFails \/ TaskEof

Next == \/ HostRuns \/ HostWaits \/ Task \/ WriteLoop
        \/ Accept \/ PeerSends \/ PeerLeaves \/ ConnFinishes
        \/ DeviceProduces \/ DeviceFails \/ AdapterExits

(***************************************************************************)
(* Fairness: the tasks of the host run, the runtime finishes a task that   *)
(* has returned, and the device takes what it is given: a thread of its    *)
(* own does nothing else.  That write and close return is assumed only     *)
(* once the connection's task has ended.  While it runs it may itself wait *)
(* for the user, or for the peer.                                          *)
(***************************************************************************)
Spec == /\ Init /\ [][Next]_vars
        /\ WF_vars(HostRuns \/ (conn # "up" /\ HostWaits))
        /\ WF_vars(ConnFinishes) /\ WF_vars(Task) /\ WF_vars(WriteLoop)

-----------------------------------------------------------------------------
UpTo(n) == [i \in 1..n |-> i]

\* The device gets what the peer of its session sent, in order, each message
\* once, and from no other session; and before the adapter is killed it has
\* been handed all of it, unless it has exited or close has failed
\* (handle_connection and the remainder that close returns).
ReachesDevice ==
    /\ IsPrefix(consumed \o stdin, UpTo(peerSent))
    /\ hpc = "sleep" /\ proc = "running" /\ "unknown" \notin cut
           => consumed \o stdin = UpTo(peerSent)

\* The peer gets what the device of its session produced, in order and once;
\* and when the bridge ends since the adapter's output has, nothing of that
\* output is missing at the connection (the reader task, recv).
ReachesPeer ==
    /\ IsPrefix(peerGot, UpTo(produced))
    /\ "eof" \in cut => peerGot = UpTo(produced)

\* Once the connection's task has ended, however full the pipes and queues are,
\* the actor listens again; unless it has met the moment between the end of the
\* channels and the end of the task in read, and panicked (connection.rs, read).
ListensAgain == conn \in {"ended", "gone"} ~> hpc \in {"listen", "panicked"}
=============================================================================
