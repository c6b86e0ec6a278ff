-------------------------- MODULE FlowStreamProofs --------------------------
(***************************************************************************)
(* What becomes of every byte of the stream: nothing is lost between the   *)
(* connection and read(2), the driver's memory is bounded, and the path as *)
(* a whole implements a pipe.                                              *)
(***************************************************************************)
EXTENDS MCFlow, FlowControlProofs, SequenceLemmas

(***************************************************************************)
(* The backlog's counter.                                                  *)
(***************************************************************************)

\* A queue of chunks, read as one string.
LEMMA BacklogType ==
    ASSUME TypeOK
    PROVE  /\ FlattenSeq(pending_chunks) \in Bytes
           /\ FlattenSeq(pending) \in Bytes
           /\ FlattenSeq(tcp_rx) \in Bytes
  BY FlattenType DEF TypeOK, DriverTypeOK, DaemonTypeOK, Bytes

PendingInv == TypeOK /\ PendingBytesExact

\* Only the two steps that add a chunk to the backlog and take one off it change
\* the counter, by the length of the chunk.
LEMMA PendingStep == PendingInv /\ [Next]_vars => PendingInv'
<1> SUFFICES ASSUME PendingInv, [Next]_vars PROVE PendingBytesExact'
  BY TypeStep DEF PendingInv
<1> USE DEF PendingInv
<1>0. ASSUME UNCHANGED <<pending_chunks, pending_bytes>>
      PROVE  PendingBytesExact'
  BY <1>0 DEF PendingBytesExact
<1>1. CASE UNCHANGED driverVars
  BY <1>0, <1>1 DEF driverVars
<1>2. CASE DaemonFull \/ DaemonAvailable \/ HandlerPause \/ HandlerWake \/ DaemonSend
  BY <1>0, <1>2 DEF DaemonFull, DaemonAvailable, recv_from_kernel, HandlerPause,
                    DataPause, HandlerWake, DataWake, DaemonSend, RecvData
<1>3. CASE HandlerStore
  <2>1. CASE DataQueued
    <3>1. /\ pending_chunks' = Append(pending_chunks, payload)
          /\ pending_bytes' = pending_bytes + Len(payload)
      BY <2>1 DEF DataQueued
    <3>2. pending_chunks \in Seq(Seq(Byte)) /\ payload \in Seq(Byte)
      BY DEF TypeOK, DriverTypeOK, Bytes
    <3>3. /\ FlattenSeq(pending_chunks') = FlattenSeq(pending_chunks) \o payload
          /\ FlattenSeq(pending_chunks) \in Seq(Byte)
      BY <3>1, <3>2, FlattenAppend, FlattenType
    <3>4. Len(FlattenSeq(pending_chunks) \o payload)
             = Len(FlattenSeq(pending_chunks)) + Len(payload)
      BY <3>2, <3>3
    <3> QED BY <3>1, <3>3, <3>4 DEF PendingBytesExact
  <2>2. CASE DataDropped \/ DataStored
    BY <1>0, <2>2 DEF DataDropped, DataStored
  <2> QED BY <1>3, <2>1, <2>2 DEF HandlerStore
<1>4. CASE \E r \in Readers : Reader(r)
  <2>1. PICK r \in Readers : Reader(r)
    BY <1>4
  <2>2. CASE ReadDrain(r)
    <3>1. /\ pending_chunks # <<>> /\ pending_chunks' = Tail(pending_chunks)
          /\ pending_bytes' = pending_bytes - Len(Head(pending_chunks))
      BY <2>2 DEF ReadDrain, CanDrain
    <3>2. /\ pending_chunks \in Seq(Seq(Byte))
          /\ Head(pending_chunks) \in Seq(Byte) /\ Tail(pending_chunks) \in Seq(Seq(Byte))
      BY <3>1, HeadAndTail DEF TypeOK, DriverTypeOK, Bytes
    <3>3. /\ FlattenSeq(pending_chunks)
                = Head(pending_chunks) \o FlattenSeq(pending_chunks')
          /\ FlattenSeq(pending_chunks') \in Seq(Byte)
      BY <3>1, <3>2, FlattenCons, FlattenType
    <3>4. Len(Head(pending_chunks) \o FlattenSeq(pending_chunks'))
             = Len(Head(pending_chunks)) + Len(FlattenSeq(pending_chunks'))
      BY <3>2, <3>3
    <3> QED BY <3>1, <3>2, <3>3, <3>4 DEF PendingBytesExact
  <2>3. CASE ~ReadDrain(r)
    <3>1. UNCHANGED <<pending_chunks, pending_bytes>>
      BY <2>1, <2>3 DEF Reader, ReaderStep, Call, Signal, Fault, ReadEmpty, ReadCheck,
            ReadOut, ReadUnlock, ReadResume, ReadEnter, ReadInterrupted, ReadNoMem,
            ReadFault
    <3> QED BY <1>0, <3>1
  <2> QED BY <2>2, <2>3
<1>5. CASE \/ DaemonTcp \/ DaemonShard \/ DaemonFlushed \/ DaemonSendErr \/ Actor
           \/ UNCHANGED vars
  BY <1>1, <1>5 DEF DaemonTcp, DaemonShard, DaemonFlushed, DaemonSendErr, Actor,
                    ActorReads, ActorCommands, ActorEnds, vars
<1> QED BY <1>2, <1>3, <1>4, <1>5 DEF Next, Daemon

\* The backlog is empty when the device is opened, and counted as empty.
LEMMA PendingInit == Init => PendingInv
  BY TypeInit, FlattenEmpty DEF Init, DriverInit, PendingInv, PendingBytesExact

\* pending_bytes, which the backlog's limit is checked against, is the size of the
\* backlog through queueing, draining and drops (ncd_queue_pending_locked,
\* ncd_drain_pending_locked in ncd.c); clearing it is no step of FlowControl.
THEOREM PendingBytesAreExact == Spec => []PendingBytesExact
<1>1. PendingInv => PendingBytesExact
  BY DEF PendingInv
<1> QED BY <1>1, PendingInit, PendingStep, PTL DEF Spec

-----------------------------------------------------------------------------
(***************************************************************************)
(* Nothing is lost.  Every step that moves bytes takes them from the end   *)
(* of one place to the beginning of the one before it, or the other way    *)
(* round, which leaves the whole line as it is.                            *)
(***************************************************************************)

\* The first k bytes of the peer's stream.
UpTo(k) == [i \in 1..k |-> i]

\* The places in the driver and behind it, then all of them.
Inside == Cat(Cat(Cat(out, data_fifo), FlattenSeq(pending_chunks)), payload)
Line   == Cat(Cat(Cat(Inside, FlattenSeq(pending)), unsharded), FlattenSeq(tcp_rx))

\* Line is Stream, with concatenations the provers do not look into.
LEMMA LineIsStream == Line = Stream
  BY DEF Line, Inside, Stream, Cat

\* Bytes that move between two neighbours.
LEMMA Shift ==
    ASSUME NEW V, NEW l \in Seq(V), NEW a \in Seq(V), NEW b \in Seq(V),
           NEW x \in Seq(V), NEW y \in Seq(V), Cat(a, b) = Cat(x, y)
    PROVE  Cat(Cat(l, a), b) = Cat(Cat(l, x), y)
  BY CatAssociative

\* The type invariant, as the lemmas about sequences need it.
LEMMA PlacesType ==
    ASSUME TypeOK
    PROVE  /\ out \in Seq(Byte) /\ data_fifo \in Seq(Byte) /\ payload \in Seq(Byte)
           /\ unsharded \in Seq(Byte)
           /\ pending_chunks \in Seq(Seq(Byte)) /\ pending \in Seq(Seq(Byte))
           /\ tcp_rx \in Seq(Seq(Byte))
           /\ FlattenSeq(pending_chunks) \in Seq(Byte)
           /\ FlattenSeq(pending) \in Seq(Byte)
           /\ FlattenSeq(tcp_rx) \in Seq(Byte)
  BY BacklogType DEF TypeOK, DriverTypeOK, DaemonTypeOK, Bytes

\* Every beginning of the line is a string of bytes.
LEMMA InsideType ==
    ASSUME TypeOK
    PROVE  /\ Cat(out, data_fifo) \in Seq(Byte)
           /\ Cat(Cat(out, data_fifo), FlattenSeq(pending_chunks)) \in Seq(Byte)
           /\ Inside \in Seq(Byte)
           /\ Cat(Inside, FlattenSeq(pending)) \in Seq(Byte)
           /\ Cat(Cat(Inside, FlattenSeq(pending)), unsharded) \in Seq(Byte)
           /\ Line \in Seq(Byte)
  BY PlacesType, CatType DEF Inside, Line

inside == <<out, data_fifo, pending_chunks, payload>>
behind == <<pending, unsharded, tcp_rx>>

\* A read takes the first bytes of the kfifo (kfifo_out).
LEMMA OutMoves ==
    ASSUME TypeOK, NEW r \in Readers, NEW count \in ReadSizes,
           ReadOut(r, count)
    PROVE  Inside' = Inside
<1> DEFINE n == Min2(Min2(count, FIFO_SIZE), kfifo_len)
           a == SubSeq(data_fifo, 1, n)
           b == SubSeq(data_fifo, n + 1, Len(data_fifo))
<1>1. n \in Nat /\ n <= Len(data_fifo)
  BY KfifoAssumption, DriverAssumption
     DEF Min2, kfifo_len, TypeOK, DriverTypeOK, Bytes
<1>2. /\ out' = out \o a /\ data_fifo' = b
      /\ UNCHANGED <<pending_chunks, payload>>
  BY DEF ReadOut, kfifo_len
<1> HIDE DEF n
<1>3. a \in Seq(Byte) /\ b \in Seq(Byte) /\ data_fifo = Cat(a, b)
  BY <1>1, PlacesType, CutInTwo
<1> HIDE DEF a, b
<1>4. out' = Cat(out, a)
  BY <1>2 DEF Cat
<1>5. Cat(out', data_fifo') = Cat(out, data_fifo)
  BY <1>2, <1>3, <1>4, PlacesType, CatAssociative
<1> QED BY <1>2, <1>5 DEF Inside

\* A chunk of the backlog goes to the end of the kfifo (ncd_drain_pending_locked).
LEMMA DrainMoves ==
    ASSUME TypeOK, NEW r \in Readers, ReadDrain(r)
    PROVE  Inside' = Inside
<1> DEFINE c == Head(pending_chunks)
           t == FlattenSeq(Tail(pending_chunks))
<1>1. /\ pending_chunks # <<>> /\ pending_chunks' = Tail(pending_chunks)
      /\ data_fifo' = Cat(data_fifo, c)
      /\ UNCHANGED <<out, payload>>
  BY DEF ReadDrain, CanDrain, Cat
<1>2. c \in Seq(Byte) /\ FlattenSeq(pending_chunks) = Cat(c, t)
  BY <1>1, PlacesType, HeadAndTail, FlattenCons DEF Cat
<1>3. t \in Seq(Byte)
  BY <1>1, PlacesType, HeadAndTail, FlattenType
<1> HIDE DEF c, t
<1>4. data_fifo' \in Seq(Byte) /\ Cat(c, t) \in Seq(Byte)
  BY <1>1, <1>2, <1>3, PlacesType, CatType
<1>5. Cat(Cat(out, data_fifo'), t) = Cat(Cat(out, data_fifo), Cat(c, t))
  <2>1. Cat(data_fifo', t) = Cat(data_fifo, Cat(c, t))
    BY <1>1, <1>2, <1>3, PlacesType, CatAssociative
  <2> QED BY <1>3, <1>4, <2>1, PlacesType, Shift
<1> QED BY <1>1, <1>2, <1>5 DEF Inside, t

\* The DATA case puts the chunk into the kfifo or into the backlog.
LEMMA StoreMoves ==
    ASSUME TypeOK, DataStored \/ DataQueued
    PROVE  Inside' = Inside
<1> DEFINE B == FlattenSeq(pending_chunks)
<1>1. CASE DataStored
  <2>1. /\ pending_chunks = <<>> /\ pending_chunks' = <<>>
        /\ data_fifo' = Cat(data_fifo, payload) /\ payload' = <<>>
        /\ out' = out
    BY <1>1 DEF DataStored, MustQueue, Cat
  <2>2. FlattenSeq(pending_chunks) = <<>> /\ FlattenSeq(pending_chunks') = <<>>
    BY <2>1, FlattenEmpty
  <2> DEFINE l == Cat(out, data_fifo)
             m == Cat(out, data_fifo')
  <2>3. l \in Seq(Byte) /\ data_fifo' \in Seq(Byte) /\ m \in Seq(Byte)
    BY <2>1, PlacesType, CatType
  <2>4. Inside = Cat(Cat(l, <<>>), payload)
    BY <2>2 DEF Inside
  <2>5. Inside' = Cat(Cat(m, <<>>), <<>>)
    BY <2>1, <2>2 DEF Inside
  <2>6. m = Cat(l, payload)
    BY <2>1, PlacesType, CatAssociative
  <2> HIDE DEF l, m
  <2>7. Cat(l, <<>>) = l /\ Cat(m, <<>>) = m
    BY <2>3, CatEmpty
  <2> QED BY <2>4, <2>5, <2>6, <2>7
<1>2. CASE DataQueued
  <2>1. /\ pending_chunks' = Append(pending_chunks, payload)
        /\ payload' = <<>> /\ UNCHANGED <<out, data_fifo>>
    BY <1>2 DEF DataQueued
  <2>2. FlattenSeq(pending_chunks') = Cat(B, payload)
    BY <2>1, PlacesType, FlattenAppend DEF Cat
  <2> DEFINE l == Cat(out, data_fifo)
             m == Cat(l, Cat(B, payload))
  <2>3. l \in Seq(Byte) /\ B \in Seq(Byte) /\ m \in Seq(Byte)
    BY PlacesType, CatType
  <2>4. Inside' = Cat(m, <<>>)
    BY <2>1, <2>2 DEF Inside
  <2>5. Inside = m
    BY <2>3, PlacesType, CatAssociative DEF Inside
  <2> HIDE DEF l, m
  <2> QED BY <2>3, <2>4, <2>5, CatEmpty
<1> QED BY <1>1, <1>2

\* The main loop hands a chunk to the driver (flush_device).
LEMMA SendMoves ==
    ASSUME TypeOK, DaemonSend, daemon_pid # 0
    PROVE  Line' = Line
<1> DEFINE c == Head(pending)
           t == FlattenSeq(Tail(pending))
<1>1. /\ pending # <<>> /\ pending' = Tail(pending)
      /\ payload = <<>> /\ payload' = c
      /\ UNCHANGED <<out, data_fifo, pending_chunks, unsharded, tcp_rx>>
  BY DEF DaemonSend, FlushChunk, CanFlush, RecvData, HandlerIdle
<1>2. c \in Seq(Byte) /\ FlattenSeq(pending) = Cat(c, t)
  BY <1>1, PlacesType, HeadAndTail, FlattenCons DEF Cat
<1>3. t \in Seq(Byte)
  BY <1>1, PlacesType, HeadAndTail, FlattenType
<1> HIDE DEF c, t
<1>4. Inside = Cat(Cat(out, data_fifo), FlattenSeq(pending_chunks))
  BY <1>1, InsideType, CatEmpty DEF Inside
<1>5. Cat(Inside', t) = Cat(Inside, FlattenSeq(pending))
  <2>1. Inside' = Cat(Inside, c)
    BY <1>1, <1>4 DEF Inside
  <2> QED BY <1>2, <1>3, <2>1, InsideType, CatAssociative
<1> QED BY <1>1, <1>5 DEF Line, t

\* A message is cut up (queue_shards).
LEMMA ShardMoves ==
    ASSUME TypeOK, DaemonShard
    PROVE  Line' = Line
<1> DEFINE a == SubSeq(unsharded, 1, ShardLen)
           b == SubSeq(unsharded, ShardLen + 1, Len(unsharded))
<1>1. ShardLen \in Nat /\ ShardLen <= Len(unsharded)
  BY PlacesType, KfifoAssumption DEF ShardLen, SHARD_SIZE
<1>2. /\ pending' = Append(pending, a) /\ unsharded' = b
      /\ UNCHANGED <<out, data_fifo, pending_chunks, payload, tcp_rx>>
  BY DEF DaemonShard, queue_shards, driverVars
<1>3. a \in Seq(Byte) /\ b \in Seq(Byte) /\ unsharded = Cat(a, b)
  BY <1>1, PlacesType, CutInTwo
<1> HIDE DEF a, b
<1>4. FlattenSeq(pending') = Cat(FlattenSeq(pending), a)
  BY <1>2, <1>3, PlacesType, FlattenAppend DEF Cat
<1>5. Cat(FlattenSeq(pending'), unsharded') = Cat(FlattenSeq(pending), unsharded)
  BY <1>2, <1>3, <1>4, PlacesType, CatAssociative
<1>6. Cat(Cat(Inside, FlattenSeq(pending')), unsharded')
        = Cat(Cat(Inside, FlattenSeq(pending)), unsharded)
  <2>1. FlattenSeq(pending') \in Seq(Byte) /\ unsharded' \in Seq(Byte)
    BY <1>2, <1>3, <1>4, PlacesType, CatType
  <2>2. /\ FlattenSeq(pending) \in Seq(Byte) /\ unsharded \in Seq(Byte)
        /\ Inside \in Seq(Byte)
    BY PlacesType, InsideType
  <2> QED BY <1>5, <2>1, <2>2, Shift
<1>7. Inside' = Inside
  BY <1>2 DEF Inside
<1> QED BY <1>2, <1>6, <1>7 DEF Line

\* The main loop takes a message from the actor's queue (the tcp_rx branch).
LEMMA TcpMoves ==
    ASSUME TypeOK, DaemonTcp, unsharded = <<>>
    PROVE  Line' = Line
<1> DEFINE c == Head(tcp_rx)
           t == FlattenSeq(Tail(tcp_rx))
           l == Cat(Inside, FlattenSeq(pending))
<1>1. /\ tcp_rx # <<>> /\ tcp_rx' = Tail(tcp_rx) /\ unsharded' = c
      /\ UNCHANGED <<out, data_fifo, pending_chunks, payload, pending>>
  BY DEF DaemonTcp, OnTcpData, driverVars
<1>2. c \in Seq(Byte) /\ FlattenSeq(tcp_rx) = Cat(c, t)
  BY <1>1, PlacesType, HeadAndTail, FlattenCons DEF Cat
<1>3. t \in Seq(Byte) /\ l \in Seq(Byte)
  BY <1>1, PlacesType, InsideType, HeadAndTail, FlattenType
<1> HIDE DEF c, t
<1>4. Line = Cat(l, Cat(c, t))
  BY <1>2, <1>3, CatEmpty DEF Line
<1>5. l' = l
  BY <1>1 DEF Inside
<1>6. Line' = Cat(Cat(l, c), t)
  BY <1>1, <1>5 DEF Line, t
<1> HIDE DEF l
<1> QED BY <1>2, <1>3, <1>4, <1>6, CatAssociative

\* The bytes the actor reads come next in the stream.
LEMMA NextBytesAre ==
    ASSUME NEW n \in Nat, sent \in Nat
    PROVE  /\ Cat(UpTo(sent), NextBytes(n)) = UpTo(sent + n)
           /\ NextBytes(n) \in Seq(Byte)
<1>1. /\ UpTo(sent) \in Seq(Byte) /\ Len(UpTo(sent)) = sent
      /\ UpTo(sent + n) \in Seq(Byte) /\ Len(UpTo(sent + n)) = sent + n
      /\ NextBytes(n) \in Seq(Byte) /\ Len(NextBytes(n)) = n
  BY DEF UpTo, NextBytes, Byte
<1> DEFINE s == UpTo(sent + n)
           a == UpTo(sent)
           b == NextBytes(n)
<1>2. \A i \in 1..Len(a) : s[i] = a[i]
  BY <1>1 DEF UpTo
<1>3. \A i \in 1..Len(b) : s[Len(a) + i] = b[i]
  BY <1>1 DEF UpTo, NextBytes
<1>4. Len(s) = Len(a) + Len(b) /\ s \in Seq(Byte) /\ a \in Seq(Byte) /\ b \in Seq(Byte)
  BY <1>1
<1> HIDE DEF s, a, b
<1>5. s = Cat(a, b)
  BY <1>2, <1>3, <1>4, CatIs
<1> QED BY <1>4, <1>5 DEF s, a, b

\* The actor puts what it has read at the end of its queue.
LEMMA ReadMoves ==
    ASSUME TypeOK, ActorReads, Line = UpTo(sent)
    PROVE  Line' = UpTo(sent')
<1>1. PICK n \in MsgSizes : ActorRead(n)
  BY DEF ActorReads
<1> DEFINE c == NextBytes(n)
           l == Cat(Cat(Inside, FlattenSeq(pending)), unsharded)
<1>2. n \in Nat /\ sent \in Nat /\ sent' = sent + n
  BY <1>1, DaemonAssumption DEF ActorRead, TypeOK, DaemonTypeOK
<1>3. c \in Seq(Byte) /\ Cat(UpTo(sent), c) = UpTo(sent')
  BY <1>2, NextBytesAre
<1>4. /\ tcp_rx' = Append(tcp_rx, c)
      /\ UNCHANGED <<out, data_fifo, pending_chunks, payload, pending, unsharded>>
  BY <1>1 DEF ActorReads, ActorRead, driverVars
<1> HIDE DEF c
<1>5. FlattenSeq(tcp_rx') = Cat(FlattenSeq(tcp_rx), c)
  BY <1>3, <1>4, PlacesType, FlattenAppend DEF Cat
<1>6. Line' = Cat(l, Cat(FlattenSeq(tcp_rx), c))
  BY <1>4, <1>5 DEF Line, Inside
<1>7. l \in Seq(Byte) /\ Line = Cat(l, FlattenSeq(tcp_rx))
  BY InsideType DEF Line
<1> HIDE DEF l
<1>8. Line' = Cat(Line, c)
  BY <1>3, <1>6, <1>7, PlacesType, CatAssociative
<1> QED BY <1>3, <1>8

-----------------------------------------------------------------------------
\* A step that neither takes a message or chunk further inside the daemon nor
\* hands one to the driver.
Aside == ~(DaemonSend \/ DaemonShard \/ DaemonTcp \/ ActorReads)

\* Such a step moves bytes within the driver only.
LEMMA AsideStep ==
    ASSUME TypeOK, [Next]_vars, Aside
    PROVE  /\ UNCHANGED <<behind, sent>>
           /\ ~dropped' => Inside' = Inside
<1> USE DEF behind
<1>0. ASSUME UNCHANGED inside PROVE Inside' = Inside
  BY <1>0 DEF inside, Inside
<1>1. CASE DaemonFull \/ DaemonAvailable \/ DaemonFlushed \/ DaemonSendErr
  <2>1. UNCHANGED <<behind, sent, inside>>
    BY <1>1 DEF DaemonFull, OnKfifoFull, DaemonAvailable, OnKfifoAvailable,
          recv_from_kernel, DaemonFlushed, FlushDone, DaemonSendErr, FlushFails,
          FlushReturn, driverVars, inside
  <2> QED BY <1>0, <2>1
<1>2. CASE HandlerWake \/ HandlerPause
  <2>1. UNCHANGED <<behind, sent, inside>>
    BY <1>2 DEF HandlerWake, DataWake, HandlerPause, DataPause, daemonVars, inside
  <2> QED BY <1>0, <2>1
<1>3. CASE ActorCommands \/ ActorEnds
  <2>1. UNCHANGED <<behind, sent, inside>>
    BY <1>3 DEF ActorCommands, ActorCommand, ActorEnds, ActorReadFails,
          ActorWriteFails, ActorExit, driverVars, inside
  <2> QED BY <1>0, <2>1
<1>4. CASE HandlerStore
  <2>1. UNCHANGED <<behind, sent>>
    BY <1>4 DEF HandlerStore, daemonVars
  <2>2. CASE DataDropped
    BY <2>1, <2>2 DEF DataDropped
  <2>3. CASE DataQueued \/ DataStored
    BY <2>1, <2>3, StoreMoves
  <2> QED BY <1>4, <2>2, <2>3 DEF HandlerStore
<1>5. ASSUME NEW r \in Readers, Reader(r)
      PROVE  UNCHANGED <<behind, sent>> /\ Inside' = Inside
  <2>1. UNCHANGED <<behind, sent>>
    BY <1>5 DEF Reader, ReaderStep, Call, Signal, Fault, daemonVars
  <2>2. CASE \E count \in ReadSizes : ReadOut(r, count)
    BY <2>1, <2>2, OutMoves
  <2>3. CASE ReadDrain(r)
    BY <2>1, <2>3, DrainMoves
  <2>4. CASE \/ ReadEmpty(r) \/ ReadCheck(r) \/ ReadUnlock(r) \/ ReadResume(r)
             \/ ReadEnter(r) \/ ReadInterrupted(r) \/ ReadNoMem(r) \/ ReadFault(r)
    <3>1. UNCHANGED inside
      BY <2>4 DEF ReadEmpty, ReadCheck, ReadUnlock, ReadResume, ReadEnter,
            ReadInterrupted, ReadNoMem, ReadFault, inside
    <3> QED BY <1>0, <2>1, <3>1
  <2> QED BY <1>5, <2>2, <2>3, <2>4 DEF Reader, ReaderStep, Call, Signal, Fault
<1>6. CASE UNCHANGED vars
  BY <1>0, <1>6 DEF vars, driverVars, daemonVars, inside
<1> QED BY <1>1, <1>2, <1>3, <1>4, <1>5, <1>6 DEF Next, Daemon, Actor, Aside

\* A loss is for ever: the driver neither takes back that it dropped a chunk nor
\* learns of a daemon it forgot (without a REGISTER, which ends the session).
LEMMA LossStays ==
    ASSUME TypeOK, [Next]_vars
    PROVE  /\ dropped => dropped'
           /\ daemon_pid = 0 => daemon_pid' = 0
<1>1. CASE UNCHANGED <<dropped, daemon_pid>>
  BY <1>1
<1>2. CASE HandlerStore
  BY <1>2 DEF HandlerStore, DataQueued, DataDropped, DataStored
<1>3. CASE HandlerPause
  BY <1>3 DEF HandlerPause, DataPause, send_to_daemon
<1>4. ASSUME NEW r \in Readers, Reader(r)
      PROVE  dropped' = dropped /\ (daemon_pid = 0 => daemon_pid' = 0)
  BY <1>4 DEF Reader, ReaderStep, Call, Signal, Fault, ReadEmpty, ReadCheck, ReadOut,
        ReadDrain, ReadUnlock, ReadResume, ReadEnter, ReadInterrupted, ReadNoMem,
        ReadFault, send_to_daemon
<1>5. CASE DaemonSend \/ HandlerWake \/ DaemonFull \/ DaemonAvailable
  BY <1>1, <1>5 DEF DaemonSend, RecvData, HandlerWake, DataWake, DaemonFull,
        DaemonAvailable, recv_from_kernel
<1>6. CASE \/ DaemonTcp \/ DaemonShard \/ DaemonFlushed \/ DaemonSendErr \/ Actor
           \/ UNCHANGED vars
  BY <1>1, <1>6 DEF DaemonTcp, DaemonShard, DaemonFlushed, DaemonSendErr, Actor,
        ActorReads, ActorCommands, ActorEnds, vars, driverVars
<1> QED BY <1>2, <1>3, <1>4, <1>5, <1>6 DEF Next, Daemon

\* Outside queue_shards no message is half cut up.
CutUp == dpc # "shard" => unsharded = <<>>

\* queue_shards ends when the last shard is queued.
LEMMA CutUpStep ==
    ASSUME TypeOK, CutUp, [Next]_vars
    PROVE  CutUp'
<1>1. CASE UNCHANGED <<dpc, unsharded>>
  BY <1>1 DEF CutUp
<1>2. CASE DaemonTcp
  BY <1>2 DEF DaemonTcp, OnTcpData, CutUp
<1>3. CASE DaemonShard
  <2>1. CASE Len(unsharded) <= SHARD_SIZE
    <3>1. ShardLen = Len(unsharded) /\ unsharded \in Seq(Byte)
      BY <2>1, PlacesType DEF ShardLen
    <3>2. unsharded' = SubSeq(unsharded, Len(unsharded) + 1, Len(unsharded))
      BY <1>3, <3>1 DEF DaemonShard, queue_shards
    <3>3. unsharded' = <<>>
      BY <3>1, <3>2
    <3> QED BY <3>3 DEF CutUp
  <2>2. CASE ~(Len(unsharded) <= SHARD_SIZE)
    BY <1>3, <2>2 DEF DaemonShard, queue_shards, CutUp
  <2> QED BY <2>1, <2>2
<1>4. CASE DaemonAvailable \/ DaemonFlushed \/ DaemonSendErr
  BY <1>4 DEF DaemonAvailable, OnKfifoAvailable, DaemonFlushed, FlushDone,
        DaemonSendErr, FlushFails, FlushReturn, CutUp
<1>5. CASE DaemonFull \/ DaemonSend \/ HandlerStore \/ HandlerWake \/ HandlerPause
  BY <1>1, <1>5 DEF DaemonFull, OnKfifoFull, DaemonSend, FlushChunk, HandlerStore,
        HandlerWake, HandlerPause, daemonVars
<1>6. CASE Actor
  BY <1>1, <1>6 DEF Actor, ActorReads, ActorRead, ActorCommands, ActorCommand,
        ActorEnds, ActorReadFails, ActorWriteFails, ActorExit
<1>7. CASE (\E r \in Readers : Reader(r)) \/ UNCHANGED vars
  BY <1>1, <1>7 DEF Reader, ReaderStep, Call, Signal, Fault, vars, daemonVars
<1> QED BY <1>2, <1>3, <1>4, <1>5, <1>6, <1>7 DEF Next, Daemon

StreamInv == TypeOK /\ CutUp /\ NothingLost

\* The line gets a byte at its near end only from the connection, and none leaves
\* it: every other step moves bytes between neighbouring places.
LEMMA StreamStep == StreamInv /\ [Next]_vars => StreamInv'
<1> SUFFICES ASSUME StreamInv, [Next]_vars, ~dropped', daemon_pid' # 0
             PROVE  Line' = UpTo(sent')
  <2>1. Line' = Stream'
    BY DEF Line, Inside, Stream, Cat
  <2> QED BY <2>1, TypeStep, CutUpStep DEF StreamInv, NothingLost, UpTo
<1>1. ~dropped /\ daemon_pid # 0
  BY LossStays DEF StreamInv
<1>2. Line = UpTo(sent)
  BY <1>1, LineIsStream DEF StreamInv, NothingLost, UpTo
<1>3. CASE DaemonSend
  BY <1>1, <1>2, <1>3, SendMoves DEF StreamInv, DaemonSend, FlushChunk
<1>4. CASE DaemonShard
  BY <1>2, <1>4, ShardMoves DEF StreamInv, DaemonShard, queue_shards
<1>5. CASE DaemonTcp
  BY <1>2, <1>5, TcpMoves DEF StreamInv, DaemonTcp, OnTcpData, CutUp
<1>6. CASE ActorReads
  BY <1>2, <1>6, ReadMoves DEF StreamInv
<1>7. CASE Aside
  <2>1. UNCHANGED <<behind, sent>> /\ Inside' = Inside
    BY <1>7, AsideStep DEF StreamInv
  <2> QED BY <1>2, <2>1 DEF Line, behind
<1> QED BY <1>3, <1>4, <1>5, <1>6, <1>7 DEF Aside

\* Nothing has been sent, and every place is empty.
LEMMA StreamInit == Init => StreamInv
<1> SUFFICES ASSUME Init PROVE Line = UpTo(sent)
  BY TypeInit, LineIsStream DEF Init, DaemonInit, StreamInv, CutUp, NothingLost, UpTo
<1>1. /\ out = <<>> /\ data_fifo = <<>> /\ pending_chunks = <<>> /\ payload = <<>>
      /\ pending = <<>> /\ unsharded = <<>> /\ tcp_rx = <<>> /\ sent = 0
  BY DEF Init, DriverInit, DaemonInit
<1>2. <<>> \in Seq(Byte)
  OBVIOUS
<1>3. Line = <<>>
  BY <1>1, <1>2, FlattenEmpty, CatEmpty DEF Line, Inside
<1>4. UpTo(0) = <<>>
  BY DEF UpTo
<1> QED BY <1>1, <1>3, <1>4

\* Until the driver drops a chunk or forgets the daemon, every byte the actor has
\* read is in exactly one place on its way, and in order (connection_run in
\* device.rs, queue_shards and flush_device in start.rs, the DATA case,
\* ncd_drain_pending_locked and ncd_read in ncd.c).
THEOREM NothingIsLost == Spec => []NothingLost
<1>1. StreamInv => NothingLost
  BY DEF StreamInv
<1> QED BY <1>1, StreamInit, StreamStep, PTL DEF Spec

-----------------------------------------------------------------------------
(***************************************************************************)
(* What has come out is the beginning of what went in, even after the      *)
(* driver has forgotten the daemon: from then on nothing more gets in.     *)
(***************************************************************************)

Begins(s) == \E k \in 0..sent : s = UpTo(k)

PipeInv == StreamInv /\ (~dropped => Begins(Inside))

\* A prefix of the first bytes of the stream.
LEMMA BeginningOf ==
    ASSUME NEW n \in Nat, NEW a \in Seq(Byte), NEW b \in Seq(Byte),
           Cat(a, b) = UpTo(n)
    PROVE  Len(a) <= n /\ a = UpTo(Len(a))
<1>1. /\ Len(a) \in Nat /\ Len(b) \in Nat
      /\ Len(Cat(a, b)) = Len(a) + Len(b)
      /\ \A i \in 1..Len(a) : Cat(a, b)[i] = a[i]
  BY DEF Cat
<1>2. Len(UpTo(n)) = n /\ \A i \in 1..n : UpTo(n)[i] = i
  BY DEF UpTo
<1>3. Len(a) <= n /\ \A i \in 1..Len(a) : a[i] = i
  BY <1>1, <1>2
<1>4. /\ UpTo(Len(a)) \in Seq(Byte) /\ Len(UpTo(Len(a))) = Len(a)
      /\ \A i \in 1..Len(a) : UpTo(Len(a))[i] = i
  BY <1>1 DEF UpTo, Byte
<1>5. a = UpTo(Len(a))
  BY <1>3, <1>4, SeqEqual
<1> QED BY <1>3, <1>5

\* As long as nothing is lost, the driver holds the next bytes to come out.
LEMMA InsideBegins == TypeOK /\ Line = UpTo(sent) => Begins(Inside)
<1> SUFFICES ASSUME TypeOK, Line = UpTo(sent) PROVE Begins(Inside)
  OBVIOUS
<1> DEFINE q == FlattenSeq(pending)
           t == FlattenSeq(tcp_rx)
           b == Cat(Cat(q, unsharded), t)
<1>1. /\ Inside \in Seq(Byte) /\ q \in Seq(Byte) /\ unsharded \in Seq(Byte)
      /\ t \in Seq(Byte) /\ Line = Cat(Cat(Cat(Inside, q), unsharded), t)
      /\ sent \in Nat
  BY PlacesType, InsideType, DaemonAssumption DEF Line, TypeOK, DaemonTypeOK
<1> HIDE DEF q, t
<1>2. Cat(q, unsharded) \in Seq(Byte)
  BY <1>1, CatType
<1>3. b \in Seq(Byte)
  BY <1>1, <1>2, CatType
<1>4. Line = Cat(Inside, b)
  <2>1. Cat(Cat(Inside, q), unsharded) = Cat(Inside, Cat(q, unsharded))
    BY <1>1, CatAssociative
  <2> QED BY <1>1, <1>2, <2>1, CatAssociative
<1> HIDE DEF b
<1>5. Len(Inside) <= sent /\ Inside = UpTo(Len(Inside))
  BY <1>1, <1>3, <1>4, BeginningOf
<1>6. Len(Inside) \in 0..sent
  BY <1>1, <1>5
<1> QED BY <1>5, <1>6 DEF Begins

\* What the driver has taken in stays a beginning of the stream: the line gives it the
\* next bytes, and once it has forgotten the daemon nothing more gets in.
LEMMA PipeStep == PipeInv /\ [Next]_vars => PipeInv'
<1> SUFFICES ASSUME PipeInv, [Next]_vars, ~dropped' PROVE Begins(Inside)'
  BY StreamStep DEF PipeInv
<1>0. StreamInv' /\ TypeOK' /\ TypeOK
  BY StreamStep DEF PipeInv, StreamInv
<1>1. Begins(Inside)
  BY LossStays DEF PipeInv, StreamInv
<1>2. sent \in Nat /\ sent' \in Nat /\ sent <= sent'
  <2>1. sent \in Nat /\ sent' \in Nat
    BY <1>0, DaemonAssumption DEF TypeOK, DaemonTypeOK
  <2>2. CASE Aside
    BY <1>0, <2>1, <2>2, AsideStep
  <2>3. CASE DaemonSend \/ DaemonShard \/ DaemonTcp
    BY <2>1, <2>3 DEF DaemonSend, FlushChunk, DaemonShard, queue_shards, DaemonTcp,
          OnTcpData
  <2>4. CASE ActorReads
    BY <2>1, <2>4, DaemonAssumption DEF ActorReads, ActorRead
  <2> QED BY <2>2, <2>3, <2>4 DEF Aside
<1>3. CASE Inside' = Inside
  BY <1>1, <1>2, <1>3 DEF Begins
<1>4. CASE DaemonSend
  <2>1. CASE daemon_pid # 0
    <3>1. daemon_pid' # 0
      BY <1>4, <2>1 DEF DaemonSend, RecvData
    <3>2. Stream' = UpTo(sent')
      BY <1>0, <3>1 DEF StreamInv, NothingLost, UpTo
    <3>3. Line' = UpTo(sent')
      BY <3>2 DEF Line, Inside, Stream, Cat
    <3>4. (TypeOK /\ Line = UpTo(sent) => Begins(Inside))'
      BY InsideBegins, PTL
    <3> QED BY <1>0, <3>3, <3>4
  <2>2. CASE daemon_pid = 0
    <3>1. UNCHANGED inside
      BY <1>4, <2>2 DEF DaemonSend, RecvData, HandlerIdle, inside
    <3> QED BY <1>3, <3>1 DEF inside, Inside
  <2> QED BY <2>1, <2>2
<1>5. CASE DaemonShard \/ DaemonTcp \/ ActorReads
  BY <1>3, <1>5 DEF DaemonShard, DaemonTcp, ActorReads, driverVars, Inside
<1>6. CASE Aside
  BY <1>0, <1>3, <1>6, AsideStep
<1> QED BY <1>4, <1>5, <1>6 DEF Aside

\* The empty line starts the stream.
LEMMA PipeInit == Init => PipeInv
<1> SUFFICES ASSUME Init PROVE Begins(Inside)
  BY StreamInit DEF PipeInv
<1>1. Line = UpTo(sent)
  BY StreamInit, LineIsStream DEF StreamInv, NothingLost, UpTo, Init, DriverInit,
     DaemonPid
<1> QED BY <1>1, TypeInit, InsideBegins

\* What read(2) has returned is the beginning of the stream.
LEMMA OutBegins ==
    ASSUME PipeInv, ~dropped
    PROVE  Len(out) <= sent /\ out = UpTo(Len(out)) /\ Len(out) \in Nat
<1> DEFINE f == data_fifo
           q == FlattenSeq(pending_chunks)
           b == Cat(Cat(f, q), payload)
<1>1. /\ out \in Seq(Byte) /\ f \in Seq(Byte) /\ q \in Seq(Byte)
      /\ payload \in Seq(Byte) /\ Inside = Cat(Cat(Cat(out, f), q), payload)
      /\ sent \in Nat
  BY PlacesType, DaemonAssumption DEF PipeInv, StreamInv, Inside, TypeOK, DaemonTypeOK
<1>2. PICK k \in 0..sent : Inside = UpTo(k)
  BY DEF PipeInv, Begins
<1> HIDE DEF f, q
<1>3. Cat(f, q) \in Seq(Byte)
  BY <1>1, CatType
<1>4. b \in Seq(Byte)
  BY <1>1, <1>3, CatType
<1>5. Inside = Cat(out, b)
  <2>1. Cat(Cat(out, f), q) = Cat(out, Cat(f, q))
    BY <1>1, CatAssociative
  <2> QED BY <1>1, <1>3, <2>1, CatAssociative
<1> HIDE DEF b
<1>6. Len(out) <= k /\ out = UpTo(Len(out))
  <2>1. k \in Nat
    BY <1>1
  <2> QED BY <1>1, <1>2, <1>4, <1>5, <2>1, BeginningOf
<1> QED BY <1>1, <1>2, <1>6

-----------------------------------------------------------------------------
(***************************************************************************)
(* The memory bound: credits.  What the driver holds or is about to hold,  *)
(* what is left of the daemon's window, and one window for each            *)
(* KFIFO_AVAILABLE that is queued or owed never exceed KernelBound.        *)
(***************************************************************************)

\* The KFIFO_AVAILABLE messages of a queue, by their positions.
Available(q) == {i \in 1..Len(q) : q[i] = KFIFO_AVAILABLE}

\* The threads that have decided to send one (ncd_read after its unlock).
Owing == {r \in Readers : rpc[r] = "resume"}

Windows == Cardinality(Available(nlq)) + Cardinality(Owing)

\* What the driver holds or is about to hold.
Held == KernelBytes + Len(payload)

Credit == Held + (Window - inflight) + Window * Windows <= KernelBound

\* The size of what is under way: chunks are shards, and the one in the DATA case
\* counts against the window until the handler returns.
Sizes ==
    /\ inflight <= Window
    /\ Len(payload) <= inflight
    /\ Len(payload) <= SHARD_SIZE
    /\ payload # <<>> => dpc = "flush"
    /\ \A i \in 1..Len(pending) : Len(pending[i]) <= SHARD_SIZE
    /\ Len(nlq) <= RcvBuf

\* With a backlog limit that covers the bound no chunk is dropped.
NeverDropped == KernelBound <= FIFO_PENDING_LIMIT /\ ~AllocMayFail => ~dropped

\* There are no more of them than messages.
LEMMA AvailableCount ==
    ASSUME NEW q \in Seq(FlowMsg)
    PROVE  /\ IsFiniteSet(Available(q))
           /\ Cardinality(Available(q)) \in Nat
           /\ Cardinality(Available(q)) <= Len(q)
<1>1. Len(q) \in Nat /\ Available(q) \subseteq 1..Len(q)
  BY DEF Available
<1>2. IsFiniteSet(1..Len(q)) /\ Cardinality(1..Len(q)) = Len(q)
  <2>1. /\ IsFiniteSet(1..Len(q))
        /\ Cardinality(1..Len(q)) = IF 1 > Len(q) THEN 0 ELSE Len(q) - 1 + 1
    BY <1>1, FS_Interval
  <2> QED BY <1>1, <2>1
<1>3. /\ IsFiniteSet(Available(q))
      /\ Cardinality(Available(q)) <= Cardinality(1..Len(q))
  BY <1>1, <1>2, FS_Subset
<1> QED BY <1>2, <1>3, FS_CardinalityType

\* A message put into the queue counts if it is a KFIFO_AVAILABLE.
LEMMA AvailableAppend ==
    ASSUME NEW q \in Seq(FlowMsg), NEW m \in FlowMsg
    PROVE  Cardinality(Available(Append(q, m)))
              <= Cardinality(Available(q)) + (IF m = KFIFO_AVAILABLE THEN 1 ELSE 0)
<1> DEFINE p == Append(q, m)
<1>1. /\ Len(q) \in Nat /\ Len(p) = Len(q) + 1
      /\ \A i \in 1..Len(q) : p[i] = q[i]
      /\ p[Len(q) + 1] = m
  OBVIOUS
<1> HIDE DEF p
<1>2. CASE m = KFIFO_AVAILABLE
  <2>1. Available(p) = Available(q) \cup {Len(q) + 1}
    BY <1>1, <1>2 DEF Available
  <2>2. Len(q) + 1 \notin Available(q)
    BY <1>1 DEF Available
  <2>3. Cardinality(Available(p)) = Cardinality(Available(q)) + 1
    BY <2>1, <2>2, AvailableCount, FS_AddElement
  <2> QED BY <1>2, <2>3, AvailableCount DEF p
<1>3. CASE m # KFIFO_AVAILABLE
  <2>1. Available(p) = Available(q)
    BY <1>1, <1>3 DEF Available
  <2> QED BY <1>3, <2>1, AvailableCount DEF p
<1> QED BY <1>2, <1>3

\* So does one taken out.  The positions of the others move by one.
LEMMA AvailableTail ==
    ASSUME NEW q \in Seq(FlowMsg), q # <<>>
    PROVE  Cardinality(Available(Tail(q)))
              = Cardinality(Available(q)) - (IF Head(q) = KFIFO_AVAILABLE THEN 1 ELSE 0)
<1> DEFINE t == Tail(q)
           rest == Available(q) \ {1}
           f == [i \in rest |-> i - 1]
<1>1. /\ Len(q) \in Nat \ {0} /\ Len(t) = Len(q) - 1 /\ Head(q) = q[1]
      /\ \A i \in 1..Len(t) : t[i] = q[i + 1]
      /\ t \in Seq(FlowMsg)
  BY EmptySeq, HeadTailProperties
<1> HIDE DEF t
<1>2. Cardinality(rest) =
          Cardinality(Available(q)) - (IF Head(q) = KFIFO_AVAILABLE THEN 1 ELSE 0)
  <2>1. CASE Head(q) = KFIFO_AVAILABLE
    <3>1. 1 \in Available(q)
      BY <1>1, <2>1 DEF Available
    <3> QED BY <2>1, <3>1, AvailableCount, FS_RemoveElement
  <2>2. CASE Head(q) # KFIFO_AVAILABLE
    <3>1. rest = Available(q)
      BY <1>1, <2>2 DEF Available
    <3> HIDE DEF rest
    <3> QED BY <2>2, <3>1, AvailableCount
  <2> QED BY <2>1, <2>2
<1>3. f \in Bijection(rest, Available(t))
  <2>1. \A i \in rest : i \in Nat /\ i - 1 \in Available(t)
    <3> SUFFICES ASSUME NEW i \in rest PROVE i \in Nat /\ i - 1 \in Available(t)
      OBVIOUS
    <3>1. i \in 2..Len(q) /\ q[i] = KFIFO_AVAILABLE
      BY <1>1 DEF Available
    <3> DEFINE j == i - 1
    <3>2. j \in 1..Len(t) /\ j + 1 = i
      BY <1>1, <3>1
    <3> HIDE DEF j
    <3>3. t[j] = KFIFO_AVAILABLE
      BY <1>1, <3>1, <3>2
    <3> QED BY <3>1, <3>2, <3>3 DEF Available, j
  <2>2. \A j \in Available(t) : j + 1 \in rest /\ f[j + 1] = j
    <3> SUFFICES ASSUME NEW j \in Available(t) PROVE j + 1 \in rest /\ f[j + 1] = j
      OBVIOUS
    <3>1. j \in 1..Len(t) /\ t[j] = KFIFO_AVAILABLE
      BY DEF Available
    <3>2. j + 1 \in 1..Len(q) /\ q[j + 1] = KFIFO_AVAILABLE /\ j + 1 # 1
      BY <1>1, <3>1
    <3> QED BY <3>1, <3>2 DEF Available
  <2>3. f \in [rest -> Available(t)]
    BY <2>1
  <2>4. \A i, j \in rest : f[i] = f[j] => i = j
    BY <2>1
  <2>5. f \in Injection(rest, Available(t))
    BY <2>3, <2>4 DEF Injection, IsInjective
  <2>6. f \in Surjection(rest, Available(t))
    BY <2>2, <2>3 DEF Surjection
  <2> QED BY <2>5, <2>6 DEF Bijection
<1>4. IsFiniteSet(rest)
  BY AvailableCount, FS_Subset
<1>5. Cardinality(Available(t)) = Cardinality(rest)
  <2>1. IsFiniteSet(Available(t))
    BY <1>1, AvailableCount
  <2> HIDE DEF f, rest
  <2> QED BY <1>3, <1>4, <2>1, FS_Bijection DEF ExistsBijection
<1> QED BY <1>2, <1>5 DEF t

\* There are no more of these threads than threads.
LEMMA OwingCount ==
    /\ IsFiniteSet(Owing) /\ Cardinality(Owing) \in Nat
    /\ Cardinality(Readers) \in Nat /\ Cardinality(Owing) <= Cardinality(Readers)
<1>1. Owing \in SUBSET Readers
  BY DEF Owing
<1> QED BY <1>1, ReadersAssumption, FS_Subset, FS_CardinalityType

\* A thread decides to send KFIFO_AVAILABLE, or has sent it.
LEMMA OwingStep ==
    ASSUME TypeOK, NEW r \in Readers, NEW s \in ReaderState,
           rpc' = [rpc EXCEPT ![r] = s]
    PROVE  /\ rpc[r] # "resume" /\ s # "resume" => Owing' = Owing
           /\ rpc[r] = "resume" /\ s # "resume"
                 => Cardinality(Owing') = Cardinality(Owing) - 1
<1>1. rpc \in [Readers -> ReaderState]
  BY DEF TypeOK, DriverTypeOK
<1>2. rpc[r] # "resume" /\ s # "resume" => Owing' = Owing
  BY <1>1 DEF Owing
<1>3. ASSUME rpc[r] = "resume", s # "resume"
      PROVE  Cardinality(Owing') = Cardinality(Owing) - 1
  <2>1. Owing' = Owing \ {r} /\ r \in Owing
    BY <1>1, <1>3 DEF Owing
  <2> QED BY <2>1, OwingCount, FS_RemoveElement
<1> QED BY <1>2, <1>3

\* Windows are counted, and each is worth Window bytes.
LEMMA TimesMonotone ==
    ASSUME NEW w \in Nat, NEW m \in Nat, NEW n \in Nat, m <= n
    PROVE  w * m <= w * n /\ w * m \in Nat /\ w * n \in Nat
           /\ w * (n + 1) = w * n + w
<1>1. PICK k \in Nat : n = m + k
  <2>1. n - m \in Nat /\ n = m + (n - m)
    OBVIOUS
  <2> QED BY <2>1
<1>2. w * n = w * m + w * k /\ w * k \in Nat /\ w * m \in Nat
  BY <1>1
<1> QED BY <1>1, <1>2

\* The sizes in Credit are numbers.
LEMMA Numbers ==
    TypeOK /\ Sizes =>
      /\ Len(data_fifo) \in Nat /\ Len(payload) \in Nat /\ pending_bytes \in Int
      /\ inflight \in Nat /\ Window \in Nat /\ inflight <= Window
      /\ nlq \in Seq(FlowMsg) /\ Len(nlq) <= RcvBuf
      /\ Cardinality(Available(nlq)) \in Nat /\ Cardinality(Owing) \in Nat
      /\ Windows = Cardinality(Available(nlq)) + Cardinality(Owing)
      /\ Windows \in Nat
      /\ Windows <= RcvBuf + Cardinality(Readers)
<1> SUFFICES ASSUME TypeOK, Sizes
             PROVE  /\ Len(data_fifo) \in Nat /\ Len(payload) \in Nat
                    /\ pending_bytes \in Int
                    /\ inflight \in Nat /\ Window \in Nat /\ inflight <= Window
                    /\ nlq \in Seq(FlowMsg) /\ Len(nlq) <= RcvBuf
                    /\ Cardinality(Available(nlq)) \in Nat
                    /\ Cardinality(Owing) \in Nat
                    /\ Windows = Cardinality(Available(nlq)) + Cardinality(Owing)
                    /\ Windows \in Nat
                    /\ Windows <= RcvBuf + Cardinality(Readers)
  OBVIOUS
<1>1. /\ Len(data_fifo) \in Nat /\ Len(payload) \in Nat /\ pending_bytes \in Int
      /\ inflight \in Nat /\ Window \in Nat /\ inflight <= Window
      /\ nlq \in Seq(FlowMsg) /\ Len(nlq) <= RcvBuf
  BY PlacesType, KfifoAssumption
     DEF TypeOK, DriverTypeOK, DaemonTypeOK, Sizes, Window, SHARD_SIZE
<1>2. Cardinality(Available(nlq)) \in Nat /\ Cardinality(Available(nlq)) <= Len(nlq)
  BY <1>1, AvailableCount
<1>3. Len(nlq) \in Nat /\ RcvBuf \in Nat
  BY <1>1, DriverAssumption
<1> QED BY <1>1, <1>2, <1>3, OwingCount DEF Windows

\* When the driver holds less than the low watermark, whatever is queued or owed is
\* covered: this is the state in which ncd_read sends a KFIFO_AVAILABLE.
LEMMA Fresh == TypeOK /\ Sizes /\ KernelBytes < FIFO_LOW_WATERMARK => Credit
<1> SUFFICES ASSUME TypeOK, Sizes, KernelBytes < FIFO_LOW_WATERMARK PROVE Credit
  OBVIOUS
<1> DEFINE n == RcvBuf + Cardinality(Readers)
           a == Window * Windows
           b == Window * n
<1>1. n \in Nat /\ Windows <= n /\ Windows \in Nat /\ Window \in Nat
  BY Numbers, OwingCount, DriverAssumption
<1>2. a \in Int /\ b \in Int /\ a <= b /\ Window * (n + 1) = b + Window
  <2> HIDE DEF n
  <2> QED BY <1>1, TimesMonotone
<1>3. KernelBound = (FIFO_LOW_WATERMARK - 1) + b + Window
  <2>1. 1 + RcvBuf + Cardinality(Readers) = n + 1
    BY OwingCount, DriverAssumption
  <2>2. KernelBound = (FIFO_LOW_WATERMARK - 1) + Window * (n + 1)
    BY <2>1 DEF KernelBound
  <2> HIDE DEF n, b
  <2> QED BY <1>1, <1>2, <2>2, KfifoAssumption
<1>4. Len(payload) <= inflight
  BY DEF Sizes
<1> HIDE DEF a, b
<1>5. Held + (Window - inflight) + a <= KernelBound
  <2>1. /\ Len(data_fifo) \in Nat /\ Len(payload) \in Nat /\ pending_bytes \in Int
        /\ inflight \in Nat
        /\ Len(data_fifo) + pending_bytes < FIFO_LOW_WATERMARK
    BY Numbers DEF KernelBytes, kfifo_len
  <2> QED BY <1>1, <1>2, <1>3, <1>4, <2>1, KfifoAssumption
        DEF Held, KernelBytes, kfifo_len
<1> QED BY <1>5 DEF Credit, a

\* The arithmetic of a step that opens no window.
LEMMA Balance ==
    ASSUME NEW h \in Int, NEW i \in Int, NEW a \in Int,
           NEW h2 \in Int, NEW i2 \in Int, NEW a2 \in Int,
           NEW w \in Int, NEW k \in Int,
           h + (w - i) + a <= k, a2 <= a, h2 - i2 <= h - i
    PROVE  h2 + (w - i2) + a2 <= k
  OBVIOUS

\* A step that moves bytes within the driver, or out of it, and opens no window.
LEMMA Spent ==
    ASSUME TypeOK, Sizes, Credit, TypeOK', Sizes',
           Windows' <= Windows,
           Held' - inflight' <= Held - inflight
    PROVE  Credit'
<1> DEFINE a == Window * Windows
           b == Window * Windows'
<1>1. /\ Held \in Int /\ inflight \in Int /\ Window \in Int
      /\ Windows \in Nat /\ Window \in Nat
  BY Numbers DEF Held, KernelBytes, kfifo_len
<1>2. Held' \in Int /\ inflight' \in Int /\ Windows' \in Nat
  <2>1. (TypeOK /\ Sizes =>
          /\ Len(data_fifo) \in Nat /\ Len(payload) \in Nat /\ pending_bytes \in Int
          /\ inflight \in Nat /\ Windows \in Nat)'
    BY Numbers, PTL
  <2> QED BY <2>1 DEF Held, KernelBytes, kfifo_len
<1>3. KernelBound \in Int
  BY KfifoAssumption, OwingCount, DriverAssumption DEF KernelBound, Window, SHARD_SIZE
<1>4. a \in Int /\ b \in Int /\ b <= a
  <2>1. b <= a
    BY <1>1, <1>2, TimesMonotone
  <2>2. a \in Nat /\ b \in Nat
    BY <1>1, <1>2, TimesMonotone
  <2> QED BY <2>1, <2>2
<1>5. Held + (Window - inflight) + a <= KernelBound
  BY DEF Credit
<1> HIDE DEF a, b
<1>6. Held' + (Window - inflight') + b <= KernelBound
  BY <1>1, <1>2, <1>3, <1>4, <1>5, Balance, Zenon
<1> QED BY <1>6 DEF Credit, b, Window, KernelBound

\* A message to the daemon is queued only while there is room (nlmsg_unicast).
LEMMA SendRoom ==
    ASSUME TypeOK, Sizes, NEW type \in FlowMsg, send_to_daemon(type)
    PROVE  /\ Len(nlq') <= RcvBuf
           /\ Cardinality(Available(nlq'))
                <= Cardinality(Available(nlq)) + (IF type = KFIFO_AVAILABLE THEN 1 ELSE 0)
<1>1. nlq \in Seq(FlowMsg) /\ Len(nlq) \in Nat /\ RcvBuf \in Nat /\ Len(nlq) <= RcvBuf
  BY Numbers, DriverAssumption
<1>2. CASE nlq' = nlq
  BY <1>1, <1>2, AvailableCount
<1>3. CASE Len(nlq) < RcvBuf /\ nlq' = Append(nlq, type)
  <2>1. Len(nlq') = Len(nlq) + 1
    BY <1>1, <1>3
  <2> QED BY <1>1, <1>3, <2>1, AvailableAppend
<1> QED BY <1>2, <1>3 DEF send_to_daemon

\* The daemon takes the oldest message.
LEMMA RecvRoom ==
    ASSUME TypeOK, Sizes, NEW type \in FlowMsg, recv_from_kernel(type)
    PROVE  /\ Len(nlq') <= RcvBuf
           /\ Cardinality(Available(nlq'))
                = Cardinality(Available(nlq)) - (IF type = KFIFO_AVAILABLE THEN 1 ELSE 0)
<1>1. nlq \in Seq(FlowMsg) /\ Len(nlq) \in Nat /\ RcvBuf \in Nat /\ Len(nlq) <= RcvBuf
  BY Numbers, DriverAssumption
<1>2. nlq # <<>> /\ Head(nlq) = type /\ nlq' = Tail(nlq)
  BY DEF recv_from_kernel
<1>3. Len(nlq') = Len(nlq) - 1
  BY <1>1, <1>2, HeadTailType
<1> QED BY <1>1, <1>2, <1>3, AvailableTail

\* The sizes are kept: a window is left until a chunk takes the daemon over the high
\* watermark, and then no chunk is sent (flush_device).
LEMMA SizesStep ==
    ASSUME TypeOK, Sizes, [Next]_vars
    PROVE  Sizes'
<1>0. /\ Len(payload) \in Nat /\ inflight \in Nat /\ SHARD_SIZE \in Nat \ {0}
      /\ Window = FIFO_HIGH_WATERMARK + SHARD_SIZE /\ FIFO_HIGH_WATERMARK \in Nat
      /\ (payload = <<>> => Len(payload) = 0) /\ Len(<<>>) = 0
      /\ (payload # <<>> => Len(payload) > 0)
      /\ pending \in Seq(Bytes)
  BY PlacesType, KfifoAssumption DEF Window, SHARD_SIZE, TypeOK, DaemonTypeOK
<1>1. CASE UNCHANGED <<inflight, payload, dpc, pending, nlq>>
  BY <1>1 DEF Sizes, Window
<1>2. CASE DaemonFull
  <2>1. UNCHANGED <<inflight, payload, dpc, pending>>
    BY <1>2 DEF DaemonFull, OnKfifoFull, recv_from_kernel
  <2>2. Len(nlq') <= RcvBuf
    BY <1>2, RecvRoom DEF DaemonFull, FlowMsg
  <2> QED BY <2>1, <2>2 DEF Sizes, Window
<1>3. CASE DaemonAvailable
  <2>1. inflight' = 0 /\ payload = <<>> /\ UNCHANGED <<payload, pending>>
    BY <1>3 DEF DaemonAvailable, OnKfifoAvailable, recv_from_kernel, Sizes
  <2>2. Len(nlq') <= RcvBuf
    BY <1>3, RecvRoom DEF DaemonAvailable, FlowMsg
  <2> QED BY <1>0, <2>1, <2>2 DEF Sizes, Window
<1>4. CASE DaemonTcp
  BY <1>0, <1>4 DEF DaemonTcp, OnTcpData, driverVars, Sizes, Window
<1>5. CASE DaemonShard
  <2>1. UNCHANGED <<inflight, payload, nlq>> /\ payload = <<>>
    BY <1>5 DEF DaemonShard, queue_shards, driverVars, Sizes
  <2> DEFINE c == SubSeq(unsharded, 1, ShardLen)
  <2>2. pending' = Append(pending, c)
    BY <1>5 DEF DaemonShard, queue_shards
  <2>3. unsharded \in Seq(Byte) /\ ShardLen \in Nat /\ ShardLen <= Len(unsharded)
        /\ ShardLen <= SHARD_SIZE
    BY <1>0, PlacesType DEF ShardLen
  <2>4. c \in Seq(Byte) /\ Len(c) <= SHARD_SIZE
    BY <2>3, PieceType
  <2> HIDE DEF c
  <2>5. \A i \in 1..Len(pending') : Len(pending'[i]) <= SHARD_SIZE
    BY <1>0, <2>2, <2>4 DEF Sizes, Bytes
  <2> QED BY <2>1, <2>5 DEF Sizes, Window
<1>6. CASE DaemonSend
  <2>1. /\ dpc = "flush" /\ dpc' = dpc /\ nlq' = nlq
        /\ pending # <<>> /\ pending' = Tail(pending)
        /\ inflight <= FIFO_HIGH_WATERMARK
        /\ inflight' = inflight + Len(Head(pending))
        /\ payload' = <<>> \/ payload' = Head(pending)
    BY <1>6 DEF DaemonSend, FlushChunk, CanFlush, RecvData
  <2>2. /\ Head(pending) \in Seq(Byte) /\ Head(pending) = pending[1]
        /\ 1 \in 1..Len(pending)
        /\ Len(Tail(pending)) = Len(pending) - 1
        /\ \A i \in 1..Len(Tail(pending)) :
              Tail(pending)[i] = pending[i + 1] /\ i + 1 \in 1..Len(pending)
    BY <1>0, <2>1, HeadTailType DEF Bytes
  <2>3. Len(Head(pending)) \in Nat /\ Len(Head(pending)) <= SHARD_SIZE
    BY <2>2 DEF Sizes
  <2>4. \A i \in 1..Len(pending') : Len(pending'[i]) <= SHARD_SIZE
    BY <2>1, <2>2 DEF Sizes
  <2>5. Len(payload') = 0 \/ Len(payload') = Len(Head(pending))
    BY <1>0, <2>1
  <2> QED BY <1>0, <2>1, <2>3, <2>4, <2>5 DEF Sizes, Window
<1>7. CASE DaemonFlushed \/ DaemonSendErr
  BY <1>7 DEF DaemonFlushed, DaemonSendErr, FlushDone, FlushFails, FlushReturn,
        HandlerIdle, driverVars, Sizes, Window
<1>8. CASE HandlerStore
  <2>1. payload' = <<>> /\ UNCHANGED <<inflight, dpc, pending, nlq>>
    BY <1>8 DEF HandlerStore, DataQueued, DataDropped, DataStored, daemonVars
  <2> QED BY <1>0, <2>1 DEF Sizes, Window
<1>9. CASE HandlerWake
  BY <1>1, <1>9 DEF HandlerWake, DataWake, daemonVars
<1>10. CASE HandlerPause
  <2>1. UNCHANGED <<inflight, payload, dpc, pending>>
    BY <1>10 DEF HandlerPause, DataPause, daemonVars
  <2>2. Len(nlq') <= RcvBuf
    BY <1>10, SendRoom DEF HandlerPause, DataPause, FlowMsg
  <2> QED BY <2>1, <2>2 DEF Sizes, Window
<1>11. CASE Actor
  BY <1>1, <1>11 DEF Actor, ActorReads, ActorRead, ActorCommands, ActorCommand,
        ActorEnds, ActorReadFails, ActorWriteFails, ActorExit, driverVars
<1>12. ASSUME NEW r \in Readers, Reader(r) PROVE Sizes'
  <2>1. UNCHANGED <<inflight, payload, dpc, pending>>
    BY <1>12 DEF Reader, ReaderStep, Call, Signal, Fault, daemonVars, ReadEmpty,
          ReadCheck, ReadOut, ReadDrain, ReadUnlock, ReadResume, ReadEnter,
          ReadInterrupted, ReadNoMem, ReadFault
  <2>2. CASE ReadEmpty(r) \/ ReadResume(r)
    <3>1. Len(nlq') <= RcvBuf
      BY <2>2, SendRoom DEF ReadEmpty, ReadResume, FlowMsg
    <3> QED BY <2>1, <3>1 DEF Sizes, Window
  <2>3. CASE ~(ReadEmpty(r) \/ ReadResume(r))
    <3>1. nlq' = nlq
      BY <1>12, <2>3 DEF Reader, ReaderStep, Call, Signal, Fault,
            ReadCheck, ReadOut, ReadDrain, ReadUnlock, ReadEnter, ReadInterrupted,
            ReadNoMem, ReadFault
    <3> QED BY <1>1, <2>1, <3>1
  <2> QED BY <2>2, <2>3
<1>13. CASE UNCHANGED vars
  BY <1>1, <1>13 DEF vars, driverVars, daemonVars
<1> QED BY <1>2, <1>3, <1>4, <1>5, <1>6, <1>7, <1>8, <1>9, <1>10, <1>11, <1>12, <1>13
        DEF Next, Daemon

CreditInv == BacklogInv /\ PendingBytesExact /\ Sizes /\ Credit

\* The steps of a thread in ncd_read.
LEMMA ReaderCredit ==
    ASSUME CreditInv, TypeOK', Sizes', PendingBytesExact',
           NEW r \in Readers, Reader(r)
    PROVE  Credit'
<1>0. TypeOK /\ Sizes /\ Credit
  BY DEF CreditInv, BacklogInv
<1>1. UNCHANGED <<payload, inflight>>
  BY DEF Reader, ReaderStep, Call, Signal, Fault, daemonVars, ReadEmpty, ReadCheck,
         ReadOut, ReadDrain, ReadUnlock, ReadResume, ReadEnter, ReadInterrupted,
         ReadNoMem, ReadFault
<1>2. /\ Len(data_fifo) \in Nat /\ Len(payload) \in Nat /\ pending_bytes \in Int
      /\ inflight \in Nat /\ Cardinality(Available(nlq)) \in Nat
      /\ Cardinality(Owing) \in Nat
      /\ Windows = Cardinality(Available(nlq)) + Cardinality(Owing)
      /\ Windows \in Nat
  BY <1>0, Numbers
<1>3. /\ Len(data_fifo') \in Nat /\ pending_bytes' \in Int
      /\ Cardinality(Available(nlq')) \in Nat /\ Cardinality(Owing') \in Nat
  <2>1. (TypeOK /\ Sizes =>
          /\ Len(data_fifo) \in Nat /\ pending_bytes \in Int
          /\ Cardinality(Available(nlq)) \in Nat /\ Cardinality(Owing) \in Nat)'
    BY Numbers, PTL
  <2> QED BY <2>1
<1>4. rpc \in [Readers -> ReaderState]
  BY <1>0 DEF TypeOK, DriverTypeOK
<1>5. (TypeOK /\ Sizes /\ KernelBytes < FIFO_LOW_WATERMARK => Credit)'
  BY Fresh, PTL
<1>6. CASE ReadEmpty(r)
  <2>1. data_fifo = <<>> /\ pending_chunks = <<>>
    BY <1>6 DEF ReadEmpty, CreditInv, BacklogInv, NoStrandedBacklog
  <2>2. pending_bytes = 0
    BY <2>1, FlattenEmpty DEF CreditInv, PendingBytesExact
  <2>3. UNCHANGED <<data_fifo, pending_bytes>>
    BY <1>6 DEF ReadEmpty
  <2>4. Len(data_fifo') + pending_bytes' < FIFO_LOW_WATERMARK
    BY <2>1, <2>2, <2>3, KfifoAssumption
  <2> QED BY <1>5, <2>4 DEF KernelBytes, kfifo_len
<1>7. CASE ReadUnlock(r) /\ ShouldResume
  <2>1. /\ pending_chunks = <<>> /\ Len(data_fifo) < FIFO_LOW_WATERMARK
        /\ UNCHANGED <<data_fifo, pending_bytes>>
    BY <1>7 DEF ReadUnlock, ShouldResume, kfifo_len
  <2>2. pending_bytes = 0
    BY <2>1, FlattenEmpty DEF CreditInv, PendingBytesExact
  <2>3. Len(data_fifo') + pending_bytes' < FIFO_LOW_WATERMARK
    BY <1>2, <2>1, <2>2
  <2> QED BY <1>5, <2>3 DEF KernelBytes, kfifo_len
<1>8. CASE ReadResume(r)
  <2>1. /\ UNCHANGED <<data_fifo, pending_bytes>>
        /\ rpc[r] = "resume" /\ rpc' = [rpc EXCEPT ![r] = "idle"]
        /\ send_to_daemon(KFIFO_AVAILABLE)
    BY <1>8 DEF ReadResume
  <2>2. Cardinality(Owing') = Cardinality(Owing) - 1
    BY <1>0, <2>1, OwingStep DEF ReaderState
  <2>3. Cardinality(Available(nlq')) <= Cardinality(Available(nlq)) + 1
    BY <1>0, <2>1, SendRoom DEF FlowMsg
  <2>4. Windows' <= Windows
    BY <1>2, <1>3, <2>2, <2>3 DEF Windows
  <2>5. Held' - inflight' <= Held - inflight
    BY <1>1, <1>2, <2>1 DEF Held, KernelBytes, kfifo_len
  <2> QED BY <1>0, <2>4, <2>5, Spent
<1>9. CASE ReadFault(r)
  <2>1. /\ UNCHANGED <<data_fifo, pending_bytes, nlq>>
        /\ rpc[r] = "resume" /\ rpc' = [rpc EXCEPT ![r] = "idle"]
    BY <1>9 DEF ReadFault
  <2>2. Cardinality(Owing') = Cardinality(Owing) - 1
    BY <1>0, <2>1, OwingStep DEF ReaderState
  <2>3. Windows' <= Windows
    BY <1>2, <1>3, <2>1, <2>2 DEF Windows
  <2>4. Held' - inflight' <= Held - inflight
    BY <1>1, <1>2, <2>1 DEF Held, KernelBytes, kfifo_len
  <2> QED BY <1>0, <2>3, <2>4, Spent
<1>10. ASSUME nlq' = nlq, Owing' = Owing,
              Len(data_fifo') + pending_bytes' <= Len(data_fifo) + pending_bytes
       PROVE  Credit'
  <2>1. Windows' <= Windows
    BY <1>2, <1>10 DEF Windows
  <2>2. Held' - inflight' <= Held - inflight
    BY <1>1, <1>2, <1>3, <1>10 DEF Held, KernelBytes, kfifo_len
  <2> QED BY <1>0, <2>1, <2>2, Spent
<1>11. CASE \E count \in ReadSizes : ReadOut(r, count)
  <2>1. PICK count \in ReadSizes : ReadOut(r, count)
    BY <1>11
  <2> DEFINE n == Min2(Min2(count, FIFO_SIZE), kfifo_len)
  <2>2. n \in Nat /\ n <= Len(data_fifo)
    BY <1>2, KfifoAssumption, DriverAssumption DEF Min2, kfifo_len
  <2>3. /\ data_fifo' = SubSeq(data_fifo, n + 1, Len(data_fifo))
        /\ UNCHANGED <<pending_bytes, nlq>>
        /\ rpc[r] = "enter" /\ rpc' = [rpc EXCEPT ![r] = "drain"]
    BY <2>1 DEF ReadOut, kfifo_len
  <2> HIDE DEF n
  <2>4. Len(data_fifo') = Len(data_fifo) - n
    BY <1>0, <2>2, <2>3, PlacesType, CutInTwo
  <2>5. Owing' = Owing
    BY <1>0, <2>3, OwingStep DEF ReaderState
  <2> QED BY <1>2, <1>10, <2>2, <2>3, <2>4, <2>5
<1>12. CASE ReadDrain(r)
  <2>1. /\ UNCHANGED <<rpc, nlq>> /\ pending_chunks # <<>>
        /\ data_fifo' = data_fifo \o Head(pending_chunks)
        /\ pending_bytes' = pending_bytes - Len(Head(pending_chunks))
    BY <1>12 DEF ReadDrain, CanDrain
  <2>2. Head(pending_chunks) \in Seq(Byte) /\ data_fifo \in Seq(Byte)
    BY <1>0, <2>1, PlacesType, HeadAndTail
  <2>3. Len(data_fifo') = Len(data_fifo) + Len(Head(pending_chunks))
        /\ Len(Head(pending_chunks)) \in Nat
    BY <2>1, <2>2
  <2>4. Owing' = Owing
    BY <2>1 DEF Owing
  <2>5. Len(data_fifo') + pending_bytes' <= Len(data_fifo) + pending_bytes
    <3> DEFINE k == Len(Head(pending_chunks))
               l == Len(data_fifo)
               l2 == Len(data_fifo')
    <3>1. pending_bytes' = pending_bytes - k /\ l2 = l + k /\ k \in Nat
      BY <2>1, <2>3
    <3>2. l \in Nat /\ l2 \in Nat /\ pending_bytes \in Int
      BY <1>2, <1>3
    <3> HIDE DEF k, l, l2
    <3>3. l2 + pending_bytes' <= l + pending_bytes
      BY <3>1, <3>2
    <3> QED BY <3>3 DEF l, l2
  <2> QED BY <1>10, <2>1, <2>4, <2>5
<1>13. CASE \/ ReadUnlock(r) /\ ~ShouldResume
            \/ ReadCheck(r) \/ ReadEnter(r) \/ ReadInterrupted(r) \/ ReadNoMem(r)
  <2>1. UNCHANGED <<nlq, data_fifo, pending_bytes>>
    BY <1>13 DEF ReadUnlock, ReadCheck, ReadEnter, ReadInterrupted, ReadNoMem
  <2>2. /\ rpc[r] # "resume"
        /\ \E s \in ReaderState \ {"resume"} : rpc' = [rpc EXCEPT ![r] = s]
    BY <1>4, <1>13 DEF ReadUnlock, ReadCheck, ReadEnter, ReadInterrupted, ReadNoMem,
                       ReaderState
  <2>3. Owing' = Owing
    BY <1>0, <2>2, OwingStep
  <2> QED BY <1>2, <1>10, <2>1, <2>3
<1> QED BY <1>6, <1>7, <1>8, <1>9, <1>11, <1>12, <1>13
        DEF Reader, ReaderStep, Call, Signal, Fault

\* The steps of the daemon and of the DATA case.
LEMMA DaemonCredit ==
    ASSUME CreditInv, TypeOK', Sizes', Daemon
    PROVE  Credit'
<1>0. TypeOK /\ Sizes /\ Credit
  BY DEF CreditInv, BacklogInv
<1>2. /\ Len(data_fifo) \in Nat /\ Len(payload) \in Nat /\ pending_bytes \in Int
      /\ inflight \in Nat /\ Cardinality(Available(nlq)) \in Nat
      /\ Cardinality(Owing) \in Nat
      /\ Windows = Cardinality(Available(nlq)) + Cardinality(Owing)
      /\ Windows \in Nat /\ Window \in Nat /\ inflight <= Window
  BY <1>0, Numbers
<1>3. /\ Cardinality(Available(nlq')) \in Nat /\ Cardinality(Owing') \in Nat
      /\ Windows' \in Nat
  <2>1. (TypeOK /\ Sizes =>
          /\ Cardinality(Available(nlq)) \in Nat /\ Cardinality(Owing) \in Nat
          /\ Windows \in Nat)'
    BY Numbers, PTL
  <2> QED BY <2>1
<1>4. ASSUME Owing' = Owing, Cardinality(Available(nlq')) <= Cardinality(Available(nlq)),
             Held' - inflight' <= Held - inflight
      PROVE  Credit'
  <2>1. Windows' <= Windows
    BY <1>2, <1>3, <1>4 DEF Windows
  <2> QED BY <1>0, <1>4, <2>1, Spent
<1>5. ASSUME UNCHANGED <<rpc, nlq>>, Held' - inflight' <= Held - inflight
      PROVE  Credit'
  BY <1>2, <1>4, <1>5 DEF Owing
<1>6. Held \in Int /\ (UNCHANGED <<data_fifo, pending_bytes, payload>> => Held' = Held)
  BY <1>2 DEF Held, KernelBytes, kfifo_len
<1>7. CASE DaemonFull
  <2>1. UNCHANGED <<data_fifo, pending_bytes, payload, inflight, rpc>>
    BY <1>7 DEF DaemonFull, OnKfifoFull, recv_from_kernel
  <2>2. Cardinality(Available(nlq')) = Cardinality(Available(nlq))
    BY <1>0, <1>2, <1>7, RecvRoom DEF DaemonFull, FlowMsg, KFIFO_FULL, KFIFO_AVAILABLE
  <2> QED BY <1>2, <1>4, <1>6, <2>1, <2>2 DEF Owing
<1>8. CASE DaemonAvailable
  <2>1. /\ UNCHANGED <<data_fifo, pending_bytes, payload, rpc>> /\ inflight' = 0
        /\ recv_from_kernel(KFIFO_AVAILABLE)
    BY <1>8 DEF DaemonAvailable, OnKfifoAvailable, recv_from_kernel
  <2>2. Cardinality(Available(nlq')) = Cardinality(Available(nlq)) - 1
    BY <1>0, <2>1, RecvRoom DEF FlowMsg
  <2>3. Windows = Windows' + 1
    BY <1>2, <1>3, <2>1, <2>2 DEF Windows, Owing
  <2> DEFINE b == Window * Windows'
  <2>4. Window * Windows = b + Window /\ b \in Int
    <3>1. Windows' <= Windows'
      BY <1>3
    <3>2. Window * (Windows' + 1) = b + Window /\ b \in Nat
      BY <1>2, <1>3, <3>1, TimesMonotone
    <3> QED BY <2>3, <3>2
  <2>5. KernelBound \in Int
    BY KfifoAssumption, OwingCount, DriverAssumption DEF KernelBound, Window, SHARD_SIZE
  <2> HIDE DEF b
  <2>6. Held + (Window - inflight) + (b + Window) <= KernelBound
    BY <1>0, <2>4 DEF Credit
  <2>7. Held + (Window - 0) + b <= KernelBound
    BY <1>2, <1>6, <2>4, <2>5, <2>6
  <2> QED BY <1>6, <2>1, <2>7 DEF Credit, b, Window, KernelBound
<1>9. CASE DaemonSend
  <2>1. /\ UNCHANGED <<rpc, nlq, data_fifo, pending_bytes>>
        /\ pending # <<>> /\ payload = <<>>
        /\ inflight' = inflight + Len(Head(pending))
        /\ payload' = <<>> \/ payload' = Head(pending)
    BY <1>9 DEF DaemonSend, FlushChunk, CanFlush, RecvData, HandlerIdle
  <2>2. Head(pending) \in Seq(Byte) /\ Len(Head(pending)) \in Nat
    BY <1>0, <2>1, PlacesType, HeadAndTail
  <2>3. Len(payload) = 0 /\ Len(payload') \in Nat /\ Len(payload') <= Len(Head(pending))
    BY <2>1, <2>2
  <2>4. Held' - inflight' <= Held - inflight
    BY <1>2, <2>1, <2>2, <2>3 DEF Held, KernelBytes, kfifo_len
  <2> QED BY <1>5, <2>1, <2>4
<1>10. CASE HandlerStore
  <2>0. Len(payload') = 0 /\ UNCHANGED <<rpc, nlq, inflight>>
    BY <1>10 DEF HandlerStore, DataQueued, DataDropped, DataStored, daemonVars
  <2>1. CASE DataQueued \/ DataDropped
    <3>1. /\ data_fifo' = data_fifo
          /\ pending_bytes' = pending_bytes \/ pending_bytes' = pending_bytes + Len(payload)
      BY <2>1 DEF DataQueued, DataDropped
    <3>2. Held' - inflight' <= Held - inflight
      BY <1>2, <2>0, <3>1 DEF Held, KernelBytes, kfifo_len
    <3> QED BY <1>5, <2>0, <3>2
  <2>2. CASE DataStored
    <3>1. /\ data_fifo' = data_fifo \o payload /\ pending_bytes' = pending_bytes
      BY <2>2 DEF DataStored
    <3>2. Len(data_fifo') = Len(data_fifo) + Len(payload)
      BY <1>0, <3>1, PlacesType
    <3>3. Held' - inflight' <= Held - inflight
      BY <1>2, <2>0, <3>1, <3>2 DEF Held, KernelBytes, kfifo_len
    <3> QED BY <1>5, <2>0, <3>3
  <2> QED BY <1>10, <2>1, <2>2 DEF HandlerStore
<1>11. CASE HandlerWake
  <2>1. UNCHANGED <<data_fifo, pending_bytes, payload, inflight, nlq>>
    BY <1>11 DEF HandlerWake, DataWake, daemonVars
  <2>2. Owing' = Owing
    BY <1>0, <1>11 DEF HandlerWake, DataWake, Owing, TypeOK, DriverTypeOK
  <2> QED BY <1>2, <1>4, <1>6, <2>1, <2>2
<1>12. CASE HandlerPause
  <2>1. UNCHANGED <<data_fifo, pending_bytes, payload, inflight, rpc>>
    BY <1>12 DEF HandlerPause, DataPause, daemonVars
  <2>2. Cardinality(Available(nlq')) <= Cardinality(Available(nlq)) + 0
    BY <1>0, <1>12, SendRoom DEF HandlerPause, DataPause, FlowMsg, KFIFO_FULL,
       KFIFO_AVAILABLE
  <2> QED BY <1>2, <1>3, <1>4, <1>6, <2>1, <2>2 DEF Owing
<1>13. CASE DaemonTcp \/ DaemonShard \/ DaemonFlushed \/ DaemonSendErr
  <2>1. UNCHANGED <<rpc, nlq, data_fifo, pending_bytes, payload, inflight>>
    BY <1>13 DEF DaemonTcp, OnTcpData, DaemonShard, queue_shards, DaemonFlushed,
          FlushDone, DaemonSendErr, FlushFails, FlushReturn, driverVars
  <2> QED BY <1>2, <1>5, <1>6, <2>1
<1> QED BY <1>7, <1>8, <1>9, <1>10, <1>11, <1>12, <1>13 DEF Daemon

\* No step of readers, handler or daemon overdraws the credit.
LEMMA CreditStep == CreditInv /\ [Next]_vars => CreditInv'
<1> SUFFICES ASSUME CreditInv, [Next]_vars PROVE CreditInv'
  OBVIOUS
<1>1. BacklogInv' /\ TypeOK' /\ TypeOK /\ Sizes /\ Credit
  BY BacklogStep, TypeStep DEF CreditInv, BacklogInv
<1>2. PendingBytesExact'
  BY <1>1, PendingStep DEF CreditInv, PendingInv
<1>3. Sizes'
  BY <1>1, SizesStep
<1>4. CASE Daemon
  BY <1>1, <1>2, <1>3, <1>4, DaemonCredit DEF CreditInv
<1>5. CASE \E r \in Readers : Reader(r)
  BY <1>1, <1>2, <1>3, <1>5, ReaderCredit DEF CreditInv
<1>6. CASE Actor \/ UNCHANGED vars
  <2>1. UNCHANGED <<data_fifo, pending_bytes, payload, inflight, nlq, rpc>>
    BY <1>6 DEF Actor, ActorReads, ActorRead, ActorCommands, ActorCommand, ActorEnds,
          ActorReadFails, ActorWriteFails, ActorExit, vars, driverVars, daemonVars
  <2>2. Credit'
    BY <1>1, <2>1 DEF Credit, Held, KernelBytes, kfifo_len, Windows, Owing, Window,
       KernelBound
  <2> QED BY <1>1, <1>2, <1>3, <2>2 DEF CreditInv
<1> QED BY <1>4, <1>5, <1>6 DEF Next

\* At the start the whole window is left.
LEMMA CreditInit == Init => CreditInv
<1> SUFFICES ASSUME Init PROVE CreditInv
  OBVIOUS
<1>1. TypeOK /\ PendingBytesExact
  BY TypeInit, PendingInit DEF PendingInv
<1>2. /\ data_fifo = <<>> /\ pending_chunks = <<>> /\ payload = <<>> /\ pending = <<>>
      /\ nlq = <<>> /\ inflight = 0 /\ pending_bytes = 0
  BY DEF Init, DriverInit, DaemonInit
<1>3. BacklogInv
  BY <1>1, <1>2 DEF BacklogInv, ChunksFit, NoStrandedBacklog
<1>4. Sizes
  BY <1>2, KfifoAssumption, DriverAssumption DEF Sizes, Window, SHARD_SIZE
<1>5. KernelBytes < FIFO_LOW_WATERMARK
  BY <1>2, KfifoAssumption DEF KernelBytes, kfifo_len
<1> QED BY <1>1, <1>3, <1>4, <1>5, Fresh DEF CreditInv

\* What the credits say of the driver's memory.
LEMMA CreditBounds ==
    ASSUME CreditInv
    PROVE  /\ KernelBytes <= KernelBound
           /\ pending_bytes + Len(payload) <= KernelBound
<1> DEFINE a == Window * Windows
<1>1. /\ Len(data_fifo) \in Nat /\ Len(payload) \in Nat /\ pending_bytes \in Int
      /\ inflight \in Nat /\ Window \in Nat /\ inflight <= Window /\ Windows \in Nat
  BY Numbers DEF CreditInv, BacklogInv
<1>2. a \in Nat /\ KernelBound \in Int
  <2>1. Windows <= Windows
    BY <1>1
  <2>2. a \in Nat
    BY <1>1, <2>1, TimesMonotone
  <2> QED BY <2>2, KfifoAssumption, OwingCount, DriverAssumption
          DEF KernelBound, Window, SHARD_SIZE
<1>3. Held + (Window - inflight) + a <= KernelBound
  BY DEF CreditInv, Credit
<1> HIDE DEF a
<1>4. Held = Len(data_fifo) + pending_bytes + Len(payload)
      /\ KernelBytes = Len(data_fifo) + pending_bytes
  BY DEF Held, KernelBytes, kfifo_len
<1>5. Held \in Int /\ KernelBytes \in Int
  BY <1>1, <1>4
<1>6. Held <= KernelBound
  BY <1>1, <1>2, <1>3, <1>5
<1>7. KernelBytes <= Held /\ pending_bytes + Len(payload) <= Held
  BY <1>1, <1>4
<1> QED BY <1>1, <1>2, <1>5, <1>6, <1>7

BoundInv == CreditInv /\ NeverDropped

\* A chunk in the DATA case is a shard, and the backlog has room for it.
LEMMA BoundStep == BoundInv /\ [Next]_vars => BoundInv'
<1> SUFFICES ASSUME BoundInv, [Next]_vars,
                    KernelBound <= FIFO_PENDING_LIMIT, ~AllocMayFail
             PROVE  ~dropped'
  <2>1. KernelBound' = KernelBound
    BY DEF KernelBound, Window
  <2> QED BY <2>1, CreditStep DEF BoundInv, NeverDropped
<1>1. ~dropped
  BY DEF BoundInv, NeverDropped
<1>2. CASE UNCHANGED dropped
  BY <1>1, <1>2
<1>3. CASE HandlerStore
  <2>1. CASE DataDropped
    <3>1. ~QueueHasRoom
      BY <2>1 DEF DataDropped
    <3>2. Len(payload) <= SHARD_SIZE /\ Len(payload) \in Nat /\ pending_bytes \in Int
      BY Numbers DEF BoundInv, CreditInv, BacklogInv, Sizes
    <3>3. Len(payload) <= FIFO_SIZE
      BY <3>2, KfifoAssumption DEF SHARD_SIZE
    <3>4. KernelBound \in Int
      BY KfifoAssumption, OwingCount, DriverAssumption DEF KernelBound, Window, SHARD_SIZE
    <3>5. pending_bytes + Len(payload) <= KernelBound
      BY CreditBounds DEF BoundInv
    <3>6. pending_bytes <= FIFO_PENDING_LIMIT - Len(payload)
      BY <3>2, <3>4, <3>5, KfifoAssumption
    <3> QED BY <3>1, <3>3, <3>6 DEF QueueHasRoom
  <2>2. CASE DataQueued \/ DataStored
    BY <1>1, <2>2 DEF DataQueued, DataStored
  <2> QED BY <1>3, <2>1, <2>2 DEF HandlerStore
<1>4. CASE \E r \in Readers : Reader(r)
  BY <1>2, <1>4 DEF Reader, ReaderStep, Call, Signal, Fault, ReadEmpty, ReadCheck,
        ReadOut, ReadDrain, ReadUnlock, ReadResume, ReadEnter, ReadInterrupted,
        ReadNoMem, ReadFault
<1>5. CASE DaemonSend \/ HandlerWake \/ HandlerPause \/ DaemonFull \/ DaemonAvailable
  BY <1>2, <1>5 DEF DaemonSend, RecvData, HandlerWake, DataWake, HandlerPause, DataPause,
        DaemonFull, DaemonAvailable, recv_from_kernel
<1>6. CASE \/ DaemonTcp \/ DaemonShard \/ DaemonFlushed \/ DaemonSendErr \/ Actor
           \/ UNCHANGED vars
  BY <1>2, <1>6 DEF DaemonTcp, DaemonShard, DaemonFlushed, DaemonSendErr, Actor,
        ActorReads, ActorCommands, ActorEnds, vars, driverVars
<1> QED BY <1>3, <1>4, <1>5, <1>6 DEF Next, Daemon

\* Nothing has been dropped at the start.
LEMMA BoundInit == Init => BoundInv
  BY CreditInit DEF Init, DriverInit, BoundInv, NeverDropped

\* The daemon's window bounds the driver's memory although a KFIFO_AVAILABLE may be
\* stale when it is handled (start.rs, flush_device; ncd.c, ncd_read), and a backlog
\* limit that covers the bound never drops a chunk (ncd_queue_pending_locked).
THEOREM KernelBytesAreBounded == Spec => []KernelBytesBounded
<1>1. BoundInv => KernelBytesBounded
  BY CreditBounds DEF BoundInv, NeverDropped, KernelBytesBounded
<1> QED BY <1>1, BoundInit, BoundStep, PTL DEF Spec

-----------------------------------------------------------------------------
(***************************************************************************)
(* The path implements a pipe.                                             *)
(***************************************************************************)

\* Nothing the actor has read, or read(2) has returned, is taken back.
LEMMA NeverUnread ==
    ASSUME TypeOK, [Next]_vars
    PROVE  /\ sent' \in Nat /\ sent \in Nat /\ sent <= sent'
           /\ UNCHANGED out \/ (sent' = sent /\ \E s \in Seq(Byte) : out' = out \o s)
<1>1. sent \in Nat
  BY DaemonAssumption DEF TypeOK, DaemonTypeOK
<1>2. CASE ActorReads
  BY <1>1, <1>2, DaemonAssumption DEF ActorReads, ActorRead, driverVars
<1>3. CASE UNCHANGED <<sent, out>>
  BY <1>1, <1>3
<1>4. CASE Daemon
  BY <1>3, <1>4 DEF Daemon, DaemonFull, OnKfifoFull, DaemonAvailable, OnKfifoAvailable,
        recv_from_kernel, DaemonTcp, OnTcpData, DaemonShard, queue_shards, DaemonSend,
        FlushChunk, RecvData, DaemonFlushed, FlushDone, DaemonSendErr, FlushFails,
        FlushReturn, HandlerStore, DataQueued, DataDropped, DataStored, HandlerWake,
        DataWake, HandlerPause, DataPause, driverVars, daemonVars
<1>5. CASE ActorCommands \/ ActorEnds \/ UNCHANGED vars
  BY <1>3, <1>5 DEF ActorCommands, ActorCommand, ActorEnds, ActorReadFails,
        ActorWriteFails, ActorExit, vars, driverVars, daemonVars
<1>6. ASSUME NEW r \in Readers, Reader(r)
      PROVE  sent' = sent /\ (out' = out \/ \E s \in Seq(Byte) : out' = out \o s)
  <2>1. sent' = sent
    BY <1>6 DEF Reader, ReaderStep, Call, Signal, Fault, daemonVars
  <2>2. CASE \E count \in ReadSizes : ReadOut(r, count)
    <3>1. PICK count \in ReadSizes : ReadOut(r, count)
      BY <2>2
    <3> DEFINE n == Min2(Min2(count, FIFO_SIZE), kfifo_len)
               s == SubSeq(data_fifo, 1, n)
    <3>2. n \in Nat /\ n <= Len(data_fifo) /\ data_fifo \in Seq(Byte)
      BY PlacesType, KfifoAssumption, DriverAssumption DEF Min2, kfifo_len
    <3>3. out' = out \o s
      BY <3>1 DEF ReadOut
    <3> HIDE DEF n
    <3>4. s \in Seq(Byte)
      BY <3>2, PieceType
    <3> QED BY <2>1, <3>3, <3>4
  <2>3. CASE ~\E count \in ReadSizes : ReadOut(r, count)
    BY <1>6, <2>1, <2>3 DEF Reader, ReaderStep, Call, Signal, Fault, ReadEmpty, ReadCheck,
          ReadDrain, ReadUnlock, ReadResume, ReadEnter, ReadInterrupted, ReadNoMem,
          ReadFault
  <2> QED BY <2>2, <2>3
<1> QED BY <1>1, <1>2, <1>4, <1>5, <1>6 DEF Next, Actor

\* What the path from the connection to read(2) promises, BytePipe, it keeps, if the
\* backlog limit covers the bound and allocation does not fail.
THEOREM PathImplementsPipe ==
    ASSUME KernelBound <= FIFO_PENDING_LIMIT, ~AllocMayFail
    PROVE  Spec => ImplementsPipe
<1> DEFINE I == PipeInv /\ BoundInv
<1>1. Init => I
  BY PipeInit, BoundInit
<1>2. I /\ [Next]_vars => I'
  BY PipeStep, BoundStep
<1>3. Init => Pipe!Init
  BY DEF Init, DriverInit, DaemonInit, Pipe!Init
<1>4. I /\ I' /\ [Next]_vars => [Pipe!Next]_(<<sent, out>>)
  <2> SUFFICES ASSUME I, I', [Next]_vars, ~UNCHANGED <<sent, out>> PROVE Pipe!Next
    BY Zenon
  <2>1. TypeOK /\ ~dropped'
    BY DEF BoundInv, CreditInv, BacklogInv, NeverDropped, KernelBound, Window
  <2>2. Len(out') <= sent' /\ out' = [i \in 1..Len(out') |-> i]
    <3>1. (PipeInv /\ ~dropped => Len(out) <= sent /\ out = UpTo(Len(out)))'
      <4>1. PipeInv /\ ~dropped => Len(out) <= sent /\ out = UpTo(Len(out))
        BY OutBegins
      <4> QED BY OutBegins, PTL
    <3> QED BY <2>1, <3>1 DEF UpTo
  <2>3. CASE out' = out
    BY <2>1, <2>3, NeverUnread DEF Pipe!Next, Pipe!Accept
  <2>4. CASE sent' = sent /\ \E s \in Seq(Byte) : out' = out \o s
    <3>1. PICK s \in Seq(Byte) : out' = out \o s
      BY <2>4
    <3>2. Len(out') = Len(out) + Len(s) /\ Len(s) \in Nat /\ Len(out) \in Nat
      BY <2>1, <3>1, PlacesType
    <3> QED BY <2>2, <2>4, <3>2 DEF Pipe!Next, Pipe!Deliver
  <2> QED BY <2>1, <2>3, <2>4, NeverUnread
<1> HIDE DEF I
<1> QED BY <1>1, <1>2, <1>3, <1>4, PTL DEF Spec, ImplementsPipe, Pipe!Spec
=============================================================================
