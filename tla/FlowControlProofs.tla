------------------------- MODULE FlowControlProofs -------------------------
(***************************************************************************)
(* Theorems about FlowControl, for every value of its constants.           *)
(***************************************************************************)
EXTENDS FlowControl, TLAPS

(***************************************************************************)
(* Facts about sequences that the steps below rest on.                     *)
(***************************************************************************)

LEMMA EmptyType == ASSUME NEW S PROVE <<>> \in Seq(S)
  OBVIOUS

\* A piece of a byte sequence, as kfifo_out and queue_shards cut it, is one.
LEMMA SubSeqType ==
    ASSUME NEW S, NEW s \in Seq(S), NEW m \in Nat \ {0}, NEW n \in Nat,
           n <= Len(s)
    PROVE  /\ SubSeq(s, m, n) \in Seq(S)
           /\ Len(SubSeq(s, m, n)) = IF m <= n THEN n - m + 1 ELSE 0
  OBVIOUS

\* The first chunk of a backlog or of the daemon's queue.
LEMMA HeadTailType ==
    ASSUME NEW S, NEW q \in Seq(S), q # <<>>
    PROVE  /\ Head(q) \in S
           /\ Tail(q) \in Seq(S)
           /\ Len(Tail(q)) = Len(q) - 1
           /\ \A i \in 1..Len(Tail(q)) : Tail(q)[i] = q[i + 1]
           /\ Head(q) = q[1]
  OBVIOUS

-----------------------------------------------------------------------------
(***************************************************************************)
(* Type correctness.                                                       *)
(***************************************************************************)

LEMMA SendType ==
    ASSUME TypeOK, NEW type \in FlowMsg, send_to_daemon(type)
    PROVE  nlq' \in Seq(FlowMsg) /\ daemon_pid' \in {0, DaemonPid}
<1>1. nlq \in Seq(FlowMsg) /\ daemon_pid \in {0, DaemonPid}
  BY DEF TypeOK, DriverTypeOK
<1> QED BY <1>1 DEF send_to_daemon

LEMMA SyncType ==
    ASSUME TypeOK, NEW p \in BOOLEAN, NEW e \in BOOLEAN, sync_device_reading(p, e)
    PROVE  read_paused' \in BOOLEAN /\ write_rx' \in Seq({"PauseRead", "ResumeRead"})
<1>1. \/ UNCHANGED <<read_paused, write_rx>>
      \/ /\ read_paused' = (p \/ ~e)
         /\ write_rx' = Append(write_rx, IF p \/ ~e THEN "PauseRead" ELSE "ResumeRead")
  BY Zenon DEF sync_device_reading
<1>2. read_paused' \in BOOLEAN
  BY <1>1, Zenon DEF TypeOK, DaemonTypeOK
<1>3. write_rx' \in Seq({"PauseRead", "ResumeRead"})
  BY <1>1, SMT DEF TypeOK, DaemonTypeOK
<1> QED BY <1>2, <1>3

LEMMA NextBytesType ==
    ASSUME NEW n \in Nat, sent \in Nat
    PROVE  NextBytes(n) \in Bytes
  BY DEF NextBytes, Bytes, Byte

\* The DATA case of the driver keeps the driver's types.
LEMMA RecvDataType ==
    ASSUME TypeOK, NEW chunk \in Bytes, RecvData(chunk)
    PROVE  DriverTypeOK'
<1>1. payload' \in Bytes
  BY EmptyType DEF RecvData, Bytes
<1> QED BY <1>1 DEF TypeOK, DriverTypeOK, RecvData

LEMMA StoreType ==
    ASSUME TypeOK, DataQueued \/ DataDropped \/ DataStored
    PROVE  DriverTypeOK'
<1> USE DEF TypeOK, DriverTypeOK
<1>0. /\ payload' \in Bytes
      /\ payload \in Seq(Byte) /\ data_fifo \in Seq(Byte)
      /\ Len(payload) \in Nat /\ Len(data_fifo) \in Nat
  <2>1. payload' = <<>>
    BY DEF DataQueued, DataDropped, DataStored
  <2>2. payload \in Seq(Byte) /\ data_fifo \in Seq(Byte)
    BY DEF Bytes
  <2> QED BY <2>1, <2>2, EmptyType DEF Bytes
<1>1. CASE DataQueued
  BY <1>0, <1>1 DEF DataQueued, PauseFromBacklog
<1>2. CASE DataDropped
  BY <1>0, <1>2 DEF DataDropped, PauseFromBacklog
<1>3. CASE DataStored
  <2>1. data_fifo' = data_fifo \o payload
    BY <1>3 DEF DataStored
  <2>2. data_fifo' \in Bytes /\ Len(data_fifo') = Len(data_fifo) + Len(payload)
    BY <1>0, <2>1 DEF Bytes
  <2>3. ~(FIFO_SIZE - Len(data_fifo) < Len(payload))
    BY <1>3 DEF DataStored, MustQueue, kfifo_avail
  <2>4. Len(data_fifo') <= FIFO_SIZE
    BY <1>0, <2>2, <2>3, KfifoAssumption
  <2> QED BY <1>0, <1>3, <2>2, <2>4 DEF DataStored, PauseFromFifo
<1> QED BY <1>1, <1>2, <1>3

\* A read that takes bytes keeps the types of what it cuts and appends.
LEMMA ReadOutType ==
    ASSUME TypeOK, NEW r \in Readers, NEW count \in ReadSizes, ReadOut(r, count)
    PROVE  DriverTypeOK'
<1> DEFINE n == Min2(Min2(count, FIFO_SIZE), kfifo_len)
<1>1. n \in Nat /\ n <= Len(data_fifo) /\ Len(data_fifo) \in Nat
  BY KfifoAssumption, DriverAssumption DEF Min2, kfifo_len, TypeOK, DriverTypeOK, Bytes
<1>2. out' = out \o SubSeq(data_fifo, 1, n)
      /\ data_fifo' = SubSeq(data_fifo, n + 1, Len(data_fifo))
  BY DEF ReadOut, kfifo_len
<1>3. /\ SubSeq(data_fifo, 1, n) \in Bytes
      /\ data_fifo' \in Bytes /\ Len(data_fifo') <= FIFO_SIZE
  <2>1. data_fifo \in Seq(Byte) /\ Len(data_fifo) <= FIFO_SIZE /\ FIFO_SIZE \in Nat
    BY KfifoAssumption DEF TypeOK, DriverTypeOK, Bytes
  <2>2. SubSeq(data_fifo, 1, n) \in Seq(Byte)
    BY <1>1, <2>1, SubSeqType
  <2>3. /\ data_fifo' \in Seq(Byte)
        /\ Len(data_fifo') = IF n + 1 <= Len(data_fifo)
                             THEN Len(data_fifo) - (n + 1) + 1 ELSE 0
    <3>1. n + 1 \in Nat \ {0}
      BY <1>1
    <3> QED BY <1>1, <1>2, <2>1, <3>1, SubSeqType
  <2> HIDE DEF n
  <2>4. Len(data_fifo') <= FIFO_SIZE
    BY <1>1, <2>1, <2>3
  <2> QED BY <2>2, <2>3, <2>4 DEF Bytes
<1>4. out' \in Bytes
  BY <1>2, <1>3 DEF TypeOK, DriverTypeOK, Bytes
<1> QED BY <1>3, <1>4 DEF TypeOK, DriverTypeOK, ReadOut, ReaderState

\* Every step of the system keeps the types.
LEMMA TypeStep == TypeOK /\ [Next]_vars => TypeOK'
<1> SUFFICES ASSUME TypeOK, [Next]_vars PROVE TypeOK'
  OBVIOUS
<1> USE KfifoAssumption, DriverAssumption, DaemonAssumption DEF TypeOK
<1>1. CASE DaemonFull
  <2>1. read_paused' \in BOOLEAN /\ write_rx' \in Seq({"PauseRead", "ResumeRead"})
    <3>1. sync_device_reading(TRUE, pending = <<>>)
      BY <1>1 DEF DaemonFull, OnKfifoFull
    <3> QED BY <3>1, SyncType
  <2> QED BY <1>1, <2>1, HeadTailType
      DEF DaemonFull, OnKfifoFull, recv_from_kernel, DriverTypeOK, DaemonTypeOK
<1>2. CASE DaemonAvailable
  BY <1>2, HeadTailType
     DEF DaemonAvailable, OnKfifoAvailable, recv_from_kernel, DriverTypeOK,
         DaemonTypeOK
<1>3. CASE DaemonTcp
  BY <1>3, HeadTailType
     DEF DaemonTcp, OnTcpData, DriverTypeOK, DaemonTypeOK, driverVars
<1>4. CASE DaemonShard
  <2>1. unsharded \in Bytes /\ Len(unsharded) \in Nat
    BY DEF DaemonTypeOK, Bytes
  <2>2. ShardLen \in Nat /\ ShardLen <= Len(unsharded)
    BY <2>1 DEF ShardLen, SHARD_SIZE
  <2>3. /\ SubSeq(unsharded, 1, ShardLen) \in Bytes
        /\ SubSeq(unsharded, ShardLen + 1, Len(unsharded)) \in Bytes
    BY <2>1, <2>2, SubSeqType DEF Bytes
  <2> QED BY <1>4, <2>3
      DEF DaemonShard, queue_shards, DriverTypeOK, DaemonTypeOK, driverVars
<1>5. CASE DaemonSend
  <2>1. /\ Head(pending) \in Bytes
        /\ Tail(pending) \in Seq(Bytes)
    BY <1>5, HeadTailType DEF DaemonSend, FlushChunk, CanFlush, DaemonTypeOK
  <2>2. DriverTypeOK'
    BY <1>5, <2>1, RecvDataType DEF DaemonSend
  <2>3. Len(Head(pending)) \in Nat
    BY <2>1 DEF Bytes
  <2> QED BY <1>5, <2>1, <2>2, <2>3 DEF DaemonSend, FlushChunk, DaemonTypeOK
<1>6. CASE DaemonFlushed \/ DaemonSendErr
  <2>1. FlushReturn /\ UNCHANGED driverVars
    BY <1>6 DEF DaemonFlushed, DaemonSendErr, FlushDone, FlushFails
  <2>2. read_paused' \in BOOLEAN /\ write_rx' \in Seq({"PauseRead", "ResumeRead"})
    <3>1. paused \in BOOLEAN /\ sync_device_reading(paused, pending = <<>>)
      BY <2>1 DEF FlushReturn, DaemonTypeOK
    <3> QED BY <3>1, SyncType
  <2> QED BY <2>1, <2>2 DEF FlushReturn, DriverTypeOK, DaemonTypeOK, driverVars
<1>14. CASE HandlerStore
  BY <1>14, StoreType DEF HandlerStore, DaemonTypeOK, daemonVars
<1>7. CASE HandlerWake
  BY <1>7 DEF HandlerWake, DataWake, DriverTypeOK, DaemonTypeOK, daemonVars,
              ReaderState
<1>8. CASE HandlerPause
  <2>1. send_to_daemon(KFIFO_FULL) /\ KFIFO_FULL \in FlowMsg
    BY <1>8 DEF HandlerPause, DataPause, FlowMsg
  <2>2. nlq' \in Seq(FlowMsg) /\ daemon_pid' \in {0, DaemonPid}
    BY <2>1, SendType
  <2> QED BY <1>8, <2>2
      DEF HandlerPause, DataPause, DriverTypeOK, DaemonTypeOK, daemonVars
<1>9. CASE ActorReads
  <2>1. PICK n \in MsgSizes : ActorRead(n)
    BY <1>9 DEF ActorReads
  <2>2. n \in Nat /\ sent \in Nat /\ sent + n \in 0..TotalBytes
    BY <2>1 DEF ActorRead, DaemonTypeOK
  <2>3. NextBytes(n) \in Bytes
    BY <2>2, NextBytesType
  <2> QED BY <1>9, <2>1, <2>2, <2>3
      DEF ActorReads, ActorRead, DriverTypeOK, DaemonTypeOK, driverVars
<1>10. CASE ActorCommands
  BY <1>10, HeadTailType
     DEF ActorCommands, ActorCommand, DriverTypeOK, DaemonTypeOK, driverVars
<1>11. CASE ActorEnds
  BY <1>11 DEF ActorEnds, ActorReadFails, ActorWriteFails, ActorExit,
               DriverTypeOK, DaemonTypeOK, driverVars
<1>12. CASE \E r \in Readers : Reader(r)
  <2>1. PICK r \in Readers : Reader(r)
    BY <1>12
  <2>2. DaemonTypeOK'
    BY <2>1 DEF Reader, ReaderStep, Call, Signal, Fault, DaemonTypeOK, daemonVars
  <2>3. CASE ReadEmpty(r) \/ ReadResume(r)
    <3>1. send_to_daemon(KFIFO_AVAILABLE) /\ KFIFO_AVAILABLE \in FlowMsg
      BY <2>3 DEF ReadEmpty, ReadResume, FlowMsg
    <3>2. nlq' \in Seq(FlowMsg) /\ daemon_pid' \in {0, DaemonPid}
      BY <3>1, SendType
    <3> QED BY <2>2, <2>3, <3>2 DEF ReadEmpty, ReadResume, DriverTypeOK, ReaderState
  <2>4. CASE \E count \in ReadSizes : ReadOut(r, count)
    BY <2>2, <2>4, ReadOutType
  <2>5. CASE ReadDrain(r)
    <3>1. /\ Head(pending_chunks) \in Bytes
          /\ Tail(pending_chunks) \in Seq(Bytes)
      BY <2>5, HeadTailType DEF ReadDrain, CanDrain, DriverTypeOK
    <3>2. data_fifo' \in Bytes /\ Len(data_fifo') <= FIFO_SIZE
      <4>1. data_fifo \in Seq(Byte) /\ Head(pending_chunks) \in Seq(Byte)
            /\ data_fifo' = data_fifo \o Head(pending_chunks)
        BY <2>5, <3>1 DEF ReadDrain, DriverTypeOK, Bytes
      <4>2. Len(data_fifo') = Len(data_fifo) + Len(Head(pending_chunks))
            /\ Len(data_fifo) \in Nat /\ Len(Head(pending_chunks)) \in Nat
        BY <4>1
      <4>3. Len(Head(pending_chunks)) <= FIFO_SIZE - Len(data_fifo)
        BY <2>5 DEF ReadDrain, CanDrain, kfifo_avail
      <4> QED BY <4>1, <4>2, <4>3 DEF Bytes
    <3> QED BY <2>2, <2>5, <3>1, <3>2 DEF ReadDrain, DriverTypeOK
  <2>6. CASE ReadCheck(r) \/ ReadInterrupted(r) \/ ReadNoMem(r) \/ ReadEnter(r)
             \/ ReadFault(r)
    BY <2>2, <2>6 DEF ReadCheck, ReadInterrupted, ReadNoMem, ReadEnter, ReadFault,
                      DriverTypeOK, ReaderState
  <2>7. CASE ReadUnlock(r)
    BY <2>2, <2>7 DEF ReadUnlock, DriverTypeOK, ReaderState
  <2> QED BY <2>1, <2>3, <2>4, <2>5, <2>6, <2>7
      DEF Reader, ReaderStep, Call, Signal, Fault
<1>13. CASE UNCHANGED vars
  BY <1>13 DEF vars, driverVars, daemonVars, DriverTypeOK, DaemonTypeOK
<1> QED BY <1>1, <1>2, <1>3, <1>4, <1>5, <1>6, <1>7, <1>8, <1>9, <1>10, <1>11,
           <1>12, <1>13, <1>14 DEF Next, Daemon, Actor

LEMMA TypeInit == Init => TypeOK
<1>1. DriverInit => DriverTypeOK
  <2> SUFFICES ASSUME DriverInit PROVE DriverTypeOK
    OBVIOUS
  <2>1. /\ data_fifo \in Bytes /\ Len(data_fifo) <= FIFO_SIZE /\ out \in Bytes
        /\ payload \in Bytes
        /\ pending_chunks \in Seq(Bytes) /\ nlq \in Seq(FlowMsg)
    BY EmptyType, KfifoAssumption DEF DriverInit, Bytes
  <2>2. /\ kfifo_paused \in BOOLEAN /\ wake_reader \in BOOLEAN
        /\ should_pause \in BOOLEAN /\ dropped \in BOOLEAN
    BY Zenon DEF DriverInit
  <2>3. /\ pending_bytes \in Int /\ daemon_pid \in {0, DaemonPid}
        /\ rpc \in [Readers -> ReaderState]
    BY DEF DriverInit, ReaderState
  <2> QED BY <2>1, <2>2, <2>3 DEF DriverTypeOK
<1>2. DaemonInit => DaemonTypeOK
  <2> SUFFICES ASSUME DaemonInit PROVE DaemonTypeOK
    OBVIOUS
  <2>1. /\ unsharded \in Bytes /\ tcp_rx \in Seq(Bytes) /\ pending \in Seq(Bytes)
        /\ write_rx \in Seq({"PauseRead", "ResumeRead"})
    BY EmptyType DEF DaemonInit, Bytes
  <2>2. paused \in BOOLEAN /\ read_paused \in BOOLEAN
    BY Zenon DEF DaemonInit
  <2>3. inflight \in Nat /\ sent \in 0..TotalBytes
    BY DaemonAssumption DEF DaemonInit
  <2>4. dpc = "select" /\ actor = "reading"
    BY DEF DaemonInit
  <2> QED BY <2>1, <2>2, <2>3, <2>4 DEF DaemonTypeOK
<1> QED BY <1>1, <1>2 DEF Init, TypeOK

\* Every variable keeps its type (the state of ncd.c, start.rs and device.rs).
THEOREM TypeCorrect == Spec => []TypeOK
  BY TypeInit, TypeStep, PTL DEF Spec

-----------------------------------------------------------------------------
(***************************************************************************)
(* A backlog never waits behind an empty kfifo.  The strengthening says    *)
(* that a chunk of the backlog always fits into an empty kfifo: that is    *)
(* what makes the drain loop refill the kfifo before the lock is released. *)
(***************************************************************************)

ChunksFit ==
    \A i \in 1..Len(pending_chunks) : Len(pending_chunks[i]) <= FIFO_SIZE

BacklogInv == TypeOK /\ ChunksFit /\ NoStrandedBacklog

LEMMA BacklogStep == BacklogInv /\ [Next]_vars => BacklogInv'
<1> SUFFICES ASSUME BacklogInv, [Next]_vars PROVE ChunksFit' /\ NoStrandedBacklog'
  BY TypeStep DEF BacklogInv
<1> USE DEF BacklogInv
<1> DEFINE driverBacklog == <<data_fifo, pending_chunks>>
<1>a. /\ Len(data_fifo) \in Nat
      /\ Len(pending_chunks) \in Nat
      /\ (data_fifo = <<>> <=> Len(data_fifo) = 0)
      /\ (pending_chunks = <<>> <=> Len(pending_chunks) = 0)
  BY DEF TypeOK, DriverTypeOK, Bytes
<1>0. ASSUME UNCHANGED driverBacklog, LockFree' => LockFree
      PROVE  ChunksFit' /\ NoStrandedBacklog'
  BY <1>0 DEF ChunksFit, NoStrandedBacklog
<1>1. CASE UNCHANGED driverVars
  BY <1>0, <1>1 DEF driverVars, LockFree
<1>2. CASE DaemonFull \/ DaemonAvailable \/ HandlerPause
  BY <1>0, <1>2 DEF DaemonFull, DaemonAvailable, recv_from_kernel, HandlerPause,
                    DataPause, LockFree
<1>3. CASE HandlerWake
  <2>1. LockFree' => LockFree
    BY <1>3 DEF HandlerWake, DataWake, LockFree, TypeOK, DriverTypeOK
  <2> QED BY <1>0, <1>3, <2>1 DEF HandlerWake, DataWake
<1>4. CASE DaemonSend
  BY <1>0, <1>4 DEF DaemonSend, RecvData, LockFree
<1>7. CASE HandlerStore
  <2>0. payload \in Bytes /\ Len(payload) \in Nat
    BY DEF TypeOK, DriverTypeOK, Bytes
  <2>1. CASE DataQueued
    <3>1. /\ Len(payload) <= FIFO_SIZE
          /\ pending_chunks' = Append(pending_chunks, payload)
          /\ data_fifo' = data_fifo
      BY <2>1 DEF DataQueued, QueueHasRoom
    <3>2. ChunksFit'
      BY <3>1, <2>0, <1>a DEF ChunksFit, TypeOK, DriverTypeOK
    <3>3. data_fifo # <<>>
      <4>1. CASE pending_chunks # <<>>
        BY <4>1, <2>1 DEF DataQueued, NoStrandedBacklog
      <4>2. CASE kfifo_avail < Len(payload)
        BY <4>2, <3>1, <2>0, <1>a, KfifoAssumption DEF kfifo_avail
      <4> QED BY <4>1, <4>2, <2>1 DEF DataQueued, MustQueue
    <3> QED BY <3>1, <3>2, <3>3 DEF NoStrandedBacklog
  <2>2. CASE DataDropped
    BY <1>0, <2>2 DEF DataDropped, LockFree
  <2>3. CASE DataStored
    BY <2>3 DEF DataStored, MustQueue, ChunksFit, NoStrandedBacklog
  <2> QED BY <1>7, <2>1, <2>2, <2>3 DEF HandlerStore
<1>5. CASE \E r \in Readers : Reader(r)
  <2>1. PICK r \in Readers : Reader(r)
    BY <1>5
  <2>2. CASE \/ ReadEmpty(r) \/ ReadResume(r) \/ ReadCheck(r) \/ ReadInterrupted(r)
             \/ ReadNoMem(r) \/ ReadEnter(r) \/ ReadFault(r)
    <3>1. UNCHANGED driverBacklog
      BY <2>2 DEF ReadEmpty, ReadResume, ReadCheck, ReadInterrupted, ReadNoMem,
                  ReadEnter, ReadFault
    <3>2. LockFree' => LockFree
      BY <2>2 DEF ReadEmpty, ReadResume, ReadCheck, ReadInterrupted, ReadNoMem,
                  ReadEnter, ReadFault, LockFree, TypeOK, DriverTypeOK
    <3> QED BY <1>0, <3>1, <3>2
  <2>3. CASE \E count \in ReadSizes : ReadOut(r, count)
    <3>1. pending_chunks' = pending_chunks /\ ~LockFree'
      BY <2>3 DEF ReadOut, LockFree, TypeOK, DriverTypeOK
    <3> QED BY <3>1 DEF ChunksFit, NoStrandedBacklog
  <2>4. CASE ReadDrain(r)
    <3>1. ~LockFree'
      BY <2>4 DEF ReadDrain, LockFree
    <3>2. ChunksFit'
      BY <2>4, HeadTailType, <1>a
         DEF ReadDrain, CanDrain, ChunksFit, TypeOK, DriverTypeOK
    <3> QED BY <3>1, <3>2 DEF NoStrandedBacklog
  <2>5. CASE ReadUnlock(r)
    <3>1. UNCHANGED driverBacklog /\ ~CanDrain
      BY <2>5 DEF ReadUnlock
    <3>2. ASSUME pending_chunks # <<>> PROVE data_fifo # <<>>
      <4>1. /\ Len(Head(pending_chunks)) <= FIFO_SIZE
            /\ Len(Head(pending_chunks)) \in Nat
        BY <3>2, <1>a, HeadTailType DEF ChunksFit, TypeOK, DriverTypeOK, Bytes
      <4> QED BY <3>1, <3>2, <4>1, <1>a, KfifoAssumption DEF CanDrain, kfifo_avail
    <3> QED BY <3>1, <3>2 DEF ChunksFit, NoStrandedBacklog
  <2> QED BY <2>1, <2>2, <2>3, <2>4, <2>5 DEF Reader, ReaderStep, Call, Signal, Fault
<1>6. CASE \/ DaemonTcp \/ DaemonShard \/ DaemonFlushed \/ DaemonSendErr \/ Actor
           \/ UNCHANGED vars
  BY <1>1, <1>6 DEF DaemonTcp, DaemonShard, DaemonFlushed, DaemonSendErr, Actor,
                    ActorReads, ActorCommands, ActorEnds, vars
<1> QED BY <1>2, <1>3, <1>4, <1>5, <1>6, <1>7 DEF Next, Daemon

\* A reader never sleeps in front of a backlog the driver holds for it (ncd.c,
\* DATA case and ncd_drain_pending_locked), whatever the sizes, limits, numbers
\* of threads and allocation failures.
THEOREM BacklogNeverStranded == Spec => []NoStrandedBacklog
<1>1. Init => BacklogInv
  BY TypeInit DEF Init, DriverInit, BacklogInv, ChunksFit, NoStrandedBacklog
<1>2. BacklogInv => NoStrandedBacklog
  BY DEF BacklogInv
<1> QED BY <1>1, <1>2, BacklogStep, PTL DEF Spec

-----------------------------------------------------------------------------
(***************************************************************************)
(* With a single thread reading the device, no wake-up is lost.  (With two *)
(* it can be: the lock-free condition of wait_event_interruptible can see  *)
(* the kfifo empty between kfifo_out and the drain of the other thread.)   *)
(***************************************************************************)

SingleReader == \A r, q \in Readers : r = q

SleepInv == TypeOK /\ SleepersHaveNoData

LEMMA SleepStep ==
    ASSUME SingleReader
    PROVE  SleepInv /\ [Next]_vars => SleepInv'
<1> SUFFICES ASSUME SleepInv, [Next]_vars PROVE SleepersHaveNoData'
  BY TypeStep DEF SleepInv
<1> USE DEF SleepInv
<1>1. CASE UNCHANGED driverVars
  BY <1>1 DEF driverVars, SleepersHaveNoData
<1>2. CASE DaemonFull \/ DaemonAvailable \/ HandlerPause
  BY <1>2 DEF DaemonFull, DaemonAvailable, recv_from_kernel, HandlerPause,
              DataPause, SleepersHaveNoData
<1>3. CASE HandlerWake
  BY <1>3 DEF HandlerWake, DataWake, SleepersHaveNoData
<1>4. CASE DaemonSend
  BY <1>4 DEF DaemonSend, RecvData, SleepersHaveNoData
<1>7. CASE HandlerStore
  BY <1>7 DEF HandlerStore, DataQueued, DataDropped, DataStored, SleepersHaveNoData
<1>5. CASE \E r \in Readers : Reader(r)
  <2>1. PICK r \in Readers : Reader(r)
    BY <1>5
  <2>2. \A q \in Readers : q = r
    BY SingleReader, <2>1 DEF SingleReader
  <2>3. rpc \in [Readers -> ReaderState]
    BY DEF TypeOK, DriverTypeOK
  <2>4. CASE \/ ReadEmpty(r) \/ ReadResume(r) \/ ReadInterrupted(r) \/ ReadNoMem(r)
             \/ ReadEnter(r) \/ ReadFault(r) \/ ReadUnlock(r) \/ ReadDrain(r)
             \/ \E count \in ReadSizes : ReadOut(r, count)
    <3>1. rpc'[r] # "asleep"
      BY <2>3, <2>4 DEF ReadEmpty, ReadResume, ReadInterrupted, ReadNoMem, ReadEnter,
                        ReadFault, ReadUnlock, ReadDrain, ReadOut
    <3> QED BY <2>2, <3>1 DEF SleepersHaveNoData
  <2>5. CASE ReadCheck(r)
    BY <2>2, <2>3, <2>5 DEF ReadCheck, SleepersHaveNoData
  <2> QED BY <2>1, <2>4, <2>5 DEF Reader, ReaderStep, Call, Signal, Fault
<1>6. CASE \/ DaemonTcp \/ DaemonShard \/ DaemonFlushed \/ DaemonSendErr \/ Actor
           \/ UNCHANGED vars
  BY <1>1, <1>6 DEF DaemonTcp, DaemonShard, DaemonFlushed, DaemonSendErr, Actor,
                    ActorReads, ActorCommands, ActorEnds, vars
<1> QED BY <1>2, <1>3, <1>4, <1>5, <1>6, <1>7 DEF Next, Daemon

\* ncd_read's wait and the wake-up of the DATA case (ncd.c): with one reader, a
\* sleeping reader with data in the kfifo is about to be woken.
THEOREM NoLostWakeup ==
    ASSUME SingleReader
    PROVE  Spec => []SleepersHaveNoData
<1>1. Init => SleepInv
  BY TypeInit DEF Init, DriverInit, SleepInv, SleepersHaveNoData
<1>2. SleepInv /\ [Next]_vars => SleepInv'
  BY SleepStep
<1>3. SleepInv => SleepersHaveNoData
  BY DEF SleepInv
<1> QED BY <1>1, <1>2, <1>3, PTL DEF Spec

-----------------------------------------------------------------------------
(***************************************************************************)
(* That no byte overtakes another one between the connection and read(2),  *)
(* for any number of reading threads and every kind of loss: order of bytes*)
(* in a sequence, and in a queue of chunks.                                *)
(***************************************************************************)
In(x, s)       == \E i \in 1..Len(s) : s[i] = x
InChunks(x, q) == \E i \in 1..Len(q) : In(x, q[i])

Incr(s)     == \A i, j \in 1..Len(s) : i < j => s[i] < s[j]
Below(s, t) == \A i \in 1..Len(s) : \A j \in 1..Len(t) : s[i] < t[j]

IncrChunks(q) ==
    /\ \A i \in 1..Len(q) : Incr(q[i])
    /\ \A i, j \in 1..Len(q) : i < j => Below(q[i], q[j])

LEMMA Empty ==
    /\ Incr(<<>>) /\ IncrChunks(<<>>)
    /\ \A x : ~In(x, <<>>) /\ ~InChunks(x, <<>>)
  BY DEF Incr, IncrChunks, In, InChunks

LEMMA BelowIn ==
    ASSUME NEW s, NEW t, \A x, y : In(x, s) /\ In(y, t) => x < y
    PROVE  Below(s, t)
  BY DEF Below, In

\* Concatenation, as kfifo_in does it.
LEMMA ConcatIncr ==
    ASSUME NEW s \in Bytes, NEW t \in Bytes, Incr(s), Incr(t), Below(s, t)
    PROVE  /\ Incr(s \o t)
           /\ \A x : In(x, s \o t) <=> In(x, s) \/ In(x, t)
<1>1. /\ s \in Seq(Byte) /\ t \in Seq(Byte) /\ Len(s) \in Nat /\ Len(t) \in Nat
      /\ Len(s \o t) = Len(s) + Len(t)
      /\ \A i \in 1..Len(s) + Len(t) :
            (s \o t)[i] = IF i <= Len(s) THEN s[i] ELSE t[i - Len(s)]
  BY DEF Bytes
<1>2. Incr(s \o t)
  <2> SUFFICES ASSUME NEW i \in 1..Len(s) + Len(t), NEW j \in 1..Len(s) + Len(t), i < j
               PROVE  (s \o t)[i] < (s \o t)[j]
    BY <1>1 DEF Incr
  <2>1. CASE j <= Len(s)
    BY <1>1, <2>1 DEF Incr
  <2>2. CASE i <= Len(s) /\ ~(j <= Len(s))
    <3>1. i \in 1..Len(s) /\ j - Len(s) \in 1..Len(t)
      BY <1>1, <2>2
    <3> QED BY <1>1, <2>2, <3>1 DEF Below
  <2>3. CASE ~(i <= Len(s))
    <3>1. i - Len(s) \in 1..Len(t) /\ j - Len(s) \in 1..Len(t) /\ ~(j <= Len(s))
      BY <1>1, <2>3
    <3>2. i - Len(s) < j - Len(s)
      BY <1>1
    <3> QED BY <1>1, <2>3, <3>1, <3>2 DEF Incr
  <2> QED BY <1>1, <2>1, <2>2, <2>3
<1>3. ASSUME NEW x PROVE In(x, s \o t) <=> In(x, s) \/ In(x, t)
  <2>1. ASSUME In(x, s \o t) PROVE In(x, s) \/ In(x, t)
    <3>1. PICK i \in 1..Len(s) + Len(t) : (s \o t)[i] = x
      BY <1>1, <2>1 DEF In
    <3>2. CASE i <= Len(s)
      BY <1>1, <3>1, <3>2 DEF In
    <3>3. CASE ~(i <= Len(s))
      <4>1. i - Len(s) \in 1..Len(t) /\ t[i - Len(s)] = x
        BY <1>1, <3>1, <3>3
      <4> QED BY <4>1 DEF In
    <3> QED BY <3>2, <3>3
  <2>2. ASSUME In(x, s) PROVE In(x, s \o t)
    BY <1>1, <2>2 DEF In
  <2>3. ASSUME In(x, t) PROVE In(x, s \o t)
    <3>1. PICK i \in 1..Len(t) : t[i] = x
      BY <2>3 DEF In
    <3>2. Len(s) + i \in 1..Len(s) + Len(t) /\ (s \o t)[Len(s) + i] = x
      BY <1>1, <3>1
    <3> QED BY <1>1, <3>2 DEF In
  <2> QED BY <2>1, <2>2, <2>3
<1> QED BY <1>2, <1>3

\* A sequence cut in two, as kfifo_out and queue_shards do it.
LEMMA CutIncr ==
    ASSUME NEW s \in Bytes, NEW n \in Nat, n <= Len(s), Incr(s)
    PROVE  /\ Incr(SubSeq(s, 1, n)) /\ Incr(SubSeq(s, n + 1, Len(s)))
           /\ Below(SubSeq(s, 1, n), SubSeq(s, n + 1, Len(s)))
           /\ \A x : In(x, SubSeq(s, 1, n)) => In(x, s)
           /\ \A x : In(x, SubSeq(s, n + 1, Len(s))) => In(x, s)
<1> DEFINE a == SubSeq(s, 1, n)
           b == SubSeq(s, n + 1, Len(s))
<1>1. s \in Seq(Byte) /\ Len(s) \in Nat
  BY DEF Bytes
<1>2. Len(a) = n /\ \A i \in 1..n : a[i] = s[i] /\ i \in 1..Len(s)
  BY <1>1
<1>3. /\ Len(b) = Len(s) - n
      /\ \A i \in 1..Len(s) - n : b[i] = s[n + i] /\ n + i \in 1..Len(s) /\ i \in Nat
  BY <1>1
<1> HIDE DEF a, b
<1>4. Incr(a) /\ \A x : In(x, a) => In(x, s)
  BY <1>2 DEF Incr, In
<1>5. \A x : In(x, b) => In(x, s)
  BY <1>3 DEF In
<1>6. Incr(b)
  <2> SUFFICES ASSUME NEW i \in 1..Len(s) - n, NEW j \in 1..Len(s) - n, i < j
               PROVE  b[i] < b[j]
    BY <1>3 DEF Incr
  <2>1. n + i < n + j
    OBVIOUS
  <2> QED BY <1>3, <2>1 DEF Incr
<1>7. Below(a, b)
  <2> SUFFICES ASSUME NEW i \in 1..n, NEW j \in 1..Len(s) - n PROVE a[i] < b[j]
    BY <1>2, <1>3 DEF Below
  <2>1. i < n + j
    OBVIOUS
  <2> QED BY <1>2, <1>3, <2>1 DEF Incr
<1> QED BY <1>4, <1>5, <1>6, <1>7 DEF a, b

\* The first chunk of a queue is taken out.
LEMMA TakeIncr ==
    ASSUME NEW q \in Seq(Bytes), q # <<>>, IncrChunks(q)
    PROVE  /\ Head(q) \in Bytes /\ Incr(Head(q)) /\ IncrChunks(Tail(q))
           /\ \A x, y : In(x, Head(q)) /\ InChunks(y, Tail(q)) => x < y
           /\ \A x : In(x, Head(q)) \/ InChunks(x, Tail(q)) => InChunks(x, q)
<1>1. /\ Head(q) \in Bytes /\ Head(q) = q[1] /\ 1 \in 1..Len(q) /\ Len(q) \in Nat
      /\ Len(Tail(q)) = Len(q) - 1
      /\ \A i \in 1..Len(Tail(q)) :
            Tail(q)[i] = q[i + 1] /\ i + 1 \in 1..Len(q) /\ 1 < i + 1 /\ i \in Nat
  BY HeadTailType
<1>2. Incr(Head(q))
  BY <1>1 DEF IncrChunks
<1>3. IncrChunks(Tail(q))
  <2>1. ASSUME NEW i \in 1..Len(Tail(q)) PROVE Incr(Tail(q)[i])
    BY <1>1, <2>1 DEF IncrChunks
  <2>2. ASSUME NEW i \in 1..Len(Tail(q)), NEW j \in 1..Len(Tail(q)), i < j
        PROVE  Below(Tail(q)[i], Tail(q)[j])
    <3>1. i + 1 < j + 1
      BY <2>2
    <3> QED BY <1>1, <3>1 DEF IncrChunks
  <2> QED BY <2>1, <2>2 DEF IncrChunks
<1>4. ASSUME NEW x, NEW y, In(x, Head(q)), InChunks(y, Tail(q)) PROVE x < y
  <2>1. PICK i \in 1..Len(Tail(q)) : In(y, Tail(q)[i])
    BY <1>4 DEF InChunks
  <2>2. Below(q[1], q[i + 1]) /\ In(y, q[i + 1]) /\ In(x, q[1])
    BY <1>1, <1>4, <2>1 DEF IncrChunks
  <2> QED BY <2>2 DEF Below, In
<1>5. ASSUME NEW x, In(x, Head(q)) \/ InChunks(x, Tail(q)) PROVE InChunks(x, q)
  <2>1. CASE In(x, Head(q))
    BY <1>1, <2>1 DEF InChunks
  <2>2. CASE InChunks(x, Tail(q))
    BY <1>1, <2>2 DEF InChunks
  <2> QED BY <1>5, <2>1, <2>2
<1> QED BY <1>1, <1>2, <1>3, <1>4, <1>5

\* A chunk is put at the end of a queue.
LEMMA PutIncr ==
    ASSUME NEW q \in Seq(Bytes), NEW c \in Bytes, IncrChunks(q), Incr(c),
           \A x, y : InChunks(x, q) /\ In(y, c) => x < y
    PROVE  /\ IncrChunks(Append(q, c))
           /\ \A x : InChunks(x, Append(q, c)) <=> InChunks(x, q) \/ In(x, c)
<1> DEFINE p == Append(q, c)
<1>1. /\ Len(q) \in Nat /\ Len(p) = Len(q) + 1
      /\ \A i \in 1..Len(q) : p[i] = q[i] /\ i \in 1..Len(p)
      /\ p[Len(q) + 1] = c /\ Len(q) + 1 \in 1..Len(p)
      /\ \A i \in 1..Len(p) : i \in 1..Len(q) \/ i = Len(q) + 1
  OBVIOUS
<1> HIDE DEF p
<1>2. \A i \in 1..Len(q) : Below(q[i], c)
  <2> SUFFICES ASSUME NEW i \in 1..Len(q) PROVE Below(q[i], c)
    OBVIOUS
  <2>1. \A x : In(x, q[i]) => InChunks(x, q)
    BY DEF InChunks
  <2> QED BY <2>1, BelowIn
<1>3. IncrChunks(p)
  <2>1. \A i \in 1..Len(p) : Incr(p[i])
    BY <1>1 DEF IncrChunks
  <2>2. ASSUME NEW i \in 1..Len(p), NEW j \in 1..Len(p), i < j
        PROVE  Below(p[i], p[j])
    <3>1. i \in 1..Len(q)
      BY <1>1, <2>2
    <3>2. CASE j \in 1..Len(q)
      BY <1>1, <2>2, <3>1, <3>2 DEF IncrChunks
    <3>3. CASE j = Len(q) + 1
      BY <1>1, <1>2, <3>1, <3>3
    <3> QED BY <1>1, <3>2, <3>3
  <2> QED BY <2>1, <2>2 DEF IncrChunks
<1>4. \A x : InChunks(x, p) <=> InChunks(x, q) \/ In(x, c)
  BY <1>1 DEF InChunks
<1> QED BY <1>3, <1>4 DEF p

-----------------------------------------------------------------------------
(***************************************************************************)
(* The seven places a byte passes through on its way to read(2), the one   *)
(* nearest to the application first.                                       *)
(***************************************************************************)
At(x, k) ==
    \/ k = 1 /\ In(x, out)
    \/ k = 2 /\ In(x, data_fifo)
    \/ k = 3 /\ InChunks(x, pending_chunks)
    \/ k = 4 /\ In(x, payload)
    \/ k = 5 /\ InChunks(x, pending)
    \/ k = 6 /\ In(x, unsharded)
    \/ k = 7 /\ InChunks(x, tcp_rx)

\* What is nearer to the application was sent earlier.
Ordered ==
    \A k, l \in 1..7 : \A x, y : k < l /\ At(x, k) /\ At(y, l) => x < y

\* Nothing is anywhere before the actor has read it.
Bounded == \A k \in 1..7 : \A x : At(x, k) => x <= sent

\* Every place is in order.
InOrder ==
    /\ Incr(out) /\ Incr(data_fifo) /\ IncrChunks(pending_chunks)
    /\ Incr(payload)
    /\ IncrChunks(pending) /\ Incr(unsharded) /\ IncrChunks(tcp_rx)

OrderInv == TypeOK /\ Ordered /\ Bounded /\ InOrder

places == <<out, data_fifo, pending_chunks, payload, pending, unsharded, tcp_rx>>

\* A step that takes bytes from place s to place t, or loses them on the way,
\* and that puts nothing behind what stays between the two.
LEMMA Move ==
    ASSUME Ordered, Bounded, sent' = sent,
           NEW t \in 1..7, NEW s \in 1..7, t <= s,
           \A k \in 1..7 : \A x : At(x, k)' => At(x, k) \/ (k = t /\ At(x, s)),
           \A l \in 1..7 : \A x, y :
              t < l /\ l <= s /\ At(x, t)' /\ At(y, l)' => x < y
    PROVE  Ordered' /\ Bounded'
<1>1. Bounded'
  BY DEF Bounded
<1>2. ASSUME NEW k \in 1..7, NEW l \in 1..7, NEW x, NEW y,
             k < l, At(x, k)', At(y, l)'
      PROVE  x < y
  <2>1. CASE At(x, k) /\ At(y, l)
    BY <1>2, <2>1 DEF Ordered
  <2>2. CASE k = t /\ At(x, s) /\ At(y, l)
    <3>1. CASE l <= s
      BY <1>2, <2>2, <3>1
    <3>2. CASE s < l
      BY <2>2, <3>2 DEF Ordered
    <3> QED BY <3>1, <3>2
  <2>3. CASE l = t /\ At(y, s) /\ At(x, k)
    <3>1. k < s
      BY <1>2, <2>3
    <3> QED BY <2>3, <3>1 DEF Ordered
  <2>4. CASE k = t /\ l = t
    BY <1>2, <2>4
  <2> QED BY <1>2, <2>1, <2>2, <2>3, <2>4
<1>3. Ordered'
  BY <1>2 DEF Ordered
<1> QED BY <1>1, <1>3

\* A step that moves no byte.
LEMMA Stay ==
    ASSUME OrderInv, UNCHANGED <<places, sent>>
    PROVE  Ordered' /\ Bounded' /\ InOrder'
<1>1. \A k \in 1..7 : \A x : At(x, k)' <=> At(x, k)
  BY DEF At, places
<1>2. Ordered' /\ Bounded'
  BY <1>1 DEF OrderInv, Ordered, Bounded
<1>3. InOrder'
  BY DEF OrderInv, InOrder, places
<1> QED BY <1>2, <1>3

-----------------------------------------------------------------------------
(***************************************************************************)
(* The steps that move bytes, from the connection towards read(2).         *)
(***************************************************************************)

\* What the actor reads is later than everything that is under way.
LEMMA ReadsInOrder ==
    ASSUME OrderInv, ActorReads
    PROVE  Ordered' /\ Bounded' /\ InOrder'
<1>1. PICK n \in MsgSizes : ActorRead(n)
  BY DEF ActorReads
<1> DEFINE c == NextBytes(n)
<1>2. n \in Nat /\ sent \in Nat /\ sent' = sent + n
  BY <1>1, DaemonAssumption DEF ActorRead, OrderInv, TypeOK, DaemonTypeOK
<1>3. c \in Bytes
  BY <1>2, NextBytesType
<1>4. Incr(c) /\ \A x : In(x, c) => sent < x /\ x <= sent'
  <2>1. Len(c) = n /\ \A i \in 1..n : c[i] = sent + i
    BY <1>2 DEF NextBytes
  <2> HIDE DEF c
  <2> QED BY <1>2, <2>1 DEF Incr, In
<1>5. /\ tcp_rx' = Append(tcp_rx, c) /\ tcp_rx \in Seq(Bytes)
      /\ UNCHANGED <<out, data_fifo, pending_chunks, payload, pending, unsharded>>
  BY <1>1 DEF ActorReads, ActorRead, driverVars, OrderInv, TypeOK, DaemonTypeOK
<1> HIDE DEF c
<1>6. \A k \in 1..7 : \A x : At(x, k) => x \in Int /\ x <= sent
  <2>1. \A k \in 1..7 : \A x : At(x, k) => x \in Byte
    <3>1. \A s \in Bytes : \A x : In(x, s) => x \in Byte
      BY DEF In, Bytes
    <3>2. \A q \in Seq(Bytes) : \A x : InChunks(x, q) => x \in Byte
      BY <3>1 DEF InChunks
    <3> QED BY <3>1, <3>2 DEF At, OrderInv, TypeOK, DriverTypeOK, DaemonTypeOK
  <2> QED BY <2>1 DEF OrderInv, Bounded, Byte
<1>7. \A x : In(x, c) => x \in Int
  BY <1>3 DEF In, Bytes, Byte
<1>8. \A x, y : InChunks(x, tcp_rx) /\ In(y, c) => x < y
  <2>1. \A x : InChunks(x, tcp_rx) => At(x, 7)
    BY DEF At
  <2> QED BY <1>2, <1>4, <1>6, <1>7, <2>1
<1>9. /\ IncrChunks(tcp_rx')
      /\ \A x : InChunks(x, tcp_rx') <=> InChunks(x, tcp_rx) \/ In(x, c)
  BY <1>3, <1>4, <1>5, <1>8, PutIncr DEF OrderInv, InOrder
<1>10. \A k \in 1..7 : \A x : At(x, k)' => At(x, k) \/ (k = 7 /\ In(x, c))
  BY <1>5, <1>9 DEF At
<1>11. Bounded'
  BY <1>2, <1>4, <1>6, <1>10 DEF Bounded
<1>12. ASSUME NEW k \in 1..7, NEW l \in 1..7, NEW x, NEW y,
              k < l, At(x, k)', At(y, l)'
       PROVE  x < y
  <2>1. At(x, k)
    BY <1>10, <1>12
  <2>2. CASE At(y, l)
    BY <1>12, <2>1, <2>2 DEF OrderInv, Ordered
  <2>3. CASE In(y, c)
    BY <1>2, <1>4, <1>6, <1>7, <2>1, <2>3
  <2> QED BY <1>10, <1>12, <2>2, <2>3
<1>13. Ordered'
  BY <1>12 DEF Ordered
<1>14. InOrder'
  BY <1>5, <1>9 DEF OrderInv, InOrder
<1> QED BY <1>11, <1>13, <1>14

\* The main loop takes a message from the actor's queue.
LEMMA TcpInOrder ==
    ASSUME OrderInv, DaemonTcp
    PROVE  Ordered' /\ Bounded' /\ InOrder'
<1>1. /\ tcp_rx # <<>> /\ tcp_rx \in Seq(Bytes)
      /\ unsharded' = Head(tcp_rx) /\ tcp_rx' = Tail(tcp_rx)
      /\ UNCHANGED <<out, data_fifo, pending_chunks, payload, pending, sent>>
  BY DEF DaemonTcp, OnTcpData, driverVars, OrderInv, TypeOK, DaemonTypeOK
<1>2. /\ Incr(unsharded') /\ IncrChunks(tcp_rx')
      /\ \A x, y : In(x, unsharded') /\ InChunks(y, tcp_rx') => x < y
      /\ \A x : In(x, unsharded') \/ InChunks(x, tcp_rx') => InChunks(x, tcp_rx)
  BY <1>1, TakeIncr DEF OrderInv, InOrder
<1>3. \A k \in 1..7 : \A x : At(x, k)' => At(x, k) \/ (k = 6 /\ At(x, 7))
  BY <1>1, <1>2 DEF At
<1>4. \A l \in 1..7 : \A x, y :
         6 < l /\ l <= 7 /\ At(x, 6)' /\ At(y, l)' => x < y
  BY <1>2 DEF At
<1>5. Ordered' /\ Bounded'
  BY <1>1, <1>3, <1>4, Move DEF OrderInv
<1> QED BY <1>1, <1>2, <1>5 DEF OrderInv, InOrder

\* One shard of a message goes to the end of the daemon's queue.
LEMMA ShardInOrder ==
    ASSUME OrderInv, DaemonShard
    PROVE  Ordered' /\ Bounded' /\ InOrder'
<1> DEFINE a == SubSeq(unsharded, 1, ShardLen)
           b == SubSeq(unsharded, ShardLen + 1, Len(unsharded))
<1>1. unsharded \in Bytes /\ unsharded \in Seq(Byte) /\ pending \in Seq(Bytes)
      /\ Len(unsharded) \in Nat
  BY DEF OrderInv, TypeOK, DaemonTypeOK, Bytes
<1>2. ShardLen \in Nat /\ ShardLen <= Len(unsharded)
  BY <1>1, KfifoAssumption DEF ShardLen, SHARD_SIZE
<1>3. a \in Bytes
  BY <1>1, <1>2, SubSeqType DEF Bytes
<1>4. /\ pending' = Append(pending, a) /\ unsharded' = b
      /\ UNCHANGED <<out, data_fifo, pending_chunks, payload, tcp_rx, sent>>
  BY DEF DaemonShard, queue_shards, driverVars
<1>5. /\ Incr(a) /\ Incr(b) /\ Below(a, b)
      /\ \A x : In(x, a) => In(x, unsharded)
      /\ \A x : In(x, b) => In(x, unsharded)
  BY <1>1, <1>2, CutIncr DEF OrderInv, InOrder
<1> HIDE DEF a, b
<1>6. \A x, y : InChunks(x, pending) /\ In(y, unsharded) => x < y
  <2>1. \A x : (InChunks(x, pending) => At(x, 5)) /\ (In(x, unsharded) => At(x, 6))
    BY DEF At
  <2> QED BY <2>1 DEF OrderInv, Ordered
<1>7. /\ IncrChunks(pending')
      /\ \A x : InChunks(x, pending') <=> InChunks(x, pending) \/ In(x, a)
  BY <1>1, <1>3, <1>4, <1>5, <1>6, PutIncr DEF OrderInv, InOrder
<1>8. \A k \in 1..7 : \A x : At(x, k)' => At(x, k) \/ (k = 5 /\ At(x, 6))
  BY <1>4, <1>5, <1>7 DEF At
<1>9. \A x, y : InChunks(x, pending') /\ In(y, unsharded') => x < y
  <2>1. \A x, y : In(x, a) /\ In(y, b) => x < y
    BY <1>5 DEF In, Below
  <2> QED BY <1>4, <1>5, <1>6, <1>7, <2>1
<1>10. \A l \in 1..7 : \A x, y :
          5 < l /\ l <= 6 /\ At(x, 5)' /\ At(y, l)' => x < y
  BY <1>9 DEF At
<1>11. Ordered' /\ Bounded'
  BY <1>4, <1>8, <1>10, Move DEF OrderInv
<1> QED BY <1>4, <1>5, <1>7, <1>11 DEF OrderInv, InOrder

\* A chunk enters the DATA case of the driver, or is ignored by it.
LEMMA SendInOrder ==
    ASSUME OrderInv, DaemonSend
    PROVE  Ordered' /\ Bounded' /\ InOrder'
<1>1. /\ pending # <<>> /\ pending \in Seq(Bytes)
      /\ pending' = Tail(pending)
      /\ payload' = <<>> \/ payload' = Head(pending)
      /\ UNCHANGED <<out, data_fifo, pending_chunks, unsharded, tcp_rx, sent>>
  BY DEF DaemonSend, FlushChunk, CanFlush, RecvData, OrderInv, TypeOK, DaemonTypeOK
<1>2. /\ Incr(Head(pending)) /\ IncrChunks(Tail(pending))
      /\ \A x, y : In(x, Head(pending)) /\ InChunks(y, Tail(pending)) => x < y
      /\ \A x : In(x, Head(pending)) \/ InChunks(x, Tail(pending))
                   => InChunks(x, pending)
  BY <1>1, TakeIncr DEF OrderInv, InOrder
<1>3. Incr(payload') /\ \A x : In(x, payload') => In(x, Head(pending))
  BY <1>1, <1>2, Empty
<1>4. \A k \in 1..7 : \A x : At(x, k)' => At(x, k) \/ (k = 4 /\ At(x, 5))
  BY <1>1, <1>2, <1>3 DEF At
<1>5. \A l \in 1..7 : \A x, y :
         4 < l /\ l <= 5 /\ At(x, 4)' /\ At(y, l)' => x < y
  BY <1>1, <1>2, <1>3 DEF At
<1>6. Ordered' /\ Bounded'
  BY <1>1, <1>4, <1>5, Move DEF OrderInv
<1> QED BY <1>1, <1>2, <1>3, <1>6 DEF OrderInv, InOrder

\* The chunk goes to the backlog, is dropped, or goes to the kfifo.
LEMMA StoreInOrder ==
    ASSUME OrderInv, HandlerStore
    PROVE  Ordered' /\ Bounded' /\ InOrder'
<1>1. /\ payload \in Bytes /\ data_fifo \in Bytes /\ pending_chunks \in Seq(Bytes)
      /\ payload' = <<>>
      /\ UNCHANGED <<out, pending, unsharded, tcp_rx, sent>>
  BY DEF HandlerStore, DataQueued, DataDropped, DataStored, daemonVars, OrderInv,
         TypeOK, DriverTypeOK
<1>2. Incr(payload') /\ \A x : ~In(x, payload')
  BY <1>1, Empty
<1>3. CASE DataQueued
  <2>1. pending_chunks' = Append(pending_chunks, payload) /\ data_fifo' = data_fifo
    BY <1>3 DEF DataQueued
  <2>2. \A x, y : InChunks(x, pending_chunks) /\ In(y, payload) => x < y
    <3>1. \A x : (InChunks(x, pending_chunks) => At(x, 3))
                 /\ (In(x, payload) => At(x, 4))
      BY DEF At
    <3> QED BY <3>1 DEF OrderInv, Ordered
  <2>3. /\ IncrChunks(pending_chunks')
        /\ \A x : InChunks(x, pending_chunks')
                     <=> InChunks(x, pending_chunks) \/ In(x, payload)
    BY <1>1, <2>1, <2>2, PutIncr DEF OrderInv, InOrder
  <2>4. \A k \in 1..7 : \A x : At(x, k)' => At(x, k) \/ (k = 3 /\ At(x, 4))
    BY <1>1, <1>2, <2>1, <2>3 DEF At
  <2>5. \A l \in 1..7 : \A x, y :
           3 < l /\ l <= 4 /\ At(x, 3)' /\ At(y, l)' => x < y
    BY <1>2 DEF At
  <2>6. Ordered' /\ Bounded'
    BY <1>1, <2>4, <2>5, Move DEF OrderInv
  <2> QED BY <1>1, <1>2, <2>1, <2>3, <2>6 DEF OrderInv, InOrder
<1>4. CASE DataDropped
  <2>1. UNCHANGED <<data_fifo, pending_chunks>>
    BY <1>4 DEF DataDropped
  <2>2. \A k \in 1..7 : \A x : At(x, k)' => At(x, k)
    BY <1>1, <1>2, <2>1 DEF At
  <2>3. Ordered' /\ Bounded'
    BY <1>1, <2>2 DEF OrderInv, Ordered, Bounded
  <2> QED BY <1>1, <1>2, <2>1, <2>3 DEF OrderInv, InOrder
<1>5. CASE DataStored
  <2>1. /\ data_fifo' = data_fifo \o payload
        /\ pending_chunks = <<>> /\ pending_chunks' = <<>>
    BY <1>5 DEF DataStored, MustQueue
  <2>2. Below(data_fifo, payload)
    <3>1. \A x : (In(x, data_fifo) => At(x, 2)) /\ (In(x, payload) => At(x, 4))
      BY DEF At
    <3>2. \A x, y : In(x, data_fifo) /\ In(y, payload) => x < y
      BY <3>1 DEF OrderInv, Ordered
    <3> QED BY <3>2, BelowIn
  <2>3. /\ Incr(data_fifo')
        /\ \A x : In(x, data_fifo') <=> In(x, data_fifo) \/ In(x, payload)
    BY <1>1, <2>1, <2>2, ConcatIncr DEF OrderInv, InOrder
  <2>4. \A x : ~InChunks(x, pending_chunks')
    BY <2>1, Empty
  <2>5. \A k \in 1..7 : \A x : At(x, k)' => At(x, k) \/ (k = 2 /\ At(x, 4))
    BY <1>1, <1>2, <2>3, <2>4 DEF At
  <2>6. \A l \in 1..7 : \A x, y :
           2 < l /\ l <= 4 /\ At(x, 2)' /\ At(y, l)' => x < y
    BY <1>2, <2>4 DEF At
  <2>7. Ordered' /\ Bounded'
    BY <1>1, <2>5, <2>6, Move DEF OrderInv
  <2> QED BY <1>1, <1>2, <2>1, <2>3, <2>7, Empty DEF OrderInv, InOrder
<1> QED BY <1>3, <1>4, <1>5 DEF HandlerStore

\* A reader takes the first bytes of the kfifo.
LEMMA OutInOrder ==
    ASSUME OrderInv, NEW r \in Readers, NEW count \in ReadSizes,
           ReadOut(r, count), UNCHANGED daemonVars
    PROVE  Ordered' /\ Bounded' /\ InOrder'
<1> DEFINE n == Min2(Min2(count, FIFO_SIZE), kfifo_len)
           a == SubSeq(data_fifo, 1, n)
           b == SubSeq(data_fifo, n + 1, Len(data_fifo))
<1>1. n \in Nat /\ n <= Len(data_fifo) /\ data_fifo \in Bytes /\ out \in Bytes
  BY KfifoAssumption, DriverAssumption
     DEF Min2, kfifo_len, OrderInv, TypeOK, DriverTypeOK, Bytes
<1>2. /\ out' = out \o a /\ data_fifo' = b
      /\ UNCHANGED <<pending_chunks, payload, pending, unsharded, tcp_rx, sent>>
  BY DEF ReadOut, kfifo_len, daemonVars
<1> HIDE DEF n
<1>3. a \in Bytes
  BY <1>1, SubSeqType DEF Bytes
<1>4. /\ Incr(a) /\ Incr(b) /\ Below(a, b)
      /\ \A x : In(x, a) => In(x, data_fifo)
      /\ \A x : In(x, b) => In(x, data_fifo)
  BY <1>1, CutIncr DEF OrderInv, InOrder
<1> HIDE DEF a, b
<1>5. \A x, y : In(x, out) /\ In(y, data_fifo) => x < y
  <2>1. \A x : (In(x, out) => At(x, 1)) /\ (In(x, data_fifo) => At(x, 2))
    BY DEF At
  <2> QED BY <2>1 DEF OrderInv, Ordered
<1>6. Below(out, a)
  BY <1>4, <1>5, BelowIn
<1>7. Incr(out') /\ \A x : In(x, out') <=> In(x, out) \/ In(x, a)
  BY <1>1, <1>2, <1>3, <1>4, <1>6, ConcatIncr DEF OrderInv, InOrder
<1>8. \A k \in 1..7 : \A x : At(x, k)' => At(x, k) \/ (k = 1 /\ At(x, 2))
  BY <1>2, <1>4, <1>7 DEF At
<1>9. \A x, y : In(x, out') /\ In(y, data_fifo') => x < y
  <2>1. \A x, y : In(x, a) /\ In(y, b) => x < y
    BY <1>4 DEF In, Below
  <2> QED BY <1>2, <1>4, <1>5, <1>7, <2>1
<1>10. \A l \in 1..7 : \A x, y :
          1 < l /\ l <= 2 /\ At(x, 1)' /\ At(y, l)' => x < y
  BY <1>9 DEF At
<1>11. Ordered' /\ Bounded'
  BY <1>2, <1>8, <1>10, Move DEF OrderInv
<1> QED BY <1>2, <1>4, <1>7, <1>11 DEF OrderInv, InOrder

\* The first chunk of the backlog follows into the kfifo.
LEMMA DrainInOrder ==
    ASSUME OrderInv, NEW r \in Readers, ReadDrain(r), UNCHANGED daemonVars
    PROVE  Ordered' /\ Bounded' /\ InOrder'
<1> DEFINE c == Head(pending_chunks)
<1>1. /\ pending_chunks # <<>> /\ pending_chunks \in Seq(Bytes)
      /\ data_fifo \in Bytes
      /\ data_fifo' = data_fifo \o c /\ pending_chunks' = Tail(pending_chunks)
      /\ UNCHANGED <<out, payload, pending, unsharded, tcp_rx, sent>>
  BY DEF ReadDrain, CanDrain, daemonVars, OrderInv, TypeOK, DriverTypeOK
<1>2. /\ c \in Bytes /\ Incr(c) /\ IncrChunks(pending_chunks')
      /\ \A x, y : In(x, c) /\ InChunks(y, pending_chunks') => x < y
      /\ \A x : In(x, c) \/ InChunks(x, pending_chunks')
                   => InChunks(x, pending_chunks)
  BY <1>1, TakeIncr DEF OrderInv, InOrder
<1> HIDE DEF c
<1>3. \A x, y : In(x, data_fifo) /\ InChunks(y, pending_chunks) => x < y
  <2>1. \A x : (In(x, data_fifo) => At(x, 2))
               /\ (InChunks(x, pending_chunks) => At(x, 3))
    BY DEF At
  <2> QED BY <2>1 DEF OrderInv, Ordered
<1>4. Below(data_fifo, c)
  BY <1>2, <1>3, BelowIn
<1>5. Incr(data_fifo') /\ \A x : In(x, data_fifo') <=> In(x, data_fifo) \/ In(x, c)
  BY <1>1, <1>2, <1>4, ConcatIncr DEF OrderInv, InOrder
<1>6. \A k \in 1..7 : \A x : At(x, k)' => At(x, k) \/ (k = 2 /\ At(x, 3))
  BY <1>1, <1>2, <1>5 DEF At
<1>7. \A x, y : In(x, data_fifo') /\ InChunks(y, pending_chunks') => x < y
  BY <1>2, <1>3, <1>5
<1>8. \A l \in 1..7 : \A x, y :
         2 < l /\ l <= 3 /\ At(x, 2)' /\ At(y, l)' => x < y
  BY <1>7 DEF At
<1>9. Ordered' /\ Bounded'
  BY <1>1, <1>6, <1>8, Move DEF OrderInv
<1> QED BY <1>1, <1>2, <1>5, <1>9 DEF OrderInv, InOrder

LEMMA OrderStep == OrderInv /\ [Next]_vars => OrderInv'
<1> SUFFICES ASSUME OrderInv, [Next]_vars PROVE OrderInv'
  OBVIOUS
<1>0. TypeOK'
  BY TypeStep DEF OrderInv
<1>1. CASE UNCHANGED <<places, sent>>
  BY <1>0, <1>1, Stay DEF OrderInv
<1>2. CASE ActorReads
  BY <1>0, <1>2, ReadsInOrder DEF OrderInv
<1>3. CASE DaemonTcp
  BY <1>0, <1>3, TcpInOrder DEF OrderInv
<1>4. CASE DaemonShard
  BY <1>0, <1>4, ShardInOrder DEF OrderInv
<1>5. CASE DaemonSend
  BY <1>0, <1>5, SendInOrder DEF OrderInv
<1>6. CASE HandlerStore
  BY <1>0, <1>6, StoreInOrder DEF OrderInv
<1>7. ASSUME NEW r \in Readers, Reader(r) PROVE OrderInv'
  <2>0. UNCHANGED daemonVars
    BY <1>7 DEF Reader, ReaderStep, Call, Signal, Fault
  <2>1. CASE \E count \in ReadSizes : ReadOut(r, count)
    BY <1>0, <2>0, <2>1, OutInOrder DEF OrderInv
  <2>2. CASE ReadDrain(r)
    BY <1>0, <2>0, <2>2, DrainInOrder DEF OrderInv
  <2>3. CASE \/ ReadEmpty(r) \/ ReadCheck(r) \/ ReadUnlock(r) \/ ReadResume(r)
             \/ ReadEnter(r) \/ ReadInterrupted(r) \/ ReadNoMem(r) \/ ReadFault(r)
    <3>1. UNCHANGED <<places, sent>>
      BY <2>0, <2>3 DEF ReadEmpty, ReadCheck, ReadUnlock, ReadResume, ReadEnter,
            ReadInterrupted, ReadNoMem, ReadFault, daemonVars, places
    <3> QED BY <1>1, <3>1
  <2> QED BY <1>7, <2>1, <2>2, <2>3 DEF Reader, ReaderStep, Call, Signal, Fault
<1>8. CASE DaemonFull \/ DaemonAvailable \/ DaemonFlushed \/ DaemonSendErr
  <2>1. UNCHANGED <<places, sent>>
    BY <1>8 DEF DaemonFull, OnKfifoFull, DaemonAvailable, OnKfifoAvailable,
          recv_from_kernel, DaemonFlushed, FlushDone, DaemonSendErr, FlushFails,
          FlushReturn, driverVars, places
  <2> QED BY <1>1, <2>1
<1>9. CASE HandlerWake \/ HandlerPause
  <2>1. UNCHANGED <<places, sent>>
    BY <1>9 DEF HandlerWake, DataWake, HandlerPause, DataPause, daemonVars, places
  <2> QED BY <1>1, <2>1
<1>10. CASE ActorCommands \/ ActorEnds
  <2>1. UNCHANGED <<places, sent>>
    BY <1>10 DEF ActorCommands, ActorCommand, ActorEnds, ActorReadFails,
          ActorWriteFails, ActorExit, driverVars, places
  <2> QED BY <1>1, <2>1
<1>11. CASE UNCHANGED vars
  <2>1. UNCHANGED <<places, sent>>
    BY <1>11 DEF vars, driverVars, daemonVars, places
  <2> QED BY <1>1, <2>1
<1> QED BY <1>2, <1>3, <1>4, <1>5, <1>6, <1>7, <1>8, <1>9, <1>10, <1>11
        DEF Next, Daemon, Actor

LEMMA OrderInit == Init => OrderInv
<1> SUFFICES ASSUME Init PROVE OrderInv
  OBVIOUS
<1>1. /\ out = <<>> /\ data_fifo = <<>> /\ pending_chunks = <<>> /\ payload = <<>>
      /\ pending = <<>> /\ unsharded = <<>> /\ tcp_rx = <<>>
  BY DEF Init, DriverInit, DaemonInit
<1>2. \A k \in 1..7 : \A x : ~At(x, k)
  BY <1>1, Empty DEF At
<1>3. Ordered /\ Bounded
  BY <1>2 DEF Ordered, Bounded
<1>4. InOrder
  BY <1>1, Empty DEF InOrder
<1> QED BY <1>3, <1>4, TypeInit DEF OrderInv

\* What read(2) returns is never out of order and never a repetition, however
\* many threads read and whatever is dropped or lost on the way (the kfifo and
\* the backlog of ncd.c, the queues of start.rs and device.rs).
THEOREM ReadsAreInOrder == Spec => []NoReordering
<1>1. OrderInv => NoReordering
  BY DEF OrderInv, InOrder, Incr, NoReordering
<1> QED BY <1>1, OrderInit, OrderStep, PTL DEF Spec
=============================================================================
