---------------------------- MODULE FlowControl ----------------------------
(***************************************************************************)
(* One open device end to end, in the direction from the peer to the       *)
(* application: the actor task reads messages from the connection, the     *)
(* daemon's main loop cuts them up and sends them to the driver as far as  *)
(* its window and the driver's KFIFO_FULL / KFIFO_AVAILABLE messages let   *)
(* it, and application threads read them from the kfifo.                   *)
(*                                                                         *)
(* A DATA message is a call: recv_from_daemon runs inside the daemon's     *)
(* sendmsg.  The other direction is the queue nlq of the daemon's socket.  *)
(***************************************************************************)
EXTENDS DriverFifo, DaemonFlow, FiniteSets

\* The threads of the processes that share the open file are finitely many.
ASSUME ReadersAssumption == IsFiniteSet(Readers)

vars == <<driverVars, daemonVars>>

Init == DriverInit /\ DaemonInit

-----------------------------------------------------------------------------
\* recv_from_kernel hands the oldest message of the socket to the main loop.
recv_from_kernel(type) ==
    /\ nlq # <<>>
    /\ Head(nlq) = type
    /\ nlq' = Tail(nlq)
    /\ UNCHANGED <<data_fifo, pending_chunks, pending_bytes, kfifo_paused, rpc,
                   payload, wake_reader, should_pause, daemon_pid, out,
                   dropped>>

DaemonFull      == OnKfifoFull /\ recv_from_kernel(KFIFO_FULL)
DaemonAvailable == OnKfifoAvailable /\ recv_from_kernel(KFIFO_AVAILABLE)
DaemonTcp       == OnTcpData /\ UNCHANGED driverVars
DaemonShard     == queue_shards /\ UNCHANGED driverVars

\* send_data_to_kernel: the driver's DATA case runs inside the call, and the
\* daemon goes on once it has returned.
DaemonSend    == FlushChunk /\ RecvData(Head(pending))
DaemonFlushed == FlushDone /\ HandlerIdle /\ UNCHANGED driverVars
DaemonSendErr == AllocMayFail /\ FlushFails /\ HandlerIdle /\ UNCHANGED driverVars

HandlerStore == (DataQueued \/ DataDropped \/ DataStored) /\ UNCHANGED daemonVars
HandlerWake  == DataWake /\ UNCHANGED daemonVars
HandlerPause == DataPause /\ UNCHANGED daemonVars

Daemon == \/ DaemonFull \/ DaemonAvailable \/ DaemonTcp \/ DaemonShard
          \/ DaemonSend \/ DaemonFlushed \/ DaemonSendErr
          \/ HandlerStore \/ HandlerWake \/ HandlerPause

ActorReads    == (\E n \in MsgSizes : ActorRead(n)) /\ UNCHANGED driverVars
ActorCommands == ActorCommand /\ UNCHANGED driverVars
ActorEnds     == (ActorReadFails \/ ActorWriteFails \/ ActorExit)
                     /\ UNCHANGED driverVars

Actor == ActorReads \/ ActorCommands \/ ActorEnds

\* A thread inside ncd_read, signals and faults apart.
ReaderStep(r) ==
    /\ \/ ReadEmpty(r) \/ ReadCheck(r)
       \/ \E count \in ReadSizes : ReadOut(r, count)
       \/ ReadDrain(r) \/ ReadUnlock(r) \/ ReadResume(r)
    /\ UNCHANGED daemonVars

Call(r)   == ReadEnter(r) /\ UNCHANGED daemonVars
Signal(r) == ReadInterrupted(r) /\ UNCHANGED daemonVars
Fault(r)  == (ReadNoMem(r) \/ ReadFault(r)) /\ UNCHANGED daemonVars

Reader(r) == ReaderStep(r) \/ Call(r) \/ Signal(r) \/ Fault(r)

Next == Daemon \/ Actor \/ \E r \in Readers : Reader(r)

Spec == Init /\ [][Next]_vars

(***************************************************************************)
(* The fairness the code's scheduling gives: the daemon's task, the actor's*)
(* command loop and a thread inside ncd_read keep running (a thread that   *)
(* spins on fifo_lock gets it in the end, hence SF), and select!, which    *)
(* picks at random among its ready branches, starves none of them (SF).    *)
(* The application keeps calling read(2).  Nothing is assumed of the peer, *)
(* of signals or of faults.                                                *)
(***************************************************************************)
Fairness ==
    /\ WF_vars(Daemon)
    /\ SF_vars(DaemonFull \/ DaemonAvailable)
    /\ SF_vars(DaemonTcp)
    /\ WF_vars(ActorCommands)
    /\ \A r \in Readers : SF_vars(ReaderStep(r)) /\ WF_vars(Call(r))

FairSpec == Spec /\ Fairness

-----------------------------------------------------------------------------
(***************************************************************************)
(* Properties.                                                             *)
(***************************************************************************)

\* Every variable of the driver and of the daemon has its type.
TypeOK == DriverTypeOK /\ DaemonTypeOK

\* A backlog never waits behind an empty kfifo.  Queueing a chunk wakes nobody
\* (ncd.c, DATA case), so a reader that sleeps because the kfifo is empty would
\* never learn of it.  Holds whenever no thread is in the middle of a drain.
NoStrandedBacklog == LockFree /\ pending_chunks # <<>> => data_fifo # <<>>

\* A thread that sleeps in ncd_read while the kfifo has data is about to be
\* woken ("Wait until fifo has data", ncd.c).
SleepersHaveNoData ==
    \A r \in Readers : rpc[r] = "asleep" /\ data_fifo # <<>> => wake_reader

\* Bytes the driver holds for the device.
KernelBytes == kfifo_len + pending_bytes

\* What one KFIFO_AVAILABLE lets the daemon send: flush_device stops after the
\* chunk that takes inflight over the high watermark.
Window == FIFO_HIGH_WATERMARK + SHARD_SIZE

\* The most the driver can be made to hold: every KFIFO_AVAILABLE queued, or
\* owed by a thread that has decided to send one, opens one more window on top
\* of the current one and of what the kfifo held when it was decided.
KernelBound ==
    (FIFO_LOW_WATERMARK - 1) + Window * (1 + RcvBuf + Cardinality(Readers))

\* The daemon's window is all that keeps the driver's memory bounded: stale
\* KFIFO_AVAILABLE messages add up, but to no more than that.  A backlog limit
\* that covers the bound never drops a chunk (ncd.c, DATA case), as long as
\* allocation succeeds.
KernelBytesBounded ==
    /\ KernelBytes <= KernelBound
    /\ KernelBound <= FIFO_PENDING_LIMIT /\ ~AllocMayFail => ~dropped

\* What read(2) returns is never out of order and never a repetition, whatever
\* is dropped or lost on the way (kfifo, backlog, daemon queue, actor queue).
NoReordering ==
    \A i, j \in 1..Len(out) : i < j => out[i] < out[j]

\* What the driver holds is read in the end, backlog included, although only a
\* direct kfifo_in wakes the readers.
KernelDrained == []<>(KernelBytes = 0)

\* "Resume reading once both conditions clear" (start.rs, sync_device_reading):
\* the actor is not left paused for ever while the driver asks for no pause,
\* holds nothing, and the daemon has nothing queued.
ReadingResumes ==
    []<>~ /\ ~kfifo_paused
          /\ KernelBytes = 0
          /\ pending = <<>>
          /\ actor = "paused"

\* The same while the driver knows its daemon.
ReadingResumesWhileKnown == [](daemon_pid # 0) => ReadingResumes

\* An application whose blocked read is interrupted and called again now and
\* then receives everything the actor has read, while the driver knows its
\* daemon: the KFIFO_AVAILABLE of an empty kfifo (ncd_read) undoes a
\* KFIFO_FULL that arrived late.
EndToEnd ==
    /\ \A r \in Readers : SF_vars(Signal(r))
    /\ [](daemon_pid # 0)
    => /\ []<>(Len(out) = sent)
       /\ ReadingResumes
=============================================================================
