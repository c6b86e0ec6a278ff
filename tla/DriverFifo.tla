----------------------------- MODULE DriverFifo -----------------------------
(***************************************************************************)
(* The receive side of one character device of the kernel driver           *)
(* driver/src/ncd.c, while the device is open: the DATA case of            *)
(* recv_from_daemon, ncd_read, and send_to_daemon.                         *)
(*                                                                         *)
(* Any number of threads may be inside ncd_read (they share the one open   *)
(* file).  fifo_lock is a spin lock.  A region under it is one step, except *)
(* that the loop of ncd_drain_pending_locked takes one step per chunk      *)
(* while its thread, at "drain", keeps the lock: the condition of          *)
(* wait_event_interruptible reads the kfifo without the lock and can fall  *)
(* between two of those steps.  What the code does after                   *)
(* spin_unlock is a later step: waking the readers, then KFIFO_FULL, in    *)
(* the DATA case; copy_to_user, then KFIFO_AVAILABLE, in ncd_read.         *)
(*                                                                         *)
(* recv_from_daemon runs inside the daemon's sendmsg(), and the daemon     *)
(* sends from one task only, so at most one DATA case is under way.        *)
(***************************************************************************)
EXTENDS Kfifo

CONSTANTS
    Readers,       \* threads that call read(2) on the open device
    ReadSizes,     \* byte counts they ask for, 0 excepted
    RcvBuf,        \* messages the daemon's netlink socket can hold
    AllocMayFail,  \* may GFP_ATOMIC allocations fail?
    CopyMayFail    \* may copy_to_user fail, because the buffer is not mapped?

ASSUME DriverAssumption ==
    /\ ReadSizes \subseteq Nat \ {0}
    /\ RcvBuf \in Nat
    /\ AllocMayFail \in BOOLEAN
    /\ CopyMayFail \in BOOLEAN

VARIABLES
    data_fifo,       \* kfifo: the bytes a read can take at once
    pending_chunks,  \* backlog of whole chunks that did not fit
    pending_bytes,   \* the driver's count of the bytes of the backlog
    kfifo_paused,    \* "daemon has been told to pause"
    rpc,             \* rpc[r]: where thread r is in ncd_read
    payload,         \* local of the DATA case: the chunk, until it is handled
    wake_reader,     \* local of the DATA case: readers still to be woken
    should_pause,    \* local of the DATA case: KFIFO_FULL still to be sent
    daemon_pid,      \* 0 once the driver takes the daemon for dead
    nlq,             \* messages queued on the daemon's netlink socket
    out,             \* history: the bytes reads took, in order
    dropped          \* history: has the driver dropped a chunk?

driverVars == <<data_fifo, pending_chunks, pending_bytes, kfifo_paused, rpc,
                payload, wake_reader, should_pause, daemon_pid, nlq, out,
                dropped>>

\* The value of daemon_pid while the driver knows the running daemon.
DaemonPid == 1

ReaderState == {"idle", "enter", "check", "asleep", "drain", "resume"}

DriverTypeOK ==
    /\ data_fifo \in Bytes
    /\ Len(data_fifo) <= FIFO_SIZE
    /\ pending_chunks \in Seq(Bytes)
    /\ pending_bytes \in Int
    /\ kfifo_paused \in BOOLEAN
    /\ rpc \in [Readers -> ReaderState]
    /\ payload \in Bytes
    /\ wake_reader \in BOOLEAN
    /\ should_pause \in BOOLEAN
    /\ daemon_pid \in {0, DaemonPid}
    /\ nlq \in Seq(FlowMsg)
    /\ out \in Bytes
    /\ dropped \in BOOLEAN

\* State right after ncd_open succeeded.
DriverInit ==
    /\ data_fifo = <<>>
    /\ pending_chunks = <<>>
    /\ pending_bytes = 0
    /\ kfifo_paused = FALSE
    /\ rpc = [r \in Readers |-> "idle"]
    /\ payload = <<>>
    /\ wake_reader = FALSE
    /\ should_pause = FALSE
    /\ daemon_pid = DaemonPid
    /\ nlq = <<>>
    /\ out = <<>>
    /\ dropped = FALSE

-----------------------------------------------------------------------------
kfifo_len   == Len(data_fifo)
kfifo_avail == FIFO_SIZE - Len(data_fifo)

Min2(a, b) == IF a <= b THEN a ELSE b

\* fifo_lock is held, between steps, by the thread that drains the backlog.
LockFree == \A r \in Readers : rpc[r] # "drain"

\* send_to_daemon for a message whose result the caller ignores.  A full
\* socket makes nlmsg_unicast fail, and the driver then forgets the daemon.
send_to_daemon(type) ==
    \/ /\ \/ daemon_pid = 0
          \/ AllocMayFail
       /\ UNCHANGED <<nlq, daemon_pid>>
    \/ /\ daemon_pid # 0
       /\ Len(nlq) < RcvBuf
       /\ nlq' = Append(nlq, type)
       /\ UNCHANGED daemon_pid
    \/ /\ daemon_pid # 0
       /\ Len(nlq) >= RcvBuf
       /\ daemon_pid' = 0
       /\ UNCHANGED nlq

-----------------------------------------------------------------------------
(***************************************************************************)
(* The DATA case of recv_from_daemon.                                      *)
(***************************************************************************)

\* No DATA case is running.
HandlerIdle == payload = <<>> /\ ~wake_reader /\ ~should_pause

\* The DATA case begins, with a chunk that is not empty.  A message that is not
\* from daemon_pid is ignored.
RecvData(chunk) ==
    /\ HandlerIdle
    /\ payload' = IF daemon_pid = 0 THEN <<>> ELSE chunk
    /\ UNCHANGED <<data_fifo, pending_chunks, pending_bytes, kfifo_paused, rpc,
                   wake_reader, should_pause, daemon_pid, nlq, out, dropped>>

\* Mutants: a chunk that fits overtakes the backlog; a chunk that does not fit
\* is taken when there is no backlog.
MustQueueOvertakes == kfifo_avail < Len(payload)
MustQueueOverfills == pending_chunks # <<>>

\* A backlog exists or the chunk does not fit: it must wait its turn.
MustQueue == pending_chunks # <<>> \/ kfifo_avail < Len(payload)

\* ncd_queue_pending_locked succeeds, allocation apart.
QueueHasRoom ==
    /\ Len(payload) <= FIFO_SIZE
    /\ pending_bytes <= FIFO_PENDING_LIMIT - Len(payload)

PauseFromBacklog ==
    /\ kfifo_paused' = TRUE
    /\ should_pause' = ~kfifo_paused

\* Mutant: list_add instead of list_add_tail.
DataQueuedInFront ==
    /\ payload # <<>>
    /\ LockFree
    /\ MustQueue
    /\ QueueHasRoom
    /\ pending_chunks' = <<payload>> \o pending_chunks
    /\ pending_bytes' = pending_bytes + Len(payload)
    /\ payload' = <<>>
    /\ PauseFromBacklog
    /\ UNCHANGED <<data_fifo, rpc, wake_reader, daemon_pid, nlq, out, dropped>>

\* The three outcomes of the region under fifo_lock.
DataQueued ==
    /\ payload # <<>>
    /\ LockFree
    /\ MustQueue
    /\ QueueHasRoom
    /\ pending_chunks' = Append(pending_chunks, payload)
    /\ pending_bytes' = pending_bytes + Len(payload)
    /\ payload' = <<>>
    /\ PauseFromBacklog
    /\ UNCHANGED <<data_fifo, rpc, wake_reader, daemon_pid, nlq, out, dropped>>

DataDropped ==
    /\ payload # <<>>
    /\ LockFree
    /\ MustQueue
    /\ ~QueueHasRoom \/ AllocMayFail
    /\ dropped' = TRUE
    /\ payload' = <<>>
    /\ PauseFromBacklog
    /\ UNCHANGED <<data_fifo, pending_chunks, pending_bytes, rpc, wake_reader,
                   daemon_pid, nlq, out>>

PauseFromFifo(used) ==
    /\ kfifo_paused' = (kfifo_paused \/ used >= FIFO_HIGH_WATERMARK)
    /\ should_pause' = (used >= FIFO_HIGH_WATERMARK /\ ~kfifo_paused)

\* Mutant: readers are woken only when the kfifo was not empty before.
DataStoredNoWake ==
    /\ payload # <<>>
    /\ LockFree
    /\ ~MustQueue
    /\ data_fifo' = data_fifo \o payload
    /\ wake_reader' = (data_fifo # <<>>)
    /\ payload' = <<>>
    /\ PauseFromFifo(kfifo_len + Len(payload))
    /\ UNCHANGED <<pending_chunks, pending_bytes, rpc, daemon_pid, nlq, out,
                   dropped>>

DataStored ==
    /\ payload # <<>>
    /\ LockFree
    /\ ~MustQueue
    /\ data_fifo' = data_fifo \o payload
    /\ wake_reader' = TRUE
    /\ payload' = <<>>
    /\ PauseFromFifo(kfifo_len + Len(payload))
    /\ UNCHANGED <<pending_chunks, pending_bytes, rpc, daemon_pid, nlq, out,
                   dropped>>

\* wake_up_interruptible(read_wait_queue), after the unlock.
DataWake ==
    /\ wake_reader
    /\ wake_reader' = FALSE
    /\ rpc' = [r \in Readers |-> IF rpc[r] = "asleep" THEN "check" ELSE rpc[r]]
    /\ UNCHANGED <<data_fifo, pending_chunks, pending_bytes, kfifo_paused,
                   payload, should_pause, daemon_pid, nlq, out, dropped>>

\* KFIFO_FULL leaves after the unlock and after the wake-up.
DataPause ==
    /\ ~wake_reader
    /\ should_pause
    /\ should_pause' = FALSE
    /\ send_to_daemon(KFIFO_FULL)
    /\ UNCHANGED <<data_fifo, pending_chunks, pending_bytes, kfifo_paused, rpc,
                   payload, wake_reader, out, dropped>>

-----------------------------------------------------------------------------
(***************************************************************************)
(* ncd_read.                                                               *)
(***************************************************************************)

ReadEnter(r) ==
    /\ rpc[r] = "idle"
    /\ rpc' = [rpc EXCEPT ![r] = "enter"]
    /\ UNCHANGED <<data_fifo, pending_chunks, pending_bytes, kfifo_paused,
                   payload, wake_reader, should_pause, daemon_pid, nlq, out,
                   dropped>>

\* Mutant: a reader that finds the kfifo empty just waits.
ReadEmptySilent(r) ==
    /\ rpc[r] = "enter"
    /\ LockFree
    /\ data_fifo = <<>>
    /\ rpc' = [rpc EXCEPT ![r] = "check"]
    /\ UNCHANGED <<data_fifo, pending_chunks, pending_bytes, kfifo_paused,
                   payload, wake_reader, should_pause, daemon_pid, nlq, out,
                   dropped>>

\* The kfifo is empty: ask the daemon for data, under the lock, then wait.
ReadEmpty(r) ==
    /\ rpc[r] = "enter"
    /\ LockFree
    /\ data_fifo = <<>>
    /\ send_to_daemon(KFIFO_AVAILABLE)
    /\ rpc' = [rpc EXCEPT ![r] = "check"]
    /\ UNCHANGED <<data_fifo, pending_chunks, pending_bytes, kfifo_paused,
                   payload, wake_reader, should_pause, out, dropped>>

\* wait_event_interruptible: the condition, read without the lock.
ReadCheck(r) ==
    /\ rpc[r] = "check"
    /\ rpc' = [rpc EXCEPT ![r] = IF data_fifo = <<>> THEN "asleep" ELSE "enter"]
    /\ UNCHANGED <<data_fifo, pending_chunks, pending_bytes, kfifo_paused,
                   payload, wake_reader, should_pause, daemon_pid, nlq, out,
                   dropped>>

\* A signal: the condition is evaluated once more, and only when it is false
\* does the read end, with -ERESTARTSYS.
ReadInterrupted(r) ==
    /\ rpc[r] \in {"check", "asleep"}
    /\ rpc' = [rpc EXCEPT ![r] = IF data_fifo = <<>> THEN "idle" ELSE "enter"]
    /\ UNCHANGED <<data_fifo, pending_chunks, pending_bytes, kfifo_paused,
                   payload, wake_reader, should_pause, daemon_pid, nlq, out,
                   dropped>>

\* kmalloc(want) fails: -ENOMEM, nothing taken.
ReadNoMem(r) ==
    /\ rpc[r] = "enter"
    /\ LockFree
    /\ data_fifo # <<>>
    /\ AllocMayFail
    /\ rpc' = [rpc EXCEPT ![r] = "idle"]
    /\ UNCHANGED <<data_fifo, pending_chunks, pending_bytes, kfifo_paused,
                   payload, wake_reader, should_pause, daemon_pid, nlq, out,
                   dropped>>

\* Mutant: the bytes are copied out but the last one stays in the kfifo.
ReadOutPeeks(r, count) ==
    /\ rpc[r] = "enter"
    /\ LockFree
    /\ data_fifo # <<>>
    /\ LET n == Min2(Min2(count, FIFO_SIZE), kfifo_len) IN
          /\ out' = out \o SubSeq(data_fifo, 1, n)
          /\ data_fifo' = SubSeq(data_fifo, n, kfifo_len)
    /\ rpc' = [rpc EXCEPT ![r] = "drain"]
    /\ UNCHANGED <<pending_chunks, pending_bytes, kfifo_paused, payload, wake_reader,
                   should_pause, daemon_pid, nlq, dropped>>

\* kfifo_out of up to count bytes; the lock is kept for the drain.
ReadOut(r, count) ==
    /\ rpc[r] = "enter"
    /\ LockFree
    /\ data_fifo # <<>>
    /\ LET n == Min2(Min2(count, FIFO_SIZE), kfifo_len) IN
          /\ out' = out \o SubSeq(data_fifo, 1, n)
          /\ data_fifo' = SubSeq(data_fifo, n + 1, kfifo_len)
    /\ rpc' = [rpc EXCEPT ![r] = "drain"]
    /\ UNCHANGED <<pending_chunks, pending_bytes, kfifo_paused, payload, wake_reader,
                   should_pause, daemon_pid, nlq, dropped>>

\* The next chunk of the backlog fits into the kfifo.
CanDrain == pending_chunks # <<>> /\ Len(Head(pending_chunks)) <= kfifo_avail

\* Mutant: the counter is not taken down.
ReadDrainUncounted(r) ==
    /\ rpc[r] = "drain"
    /\ CanDrain
    /\ data_fifo' = data_fifo \o Head(pending_chunks)
    /\ pending_chunks' = Tail(pending_chunks)
    /\ UNCHANGED <<pending_bytes, kfifo_paused, rpc, payload, wake_reader, should_pause,
                   daemon_pid, nlq, out, dropped>>

\* One iteration of ncd_drain_pending_locked.
ReadDrain(r) ==
    /\ rpc[r] = "drain"
    /\ CanDrain
    /\ data_fifo' = data_fifo \o Head(pending_chunks)
    /\ pending_chunks' = Tail(pending_chunks)
    /\ pending_bytes' = pending_bytes - Len(Head(pending_chunks))
    /\ UNCHANGED <<kfifo_paused, rpc, payload, wake_reader, should_pause, daemon_pid,
                   nlq, out, dropped>>

\* The drain loop is over: decide whether to resume the daemon, and unlock.
ShouldResume == pending_chunks = <<>> /\ kfifo_len < FIFO_LOW_WATERMARK

\* Mutant: the lock is released without waiting for the end of the drain.
ReadUnlockEarly(r) ==
    /\ rpc[r] = "drain"
    /\ kfifo_paused' = (kfifo_paused /\ ~ShouldResume)
    /\ rpc' = [rpc EXCEPT ![r] = IF ShouldResume THEN "resume" ELSE "idle"]
    /\ UNCHANGED <<data_fifo, pending_chunks, pending_bytes, payload, wake_reader,
                   should_pause, daemon_pid, nlq, out, dropped>>

ReadUnlock(r) ==
    /\ rpc[r] = "drain"
    /\ ~CanDrain
    /\ kfifo_paused' = (kfifo_paused /\ ~ShouldResume)
    /\ rpc' = [rpc EXCEPT ![r] = IF ShouldResume THEN "resume" ELSE "idle"]
    /\ UNCHANGED <<data_fifo, pending_chunks, pending_bytes, payload, wake_reader,
                   should_pause, daemon_pid, nlq, out, dropped>>

\* KFIFO_AVAILABLE leaves after the unlock and copy_to_user.
ReadResume(r) ==
    /\ rpc[r] = "resume"
    /\ send_to_daemon(KFIFO_AVAILABLE)
    /\ rpc' = [rpc EXCEPT ![r] = "idle"]
    /\ UNCHANGED <<data_fifo, pending_chunks, pending_bytes, kfifo_paused,
                   payload, wake_reader, should_pause, out, dropped>>

\* copy_to_user fails: -EFAULT, and no KFIFO_AVAILABLE although one was due.
ReadFault(r) ==
    /\ rpc[r] = "resume"
    /\ CopyMayFail
    /\ rpc' = [rpc EXCEPT ![r] = "idle"]
    /\ UNCHANGED <<data_fifo, pending_chunks, pending_bytes, kfifo_paused,
                   payload, wake_reader, should_pause, daemon_pid, nlq, out,
                   dropped>>
=============================================================================
