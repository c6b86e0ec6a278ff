----------------------------- MODULE DaemonFlow -----------------------------
(***************************************************************************)
(* The daemon's side of one open device: the main loop of                  *)
(* crates/ncdd/src/start.rs (its KFIFO_FULL, KFIFO_AVAILABLE and tcp_rx    *)
(* branches, with queue_shards, flush_device and sync_device_reading) and  *)
(* the read half of the actor task of crates/ncdd/src/device.rs that owns  *)
(* the connection.                                                         *)
(*                                                                         *)
(* The main loop is one task: a handler runs to its end before the next    *)
(* select!.  The two loops inside a handler (over the shards of a message, *)
(* over the chunks to flush) take one step per iteration, because the      *)
(* driver's readers run between two sends of flush_device.                 *)
(***************************************************************************)
EXTENDS Kfifo

CONSTANTS
    MsgSizes,    \* sizes of the data messages the peer sends
    TotalBytes   \* bound: bytes the peer sends in a session

ASSUME DaemonAssumption ==
    /\ MsgSizes \subseteq Nat \ {0}
    /\ TotalBytes \in Nat

VARIABLES
    dpc,          \* "select", "shard" (queue_shards) or "flush" (flush_device)
    unsharded,    \* rest of the message queue_shards is cutting up
    paused,       \* the kernel has asked this device to pause
    inflight,     \* bytes sent since the last KFIFO_AVAILABLE
    pending,      \* chunks waiting to be sent to the kernel
    read_paused,  \* what the main loop last told the actor
    write_rx,     \* commands queued for the actor
    actor,        \* "reading", "paused", "draining" (after the loop) or "exited"
    tcp_rx,       \* messages queued from the actor to the main loop
    sent          \* bytes the actor has read from the connection so far

daemonVars == <<dpc, unsharded, paused, inflight, pending, read_paused,
                write_rx, actor, tcp_rx, sent>>

DaemonTypeOK ==
    /\ dpc \in {"select", "shard", "flush"}
    /\ unsharded \in Bytes
    /\ paused \in BOOLEAN
    /\ inflight \in Nat
    /\ pending \in Seq(Bytes)
    /\ read_paused \in BOOLEAN
    /\ write_rx \in Seq({"PauseRead", "ResumeRead"})
    /\ actor \in {"reading", "paused", "draining", "exited"}
    /\ tcp_rx \in Seq(Bytes)
    /\ sent \in 0..TotalBytes

DaemonInit ==
    /\ dpc = "select"
    /\ unsharded = <<>>
    /\ paused = FALSE
    /\ inflight = 0
    /\ pending = <<>>
    /\ read_paused = FALSE
    /\ write_rx = <<>>
    /\ actor = "reading"
    /\ tcp_rx = <<>>
    /\ sent = 0

-----------------------------------------------------------------------------
\* sync_device_reading: tell the actor when the wish to pause has changed.  A
\* command to an actor that has exited fails, and read_paused keeps its value.
sync_device_reading(kfifo_is_paused, pending_empty) ==
    LET should_pause_reading == kfifo_is_paused \/ ~pending_empty IN
    IF read_paused = should_pause_reading \/ actor = "exited"
    THEN UNCHANGED <<read_paused, write_rx>>
    ELSE /\ read_paused' = should_pause_reading
         /\ write_rx' = Append(write_rx, IF should_pause_reading
                                         THEN "PauseRead" ELSE "ResumeRead")

\* KFIFO_FULL from the driver.
OnKfifoFull ==
    /\ dpc = "select"
    /\ paused' = TRUE
    /\ sync_device_reading(TRUE, pending = <<>>)
    /\ UNCHANGED <<dpc, unsharded, inflight, pending, actor, tcp_rx, sent>>

\* KFIFO_AVAILABLE from the driver: a new window, then flush_device.
OnKfifoAvailable ==
    /\ dpc = "select"
    /\ paused' = FALSE
    /\ inflight' = 0
    /\ dpc' = "flush"
    /\ UNCHANGED <<unsharded, pending, read_paused, write_rx, actor, tcp_rx, sent>>

\* A message from the actor.
OnTcpData ==
    /\ dpc = "select"
    /\ tcp_rx # <<>>
    /\ unsharded' = Head(tcp_rx)
    /\ tcp_rx' = Tail(tcp_rx)
    /\ dpc' = "shard"
    /\ UNCHANGED <<paused, inflight, pending, read_paused, write_rx, actor, sent>>

\* One shard of queue_shards, the last of which is followed by flush_device.
ShardLen == IF Len(unsharded) <= SHARD_SIZE THEN Len(unsharded) ELSE SHARD_SIZE

queue_shards ==
    /\ dpc = "shard"
    /\ pending' = Append(pending, SubSeq(unsharded, 1, ShardLen))
    /\ unsharded' = SubSeq(unsharded, ShardLen + 1, Len(unsharded))
    /\ dpc' = IF Len(unsharded) <= SHARD_SIZE THEN "flush" ELSE "shard"
    /\ UNCHANGED <<paused, inflight, read_paused, write_rx, actor, tcp_rx, sent>>

\* Mutant: flush_device watches kernel back-pressure only, not its window.
CanFlushNoWindow == ~paused /\ pending # <<>>

\* flush_device goes on: not paused, something to send, and window left.
CanFlush == ~paused /\ pending # <<>> /\ inflight <= FIFO_HIGH_WATERMARK

\* One iteration of flush_device whose send succeeds.
FlushChunk ==
    /\ dpc = "flush"
    /\ CanFlush
    /\ pending' = Tail(pending)
    /\ inflight' = inflight + Len(Head(pending))
    /\ UNCHANGED <<dpc, unsharded, paused, read_paused, write_rx, actor, tcp_rx,
                   sent>>

\* flush_device returns; the handler ends with sync_device_reading.
FlushReturn ==
    /\ dpc = "flush"
    /\ dpc' = "select"
    /\ sync_device_reading(paused, pending = <<>>)
    /\ UNCHANGED <<unsharded, paused, inflight, pending, actor, tcp_rx, sent>>

FlushDone  == ~CanFlush /\ FlushReturn
FlushFails == CanFlush /\ FlushReturn   \* the chunk goes back to the front

-----------------------------------------------------------------------------
(***************************************************************************)
(* The actor, connection_run.                                              *)
(***************************************************************************)

\* The next n bytes of the peer's stream.
NextBytes(n) == [i \in 1..n |-> sent + i]

\* A message of n bytes: from libncd_runtime::read, or one of those that close
\* returned.
ActorRead(n) ==
    /\ actor \in {"reading", "draining"}
    /\ sent + n <= TotalBytes
    /\ tcp_rx' = Append(tcp_rx, NextBytes(n))
    /\ sent' = sent + n
    /\ UNCHANGED <<dpc, unsharded, paused, inflight, pending, read_paused,
                   write_rx, actor>>

\* PauseRead or ResumeRead from the main loop.
ActorCommand ==
    /\ actor \in {"reading", "paused"}
    /\ write_rx # <<>>
    /\ actor' = IF Head(write_rx) = "PauseRead" THEN "paused" ELSE "reading"
    /\ write_rx' = Tail(write_rx)
    /\ UNCHANGED <<dpc, unsharded, paused, inflight, pending, read_paused, tcp_rx,
                   sent>>

\* read fails, which it does only when no message is left: the loop ends, and
\* close has nothing to return.
ActorReadFails ==
    /\ actor = "reading"
    /\ actor' = "exited"
    /\ UNCHANGED <<dpc, unsharded, paused, inflight, pending, read_paused,
                   write_rx, tcp_rx, sent>>

\* write fails, whether reading is paused or not: the loop ends, and the
\* messages that close returns are still forwarded.
ActorWriteFails ==
    /\ actor \in {"reading", "paused"}
    /\ actor' = "draining"
    /\ UNCHANGED <<dpc, unsharded, paused, inflight, pending, read_paused,
                   write_rx, tcp_rx, sent>>

ActorExit ==
    /\ actor = "draining"
    /\ actor' = "exited"
    /\ UNCHANGED <<dpc, unsharded, paused, inflight, pending, read_paused,
                   write_rx, tcp_rx, sent>>
=============================================================================
