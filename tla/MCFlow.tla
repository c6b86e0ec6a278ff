------------------------------- MODULE MCFlow -------------------------------
(***************************************************************************)
(* Model-checking module of FlowControl: the properties that speak of the  *)
(* whole byte stream, and the refinement mapping to BytePipe.              *)
(***************************************************************************)
EXTENDS FlowControl, SequencesExt

\* Everything between the connection and the application, in order.
Stream == out \o data_fifo \o FlattenSeq(pending_chunks)
              \o payload \o FlattenSeq(pending) \o unsharded \o FlattenSeq(tcp_rx)

\* No byte is lost, repeated or overtaken anywhere between the actor and the
\* application, while nothing was dropped and the driver knows its daemon
\* (flush_device, the DATA case, ncd_drain_pending_locked, ncd_read).
NothingLost ==
    ~dropped /\ daemon_pid # 0 => Stream = [i \in 1..sent |-> i]

\* The counter the backlog's limit is checked against is the backlog's size
\* (ncd_queue_pending_locked, ncd_drain_pending_locked).
PendingBytesExact == pending_bytes = Len(FlattenSeq(pending_chunks))

Pipe == INSTANCE BytePipe WITH accepted <- sent, delivered <- out

\* The path implements a pipe, when nothing is dropped.
ImplementsPipe == Pipe!Spec


\* Threads are interchangeable.
ReaderSymmetry == Permutations(Readers)
=============================================================================
