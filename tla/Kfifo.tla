------------------------------- MODULE Kfifo -------------------------------
(***************************************************************************)
(* The constants that the driver (driver/src/ncd.c) and the daemon         *)
(* (crates/ncdd/src/start.rs) both define for the kernel FIFO of a device. *)
(* The code's values are FIFO_SIZE = 4096, 80% = 3276, 20% = 819 and a     *)
(* pending limit of 256 FIFOs; the assumption keeps only the relations     *)
(* between them that the code relies on.                                   *)
(***************************************************************************)
EXTENDS Integers, Sequences

CONSTANTS
    FIFO_SIZE,            \* capacity of the kfifo of a device, in bytes
    FIFO_HIGH_WATERMARK,  \* the driver reports FULL from here on
    FIFO_LOW_WATERMARK,   \* the driver reports AVAILABLE below it
    FIFO_PENDING_LIMIT    \* capacity of the driver's backlog, in bytes

ASSUME KfifoAssumption ==
    /\ FIFO_SIZE \in Nat
    /\ FIFO_HIGH_WATERMARK \in Nat
    /\ FIFO_LOW_WATERMARK \in Nat \ {0}
    /\ FIFO_LOW_WATERMARK <= FIFO_HIGH_WATERMARK
    /\ FIFO_HIGH_WATERMARK + FIFO_LOW_WATERMARK <= FIFO_SIZE
    /\ FIFO_PENDING_LIMIT \in Nat
    /\ FIFO_SIZE <= FIFO_PENDING_LIMIT

\* The largest chunk the daemon hands to the driver (start.rs).
SHARD_SIZE == FIFO_LOW_WATERMARK

\* Bytes are numbered by their position in the stream the peer sends, so that
\* loss, duplication and reordering are visible; a chunk is a sequence of them.
Byte  == Nat \ {0}
Bytes == Seq(Byte)

\* The driver's flow-control messages to the daemon.
KFIFO_FULL      == "KFIFO_FULL"
KFIFO_AVAILABLE == "KFIFO_AVAILABLE"
FlowMsg == {KFIFO_FULL, KFIFO_AVAILABLE}
=============================================================================
