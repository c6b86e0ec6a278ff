--------------------------- MODULE DaemonSession ---------------------------
(***************************************************************************)
(* One device of the daemon: its start-up and the OPEN_REQ, DATA,          *)
(* CLOSE_REQ and tcp_rx branches of the main loop of                       *)
(* crates/ncdd/src/start.rs, and struct Device with its actor tasks,       *)
(* connection_run of crates/ncdd/src/device.rs.  Every successful open     *)
(* makes a connection and an actor, which lives on beside the next one.    *)
(* A connection has the number of the attempt it was made for.             *)
(*                                                                         *)
(* Left to DaemonFlow: shards, windows and pausing.  Here flush_device     *)
(* sends a queued message whenever it likes.                               *)
(***************************************************************************)
EXTENDS SessionBounds

CONSTANT
    MaxDaemons   \* bound: daemons started one after the other

ASSUME DaemonSessionAssumption == MaxDaemons \in Nat \ {0}

VARIABLES
    dpc,       \* "down", "register", "create", "select" or "opening"
    started,   \* daemons started so far, the number being the pid
    request,   \* attempt that Device::open is at work for
    write_tx,  \* connection whose actor the device's write_tx leads to, or 0
    pending,   \* messages waiting to be sent to the driver
    tcp_rx,    \* messages queued from all actors to the main loop
    actor,     \* actor[c]: "none", "running", "closing" or "gone"
    write_rx,  \* write_rx[c]: commands queued for it
    peerSent,  \* peerSent[c]: messages its peer has sent, while it lives
    arrived    \* history: <<c, n>>: connection c carried a write of another
               \* attempt, n

daemonVars == <<dpc, started, request, write_tx, pending, tcp_rx, actor, write_rx,
                peerSent, arrived>>

DaemonTypeOK ==
    /\ dpc \in {"down", "register", "create", "select", "opening"}
    /\ started \in 1..MaxDaemons
    /\ request \in 0..MaxOpens
    /\ write_tx \in 0..MaxOpens
    /\ pending \in Seq(Attempts)
    /\ tcp_rx \in Seq(Attempts)
    /\ actor \in [Attempts -> {"none", "running", "closing", "gone"}]
    /\ write_rx \in [Attempts -> Seq(0..MaxOpens)]
    /\ peerSent \in [Attempts -> 0..MaxData]
    /\ arrived \subseteq Attempts \X Attempts

\* The command Close; a Data command is the number of the attempt it is from.
Close == 0

DaemonInit ==
    /\ dpc = "select"
    /\ started = 1
    /\ request = 0
    /\ write_tx = 0
    /\ pending = <<>>
    /\ tcp_rx = <<>>
    /\ actor = [c \in Attempts |-> "none"]
    /\ write_rx = [c \in Attempts |-> <<>>]
    /\ peerSent = [c \in Attempts |-> 0]
    /\ arrived = {}

Alive(c) == actor[c] \in {"running", "closing"}

-----------------------------------------------------------------------------
\* send_command: queued, unless there is no actor or it has gone.  An actor
\* that is closing takes nothing from its queue any more.
send_command(cmd) ==
    IF write_tx # 0 /\ actor[write_tx] = "running"
    THEN write_rx' = [write_rx EXCEPT ![write_tx] = Append(@, cmd)]
    ELSE UNCHANGED write_rx

\* OPEN_REQ: the flow state is reset, and the loop waits for Device::open.
OnOpenReq(n) ==
    /\ dpc = "select"
    /\ pending' = <<>>
    /\ request' = n
    /\ dpc' = "opening"
    /\ UNCHANGED <<started, write_tx, tcp_rx, actor, write_rx, peerSent, arrived>>

\* Device::open succeeds.  The sender of an older actor is dropped.
Opened ==
    /\ dpc = "opening"
    /\ actor' = [actor EXCEPT ![request] = "running"]
    /\ write_tx' = request
    /\ request' = 0
    /\ dpc' = "select"
    /\ UNCHANGED <<started, pending, tcp_rx, write_rx, peerSent, arrived>>

\* Device::open fails, and write_tx stays as it was.
OpenFailed ==
    /\ dpc = "opening"
    /\ request' = 0
    /\ dpc' = "select"
    /\ UNCHANGED <<started, write_tx, pending, tcp_rx, actor, write_rx, peerSent,
                   arrived>>

OnData(n) ==
    /\ dpc = "select"
    /\ send_command(n)
    /\ UNCHANGED <<dpc, started, request, write_tx, pending, tcp_rx, actor,
                   peerSent, arrived>>

\* Mutant: close only tells the actor, and keeps its sender.
OnCloseReqKeepsSender ==
    /\ dpc = "select"
    /\ pending' = <<>>
    /\ UNCHANGED <<dpc, started, request, write_tx, tcp_rx, actor, write_rx,
                   peerSent, arrived>>

\* CLOSE_REQ: Device::close, and the flow state is reset.
OnCloseReq ==
    /\ dpc = "select"
    /\ send_command(Close)
    /\ write_tx' = 0
    /\ pending' = <<>>
    /\ UNCHANGED <<dpc, started, request, tcp_rx, actor, peerSent, arrived>>

\* A message from an actor, whichever it is of.
OnTcpData ==
    /\ dpc = "select"
    /\ tcp_rx # <<>>
    /\ pending' = Append(pending, Head(tcp_rx))
    /\ tcp_rx' = Tail(tcp_rx)
    /\ UNCHANGED <<dpc, started, request, write_tx, actor, write_rx, peerSent,
                   arrived>>

\* One round of flush_device.
FlushOne ==
    /\ dpc = "select"
    /\ pending # <<>>
    /\ pending' = Tail(pending)
    /\ UNCHANGED <<dpc, started, request, write_tx, tcp_rx, actor, write_rx,
                   peerSent, arrived>>

-----------------------------------------------------------------------------
(***************************************************************************)
(* The actors.                                                             *)
(***************************************************************************)
Turn(c, state) == actor' = [actor EXCEPT ![c] = state]

\* A message of the peer is forwarded: from the loop's read, or one of those
\* that close returns.
ActorForward(c) ==
    /\ Alive(c)
    /\ peerSent[c] < MaxData
    /\ peerSent' = [peerSent EXCEPT ![c] = @ + 1]
    /\ tcp_rx' = Append(tcp_rx, c)
    /\ UNCHANGED <<dpc, started, request, write_tx, pending, actor, write_rx,
                   arrived>>

\* A command, Data or Close.
ActorCommand(c) ==
    /\ actor[c] = "running"
    /\ write_rx[c] # <<>>
    /\ write_rx' = [write_rx EXCEPT ![c] = Tail(@)]
    /\ \/ /\ Head(write_rx[c]) = Close   \* the last command there is
          /\ Turn(c, "closing")
          /\ UNCHANGED arrived
       \/ /\ Head(write_rx[c]) # Close
          /\ arrived' = arrived \cup ({<<c, Head(write_rx[c])>>} \ Own)
          /\ UNCHANGED actor
    /\ UNCHANGED <<dpc, started, request, write_tx, pending, tcp_rx, peerSent>>

\* The loop is left: every sender is gone, or read or write fails.
ActorBreaks(c) ==
    /\ actor[c] = "running"
    /\ write_tx # c /\ write_rx[c] = <<>>
    /\ Turn(c, "closing")
    /\ UNCHANGED <<dpc, started, request, write_tx, pending, tcp_rx, write_rx,
                   peerSent, arrived>>

ActorLosesConn(c) ==
    /\ actor[c] = "running"
    /\ Turn(c, "closing")
    /\ write_rx' = [write_rx EXCEPT ![c] = <<>>]
    /\ UNCHANGED <<dpc, started, request, write_tx, pending, tcp_rx, peerSent,
                   arrived>>

\* libncd_runtime::close returns, and the task ends.
ActorEnds(c) ==
    /\ actor[c] = "closing"
    /\ Turn(c, "gone")
    /\ peerSent' = [peerSent EXCEPT ![c] = 0]
    /\ UNCHANGED <<dpc, started, request, write_tx, pending, tcp_rx, write_rx,
                   arrived>>

-----------------------------------------------------------------------------
\* The process dies, and everything in it.
DaemonDies ==
    /\ dpc # "down"
    /\ started < MaxDaemons
    /\ dpc' = "down"
    /\ request' = 0
    /\ write_tx' = 0
    /\ pending' = <<>>
    /\ tcp_rx' = <<>>
    /\ actor' = [c \in Attempts |-> IF Alive(c) THEN "gone" ELSE actor[c]]
    /\ write_rx' = [c \in Attempts |-> <<>>]
    /\ peerSent' = [c \in Attempts |-> 0]
    /\ UNCHANGED <<started, arrived>>

\* Start-up: a new socket, register, create_device.
DaemonStarts ==
    /\ dpc = "down"
    /\ started' = started + 1
    /\ dpc' = "register"
    /\ UNCHANGED <<request, write_tx, pending, tcp_rx, actor, write_rx, peerSent,
                   arrived>>

DaemonStep(from, to) ==
    /\ dpc = from
    /\ dpc' = to
    /\ UNCHANGED <<started, request, write_tx, pending, tcp_rx, actor, write_rx,
                   peerSent, arrived>>
=============================================================================
