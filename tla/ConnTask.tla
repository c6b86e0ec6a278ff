------------------------------ MODULE ConnTask ------------------------------
(***************************************************************************)
(* The task that owns a connection: Connection::handshake, run,            *)
(* handle_packet and close_inner of crates/libncd-runtime/src/connection.rs*)
(* for both roles, each one await at a time.                               *)
(*                                                                         *)
(* A handler of select! is awaited inside its arm: while it sends or       *)
(* delivers (any label but "run") the task receives nothing, takes no      *)
(* request and watches no timer.                                           *)
(***************************************************************************)
EXTENDS Tcp

CONSTANTS
    BufferSize,   \* max_buffer_size: capacity of the channels to the handler
    MaxTicks,     \* bound: keep-alive and query-timer ticks of each endpoint
    MayTimeOut    \* endpoints whose peer_active_timeout_timer may fire

ASSUME TaskAssumption ==
    /\ BufferSize \in Nat \ {0}
    /\ MaxTicks \in [Node -> Nat]
    /\ MayTimeOut \subseteq Node

VARIABLES
    pc,           \* pc[e]: the await at which the task of e is
    hand,         \* hand[e]: the packet it is sending or delivering
    why,          \* why[e]: who made it call close_inner(false)
    outcome,      \* outcome[e]: what run() returned
    heardClose,   \* history: has e received ControlClose?
    ticks,        \* history: timer ticks so far
    transmitted,  \* history: Data packets e has written to its socket
    req,          \* request_rx: requests of the handler
    resp          \* packet_response_tx: data for the handler

taskVars == <<pc, hand, why, outcome, heardClose, ticks, transmitted>>
channels == <<req, resp>>

Idle  == Ctl("KeepAlive")   \* the value of hand[e] when it does not matter

Label == {"hello", "awaitHello", "ack", "awaitAck", "ping", "run", "send",
          "deliver", "sendClose", "await", "awaitDeliver", "drain",
          "drainSend", "drainClose", "drop", "dropped", "finished", "failed",
          "crashed"}

Outcome == {"none", "Normal", "PeerClosed", "UnexpectedEOF", "Io",
            "PeerInactiveTimeout", "CloseTimeout", "HandshakeError"}

TaskTypeOK ==
    /\ pc \in [Node -> Label]
    /\ hand \in [Node -> Packet]
    /\ why \in [Node -> {"user", "timeout"}]
    /\ outcome \in [Node -> Outcome]
    /\ heardClose \in [Node -> BOOLEAN]
    /\ ticks \in [Node -> Nat]
    /\ \A e \in Node : ticks[e] <= MaxTicks[e]
    /\ transmitted \in [Node -> Nat]
    /\ req \in [Node -> Seq(Packet)]
    /\ resp \in [Node -> Seq(Nat)]
    /\ \A e \in Node : Len(req[e]) <= BufferSize /\ Len(resp[e]) <= BufferSize

\* The TCP connection is established and accepted.
TaskInit ==
    /\ pc = [e \in Node |-> IF e = "Device" THEN "hello" ELSE "awaitHello"]
    /\ hand = [e \in Node |-> Idle]
    /\ why = [e \in Node |-> "user"]
    /\ outcome = [e \in Node |-> "none"]
    /\ heardClose = [e \in Node |-> FALSE]
    /\ ticks = [e \in Node |-> 0]
    /\ transmitted = [e \in Node |-> 0]
    /\ req = [e \in Node |-> <<>>]
    /\ resp = [e \in Node |-> <<>>]

-----------------------------------------------------------------------------
Goto(e, label) == pc' = [pc EXCEPT ![e] = label]

\* The task goes on to send or deliver a packet.
Hold(e, label, packet) ==
    /\ Goto(e, label)
    /\ hand' = [hand EXCEPT ![e] = packet]

\* run() returns; the Connection is dropped next.
Return(e, o) ==
    /\ Goto(e, "drop")
    /\ outcome' = [outcome EXCEPT ![e] = o]

Unheld == <<why, outcome, heardClose, ticks, transmitted>>

-----------------------------------------------------------------------------
(***************************************************************************)
(* handshake                                                               *)
(***************************************************************************)

SendHello(e) ==
    /\ \/ pc[e] = "hello" /\ Send(e, Ctl("Hello")) /\ Goto(e, "awaitAck")
       \/ pc[e] = "ack" /\ Send(e, Ctl("HelloAck")) /\ Goto(e, "ping")
    /\ UNCHANGED <<hand, Unheld, channels>>

Expected == [awaitHello |-> "Hello", awaitAck |-> "HelloAck"]
Awaits(e) == pc[e] \in DOMAIN Expected

RecvHello(e) ==
    /\ Awaits(e)
    /\ HasPacket(e, Expected[pc[e]])
    /\ Take(e)
    /\ Goto(e, IF pc[e] = "awaitHello" THEN "ack" ELSE "ping")
    /\ UNCHANGED <<hand, Unheld, channels>>

\* EOF, an error, or a packet other than the expected one: open fails, and the
\* connection is dropped.
HandshakeBroken(e) ==
    \/ pc[e] \in {"hello", "ack"} /\ SendCanFail(e)
    \/ Awaits(e) /\ (AtEof(e) \/ AtReset(e))
    \/ Awaits(e) /\ wire[e] # <<>> /\ Head(wire[e]).type # Expected[pc[e]]

HandshakeFails(e) ==
    /\ HandshakeBroken(e)
    /\ CloseSocket(e)
    /\ Goto(e, "failed")
    /\ outcome' = [outcome EXCEPT ![e] = "HandshakeError"]
    /\ UNCHANGED <<hand, why, heardClose, ticks, transmitted, channels>>

-----------------------------------------------------------------------------
(***************************************************************************)
(* run: the first ping, then one arm of select! at a time                  *)
(***************************************************************************)

FirstPing(e) ==
    /\ pc[e] = "ping"
    /\ Hold(e, "send", Ctl("Ping"))
    /\ UNCHANGED <<Unheld, tcpVars, channels>>

\* keep_alive_timer and peer_query_active_timer.
Tick(e) ==
    /\ pc[e] = "run"
    /\ ticks[e] < MaxTicks[e]
    /\ \E type \in {"KeepAlive", "Ping"} : Hold(e, "send", Ctl(type))
    /\ ticks' = [ticks EXCEPT ![e] = @ + 1]
    /\ UNCHANGED <<why, outcome, heardClose, transmitted, tcpVars, channels>>

\* peer_active_timeout_timer.  The task may have been kept from its select! for
\* longer than the timeout, so packets may well be waiting.
PeerInactive(e) ==
    /\ pc[e] = "run"
    /\ e \in MayTimeOut
    /\ Goto(e, "sendClose")
    /\ why' = [why EXCEPT ![e] = "timeout"]
    /\ UNCHANGED <<hand, outcome, heardClose, ticks, transmitted, tcpVars, channels>>

\* recv_packet, then handle_packet.
RunPing(e) ==
    /\ pc[e] = "run"
    /\ HasPacket(e, "Ping")
    /\ Take(e)
    /\ Hold(e, "send", Ctl("Pong"))
    /\ UNCHANGED <<Unheld, channels>>

RunIgnored(e) ==
    /\ pc[e] = "run"
    /\ HasPacket(e, "Pong") \/ HasPacket(e, "KeepAlive")
    /\ Take(e)
    /\ UNCHANGED <<taskVars, channels>>

RunData(e) ==
    /\ pc[e] = "run"
    /\ HasPacket(e, "Data")
    /\ Take(e)
    /\ Hold(e, "deliver", Head(wire[e]))
    /\ UNCHANGED <<Unheld, channels>>

RunClose(e) ==
    /\ pc[e] = "run"
    /\ HasPacket(e, "Close")
    /\ Take(e)
    /\ Goto(e, "drain")
    /\ heardClose' = [heardClose EXCEPT ![e] = TRUE]
    /\ UNCHANGED <<hand, why, outcome, ticks, transmitted, channels>>

RunEnds(e) ==
    /\ pc[e] = "run"
    /\ \/ AtEof(e) /\ Return(e, "UnexpectedEOF")
       \/ AtReset(e) /\ Return(e, "Io")
    /\ UNCHANGED <<hand, why, heardClose, ticks, transmitted, tcpVars, channels>>

PopRequest(e) == req' = [req EXCEPT ![e] = Tail(@)] /\ UNCHANGED resp

RunSend(e) ==
    /\ pc[e] = "run"
    /\ req[e] # <<>>
    /\ Head(req[e]).type = "Data"
    /\ PopRequest(e)
    /\ Hold(e, "send", Head(req[e]))
    /\ UNCHANGED <<Unheld, tcpVars>>

\* Mutant: a Close interrupts the send before it.
RunCloseRequestInterrupts(e) ==
    /\ pc[e] \in {"run", "send"}
    /\ req[e] # <<>>
    /\ Head(req[e]).type = "Close"
    /\ PopRequest(e)
    /\ Goto(e, "sendClose")
    /\ why' = [why EXCEPT ![e] = "user"]
    /\ UNCHANGED <<hand, outcome, heardClose, ticks, transmitted, tcpVars>>

\* Mutant: the request is taken, but the task goes on.
RunCloseRequestIgnored(e) ==
    /\ pc[e] = "run"
    /\ req[e] # <<>>
    /\ Head(req[e]).type = "Close"
    /\ PopRequest(e)
    /\ UNCHANGED <<taskVars, tcpVars>>

RunCloseRequest(e) ==
    /\ pc[e] = "run"
    /\ req[e] # <<>>
    /\ Head(req[e]).type = "Close"
    /\ PopRequest(e)
    /\ Goto(e, "sendClose")
    /\ why' = [why EXCEPT ![e] = "user"]
    /\ UNCHANGED <<hand, outcome, heardClose, ticks, transmitted, tcpVars>>

CountSent(e) ==
    transmitted' = [transmitted EXCEPT ![e] = IF hand[e].type = "Data" THEN @ + 1 ELSE @]

\* Mutant: another arm of select! cancels the send.
SendCancelled(e) ==
    /\ pc[e] \in {"send", "drainSend"}
    /\ \/ Send(e, hand[e]) /\ CountSent(e)
       \/ UNCHANGED <<tcpVars, transmitted>>
    /\ Hold(e, IF pc[e] = "send" THEN "run" ELSE "drain", Idle)
    /\ UNCHANGED <<why, outcome, heardClose, ticks, channels>>

\* send_packet returns; on to the next turn of the loop it was called from.
SendDone(e) ==
    /\ pc[e] \in {"send", "drainSend"}
    /\ Send(e, hand[e])
    /\ Hold(e, IF pc[e] = "send" THEN "run" ELSE "drain", Idle)
    /\ CountSent(e)
    /\ UNCHANGED <<why, outcome, heardClose, ticks, channels>>

\* send_packet, flush or shutdown fails, and `?` ends run().
SendFails(e) ==
    /\ pc[e] \in {"send", "sendClose", "drainSend", "drainClose"}
    /\ SendCanFail(e)
    /\ Return(e, "Io")
    /\ UNCHANGED <<hand, why, heardClose, ticks, transmitted, tcpVars, channels>>

\* Mutant: the channel has no bound.
DeliverUnbounded(e) ==
    /\ pc[e] \in {"deliver", "awaitDeliver"}
    /\ resp' = [resp EXCEPT ![e] = Append(@, hand[e].n)]
    /\ Hold(e, IF pc[e] = "deliver" THEN "run" ELSE "await", Idle)
    /\ UNCHANGED <<Unheld, tcpVars, req>>

\* handle_data_packet waits for room in the channel to the handler.
Deliver(e) ==
    /\ pc[e] \in {"deliver", "awaitDeliver"}
    /\ Len(resp[e]) < BufferSize
    /\ resp' = [resp EXCEPT ![e] = Append(@, hand[e].n)]
    /\ Hold(e, IF pc[e] = "deliver" THEN "run" ELSE "await", Idle)
    /\ UNCHANGED <<Unheld, tcpVars, req>>

-----------------------------------------------------------------------------
(***************************************************************************)
(* close_inner(false): we close.                                           *)
(***************************************************************************)

SendClose(e) ==
    /\ pc[e] = "sendClose"
    /\ SendLast(e, Ctl("Close"))
    /\ Goto(e, "await")
    /\ UNCHANGED <<hand, Unheld, channels>>

\* close_inner returned Ok: run() returns Ok for a request to close, but
\* PeerInactiveTimeout when the timer was the reason.
Closed(e) ==
    Return(e, IF why[e] = "user" THEN "Normal" ELSE "PeerInactiveTimeout")

AwaitClose(e) ==
    /\ pc[e] = "await"
    /\ HasPacket(e, "Close")
    /\ Take(e)
    /\ Closed(e)
    /\ heardClose' = [heardClose EXCEPT ![e] = TRUE]
    /\ UNCHANGED <<hand, why, ticks, transmitted, channels>>

\* Mutant: data that arrives while we wait for the peer's close is ignored.
AwaitDataIgnored(e) ==
    /\ pc[e] = "await"
    /\ HasPacket(e, "Data")
    /\ Take(e)
    /\ UNCHANGED <<taskVars, channels>>

AwaitData(e) ==
    /\ pc[e] = "await"
    /\ HasPacket(e, "Data")
    /\ Take(e)
    /\ Hold(e, "awaitDeliver", Head(wire[e]))
    /\ UNCHANGED <<Unheld, channels>>

AwaitIgnored(e) ==
    /\ pc[e] = "await"
    /\ wire[e] # <<>>
    /\ Head(wire[e]).type \notin {"Close", "Data"}
    /\ Take(e)
    /\ UNCHANGED <<taskVars, channels>>

\* EOF is an error; a failed read just ends the wait.
AwaitEnds(e) ==
    /\ pc[e] = "await"
    /\ \/ AtEof(e) /\ Return(e, "UnexpectedEOF")
       \/ AtReset(e) /\ Closed(e)
    /\ UNCHANGED <<hand, why, heardClose, ticks, transmitted, tcpVars, channels>>

\* The timeout covers the delivery too: the packet in hand is lost with it.
CloseTimeout(e) ==
    /\ pc[e] \in {"await", "awaitDeliver"}
    /\ Return(e, "CloseTimeout")
    /\ UNCHANGED <<hand, why, heardClose, ticks, transmitted, tcpVars, channels>>

-----------------------------------------------------------------------------
(***************************************************************************)
(* close_inner(true): the peer closed.                                     *)
(***************************************************************************)

DrainSend(e) ==
    /\ pc[e] = "drain"
    /\ req[e] # <<>>
    /\ Head(req[e]).type = "Data"
    /\ PopRequest(e)
    /\ Hold(e, "drainSend", Head(req[e]))
    /\ UNCHANGED <<Unheld, tcpVars>>

\* Mutants: the requests that are left are not looked at; only a Close ends the
\* loop.
DrainStopsEarly(e) ==
    /\ pc[e] = "drain"
    /\ Goto(e, "drainClose")
    /\ UNCHANGED <<hand, Unheld, channels, tcpVars>>

DrainStopsAtClose(e) ==
    /\ pc[e] = "drain"
    /\ req[e] # <<>>
    /\ Head(req[e]).type = "Close"
    /\ PopRequest(e)
    /\ Goto(e, "drainClose")
    /\ UNCHANGED <<hand, Unheld, tcpVars>>

DrainStops(e) ==
    /\ pc[e] = "drain"
    /\ \/ req[e] = <<>> /\ UNCHANGED channels
       \/ req[e] # <<>> /\ Head(req[e]).type = "Close" /\ PopRequest(e)
    /\ Goto(e, "drainClose")
    /\ UNCHANGED <<hand, Unheld, tcpVars>>

DrainClose(e) ==
    /\ pc[e] = "drainClose"
    /\ SendLast(e, Ctl("Close"))
    /\ Return(e, "PeerClosed")
    /\ UNCHANGED <<hand, why, heardClose, ticks, transmitted, channels>>

-----------------------------------------------------------------------------
\* The Connection is dropped: its socket and its ends of the channels close.
Drop(e) ==
    /\ pc[e] = "drop"
    /\ CloseSocket(e)
    /\ Goto(e, "dropped")
    /\ UNCHANGED <<hand, Unheld, channels>>

\* Only later does the JoinHandle report the task as finished.
Finish(e) ==
    /\ pc[e] = "dropped"
    /\ Goto(e, "finished")
    /\ UNCHANGED <<hand, Unheld, tcpVars, channels>>

HandshakeStep(e) == SendHello(e) \/ RecvHello(e) \/ HandshakeFails(e)
ReceiveStep(e)   == RunPing(e) \/ RunIgnored(e) \/ RunData(e) \/ RunClose(e)
                       \/ RunEnds(e)
RequestStep(e)   == RunSend(e) \/ RunCloseRequest(e)
HandlerStep(e)   == FirstPing(e) \/ SendDone(e) \/ SendFails(e) \/ Deliver(e)
CloseStep(e)     == SendClose(e) \/ AwaitClose(e) \/ AwaitData(e)
                       \/ AwaitIgnored(e) \/ AwaitEnds(e)
DrainStep(e)     == DrainSend(e) \/ DrainStops(e) \/ DrainClose(e)
EndStep(e)       == Drop(e) \/ Finish(e)
TimerStep(e)     == Tick(e) \/ PeerInactive(e) \/ CloseTimeout(e)

Task(e) == \/ HandshakeStep(e) \/ ReceiveStep(e) \/ RequestStep(e)
           \/ HandlerStep(e) \/ CloseStep(e) \/ DrainStep(e) \/ EndStep(e)
           \/ TimerStep(e)
=============================================================================
