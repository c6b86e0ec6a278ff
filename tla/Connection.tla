----------------------------- MODULE Connection -----------------------------
(***************************************************************************)
(* One connection of the NCD runtime, from handshake to close: two         *)
(* endpoints, each a connection task and the user of its handler, over one *)
(* TCP stream.                                                             *)
(***************************************************************************)
EXTENDS ConnApp

CONSTANT MayCrash   \* endpoints whose process may be killed

ASSUME CrashAssumption == MayCrash \subseteq Node

vars == <<tcpVars, taskVars, channels, appVars>>

Init == TcpInit /\ TaskInit /\ AppInit

TaskStep(e) == Task(e) /\ UNCHANGED appVars
AppStep(e)  == App(e) /\ UNCHANGED <<tcpVars, taskVars>>

\* The process of e is killed; its kernel closes the socket.
Crash(e) ==
    /\ e \in MayCrash
    /\ open[e]
    /\ CloseSocket(e)
    /\ Goto(e, "crashed")
    /\ Become(e, "crashed")
    /\ UNCHANGED <<hand, Unheld, channels, written, got, cached, cache, result>>

Next == \E e \in Node : TaskStep(e) \/ AppStep(e) \/ Crash(e)

Spec == Init /\ [][Next]_vars

(***************************************************************************)
(* The runtime polls every task that can go on.  select! picks at random   *)
(* among the arms that are ready, so an arm that is ready again and again  *)
(* is taken (SF).  A started close timeout expires.  The user keeps        *)
(* reading, and finishes what it has begun; nothing makes it write or      *)
(* close, and nothing makes the other timers fire.                         *)
(***************************************************************************)
Fairness ==
    \A e \in Node :
        /\ WF_vars((HandshakeStep(e) \/ HandlerStep(e) \/ CloseStep(e)
                       \/ DrainStep(e) \/ EndStep(e)) /\ UNCHANGED appVars)
        /\ SF_vars(ReceiveStep(e) /\ UNCHANGED appVars)
        /\ SF_vars(RequestStep(e) /\ UNCHANGED appVars)
        /\ WF_vars(CloseTimeout(e) /\ UNCHANGED appVars)
        /\ WF_vars((OpenStep(e) \/ WriteStep(e) \/ EndOfApp(e))
                       /\ UNCHANGED <<tcpVars, taskVars>>)
        /\ SF_vars(ReadStep(e) /\ UNCHANGED <<tcpVars, taskVars>>)

FairSpec == Spec /\ Fairness

-----------------------------------------------------------------------------
(***************************************************************************)
(* Properties.                                                             *)
(***************************************************************************)

\* Every variable has its type, and the channels never exceed their capacity.
TypeOK == TcpTypeOK /\ TaskTypeOK /\ AppTypeOK

\* The first n messages of a stream.
Stream(n) == [i \in 1..n |-> i]

\* "received ControlClose assumed peer has send all the data" (close_inner):
\* an endpoint that has heard ControlClose hands its user every message the
\* peer's task ever wrote to the socket, through read, errors and close
\* together.
CloseMeansAll ==
    \A e \in Node : heardClose[e] /\ result[e] = "Ok"
        => got[e] = Stream(transmitted[Peer[e]])

Serving(e) == pc[e] \notin {"drop", "dropped", "finished", "failed", "crashed"}
Sending(e) == pc[e] \in {"send", "drainSend"} /\ hand[e].type = "Data"
Begun(e)   == transmitted[e] + (IF Sending(e) THEN 1 ELSE 0)

EndsWithClose(e) == req[e] # <<>> /\ req[e][Len(req[e])].type = "Close"
AskedToClose(e)  == app[e] \in {"closing", "over", "crashed"}

InOrder(e) ==
    /\ Sending(e) => hand[e] = Data(transmitted[e] + 1)
    /\ \A i \in 1..Len(req[e]) :
          \/ req[e][i] = Data(Begun(e) + i)
          \/ i = Len(req[e]) /\ EndsWithClose(e) /\ AskedToClose(e)
    /\ written[e] = Begun(e) + Len(req[e]) - (IF EndsWithClose(e) THEN 1 ELSE 0)

\* While the task serves its connection it keeps the messages write accepted, in
\* order and none twice: those transmitted, the one in hand if it is sending one
\* (send_packet, run), and those in request_rx.  A Close comes last, and is only
\* there when the user waits for the answer (ConnHandler::close).
RequestsInOrder == \A e \in Node : Serving(e) => InOrder(e)

\* A user that closes by itself loses nothing it has written before: once the
\* task has sent ControlClose on its request, every accepted message was
\* sent before it (run, close_inner(false)).
CloseFlushesWrites ==
    \A e \in Node : pc[e] \in {"sendClose", "await", "awaitDeliver"} /\ why[e] = "user"
        => transmitted[e] = written[e]

\* "We should send all data from channel" (close_inner): when the peer closed,
\* what the user had written when the task looked last is sent, too.
DrainLeavesNothing ==
    [][\A e \in Node : pc[e] = "drain" /\ pc'[e] = "drainClose"
           => transmitted[e] = written[e]]_vars

(***************************************************************************)
(* The circles in which a task and its user, or two tasks, wait for each   *)
(* other's room for good.  While it delivers or sends the task takes       *)
(* nothing off request_rx and off the stream, and while it waits in write  *)
(* or close the user reads nothing.                                        *)
(***************************************************************************)
UserAway(e) ==
    /\ pc[e] = "deliver"
    /\ Len(resp[e]) = BufferSize
    /\ \/ app[e] = "closing"
       \/ app[e] \in {"writing", "closeReq"} /\ Len(req[e]) = BufferSize

StreamFull(e) ==
    /\ pc[e] \in {"hello", "ack", "send", "sendClose", "drainSend", "drainClose"}
    /\ open[Peer[e]]
    /\ Len(wire[Peer[e]]) = WireCap

InCircle(e) ==
    \/ UserAway(e)
    \/ StreamFull(e) /\ (StreamFull(Peer[e]) \/ UserAway(Peer[e]))

\* A user that calls close gets an answer, unless the task is in such a circle
\* (ConnHandler::close, run, close_inner).
CloseAnswered ==
    \A e \in Node : app[e] \in {"closeReq", "closing"} ~>
                    app[e] \in {"over", "crashed"} \/ InCircle(e)

\* Nothing but such a circle keeps the task from its select! for ever, where it
\* watches for the peer's inactivity: it comes back or ends ("Report disconnected
\* after this many milliseconds of inactivity", config.rs, which the task does not
\* do in a circle).
BackToSelect ==
    \A e \in Node : []<>(pc[e] \in {"run", "finished", "failed", "crashed"} \/ InCircle(e))

\* When one user is done, so is the other one in the end: its read or write
\* fails, and it closes as well, unless it and its own task wait for each other.
BothEnd ==
    \A e \in Node : app[e] \in {"over", "crashed"} ~>
                    \/ app[Peer[e]] \in {"over", "crashed", "panicked"}
                    \/ UserAway(Peer[e])
=============================================================================
