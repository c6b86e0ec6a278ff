------------------------------ MODULE Session ------------------------------
(***************************************************************************)
(* Sessions of one device: processes that open, use and close it, the      *)
(* driver, the daemon and the connections it makes.  A message from the    *)
(* daemon is a call of recv_from_daemon; those from the driver are queued  *)
(* in chan.  The daemon may die and be started again.                      *)
(***************************************************************************)
EXTENDS DriverSession, DaemonSession

vars == <<driverVars, daemonVars>>

Init == DriverInit /\ DaemonInit

\* Something of an earlier session is still about outside the driver.
Remains ==
    \/ chan # <<>> \/ tcp_rx # <<>> \/ pending # <<>> \/ dpc = "opening"
    \/ \E c \in Attempts : Alive(c)
    \/ Holders # {}

-----------------------------------------------------------------------------
ProcessOpens(a) == OpenClaim(a, Remains) /\ UNCHANGED daemonVars
ProcessUses(a)  == (Read(a) \/ Write(a)) /\ UNCHANGED daemonVars
ProcessCloses(a) == ReleaseSend(a) /\ UNCHANGED daemonVars
ProcessSignal(a) == OpenInterrupted(a) /\ UNCHANGED daemonVars

\* What a system call that has begun does by itself.
CallStep(a) == (OpenSend(a) \/ OpenReturn(a) \/ Release(a)) /\ UNCHANGED daemonVars

Process(a) == ProcessOpens(a) \/ ProcessUses(a) \/ ProcessCloses(a)
                 \/ ProcessSignal(a) \/ CallStep(a)

\* recv_from_kernel hands the oldest message of the socket to the main loop.
Receive(type) ==
    /\ chan # <<>>
    /\ Head(chan).type = type
    /\ chan' = Tail(chan)
    /\ UNCHANGED <<devVars, fileVars, daemon_pid, dpid, histVars>>

DaemonOpenReq  == Receive("OPEN_REQ") /\ OnOpenReq(Head(chan).n)
DaemonData     == Receive("DATA") /\ OnData(Head(chan).n)
DaemonCloseReq == Receive("CLOSE_REQ") /\ OnCloseReq

\* Mutant: a failed open is only logged.
DaemonOpenedSilent == \/ Opened /\ RecvConnRes(request, "SUCCESS")
                      \/ OpenFailed /\ UNCHANGED driverVars

\* Device::open is over, and CONN_RES tells the driver.
DaemonOpened == \/ Opened /\ RecvConnRes(request, "SUCCESS")
                \/ OpenFailed /\ RecvConnRes(request, "FAILED")

DaemonTcp   == OnTcpData /\ UNCHANGED driverVars
DaemonFlush == FlushOne /\ RecvData(Head(pending))

DaemonLoop == DaemonOpenReq \/ DaemonData \/ DaemonCloseReq \/ DaemonTcp

DaemonRegister == DaemonStep("register", "create") /\ RecvRegister
DaemonCreate   == DaemonStep("create", "select") /\ RecvCreateDev

\* The socket and its queue go with the process, and come with the next one.
Socket(pid) ==
    /\ dpid' = pid
    /\ chan' = <<>>
    /\ UNCHANGED <<devVars, fileVars, daemon_pid, histVars>>

DaemonCrash   == DaemonDies /\ Socket(0)
DaemonRestart == DaemonStarts /\ Socket(started + 1)

ActorStep(c) == (ActorCommand(c) \/ ActorBreaks(c) \/ ActorEnds(c))
                   /\ UNCHANGED driverVars
PeerSends(c) == ActorForward(c) /\ UNCHANGED driverVars
ConnLost(c)  == ActorLosesConn(c) /\ UNCHANGED driverVars

Daemon == \/ DaemonLoop \/ DaemonOpened \/ DaemonFlush
          \/ DaemonRegister \/ DaemonCreate \/ DaemonCrash \/ DaemonRestart
          \/ \E c \in Attempts : ActorStep(c) \/ PeerSends(c) \/ ConnLost(c)

Next == Daemon \/ \E a \in Apps : Process(a)

Spec == Init /\ [][Next]_vars

(***************************************************************************)
(* Fairness: a system call that can go on goes on, the main loop takes what*)
(* is queued, and an actor sees that its senders are gone.  That           *)
(* DaemonOpened happens is an assumption about the peer: connect has a     *)
(* timeout, the handshake has none.  Nothing is assumed of processes,      *)
(* signals, the peer's messages and restarts, nor that an actor's write or *)
(* close returns: its connection's task may wait for room (see Connection).*)
(***************************************************************************)
Fairness ==
    /\ \A a \in Apps : WF_vars(CallStep(a))
    /\ WF_vars(DaemonLoop) /\ WF_vars(DaemonOpened)
    /\ \A c \in Attempts : WF_vars(ActorBreaks(c) /\ UNCHANGED driverVars)

FairSpec == Spec /\ Fairness

-----------------------------------------------------------------------------
(***************************************************************************)
(* Properties.                                                             *)
(***************************************************************************)

\* Every variable of the driver and of the daemon has its type.
TypeOK == DriverTypeOK /\ DaemonTypeOK

\* "Ensure exclusive access" (ncd_open): two processes never hold the device at
\* once, through failed and interrupted opens, lost messages and daemons that
\* die and return, unless REGISTER has removed the device under a holder.
ExclusiveAccess == ~cleaned => \A a, b \in Holders : a = b

\* An open that succeeds was let in by the connection made for it, and not by a
\* CONN_RES that was meant for an earlier one (ncd_open, OPEN_REQ, CONN_RES).
AnsweredByOwn ==
    ~interrupted /\ ~cleaned =>
        \A a \in Apps : app[a] = "open" => answeredBy[a] = attempt[a]

\* What a process writes goes to the connection of its own session or nowhere,
\* although the daemon has one write_tx for all of them (Device::write, open and
\* close), and although the daemon may die in between.
WritesReachOwnConn == ~interrupted /\ ~cleaned => arrived = {}

\* A session that began when nothing of an earlier one was left outside the
\* driver reads bytes of its own connection only, whatever the DATA case has
\* stored while the device was closed (ncd_open, ncd_release, CLOSE_REQ).
OwnBytesAfterQuiet ==
    ~cleaned => \A p \in got : p[1] \in hasty

\* A read returns bytes of the session's own connection only.
OwnBytes == got = {}

\* An open comes to an end as long as the first daemon lives and is known: no
\* CONN_RES is missed by an opener that is not asleep yet (ncd_open).
OpenReturns ==
    [](daemon_pid = dpid /\ started = 1 /\ dpc # "down")
        => \A a \in Apps : app[a] = "waiting" ~> app[a] # "waiting"

\* libncd_runtime::write and close return to the actor that has called them.
CallsReturn ==
    \A c \in Attempts : WF_vars((ActorCommand(c) \/ ActorEnds(c)) /\ UNCHANGED driverVars)

\* Once nobody opens the device any more, its connections end
\* (connection_run), unless an open was given up or a CLOSE_REQ lost, and as far as
\* the write and close of the runtime return.
ConnectionsEnd ==
    CallsReturn /\ <>[](Holders = {} /\ ~interrupted /\ ~closeLost /\ ~cleaned)
        => <>[](\A c \in Attempts : ~Alive(c))
=============================================================================
