--------------------------- MODULE DriverSession ---------------------------
(***************************************************************************)
(* The life of one character device of driver/src/ncd.c: ncd_open,         *)
(* ncd_write, ncd_release, the part of ncd_read that takes bytes out, and  *)
(* every case of recv_from_daemon that makes, removes or answers for a     *)
(* device.  Each open(2) is an attempt with a number of its own, a history *)
(* value that no message of the code carries.                              *)
(*                                                                         *)
(* Left to DriverFifo: how much of the bytes is in the kfifo and how much  *)
(* in the backlog, the sleeping of ncd_read, KFIFO_FULL and                *)
(* KFIFO_AVAILABLE.  What else such a message does to this module, telling *)
(* the driver that its daemon is gone, a write does here.                  *)
(***************************************************************************)
EXTENDS SessionBounds

CONSTANTS
    Apps,          \* processes that open the device
    RcvBuf,        \* messages the daemon's netlink socket can hold
    AllocMayFail,  \* may GFP_ATOMIC allocations fail?
    Signals        \* may a signal interrupt an open?

ASSUME DriverSessionAssumption ==
    /\ RcvBuf \in Nat
    /\ AllocMayFail \in BOOLEAN
    /\ Signals \in BOOLEAN

VARIABLES
    in_use,       \* the minor has a device
    open_count,   \* the exclusive-access flag of the device
    conn_status,  \* "WAITING", "SUCCESS" or "FAILED"
    buf,          \* kfifo and backlog: of which connection each message is
    daemon_pid,   \* 0: the driver knows no daemon
    chan,         \* messages queued on the daemon's netlink socket
    dpid,         \* pid of the running daemon, the owner of that socket, or 0
    app,          \* app[a]: where the process is
    attempt,      \* attempt[a]: number of its open, 0 while closed
    opens,        \* opens so far
    deaf,         \* openers whose wait queue was initialised under them
    wrote,        \* wrote[a]: messages written through the open file
    \* History.
    answeredBy,   \* answeredBy[a]: attempt the CONN_RES that let a in was for
    lastRes,      \* attempt the CONN_RES behind conn_status was for, or 0
    got,          \* <<n, c>>: attempt n has read of another connection, c
    hasty,        \* attempts made while remains of others were about
    interrupted,  \* has a signal ended an open?
    closeLost,    \* has a CLOSE_REQ not been sent?
    cleaned       \* has REGISTER removed a device that a process held?

devVars  == <<in_use, open_count, conn_status, lastRes, buf>>
fileVars == <<app, attempt, wrote, answeredBy, opens, deaf>>
netVars  == <<daemon_pid, chan, dpid>>
histVars == <<got, hasty, interrupted, closeLost, cleaned>>

driverVars == <<devVars, fileVars, netVars, histVars>>

Msg(type, n) == [type |-> type, n |-> n]

AppState == {"closed", "claimed", "waiting", "open", "releasing"}

DriverTypeOK ==
    /\ in_use \in BOOLEAN
    /\ open_count \in {0, 1}
    /\ conn_status \in {"WAITING", "SUCCESS", "FAILED"}
    /\ buf \in Seq(Attempts)
    /\ daemon_pid \in Nat
    /\ chan \in Seq([type : {"OPEN_REQ", "CLOSE_REQ", "DATA"}, n : Attempts])
    /\ Len(chan) <= RcvBuf
    /\ dpid \in Nat
    /\ app \in [Apps -> AppState]
    /\ attempt \in [Apps -> 0..MaxOpens]
    /\ opens \in 0..MaxOpens
    /\ deaf \subseteq Apps
    /\ wrote \in [Apps -> 0..MaxData]
    /\ answeredBy \in [Apps -> 0..MaxOpens]
    /\ lastRes \in 0..MaxOpens
    /\ got \subseteq Attempts \X Attempts
    /\ hasty \subseteq Attempts
    /\ interrupted \in BOOLEAN
    /\ closeLost \in BOOLEAN
    /\ cleaned \in BOOLEAN

\* The module is loaded, the daemon has registered and made the device.
DriverInit ==
    /\ in_use = TRUE
    /\ open_count = 0
    /\ conn_status = "WAITING"
    /\ buf = <<>>
    /\ daemon_pid = 1
    /\ chan = <<>>
    /\ dpid = 1
    /\ app = [a \in Apps |-> "closed"]
    /\ attempt = [a \in Apps |-> 0]
    /\ opens = 0
    /\ deaf = {}
    /\ wrote = [a \in Apps |-> 0]
    /\ answeredBy = [a \in Apps |-> 0]
    /\ lastRes = 0
    /\ got = {}
    /\ hasty = {}
    /\ interrupted = FALSE
    /\ closeLost = FALSE
    /\ cleaned = FALSE

-----------------------------------------------------------------------------
\* Processes with a file of the device, or on their way to one.
Holders == {a \in Apps : app[a] # "closed"}

Become(a, state) ==
    /\ app' = [app EXCEPT ![a] = state]
    /\ UNCHANGED <<attempt, wrote, answeredBy>>

\* The process has no file of the device any more.
NoFile(a) ==
    /\ app' = [app EXCEPT ![a] = "closed"]
    /\ attempt' = [attempt EXCEPT ![a] = 0]
    /\ wrote' = [wrote EXCEPT ![a] = 0]
    /\ answeredBy' = [answeredBy EXCEPT ![a] = 0]

\* Mutant: conn_status keeps the last answer.
SetWaitingNot == UNCHANGED <<conn_status, lastRes>>

SetWaiting == conn_status' = "WAITING" /\ lastRes' = 0

\* Mutant: the buffers keep what they hold.
KeepBuffers == UNCHANGED buf

\* ncd_clear_buffers; ncd_open and ncd_release do the same in place.
ncd_clear_buffers == buf' = <<>>

-----------------------------------------------------------------------------
(***************************************************************************)
(* send_to_daemon: the message is queued, or the call fails.  When         *)
(* nlmsg_unicast fails, since the socket is gone or full, the driver       *)
(* forgets its daemon.                                                     *)
(***************************************************************************)

\* Mutant: a full socket takes one more.
SentAlways(msg) ==
    /\ daemon_pid # 0
    /\ daemon_pid = dpid
    /\ chan' = Append(chan, msg)
    /\ UNCHANGED daemon_pid

Sent(msg) ==
    /\ daemon_pid # 0
    /\ daemon_pid = dpid
    /\ Len(chan) < RcvBuf
    /\ chan' = Append(chan, msg)
    /\ UNCHANGED daemon_pid

NotSent ==
    /\ \/ /\ daemon_pid = 0 \/ AllocMayFail
          /\ UNCHANGED daemon_pid
       \/ /\ daemon_pid # 0
          /\ daemon_pid # dpid \/ Len(chan) >= RcvBuf
          /\ daemon_pid' = 0
    /\ UNCHANGED chan

-----------------------------------------------------------------------------
\* ncd_open up to its request; the cdev exists.  remains: something of an
\* earlier session is still about.
OpenClaim(a, remains) ==
    /\ app[a] = "closed"
    /\ in_use
    /\ opens < MaxOpens
    /\ open_count = 0
    /\ open_count' = 1
    /\ SetWaiting
    /\ ncd_clear_buffers
    /\ opens' = opens + 1
    /\ attempt' = [attempt EXCEPT ![a] = opens + 1]
    /\ app' = [app EXCEPT ![a] = "claimed"]
    /\ hasty' = IF remains THEN hasty \cup {opens + 1} ELSE hasty
    /\ UNCHANGED <<in_use, wrote, answeredBy, deaf, netVars, got, interrupted,
                   closeLost, cleaned>>

OpenSend(a) ==
    /\ app[a] = "claimed"
    /\ \/ /\ Sent(Msg("OPEN_REQ", attempt[a]))
          /\ Become(a, "waiting")
          /\ UNCHANGED open_count
       \/ /\ NotSent
          /\ NoFile(a)
          /\ open_count' = 0
    /\ UNCHANGED <<in_use, conn_status, lastRes, buf, opens, deaf, dpid, histVars>>

\* Mutant: any answer lets the opener in.
OpenReturnAlways(a) ==
    /\ app[a] = "waiting"
    /\ a \notin deaf
    /\ conn_status # "WAITING"
    /\ app' = [app EXCEPT ![a] = "open"]
    /\ answeredBy' = [answeredBy EXCEPT ![a] = lastRes]
    /\ UNCHANGED <<devVars, attempt, wrote, opens, deaf, netVars, histVars>>

\* The wait ends with an answer.  It only ends if the opener is still on the
\* wait queue that CONN_RES wakes.
OpenReturn(a) ==
    /\ app[a] = "waiting"
    /\ a \notin deaf
    /\ \/ /\ conn_status = "SUCCESS"
          /\ app' = [app EXCEPT ![a] = "open"]
          /\ answeredBy' = [answeredBy EXCEPT ![a] = lastRes]
          /\ UNCHANGED <<open_count, attempt, wrote>>
       \/ /\ conn_status = "FAILED"
          /\ NoFile(a)
          /\ open_count' = 0
    /\ UNCHANGED <<in_use, conn_status, lastRes, buf, opens, deaf, netVars,
                   histVars>>

\* A signal ends the wait; no CLOSE_REQ is sent.  An opener that unlinks itself
\* from a queue initialised meanwhile empties it of all others.
OpenInterrupted(a) ==
    /\ Signals
    /\ app[a] = "waiting"
    /\ SetWaiting
    /\ open_count' = 0
    /\ NoFile(a)
    /\ deaf' = IF a \in deaf
               THEN {b \in Apps \ {a} : app[b] = "waiting"}
               ELSE deaf
    /\ interrupted' = TRUE
    /\ UNCHANGED <<in_use, buf, opens, netVars, got, hasty, closeLost, cleaned>>

\* ncd_read takes the oldest message.
Read(a) ==
    /\ app[a] = "open"
    /\ buf # <<>>
    /\ buf' = Tail(buf)
    /\ got' = got \cup ({<<attempt[a], Head(buf)>>} \ Own)
    /\ UNCHANGED <<in_use, open_count, conn_status, lastRes, fileVars, netVars,
                   hasty, interrupted, closeLost, cleaned>>

\* ncd_write.
Write(a) ==
    /\ app[a] = "open"
    /\ wrote[a] < MaxData
    /\ \/ /\ Sent(Msg("DATA", attempt[a]))
          /\ wrote' = [wrote EXCEPT ![a] = @ + 1]
       \/ NotSent /\ UNCHANGED wrote
    /\ UNCHANGED <<devVars, app, attempt, answeredBy, opens, deaf, dpid, histVars>>

\* Mutant: open_count is reset before the rest is done.
ReleaseSendFreesEarly(a) ==
    /\ app[a] = "open"
    /\ \/ Sent(Msg("CLOSE_REQ", attempt[a])) /\ UNCHANGED closeLost
       \/ NotSent /\ closeLost' = TRUE
    /\ Become(a, "releasing")
    /\ open_count' = 0
    /\ UNCHANGED <<in_use, conn_status, lastRes, buf, opens, deaf, dpid, got,
                   hasty, interrupted, cleaned>>

\* ncd_release: the request, then the rest.
ReleaseSend(a) ==
    /\ app[a] = "open"
    /\ \/ Sent(Msg("CLOSE_REQ", attempt[a])) /\ UNCHANGED closeLost
       \/ NotSent /\ closeLost' = TRUE
    /\ Become(a, "releasing")
    /\ UNCHANGED <<devVars, opens, deaf, dpid, got, hasty, interrupted, cleaned>>

Release(a) ==
    /\ app[a] = "releasing"
    /\ SetWaiting
    /\ ncd_clear_buffers
    /\ open_count' = 0
    /\ NoFile(a)
    /\ UNCHANGED <<in_use, opens, deaf, netVars, histVars>>

-----------------------------------------------------------------------------
(***************************************************************************)
(* recv_from_daemon, which runs inside the daemon's sendmsg.  A message of *)
(* a daemon the driver does not know, or for a minor without a device, is  *)
(* ignored.                                                                *)
(***************************************************************************)
Heard == daemon_pid = dpid /\ in_use

RecvConnRes(n, status) ==
    /\ IF Heard
       THEN conn_status' = status /\ lastRes' = n
       ELSE UNCHANGED <<conn_status, lastRes>>
    /\ UNCHANGED <<in_use, open_count, buf, fileVars, netVars, histVars>>

\* The DATA case asks for no open file.
RecvData(c) ==
    /\ buf' = IF Heard THEN Append(buf, c) ELSE buf
    /\ UNCHANGED <<in_use, open_count, conn_status, lastRes, fileVars, netVars,
                   histVars>>

\* The minor loses its device.  A file of it stays what it is.
DestroyDevice ==
    /\ ncd_clear_buffers
    /\ in_use' = FALSE
    /\ cleaned' = (cleaned \/ Holders # {})

\* REGISTER: the devices of a daemon that was known until now are removed.
RecvRegister ==
    /\ IF daemon_pid # 0 /\ in_use
       THEN DestroyDevice
       ELSE UNCHANGED <<buf, in_use, cleaned>>
    /\ daemon_pid' = dpid
    /\ UNCHANGED <<open_count, conn_status, lastRes, fileVars, chan, dpid, got,
                   hasty, interrupted, closeLost>>

\* CREATE_DEV, for a minor without a device.  The same struct is initialised
\* again; an opener of the old device that is already on its wait queue drops
\* off it.  When kzalloc, cdev_add, kfifo_alloc or device_create fails, there is
\* no device after all, and the first two leave the struct as it was.
CreateDevice ==
    /\ in_use' \in BOOLEAN
    /\ open_count' = 0
    /\ SetWaiting
    /\ ncd_clear_buffers
    /\ \E asleep \in SUBSET {a \in Apps : app[a] = "waiting"} :
           deaf' = deaf \cup asleep

RecvCreateDev ==
    /\ IF daemon_pid = dpid /\ ~in_use
       THEN CreateDevice \/ UNCHANGED <<devVars, deaf>>
       ELSE UNCHANGED <<devVars, deaf>>
    /\ UNCHANGED <<app, attempt, wrote, answeredBy, opens, netVars, histVars>>
=============================================================================
