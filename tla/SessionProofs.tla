--------------------------- MODULE SessionProofs ---------------------------
(***************************************************************************)
(* Theorems about Session, for every value of its constants: any number of *)
(* processes, opens, messages and daemons, and every kind of failure.      *)
(***************************************************************************)
EXTENDS Session, TLAPS

(***************************************************************************)
(* Facts about the queues that the steps below rest on.                    *)
(***************************************************************************)

LEMMA EmptyType == ASSUME NEW S PROVE <<>> \in Seq(S) /\ Len(<<>>) = 0
  OBVIOUS

LEMMA HeadTail ==
    ASSUME NEW S, NEW q \in Seq(S), q # <<>>
    PROVE  /\ Head(q) \in S
           /\ Tail(q) \in Seq(S)
           /\ Len(q) \in Nat
           /\ Len(Tail(q)) = Len(q) - 1
           /\ Head(q) = q[1] /\ 1 \in 1..Len(q)
           /\ \A i \in 1..Len(Tail(q)) : Tail(q)[i] = q[i + 1] /\ i + 1 \in 1..Len(q)
  OBVIOUS

LEMMA Appended ==
    ASSUME NEW S, NEW q \in Seq(S), NEW e \in S
    PROVE  /\ Append(q, e) \in Seq(S)
           /\ Len(q) \in Nat
           /\ Len(Append(q, e)) = Len(q) + 1
           /\ \A i \in 1..Len(q) + 1 :
                 Append(q, e)[i] = IF i <= Len(q) THEN q[i] ELSE e
  OBVIOUS

-----------------------------------------------------------------------------
(***************************************************************************)
(* Type correctness.  Two facts go with the types: there is room for one   *)
(* more daemon while none runs, and a process that is not through with its *)
(* file has an attempt.                                                    *)
(***************************************************************************)
TypeInv ==
    /\ TypeOK
    /\ dpc = "down" => started < MaxDaemons
    /\ \A a \in Apps : app[a] # "closed" => attempt[a] \in Attempts

ChanMsg == [type : {"OPEN_REQ", "CLOSE_REQ", "DATA"}, n : Attempts]

LEMMA Constants == MaxOpens \in Nat /\ MaxData \in Nat /\ RcvBuf \in Nat
                      /\ MaxDaemons \in Nat \ {0} /\ Attempts = 1..MaxOpens
                      /\ 0 \in 0..MaxOpens /\ 0 \in 0..MaxData
  BY SessionAssumption, DriverSessionAssumption, DaemonSessionAssumption
     DEF Attempts

LEMMA InitType == Init => TypeInv
<1> SUFFICES ASSUME Init PROVE TypeInv
  OBVIOUS
<1>1. DriverTypeOK
  <2>1. buf \in Seq(Attempts) /\ chan \in Seq(ChanMsg) /\ Len(chan) <= RcvBuf
    BY EmptyType, Constants DEF Init, DriverInit
  <2>2. opens \in 0..MaxOpens /\ lastRes \in 0..MaxOpens
    BY Constants DEF Init, DriverInit
  <2>3. /\ attempt \in [Apps -> 0..MaxOpens]
        /\ answeredBy \in [Apps -> 0..MaxOpens]
        /\ wrote \in [Apps -> 0..MaxData]
    BY Constants DEF Init, DriverInit
  <2> QED BY <2>1, <2>2, <2>3 DEF Init, DriverInit, DriverTypeOK, AppState, ChanMsg
<1>2. DaemonTypeOK
  BY Constants, EmptyType DEF Init, DaemonInit, DaemonTypeOK
<1> QED BY <1>1, <1>2 DEF TypeInv, TypeOK, Init, DriverInit, DaemonInit

\* A message to the daemon keeps the queue of its socket within bounds.
LEMMA SentType ==
    ASSUME TypeInv, NEW msg \in ChanMsg, Sent(msg) \/ NotSent
    PROVE  chan' \in Seq(ChanMsg) /\ Len(chan') <= RcvBuf /\ daemon_pid' \in Nat
<1>1. chan \in Seq(ChanMsg) /\ Len(chan) <= RcvBuf /\ daemon_pid \in Nat
  BY DEF TypeInv, TypeOK, DriverTypeOK, ChanMsg
<1>2. CASE Sent(msg)
  BY <1>1, <1>2, Appended, Constants DEF Sent
<1>3. CASE NotSent
  BY <1>1, <1>3 DEF NotSent
<1> QED BY <1>2, <1>3
\* No step of a process disturbs the daemon's half.
LEMMA DaemonSame ==
    ASSUME TypeInv, UNCHANGED daemonVars
    PROVE  DaemonTypeOK' /\ (dpc' = "down" => started' < MaxDaemons)
  BY DEF TypeInv, TypeOK, DaemonTypeOK, daemonVars

\* What a process does to its own file.
LEMMA FileType ==
    ASSUME TypeInv, NEW a \in Apps,
           \/ NoFile(a)
           \/ \E state \in AppState \ {"closed"} :
                 app[a] # "closed" /\ Become(a, state)
    PROVE  /\ app' \in [Apps -> AppState]
           /\ attempt' \in [Apps -> 0..MaxOpens]
           /\ wrote' \in [Apps -> 0..MaxData]
           /\ answeredBy' \in [Apps -> 0..MaxOpens]
           /\ \A b \in Apps : app'[b] # "closed" => attempt'[b] \in Attempts
<1>1. /\ app \in [Apps -> AppState]
      /\ attempt \in [Apps -> 0..MaxOpens]
      /\ wrote \in [Apps -> 0..MaxData]
      /\ answeredBy \in [Apps -> 0..MaxOpens]
      /\ \A b \in Apps : app[b] # "closed" => attempt[b] \in Attempts
  BY DEF TypeInv, TypeOK, DriverTypeOK
<1>2. CASE NoFile(a)
  BY <1>1, <1>2, Constants DEF NoFile, AppState
<1>3. CASE \E state \in AppState \ {"closed"} : app[a] # "closed" /\ Become(a, state)
  BY <1>1, <1>3 DEF Become
<1> QED BY <1>2, <1>3

LEMMA ProcessType ==
    ASSUME TypeInv, NEW a \in Apps, Process(a)
    PROVE  TypeInv'
<1> DEFINE Attempted == \A b \in Apps : app[b] # "closed" => attempt[b] \in Attempts
<1> SUFFICES DriverTypeOK' /\ Attempted'
  <2> SUFFICES UNCHANGED daemonVars
    BY DaemonSame DEF TypeInv, TypeOK
  <2> QED BY DEF Process, ProcessOpens, ProcessUses, ProcessCloses,
                 ProcessSignal, CallStep
<1> USE DEF devVars, fileVars, netVars, histVars, AppState
<1>0. DriverTypeOK /\ Attempted /\ chan \in Seq(ChanMsg)
  BY DEF TypeInv, TypeOK, DriverTypeOK, ChanMsg
<1>1. CASE OpenClaim(a, Remains)
  <2>1. opens + 1 \in Attempts /\ opens + 1 \in 0..MaxOpens
    BY <1>0, <1>1, Constants DEF OpenClaim, DriverTypeOK
  <2>2. buf' \in Seq(Attempts) /\ 0 \in 0..MaxOpens /\ Attempted'
    BY <1>0, <1>1, <2>1, EmptyType, Constants
       DEF OpenClaim, ncd_clear_buffers, DriverTypeOK
  <2>3. DriverTypeOK'
    BY <1>0, <1>1, <2>1, <2>2 DEF OpenClaim, SetWaiting, DriverTypeOK
  <2> QED BY <2>2, <2>3
<1>2. CASE OpenSend(a)
  <2>1. Msg("OPEN_REQ", attempt[a]) \in ChanMsg
    BY <1>0, <1>2 DEF OpenSend, Msg, ChanMsg
  <2>2. chan' \in Seq(ChanMsg) /\ Len(chan') <= RcvBuf /\ daemon_pid' \in Nat
    BY <1>2, <2>1, SentType DEF OpenSend
  <2>3. \/ NoFile(a)
        \/ \E state \in AppState \ {"closed"} : app[a] # "closed" /\ Become(a, state)
    BY <1>2 DEF OpenSend
  <2> HIDE DEF AppState
  <2>4. open_count' \in {0, 1}
    BY <1>0, <1>2 DEF OpenSend, DriverTypeOK
  <2> QED
    BY <1>0, <1>2, <2>2, <2>3, <2>4, FileType DEF OpenSend, DriverTypeOK, ChanMsg
<1>3. CASE OpenReturn(a)
  <2>1. CASE NoFile(a)
    BY <1>0, <1>3, <2>1, FileType DEF OpenReturn, DriverTypeOK
  <2>2. CASE app' = [app EXCEPT ![a] = "open"]
                /\ answeredBy' = [answeredBy EXCEPT ![a] = lastRes]
                /\ UNCHANGED <<open_count, attempt, wrote>>
    BY <1>0, <1>3, <2>2 DEF OpenReturn, DriverTypeOK
  <2> QED BY <1>3, <2>1, <2>2 DEF OpenReturn
<1>4. CASE OpenInterrupted(a)
  <2>1. lastRes' \in 0..MaxOpens
    BY <1>4, Constants DEF OpenInterrupted, SetWaiting
  <2>2. NoFile(a) /\ deaf' \subseteq Apps
    BY <1>0, <1>4 DEF OpenInterrupted, DriverTypeOK
  <2> QED
    BY <1>0, <1>4, <2>1, <2>2, FileType DEF OpenInterrupted, SetWaiting, DriverTypeOK
<1>5. CASE Read(a)
  <2>1. Head(buf) \in Attempts /\ Tail(buf) \in Seq(Attempts)
    BY <1>0, <1>5, HeadTail DEF Read, DriverTypeOK
  <2> QED BY <1>0, <1>5, <2>1 DEF Read, DriverTypeOK
<1>6. CASE Write(a)
  <2>1. Msg("DATA", attempt[a]) \in ChanMsg
    BY <1>0, <1>6 DEF Write, Msg, ChanMsg
  <2>2. chan' \in Seq(ChanMsg) /\ Len(chan') <= RcvBuf /\ daemon_pid' \in Nat
    BY <1>6, <2>1, SentType DEF Write
  <2>3. wrote' \in [Apps -> 0..MaxData]
    <3>1. wrote \in [Apps -> 0..MaxData] /\ wrote[a] < MaxData
      BY <1>0, <1>6 DEF Write, DriverTypeOK
    <3>2. wrote[a] + 1 \in 0..MaxData
      BY <3>1, Constants
    <3> QED BY <1>6, <3>1, <3>2 DEF Write
  <2> QED BY <1>0, <1>6, <2>2, <2>3 DEF Write, DriverTypeOK, ChanMsg
<1>7. CASE ReleaseSend(a)
  <2>1. Msg("CLOSE_REQ", attempt[a]) \in ChanMsg
    BY <1>0, <1>7 DEF ReleaseSend, Msg, ChanMsg
  <2>2. chan' \in Seq(ChanMsg) /\ Len(chan') <= RcvBuf /\ daemon_pid' \in Nat
    BY <1>7, <2>1, SentType DEF ReleaseSend
  <2> QED BY <1>0, <1>7, <2>2 DEF ReleaseSend, Become, DriverTypeOK, ChanMsg
<1>8. CASE Release(a)
  BY <1>0, <1>8, Constants, EmptyType
     DEF Release, SetWaiting, ncd_clear_buffers, NoFile, DriverTypeOK
<1> QED
  BY <1>1, <1>2, <1>3, <1>4, <1>5, <1>6, <1>7, <1>8
     DEF Process, ProcessOpens, ProcessUses, ProcessCloses, ProcessSignal, CallStep

\* A message for the daemon, taken from its socket.
LEMMA ReceiveType ==
    ASSUME TypeInv, NEW type, Receive(type)
    PROVE  /\ Head(chan) \in ChanMsg
           /\ Head(chan).n \in Attempts
           /\ DriverTypeOK'
           /\ app' = app /\ attempt' = attempt
<1>1. chan \in Seq(ChanMsg) /\ chan # <<>> /\ chan' = Tail(chan) /\ DriverTypeOK
  BY DEF TypeInv, TypeOK, DriverTypeOK, ChanMsg, Receive
<1>2. Head(chan) \in ChanMsg /\ chan' \in Seq(ChanMsg) /\ Len(chan') <= RcvBuf
  BY <1>1, HeadTail, Constants DEF DriverTypeOK
<1> QED
  BY <1>1, <1>2 DEF Receive, DriverTypeOK, ChanMsg, devVars, fileVars, histVars
\* No message to the driver disturbs the process's own data.
LEMMA DriverSame ==
    ASSUME TypeInv, UNCHANGED driverVars
    PROVE  DriverTypeOK' /\ app' = app /\ attempt' = attempt
  BY DEF TypeInv, TypeOK, DriverTypeOK, driverVars, devVars, fileVars, netVars,
         histVars

\* recv_from_daemon.
LEMMA RecvType ==
    ASSUME TypeInv,
           \/ \E n \in 0..MaxOpens : \E status \in {"SUCCESS", "FAILED"} :
                 RecvConnRes(n, status)
           \/ \E c \in Attempts : RecvData(c)
           \/ RecvRegister
           \/ RecvCreateDev
    PROVE  DriverTypeOK' /\ app' = app /\ attempt' = attempt
<1> USE DEF devVars, fileVars, netVars, histVars
<1>0. DriverTypeOK
  BY DEF TypeInv, TypeOK
<1>1. CASE \E n \in 0..MaxOpens : \E status \in {"SUCCESS", "FAILED"} :
              RecvConnRes(n, status)
  BY <1>0, <1>1 DEF RecvConnRes, DriverTypeOK
<1>2. CASE \E c \in Attempts : RecvData(c)
  <2>1. buf' \in Seq(Attempts)
    BY <1>0, <1>2, Appended DEF RecvData, DriverTypeOK
  <2> QED BY <1>0, <1>2, <2>1 DEF RecvData, DriverTypeOK
<1>3. CASE RecvRegister
  <2>1. buf' \in Seq(Attempts) /\ in_use' \in BOOLEAN /\ cleaned' \in BOOLEAN
    <3>1. CASE daemon_pid # 0 /\ in_use
      BY <1>0, <1>3, <3>1, EmptyType
         DEF RecvRegister, DestroyDevice, ncd_clear_buffers, DriverTypeOK
    <3>2. CASE ~(daemon_pid # 0 /\ in_use)
      BY <1>0, <1>3, <3>2 DEF RecvRegister, DriverTypeOK
    <3> QED BY <3>1, <3>2
  <2> QED BY <1>0, <1>3, <2>1 DEF RecvRegister, DriverTypeOK
<1>4. CASE RecvCreateDev
  <2>1. CASE CreateDevice
    <3>1. lastRes' \in 0..MaxOpens /\ buf' \in Seq(Attempts) /\ deaf' \subseteq Apps
      BY <1>0, <2>1, Constants, EmptyType
         DEF CreateDevice, SetWaiting, ncd_clear_buffers, DriverTypeOK
    <3> QED
      BY <1>0, <1>4, <2>1, <3>1
         DEF RecvCreateDev, CreateDevice, SetWaiting, DriverTypeOK
  <2>2. CASE UNCHANGED <<devVars, deaf>>
    BY <1>0, <1>4, <2>2 DEF RecvCreateDev, DriverTypeOK
  <2> QED BY <1>4, <2>1, <2>2 DEF RecvCreateDev
<1> QED BY <1>1, <1>2, <1>3, <1>4

\* The main loop and the start-up of the daemon.
LEMMA LoopType ==
    ASSUME TypeInv,
           \/ \E n \in Attempts : OnOpenReq(n) \/ OnData(n)
           \/ OnCloseReq \/ OnTcpData \/ FlushOne \/ Opened \/ OpenFailed
           \/ DaemonDies \/ DaemonStarts
           \/ DaemonStep("register", "create") \/ DaemonStep("create", "select")
    PROVE  DaemonTypeOK' /\ (dpc' = "down" => started' < MaxDaemons)
<1>0. DaemonTypeOK /\ (dpc = "down" => started < MaxDaemons)
  BY DEF TypeInv, TypeOK
<1>a. ASSUME NEW cmd \in 0..MaxOpens, send_command(cmd)
      PROVE  write_rx' \in [Attempts -> Seq(0..MaxOpens)]
  <2>1. CASE write_tx # 0 /\ actor[write_tx] = "running"
    <3>1. write_tx \in Attempts /\ write_rx[write_tx] \in Seq(0..MaxOpens)
      BY <1>0, <2>1, Constants DEF DaemonTypeOK
    <3>2. Append(write_rx[write_tx], cmd) \in Seq(0..MaxOpens)
      BY <3>1, Appended
    <3> QED BY <1>0, <1>a, <2>1, <3>1, <3>2 DEF send_command, DaemonTypeOK
  <2>2. CASE ~(write_tx # 0 /\ actor[write_tx] = "running")
    BY <1>0, <1>a, <2>2 DEF send_command, DaemonTypeOK
  <2> QED BY <2>1, <2>2
<1>1. ASSUME NEW n \in Attempts, OnOpenReq(n) PROVE DaemonTypeOK' /\ dpc' # "down"
  BY <1>0, <1>1, EmptyType, Constants DEF OnOpenReq, DaemonTypeOK
<1>2. ASSUME NEW n \in Attempts, OnData(n) PROVE DaemonTypeOK' /\ dpc' # "down"
  <2>1. write_rx' \in [Attempts -> Seq(0..MaxOpens)]
    BY <1>a, <1>2, Constants DEF OnData
  <2> QED BY <1>0, <1>2, <2>1 DEF OnData, DaemonTypeOK
<1>3. CASE OnCloseReq
  <2>1. write_rx' \in [Attempts -> Seq(0..MaxOpens)]
    BY <1>a, <1>3, Constants DEF OnCloseReq, Close
  <2> QED BY <1>0, <1>3, <2>1, EmptyType, Constants DEF OnCloseReq, DaemonTypeOK
<1>4. CASE OnTcpData
  <2>1. pending' \in Seq(Attempts) /\ tcp_rx' \in Seq(Attempts)
    BY <1>0, <1>4, HeadTail, Appended DEF OnTcpData, DaemonTypeOK
  <2> QED BY <1>0, <1>4, <2>1 DEF OnTcpData, DaemonTypeOK
<1>5. CASE FlushOne
  <2>1. pending' \in Seq(Attempts)
    BY <1>0, <1>5, HeadTail DEF FlushOne, DaemonTypeOK
  <2> QED BY <1>0, <1>5, <2>1 DEF FlushOne, DaemonTypeOK
<1>6. CASE Opened
  BY <1>0, <1>6, Constants DEF Opened, DaemonTypeOK
<1>7. CASE OpenFailed
  BY <1>0, <1>7, Constants DEF OpenFailed, DaemonTypeOK
<1>8. CASE DaemonDies
  <2>1. /\ actor' \in [Attempts -> {"none", "running", "closing", "gone"}]
        /\ write_rx' \in [Attempts -> Seq(0..MaxOpens)]
        /\ peerSent' \in [Attempts -> 0..MaxData]
    BY <1>0, <1>8, EmptyType, Constants DEF DaemonDies, DaemonTypeOK
  <2> QED BY <1>0, <1>8, <2>1, EmptyType, Constants DEF DaemonDies, DaemonTypeOK
<1>9. CASE DaemonStarts
  BY <1>0, <1>9, Constants DEF DaemonStarts, DaemonTypeOK
<1>10. CASE DaemonStep("register", "create") \/ DaemonStep("create", "select")
  BY <1>0, <1>10 DEF DaemonStep, DaemonTypeOK
<1> QED
  BY <1>0, <1>1, <1>2, <1>3, <1>4, <1>5, <1>6, <1>7, <1>8, <1>9, <1>10
     DEF OnTcpData, FlushOne, OnCloseReq, Opened, OpenFailed

\* The actors.
LEMMA ActorType ==
    ASSUME TypeInv, NEW c \in Attempts,
           \/ ActorForward(c) \/ ActorCommand(c) \/ ActorBreaks(c)
           \/ ActorLosesConn(c) \/ ActorEnds(c)
    PROVE  DaemonTypeOK' /\ (dpc' = "down" => started' < MaxDaemons)
<1> USE DEF Turn
<1>0. DaemonTypeOK /\ (dpc = "down" => started < MaxDaemons)
  BY DEF TypeInv, TypeOK
<1>1. CASE ActorForward(c)
  <2>1. tcp_rx' \in Seq(Attempts) /\ peerSent' \in [Attempts -> 0..MaxData]
    <3>1. peerSent[c] + 1 \in 0..MaxData
      BY <1>0, <1>1, Constants DEF ActorForward, DaemonTypeOK
    <3> QED BY <1>0, <1>1, <3>1, Appended DEF ActorForward, DaemonTypeOK
  <2> QED BY <1>0, <1>1, <2>1 DEF ActorForward, DaemonTypeOK
<1>2. CASE ActorCommand(c)
  <2>1. /\ Head(write_rx[c]) \in 0..MaxOpens
        /\ Tail(write_rx[c]) \in Seq(0..MaxOpens)
    BY <1>0, <1>2, HeadTail DEF ActorCommand, DaemonTypeOK
  <2>2. write_rx' \in [Attempts -> Seq(0..MaxOpens)]
    BY <1>0, <1>2, <2>1 DEF ActorCommand, DaemonTypeOK
  <2>3. arrived' \subseteq Attempts \X Attempts
    <3>1. CASE Head(write_rx[c]) # Close
      <4>1. <<c, Head(write_rx[c])>> \in Attempts \X Attempts
        BY <2>1, <3>1, Constants DEF Close
      <4> QED BY <1>0, <1>2, <3>1, <4>1 DEF ActorCommand, DaemonTypeOK
    <3>2. CASE Head(write_rx[c]) = Close
      BY <1>0, <1>2, <3>2 DEF ActorCommand, DaemonTypeOK
    <3> QED BY <3>1, <3>2
  <2> QED BY <1>0, <1>2, <2>2, <2>3 DEF ActorCommand, DaemonTypeOK
<1>3. CASE ActorBreaks(c)
  BY <1>0, <1>3 DEF ActorBreaks, DaemonTypeOK
<1>4. CASE ActorLosesConn(c)
  <2>1. write_rx' \in [Attempts -> Seq(0..MaxOpens)]
    BY <1>0, <1>4, EmptyType DEF ActorLosesConn, DaemonTypeOK
  <2> QED BY <1>0, <1>4, <2>1 DEF ActorLosesConn, DaemonTypeOK
<1>5. CASE ActorEnds(c)
  <2>1. peerSent' \in [Attempts -> 0..MaxData]
    BY <1>0, <1>5, Constants DEF ActorEnds, DaemonTypeOK
  <2> QED BY <1>0, <1>5, <2>1 DEF ActorEnds, DaemonTypeOK
<1> QED BY <1>1, <1>2, <1>3, <1>4, <1>5
LEMMA DaemonType ==
    ASSUME TypeInv, Daemon
    PROVE  TypeInv'
<1> SUFFICES /\ DriverTypeOK' /\ app' = app /\ attempt' = attempt
             /\ DaemonTypeOK' /\ (dpc' = "down" => started' < MaxDaemons)
  BY DEF TypeInv, TypeOK
<1>0. DriverTypeOK /\ DaemonTypeOK
  BY DEF TypeInv, TypeOK
<1>1. CASE DaemonOpenReq
  BY <1>1, ReceiveType, LoopType DEF DaemonOpenReq
<1>2. CASE DaemonData
  BY <1>2, ReceiveType, LoopType DEF DaemonData
<1>3. CASE DaemonCloseReq
  BY <1>3, ReceiveType, LoopType DEF DaemonCloseReq
<1>4. CASE DaemonTcp
  BY <1>4, DriverSame, LoopType DEF DaemonTcp
<1>5. CASE DaemonOpened
  <2>1. request \in 0..MaxOpens
    BY <1>0 DEF DaemonTypeOK
  <2> QED BY <1>5, <2>1, RecvType, LoopType DEF DaemonOpened
<1>6. CASE DaemonFlush
  <2>1. Head(pending) \in Attempts
    BY <1>0, <1>6, HeadTail DEF DaemonFlush, FlushOne, DaemonTypeOK
  <2> QED BY <1>6, <2>1, RecvType, LoopType DEF DaemonFlush
<1>7. CASE DaemonRegister
  BY <1>7, RecvType, LoopType DEF DaemonRegister
<1>8. CASE DaemonCreate
  BY <1>8, RecvType, LoopType DEF DaemonCreate
<1>9. ASSUME NEW pid \in Nat, Socket(pid)
      PROVE  DriverTypeOK' /\ app' = app /\ attempt' = attempt
  <2>1. chan' \in Seq(ChanMsg) /\ Len(chan') <= RcvBuf
    BY <1>9, EmptyType, Constants DEF Socket
  <2> QED
    BY <1>0, <1>9, <2>1
       DEF Socket, DriverTypeOK, ChanMsg, devVars, fileVars, histVars
<1>10. CASE DaemonCrash
  BY <1>9, <1>10, LoopType DEF DaemonCrash
<1>11. CASE DaemonRestart
  <2>1. started + 1 \in Nat
    BY <1>0 DEF DaemonTypeOK
  <2> QED BY <1>9, <1>11, <2>1, LoopType DEF DaemonRestart
<1>12. ASSUME NEW c \in Attempts, ActorStep(c) \/ PeerSends(c) \/ ConnLost(c)
       PROVE  /\ DriverTypeOK' /\ app' = app /\ attempt' = attempt
              /\ DaemonTypeOK' /\ (dpc' = "down" => started' < MaxDaemons)
  BY <1>12, DriverSame, ActorType DEF ActorStep, PeerSends, ConnLost
<1> QED
  BY <1>1, <1>2, <1>3, <1>4, <1>5, <1>6, <1>7, <1>8, <1>10, <1>11, <1>12
     DEF Daemon, DaemonLoop

LEMMA NextType == TypeInv /\ [Next]_vars => TypeInv'
<1> SUFFICES ASSUME TypeInv, [Next]_vars PROVE TypeInv'
  OBVIOUS
<1>1. CASE Daemon
  BY <1>1, DaemonType
<1>2. CASE \E a \in Apps : Process(a)
  BY <1>2, ProcessType
<1>3. CASE UNCHANGED vars
  BY <1>3, DriverSame, DaemonSame DEF vars, TypeInv, TypeOK
<1> QED BY <1>1, <1>2, <1>3 DEF Next

\* Every variable of the driver and of the daemon keeps its type: the queue of
\* the socket stays within RcvBuf, and a message or a connection always belongs
\* to an open that there was (ncd.c, start.rs, device.rs).
THEOREM SessionTypeCorrect == Spec => []TypeOK
<1>1. Spec => []TypeInv
  BY InitType, NextType, PTL DEF Spec
<1>2. TypeInv => TypeOK
  BY DEF TypeInv
<1> QED BY <1>1, <1>2, PTL

-----------------------------------------------------------------------------
(***************************************************************************)
(* Exclusive access.  open_count alone is not enough: CREATE_DEV resets it *)
(* too, but only for a minor that has no device, and a device disappears   *)
(* under a holder only by REGISTER, which sets cleaned.                    *)
(***************************************************************************)
Exclusive ==
    ~cleaned => \A a \in Holders :
                   /\ in_use /\ open_count = 1
                   /\ \A b \in Holders : a = b

LEMMA ExclusiveProcess ==
    ASSUME TypeInv, Exclusive, NEW a \in Apps, Process(a)
    PROVE  Exclusive'
<1> USE DEF Exclusive, Holders, devVars, fileVars, histVars, NoFile, Become
<1>0. app \in [Apps -> AppState] /\ cleaned' = cleaned
  BY DEF TypeInv, TypeOK, DriverTypeOK, Process, ProcessOpens, ProcessUses,
         ProcessCloses, ProcessSignal, CallStep, OpenClaim, OpenSend, OpenReturn,
         OpenInterrupted, Read, Write, ReleaseSend, Release
<1>1. CASE OpenClaim(a, Remains)
  BY <1>0, <1>1 DEF OpenClaim
<1>2. CASE OpenSend(a)
  BY <1>0, <1>2 DEF OpenSend
<1>3. CASE OpenReturn(a)
  BY <1>0, <1>3 DEF OpenReturn
<1>4. CASE OpenInterrupted(a)
  BY <1>0, <1>4 DEF OpenInterrupted
<1>5. CASE Read(a) \/ Write(a)
  BY <1>0, <1>5 DEF Read, Write
<1>6. CASE ReleaseSend(a)
  BY <1>0, <1>6 DEF ReleaseSend
<1>7. CASE Release(a)
  BY <1>0, <1>7 DEF Release
<1> QED
  BY <1>1, <1>2, <1>3, <1>4, <1>5, <1>6, <1>7
     DEF Process, ProcessOpens, ProcessUses, ProcessCloses, ProcessSignal, CallStep

LEMMA ExclusiveDaemon ==
    ASSUME TypeInv, Exclusive, Daemon
    PROVE  Exclusive'
<1> USE DEF Exclusive, Holders, devVars, fileVars, histVars, netVars, driverVars
<1>1. CASE DaemonRegister
  BY <1>1 DEF DaemonRegister, RecvRegister, DestroyDevice
<1>2. CASE DaemonCreate
  BY <1>2 DEF DaemonCreate, RecvCreateDev, CreateDevice
<1>3. CASE ~DaemonRegister /\ ~DaemonCreate
  <2>1. UNCHANGED <<app, in_use, open_count, cleaned>>
    BY <1>3 DEF Daemon, DaemonLoop, DaemonOpenReq, DaemonData, DaemonCloseReq,
                Receive, DaemonOpened, RecvConnRes, DaemonFlush, RecvData,
                DaemonTcp, DaemonCrash, DaemonRestart, Socket, ActorStep,
                PeerSends, ConnLost
  <2> QED BY <2>1
<1> QED BY <1>1, <1>2, <1>3

LEMMA ExclusiveStep ==
    /\ Init => Exclusive
    /\ TypeInv /\ Exclusive /\ [Next]_vars => Exclusive'
<1>1. Init => Exclusive
  BY DEF Init, DriverInit, Exclusive, Holders
<1>2. ASSUME TypeInv, Exclusive, [Next]_vars PROVE Exclusive'
  <2>1. CASE UNCHANGED vars
    BY <1>2, <2>1 DEF vars, driverVars, devVars, fileVars, histVars, Exclusive, Holders
  <2> QED BY <1>2, <2>1, ExclusiveDaemon, ExclusiveProcess DEF Next
<1> QED BY <1>1, <1>2

LEMMA AlwaysExclusive == Spec => [](TypeInv /\ Exclusive)
  BY InitType, NextType, ExclusiveStep, PTL DEF Spec

\* Two processes never hold the device at once, for any number of them, of
\* daemons that die and return, and of opens that fail or are interrupted
\* ("Ensure exclusive access", ncd_open).
THEOREM DeviceExclusive == Spec => []ExclusiveAccess
<1>1. Exclusive => ExclusiveAccess
  BY DEF Exclusive, ExclusiveAccess
<1> QED BY <1>1, AlwaysExclusive, PTL

-----------------------------------------------------------------------------
(***************************************************************************)
(* Bytes of the own connection.  While a process holds the device that     *)
(* found nothing of an earlier session, all there is on the way is of its  *)
(* own attempt.                                                            *)
(***************************************************************************)
OnlyOf(n) ==
    /\ \A i \in 1..Len(chan) : chan[i].n = n
    /\ dpc = "opening" => request = n
    /\ \A c \in Attempts : Alive(c) => c = n
    /\ \A i \in 1..Len(tcp_rx) : tcp_rx[i] = n
    /\ \A i \in 1..Len(pending) : pending[i] = n
    /\ \A i \in 1..Len(buf) : buf[i] = n

OwnOnly ==
    ~cleaned =>
        /\ \A p \in got : p[1] \in hasty
        /\ \A a \in Holders : attempt[a] \notin hasty => OnlyOf(attempt[a])

LEMMA QueueTypes ==
    ASSUME TypeInv
    PROVE  /\ chan \in Seq(ChanMsg) /\ tcp_rx \in Seq(Attempts)
           /\ pending \in Seq(Attempts) /\ buf \in Seq(Attempts)
           /\ app \in [Apps -> AppState]
           /\ attempt \in [Apps -> 0..MaxOpens]
           /\ actor \in [Attempts -> {"none", "running", "closing", "gone"}]
  BY DEF TypeInv, TypeOK, DriverTypeOK, DaemonTypeOK, ChanMsg

\* Each step of the daemon only hands on what there is.
LEMMA OnlyOfDaemon ==
    ASSUME TypeInv, NEW n \in Attempts, OnlyOf(n), Daemon
    PROVE  OnlyOf(n)'
<1> USE QueueTypes DEF OnlyOf, Alive, driverVars, devVars, netVars
<1>1. CASE DaemonOpenReq
  <2>1. chan' = Tail(chan) /\ request' = Head(chan).n
    BY <1>1 DEF DaemonOpenReq, Receive, OnOpenReq
  <2>2. request' = n /\ \A i \in 1..Len(chan') : chan'[i].n = n
    BY <1>1, <2>1, HeadTail DEF DaemonOpenReq, Receive
  <2> QED
    BY <1>1, <2>2, EmptyType DEF DaemonOpenReq, Receive, OnOpenReq
<1>2. CASE DaemonData \/ DaemonCloseReq
  <2>1. chan # <<>> /\ chan' = Tail(chan)
    BY <1>2 DEF DaemonData, DaemonCloseReq, Receive
  <2>2. \A i \in 1..Len(chan') : chan'[i].n = n
    BY <2>1, HeadTail
  <2>3. UNCHANGED <<dpc, request, actor, tcp_rx, buf>>
    BY <1>2 DEF DaemonData, DaemonCloseReq, Receive, OnData, OnCloseReq
  <2>4. pending' = pending \/ pending' = <<>>
    BY <1>2 DEF DaemonData, DaemonCloseReq, OnData, OnCloseReq
  <2> QED BY <2>2, <2>3, <2>4, EmptyType
<1>3. CASE DaemonTcp
  <2>1. tcp_rx # <<>> /\ tcp_rx' = Tail(tcp_rx) /\ pending' = Append(pending, Head(tcp_rx))
    BY <1>3 DEF DaemonTcp, OnTcpData
  <2>2. Head(tcp_rx) = n /\ \A i \in 1..Len(tcp_rx') : tcp_rx'[i] = n
    BY <2>1, HeadTail
  <2>3. \A i \in 1..Len(pending') : pending'[i] = n
    BY <2>1, <2>2, Appended
  <2> QED BY <1>3, <2>2, <2>3 DEF DaemonTcp, OnTcpData
<1>4. CASE DaemonFlush
  <2>1. pending # <<>> /\ pending' = Tail(pending)
    BY <1>4 DEF DaemonFlush, FlushOne
  <2>2. Head(pending) = n /\ \A i \in 1..Len(pending') : pending'[i] = n
    BY <2>1, HeadTail
  <2>3. buf' = buf \/ buf' = Append(buf, n)
    BY <1>4, <2>2 DEF DaemonFlush, RecvData
  <2>4. \A i \in 1..Len(buf') : buf'[i] = n
    <3>1. n \in Attempts /\ buf \in Seq(Attempts) /\ \A i \in 1..Len(buf) : buf[i] = n
      OBVIOUS
    <3> HIDE DEF OnlyOf
    <3>2. CASE buf' = Append(buf, n)
      BY <3>1, <3>2, Appended
    <3> QED BY <2>3, <3>1, <3>2
  <2> QED BY <1>4, <2>2, <2>4 DEF DaemonFlush, FlushOne, RecvData
<1>5. CASE DaemonOpened
  BY <1>5 DEF DaemonOpened, Opened, OpenFailed, RecvConnRes
<1>6. CASE DaemonRegister \/ DaemonCreate
  <2>1. buf' = buf \/ buf' = <<>>
    BY <1>6 DEF DaemonRegister, DaemonCreate, RecvRegister, RecvCreateDev,
                DestroyDevice, CreateDevice, ncd_clear_buffers
  <2> QED
    BY <1>6, <2>1, EmptyType
       DEF DaemonRegister, DaemonCreate, RecvRegister, RecvCreateDev, DaemonStep
<1>7. CASE DaemonCrash \/ DaemonRestart
  BY <1>7, EmptyType DEF DaemonCrash, DaemonRestart, DaemonDies, DaemonStarts, Socket
<1>8. ASSUME NEW c \in Attempts, ActorStep(c) \/ ConnLost(c) PROVE OnlyOf(n)'
  BY <1>8 DEF ActorStep, ConnLost, ActorCommand, ActorBreaks, ActorEnds,
              ActorLosesConn, Turn
<1>9. ASSUME NEW c \in Attempts, PeerSends(c) PROVE OnlyOf(n)'
  <2>1. c = n /\ tcp_rx' = Append(tcp_rx, c)
    BY <1>9 DEF PeerSends, ActorForward
  <2>2. \A i \in 1..Len(tcp_rx') : tcp_rx'[i] = n
    BY <2>1, Appended
  <2> QED BY <1>9, <2>2 DEF PeerSends, ActorForward
<1> QED
  BY <1>1, <1>2, <1>3, <1>4, <1>5, <1>6, <1>7, <1>8, <1>9 DEF Daemon, DaemonLoop

\* What no step of the daemon touches.
LEMMA DaemonHistory ==
    ASSUME Daemon
    PROVE  UNCHANGED <<app, attempt, got, hasty, interrupted>> /\ (~cleaned' => ~cleaned)
<1> USE DEF driverVars, fileVars, histVars
<1>1. CASE DaemonRegister
  BY <1>1 DEF DaemonRegister, RecvRegister, DestroyDevice
<1>2. CASE DaemonCreate
  BY <1>2 DEF DaemonCreate, RecvCreateDev
<1>3. CASE DaemonLoop
  BY <1>3 DEF DaemonLoop, DaemonOpenReq, DaemonData, DaemonCloseReq, Receive,
              DaemonTcp
<1>4. CASE DaemonOpened \/ DaemonFlush
  BY <1>4 DEF DaemonOpened, RecvConnRes, DaemonFlush, RecvData
<1>5. CASE DaemonCrash \/ DaemonRestart
  BY <1>5 DEF DaemonCrash, DaemonRestart, Socket
<1>6. CASE \E c \in Attempts : ActorStep(c) \/ PeerSends(c) \/ ConnLost(c)
  BY <1>6 DEF ActorStep, PeerSends, ConnLost
<1> QED BY <1>1, <1>2, <1>3, <1>4, <1>5, <1>6 DEF Daemon

LEMMA OwnOnlyDaemon ==
    ASSUME TypeInv, OwnOnly, Daemon
    PROVE  OwnOnly'
<1>1. UNCHANGED <<app, attempt, got, hasty>> /\ (~cleaned' => ~cleaned)
  BY DaemonHistory
<1>2. \A a \in Holders : attempt[a] \in Attempts
  BY DEF Holders, TypeInv
<1>3. Holders' = Holders
  BY <1>1 DEF Holders
<1> QED BY <1>1, <1>2, <1>3, OnlyOfDaemon DEF OwnOnly

\* What a holder sends carries its own attempt.
LEMMA OnlyOfSent ==
    ASSUME TypeInv, NEW n \in Attempts, NEW type \in {"OPEN_REQ", "CLOSE_REQ", "DATA"},
           \A i \in 1..Len(chan) : chan[i].n = n,
           Sent(Msg(type, n)) \/ NotSent
    PROVE  \A i \in 1..Len(chan') : chan'[i].n = n
<1>1. chan' = chan \/ chan' = Append(chan, Msg(type, n))
  BY DEF Sent, NotSent
<1>2. Msg(type, n) \in ChanMsg /\ Msg(type, n).n = n
  BY DEF Msg, ChanMsg
<1>3. chan \in Seq(ChanMsg)
  BY QueueTypes
<1>4. CASE chan' = chan
  BY <1>4
<1>5. CASE chan' = Append(chan, Msg(type, n))
  <2> DEFINE e == Msg(type, n)
  <2>1. e \in ChanMsg /\ e.n = n
    BY <1>2
  <2> HIDE DEF e
  <2>2. /\ Len(chan) \in Nat
        /\ Len(Append(chan, e)) = Len(chan) + 1
        /\ \A i \in 1..Len(chan) + 1 :
              Append(chan, e)[i] = IF i <= Len(chan) THEN chan[i] ELSE e
    BY <1>3, <2>1, Appended
  <2>3. ASSUME NEW i \in 1..Len(chan) + 1 PROVE Append(chan, e)[i].n = n
    <3>1. CASE i \in 1..Len(chan)
      BY <2>2, <3>1
    <3>2. CASE i = Len(chan) + 1
      BY <2>1, <2>2, <3>2
    <3> QED BY <2>2, <3>1, <3>2
  <2>4. chan' = Append(chan, e)
    BY <1>5 DEF e
  <2> QED BY <2>2, <2>3, <2>4
<1> QED BY <1>1, <1>4, <1>5

LEMMA OwnOnlyProcess ==
    ASSUME TypeInv, Exclusive, OwnOnly, NEW a \in Apps, Process(a)
    PROVE  OwnOnly'
<1> USE QueueTypes DEF Holders, devVars, fileVars, histVars, NoFile, Become, daemonVars
<1>0. UNCHANGED <<dpc, request, actor, tcp_rx, pending>> /\ cleaned' = cleaned
  BY DEF Process, ProcessOpens, ProcessUses, ProcessCloses, ProcessSignal,
         CallStep, OpenClaim, OpenSend, OpenReturn, OpenInterrupted, Read, Write,
         ReleaseSend, Release
<1> SUFFICES ASSUME ~cleaned PROVE OwnOnly'
  BY <1>0 DEF OwnOnly
<1>a. ASSUME app[a] # "closed"
      PROVE  /\ attempt[a] \in Attempts
             /\ \A b \in Apps : app[b] # "closed" => b = a
             /\ \A p \in got : p[1] \in hasty
             /\ attempt[a] \notin hasty => OnlyOf(attempt[a])
  BY <1>a DEF TypeInv, Exclusive, OwnOnly
<1>1. CASE OpenClaim(a, Remains)
  <2>1. Holders = {}
    BY <1>1 DEF OpenClaim, Exclusive
  <2>2. PICK n : n = opens + 1
    OBVIOUS
  <2>3. n \notin hasty' => OnlyOf(n)'
    BY <1>0, <1>1, <2>2, EmptyType
       DEF OpenClaim, Remains, OnlyOf, Alive, ncd_clear_buffers, netVars
  <2>4. \A b \in Apps : app'[b] # "closed" => b = a /\ attempt'[b] = n
    BY <1>1, <2>1, <2>2 DEF OpenClaim
  <2>5. \A p \in got' : p[1] \in hasty'
    BY <1>1 DEF OpenClaim, OwnOnly
  <2>6. ASSUME NEW b \in Apps, app'[b] # "closed", attempt'[b] \notin hasty'
        PROVE  OnlyOf(attempt[b])'
    BY <2>3, <2>4, <2>6 DEF OnlyOf
  <2> QED BY <2>5, <2>6 DEF OwnOnly
<1>2. CASE OpenSend(a) \/ Write(a) \/ ReleaseSend(a)
  <2>1. /\ app[a] # "closed"
        /\ \E type \in {"OPEN_REQ", "CLOSE_REQ", "DATA"} :
               Sent(Msg(type, attempt[a])) \/ NotSent
    BY <1>2 DEF OpenSend, Write, ReleaseSend
  <2>2. UNCHANGED <<buf, got, hasty>> /\ \A b \in Apps \ {a} : app'[b] = app[b]
    BY <1>2 DEF OpenSend, Write, ReleaseSend
  <2>3. app'[a] # "closed" => attempt'[a] = attempt[a]
    BY <1>2 DEF OpenSend, Write, ReleaseSend
  <2>4. PICK n : n = attempt[a]
    OBVIOUS
  <2>5. n \notin hasty => OnlyOf(n)'
    BY <1>0, <1>a, <2>1, <2>2, <2>4, OnlyOfSent DEF OnlyOf, Alive
  <2>6. ASSUME NEW b \in Apps, app'[b] # "closed", attempt'[b] \notin hasty'
        PROVE  OnlyOf(attempt[b])'
    BY <1>a, <2>1, <2>2, <2>3, <2>4, <2>5, <2>6 DEF OnlyOf
  <2> QED BY <1>a, <2>1, <2>2, <2>6 DEF OwnOnly
<1>3. CASE OpenReturn(a) \/ OpenInterrupted(a)
  <2>1. app[a] # "closed" /\ UNCHANGED <<chan, buf, got, hasty>>
    BY <1>3 DEF OpenReturn, OpenInterrupted, netVars
  <2>2. \A b \in Apps \ {a} : app'[b] = app[b]
    BY <1>3 DEF OpenReturn, OpenInterrupted
  <2>3. app'[a] # "closed" => attempt'[a] = attempt[a]
    BY <1>3 DEF OpenReturn, OpenInterrupted
  <2>4. PICK n : n = attempt[a]
    OBVIOUS
  <2>5. n \notin hasty => OnlyOf(n)'
    BY <1>0, <1>a, <2>1, <2>4 DEF OnlyOf, Alive
  <2>6. ASSUME NEW b \in Apps, app'[b] # "closed", attempt'[b] \notin hasty'
        PROVE  OnlyOf(attempt[b])'
    BY <1>a, <2>1, <2>2, <2>3, <2>4, <2>5, <2>6 DEF OnlyOf
  <2> QED BY <1>a, <2>1, <2>6 DEF OwnOnly
<1>4. CASE Read(a)
  <2>1. /\ app[a] # "closed" /\ UNCHANGED <<app, attempt, chan, hasty>>
        /\ buf # <<>> /\ buf' = Tail(buf)
        /\ got' = got \cup ({<<attempt[a], Head(buf)>>} \ Own)
    BY <1>4 DEF Read, netVars
  <2>2. CASE attempt[a] \in hasty
    <3>1. \A p \in got' : p[1] \in hasty'
      BY <1>a, <2>1, <2>2
    <3> QED BY <1>a, <2>1, <2>2, <3>1 DEF OwnOnly
  <2>3. CASE attempt[a] \notin hasty
    <3>1. \A i \in 1..Len(buf) : buf[i] = attempt[a]
      BY <1>a, <2>1, <2>3 DEF OnlyOf
    <3>2. Head(buf) = attempt[a] /\ \A i \in 1..Len(buf') : buf'[i] = attempt[a]
      BY <2>1, <3>1, HeadTail
    <3>3. <<attempt[a], Head(buf)>> \in Own
      BY <1>a, <2>1, <3>2 DEF Own
    <3>4. got' = got
      BY <2>1, <3>3
    <3>5. OnlyOf(attempt[a])'
      BY <1>0, <1>a, <2>1, <2>3, <3>2 DEF OnlyOf, Alive
    <3> QED BY <1>a, <2>1, <3>4, <3>5 DEF OwnOnly
  <2> QED BY <2>2, <2>3
<1>5. CASE Release(a)
  <2>1. app[a] # "closed" /\ UNCHANGED <<got, hasty>>
    BY <1>5 DEF Release
  <2>2. \A b \in Apps : app'[b] = "closed"
    BY <1>5, <1>a, <2>1 DEF Release
  <2> QED BY <1>a, <2>1, <2>2 DEF OwnOnly
<1> QED
  BY <1>1, <1>2, <1>3, <1>4, <1>5
     DEF Process, ProcessOpens, ProcessUses, ProcessCloses, ProcessSignal, CallStep

\* A session that found nothing of an earlier one outside the driver reads bytes
\* of its own connection only, however many messages, connections and failures
\* there are (ncd_open, the DATA case, CLOSE_REQ).
THEOREM QuietSessionsReadOwnBytes == Spec => []OwnBytesAfterQuiet
<1>1. Init => OwnOnly
  BY DEF Init, DriverInit, OwnOnly, Holders
<1>2. TypeInv /\ Exclusive /\ OwnOnly /\ [Next]_vars => OwnOnly'
  <2> SUFFICES ASSUME TypeInv, Exclusive, OwnOnly, [Next]_vars PROVE OwnOnly'
    OBVIOUS
  <2>1. CASE UNCHANGED vars
    BY <2>1 DEF vars, driverVars, devVars, fileVars, netVars, histVars, daemonVars,
                OwnOnly, OnlyOf, Alive, Holders
  <2> QED BY <2>1, OwnOnlyDaemon, OwnOnlyProcess DEF Next
<1>3. OwnOnly => OwnBytesAfterQuiet
  BY DEF OwnOnly, OwnBytesAfterQuiet
<1>4. Spec => []OwnOnly
  BY AlwaysExclusive, <1>1, <1>2, PTL DEF Spec
<1> QED BY <1>3, <1>4, PTL

-----------------------------------------------------------------------------
(***************************************************************************)
(* Answers.  Until a signal gives up an open or a device is removed under  *)
(* its holder, at most one request is outstanding, in the socket or in     *)
(* Device::open, and the process that waits is the one that made it.       *)
(***************************************************************************)
IsOpenReq(i) == i \in 1..Len(chan) /\ chan[i].type = "OPEN_REQ"

Asked(n) ==
    /\ conn_status = "WAITING"
    /\ \E a \in Apps : app[a] = "waiting" /\ attempt[a] = n

AnswerInv ==
    /\ \A a \in Apps : app[a] = "claimed" => conn_status = "WAITING"
    /\ \A a \in Apps :
          app[a] = "waiting" /\ conn_status # "WAITING" => lastRes = attempt[a]
    /\ \A a \in Apps : app[a] = "open" => answeredBy[a] = attempt[a]
    /\ dpc = "opening" => Asked(request)
    /\ \A i \in 1..Len(chan) : IsOpenReq(i) =>
          /\ Asked(chan[i].n)
          /\ dpc # "opening"
          /\ \A j \in 1..Len(chan) : IsOpenReq(j) => j = i

Answers == ~interrupted /\ ~cleaned => AnswerInv

LEMMA AnswersLoop ==
    ASSUME TypeInv, AnswerInv, DaemonLoop
    PROVE  AnswerInv'
<1> USE QueueTypes DEF AnswerInv, Asked, IsOpenReq, driverVars, devVars, fileVars
<1>1. ASSUME NEW type, Receive(type)
      PROVE  /\ \A i \in 1..Len(chan') :
                   /\ chan'[i] = chan[i + 1]
                   /\ i + 1 \in 1..Len(chan) /\ i + 1 # 1
             /\ 1 \in 1..Len(chan) /\ chan[1].type = type /\ chan[1] = Head(chan)
             /\ UNCHANGED <<conn_status, lastRes, app, attempt, answeredBy>>
  BY <1>1, HeadTail DEF Receive
<1>2. CASE DaemonOpenReq
  <2>1. Receive("OPEN_REQ") /\ dpc' = "opening" /\ request' = chan[1].n
    BY <1>1, <1>2 DEF DaemonOpenReq, OnOpenReq
  <2>2. Asked(chan[1].n) /\ \A i \in 1..Len(chan') : ~IsOpenReq(i)'
    <3>1. IsOpenReq(1) /\ 1 \in 1..Len(chan)
      BY <1>1, <2>1
    <3>2. Asked(chan[1].n) /\ \A j \in 1..Len(chan) : IsOpenReq(j) => j = 1
      BY <3>1, Zenon
    <3>3. ASSUME NEW i \in 1..Len(chan'), IsOpenReq(i)' PROVE FALSE
      <4>1. IsOpenReq(i + 1) /\ i + 1 \in 1..Len(chan) /\ i + 1 # 1
        BY <1>1, <2>1, <3>3
      <4> QED BY <3>2, <4>1
    <3> QED BY <3>2, <3>3
  <2> QED BY <1>1, <2>1, <2>2
<1>3. CASE DaemonData \/ DaemonCloseReq
  <2>1. (\E type \in {"DATA", "CLOSE_REQ"} : Receive(type)) /\ UNCHANGED <<dpc, request>>
    BY <1>3 DEF DaemonData, DaemonCloseReq, OnData, OnCloseReq
  <2>2. /\ \A i \in 1..Len(chan') : chan'[i] = chan[i + 1] /\ i + 1 \in 1..Len(chan)
        /\ UNCHANGED <<conn_status, lastRes, app, attempt, answeredBy>>
    BY <1>1, <2>1
  <2>3. ASSUME NEW i \in 1..Len(chan'), IsOpenReq(i)'
        PROVE  /\ Asked(chan[i].n)'
               /\ dpc' # "opening"
               /\ \A j \in 1..Len(chan') : IsOpenReq(j)' => j = i
    <3>1. IsOpenReq(i + 1) /\ i + 1 \in 1..Len(chan)
      BY <2>2, <2>3
    <3>2. /\ Asked(chan[i + 1].n) /\ dpc # "opening"
          /\ \A k \in 1..Len(chan) : IsOpenReq(k) => k = i + 1
      BY <3>1, Zenon
    <3>3. ASSUME NEW j \in 1..Len(chan'), IsOpenReq(j)' PROVE j = i
      <4>1. IsOpenReq(j + 1) /\ j + 1 \in 1..Len(chan)
        BY <2>2, <3>3
      <4>2. j + 1 = i + 1
        BY <3>2, <4>1
      <4> QED BY <4>2
    <3>4. Asked(chan[i].n)'
      BY <2>2, <3>2
    <3> QED BY <2>1, <3>2, <3>3, <3>4
  <2> QED BY <2>1, <2>2, <2>3
<1>4. CASE DaemonTcp
  BY <1>4 DEF DaemonTcp, OnTcpData, netVars
<1> QED BY <1>2, <1>3, <1>4 DEF DaemonLoop

LEMMA AnswersDaemon ==
    ASSUME TypeInv, Exclusive, Answers, Daemon
    PROVE  Answers'
<1>1. interrupted' = interrupted /\ (~cleaned' => ~cleaned)
  BY DaemonHistory
<1> SUFFICES ASSUME ~interrupted, ~cleaned, AnswerInv PROVE AnswerInv'
  BY <1>1 DEF Answers
<1> USE QueueTypes DEF AnswerInv, Asked, IsOpenReq, driverVars, devVars, fileVars, netVars
<1>2. CASE DaemonLoop
  BY <1>2, AnswersLoop
<1>3. CASE DaemonOpened
  <2>1. /\ dpc = "opening" /\ dpc' = "select"
        /\ UNCHANGED <<chan, app, attempt, answeredBy>>
    BY <1>3 DEF DaemonOpened, Opened, OpenFailed, RecvConnRes
  <2>2. PICK a \in Apps : app[a] = "waiting" /\ attempt[a] = request
    BY <2>1
  <2>3. \A b \in Apps : app[b] # "closed" => b = a
    BY <2>2 DEF Exclusive, Holders
  <2>4. \/ UNCHANGED <<conn_status, lastRes>>
        \/ conn_status' # "WAITING" /\ lastRes' = request
    BY <1>3 DEF DaemonOpened, RecvConnRes
  <2> QED BY <2>1, <2>2, <2>3, <2>4
<1>4. CASE DaemonCreate
  <2>1. CASE in_use
    BY <1>4, <2>1 DEF DaemonCreate, RecvCreateDev, DaemonStep
  <2>2. CASE ~in_use
    <3>1. \A a \in Apps : app[a] = "closed"
      BY <2>2 DEF Exclusive, Holders
    <3> QED BY <1>4, <3>1 DEF DaemonCreate, RecvCreateDev, DaemonStep
  <2> QED BY <2>1, <2>2
<1>5. CASE DaemonRegister \/ DaemonFlush
  BY <1>5 DEF DaemonRegister, RecvRegister, DaemonStep, DaemonFlush, FlushOne,
              RecvData
<1>6. CASE DaemonCrash \/ DaemonRestart
  BY <1>6, EmptyType
     DEF DaemonCrash, DaemonRestart, DaemonDies, DaemonStarts, Socket
<1>7. CASE \E c \in Attempts : ActorStep(c) \/ PeerSends(c) \/ ConnLost(c)
  BY <1>7 DEF ActorStep, PeerSends, ConnLost, ActorCommand, ActorBreaks, ActorEnds,
              ActorForward, ActorLosesConn
<1> QED BY <1>2, <1>3, <1>4, <1>5, <1>6, <1>7 DEF Daemon

LEMMA AnswersProcess ==
    ASSUME TypeInv, Exclusive, Answers, NEW a \in Apps, Process(a)
    PROVE  Answers'
<1>1. UNCHANGED <<dpc, request>> /\ cleaned' = cleaned /\ (~interrupted' => ~interrupted)
  BY DEF Process, ProcessOpens, ProcessUses, ProcessCloses, ProcessSignal,
         CallStep, OpenClaim, OpenSend, OpenReturn, OpenInterrupted, Read, Write,
         ReleaseSend, Release, histVars, daemonVars
<1> SUFFICES ASSUME ~interrupted, ~cleaned, ~interrupted', AnswerInv PROVE AnswerInv'
  BY <1>1 DEF Answers
<1> USE QueueTypes DEF AnswerInv, Asked, IsOpenReq, devVars, fileVars, netVars,
                       NoFile, Become
<1>2. ASSUME app[a] # "closed"
      PROVE  (\A b \in Apps : app[b] # "closed" => b = a) /\ attempt[a] \in Attempts
  BY <1>2 DEF Exclusive, Holders, TypeInv
<1>3. ASSUME app[a] # "closed", app[a] # "waiting" \/ conn_status # "WAITING"
      PROVE  dpc # "opening" /\ \A i \in 1..Len(chan) : ~IsOpenReq(i)
  BY <1>2, <1>3
<1>4. CASE OpenClaim(a, Remains)
  <2>1. \A b \in Apps : app[b] = "closed"
    BY <1>4 DEF OpenClaim, Exclusive, Holders
  <2>2. dpc # "opening" /\ \A i \in 1..Len(chan) : ~IsOpenReq(i)
    BY <2>1
  <2> QED BY <1>1, <1>4, <2>1, <2>2 DEF OpenClaim, SetWaiting
<1>5. CASE OpenSend(a)
  <2>1. app[a] = "claimed" /\ conn_status' = "WAITING"
    BY <1>5 DEF OpenSend
  <2>2. dpc # "opening" /\ \A i \in 1..Len(chan) : ~IsOpenReq(i)
    BY <1>3, <2>1
  <2>3. CASE Sent(Msg("OPEN_REQ", attempt[a])) /\ Become(a, "waiting")
    <3>1. Msg("OPEN_REQ", attempt[a]) \in ChanMsg
      BY <1>2, <2>1 DEF Msg, ChanMsg
    <3>2. \A i \in 1..Len(chan') :
             chan'[i] = IF i <= Len(chan) THEN chan[i] ELSE Msg("OPEN_REQ", attempt[a])
      BY <2>3, <3>1, Appended DEF Sent
    <3>3. Len(chan') = Len(chan) + 1 /\ Len(chan) \in Nat
      BY <2>3, <3>1, Appended DEF Sent
    <3>4. \A i \in 1..Len(chan') :
             IsOpenReq(i)' => i = Len(chan) + 1 /\ chan'[i].n = attempt[a]
      <4> SUFFICES ASSUME NEW i \in 1..Len(chan'), IsOpenReq(i)'
                   PROVE  i = Len(chan) + 1 /\ chan'[i].n = attempt[a]
        OBVIOUS
      <4>1. CASE i <= Len(chan)
        <5>1. chan'[i] = chan[i] /\ i \in 1..Len(chan) /\ chan'[i].type = "OPEN_REQ"
          BY <3>2, <3>3, <4>1
        <5> QED BY <2>2, <5>1
      <4>2. CASE ~(i <= Len(chan))
        <5>1. i = Len(chan) + 1 /\ chan'[i] = Msg("OPEN_REQ", attempt[a])
          BY <3>2, <3>3, <4>2
        <5> QED BY <5>1 DEF Msg
      <4> QED BY <4>1, <4>2
    <3>5. app' = [app EXCEPT ![a] = "waiting"] /\ UNCHANGED <<attempt, answeredBy>>
      BY <2>3
    <3>6. \A b \in Apps : app'[b] # "closed" => b = a
      BY <1>2, <2>1, <3>5
    <3> QED BY <1>1, <2>1, <2>2, <3>3, <3>4, <3>5, <3>6
  <2>4. CASE NotSent /\ NoFile(a)
    <3>1. chan' = chan /\ \A b \in Apps : app'[b] = "closed"
      BY <1>2, <2>1, <2>4 DEF NotSent
    <3> QED BY <1>1, <2>2, <3>1
  <2> QED BY <1>5, <2>3, <2>4 DEF OpenSend
<1>6. CASE OpenReturn(a)
  <2>1. dpc # "opening" /\ \A i \in 1..Len(chan) : ~IsOpenReq(i)
    BY <1>3, <1>6 DEF OpenReturn
  <2>2. \A b \in Apps : app[b] # "closed" => b = a
    BY <1>2, <1>6 DEF OpenReturn
  <2>3. answeredBy \in [Apps -> 0..MaxOpens]
    BY DEF TypeInv, TypeOK, DriverTypeOK
  <2> QED BY <1>1, <1>6, <2>1, <2>2, <2>3 DEF OpenReturn
<1>7. CASE OpenInterrupted(a)
  BY <1>7 DEF OpenInterrupted
<1>8. CASE Read(a)
  BY <1>1, <1>8 DEF Read
<1>9. CASE Write(a) \/ ReleaseSend(a)
  <2>1. app[a] = "open"
    BY <1>9 DEF Write, ReleaseSend
  <2>2. dpc # "opening" /\ \A i \in 1..Len(chan) : ~IsOpenReq(i)
    BY <1>3, <2>1
  <2>3. PICK type \in {"DATA", "CLOSE_REQ"} : Sent(Msg(type, attempt[a])) \/ NotSent
    BY <1>9 DEF Write, ReleaseSend
  <2>4. Msg(type, attempt[a]) \in ChanMsg /\ Msg(type, attempt[a]).type # "OPEN_REQ"
    BY <1>2, <2>1 DEF Msg, ChanMsg
  <2>5. \A i \in 1..Len(chan') : ~IsOpenReq(i)'
    <3>1. CASE chan' = chan
      BY <2>2, <3>1
    <3>2. CASE chan' = Append(chan, Msg(type, attempt[a]))
      <4>1. \A i \in 1..Len(chan') :
               \/ i \in 1..Len(chan) /\ chan'[i] = chan[i]
               \/ chan'[i] = Msg(type, attempt[a])
        BY <2>4, <3>2, Appended
      <4> QED BY <2>2, <2>4, <4>1
    <3> QED BY <2>3, <3>1, <3>2 DEF Sent, NotSent
  <2>6. UNCHANGED <<conn_status, lastRes, attempt, answeredBy>>
    BY <1>9 DEF Write, ReleaseSend
  <2>7. app' = app \/ app' = [app EXCEPT ![a] = "releasing"]
    BY <1>9 DEF Write, ReleaseSend
  <2> QED BY <1>1, <2>2, <2>5, <2>6, <2>7
<1>10. CASE Release(a)
  <2>1. dpc # "opening" /\ \A i \in 1..Len(chan) : ~IsOpenReq(i)
    BY <1>3, <1>10 DEF Release
  <2>2. \A b \in Apps : app'[b] = "closed"
    BY <1>2, <1>10 DEF Release
  <2> QED BY <1>1, <1>10, <2>1, <2>2 DEF Release
<1> QED
  BY <1>4, <1>5, <1>6, <1>7, <1>8, <1>9, <1>10
     DEF Process, ProcessOpens, ProcessUses, ProcessCloses, ProcessSignal, CallStep

LEMMA AlwaysAnswers == Spec => [](TypeInv /\ Exclusive /\ Answers)
<1>1. Init => Answers
  BY EmptyType DEF Init, DriverInit, DaemonInit, Answers, AnswerInv, IsOpenReq
<1>2. TypeInv /\ Exclusive /\ Answers /\ [Next]_vars => Answers'
  <2> SUFFICES ASSUME TypeInv, Exclusive, Answers, [Next]_vars PROVE Answers'
    OBVIOUS
  <2>1. CASE UNCHANGED vars
    BY <2>1 DEF vars, driverVars, devVars, fileVars, netVars, histVars, daemonVars,
                Answers, AnswerInv, Asked, IsOpenReq
  <2> QED BY <2>1, AnswersDaemon, AnswersProcess DEF Next
<1> QED BY AlwaysExclusive, <1>1, <1>2, PTL DEF Spec

\* An open that succeeds was let in by the connection made for it, for any
\* number of opens, lost messages and daemons that die and return (ncd_open,
\* OPEN_REQ, CONN_RES).
THEOREM AnswersAreForTheOpener == Spec => []AnsweredByOwn
<1>1. Answers => AnsweredByOwn
  BY DEF Answers, AnswerInv, AnsweredByOwn
<1> QED BY <1>1, AlwaysAnswers, PTL

-----------------------------------------------------------------------------
(***************************************************************************)
(* Writes.  A request to open is the last message in the socket, so that   *)
(* what was written before is at its connection when write_tx moves on;    *)
(* while a process has the file open, write_tx leads to its connection or  *)
(* nowhere.                                                                *)
(***************************************************************************)
WriteInv ==
    /\ arrived = {}
    /\ \A c \in Attempts : \A i \in 1..Len(write_rx[c]) : write_rx[c][i] \in {Close, c}
    /\ dpc = "opening" => chan = <<>>
    /\ \A i \in 1..Len(chan) : IsOpenReq(i) => i = Len(chan)
    /\ \A i \in 1..Len(chan) : chan[i].type = "DATA" => write_tx \in {0, chan[i].n}
    /\ \A a \in Apps :
          app[a] = "open" \/ (app[a] = "waiting" /\ conn_status = "SUCCESS")
              => write_tx \in {0, attempt[a]}

Writes == ~interrupted /\ ~cleaned => WriteInv

LEMMA WritesProcess ==
    ASSUME TypeInv, Exclusive, Answers, Writes, NEW a \in Apps, Process(a)
    PROVE  Writes'
<1>1. /\ UNCHANGED <<dpc, write_tx, write_rx, arrived>>
      /\ cleaned' = cleaned /\ (~interrupted' => ~interrupted)
  BY DEF Process, ProcessOpens, ProcessUses, ProcessCloses, ProcessSignal,
         CallStep, OpenClaim, OpenSend, OpenReturn, OpenInterrupted, Read, Write,
         ReleaseSend, Release, histVars, daemonVars
<1> SUFFICES ASSUME ~interrupted, ~cleaned, ~interrupted', AnswerInv, WriteInv
             PROVE  WriteInv'
  BY <1>1 DEF Writes, Answers
<1> USE QueueTypes DEF WriteInv, IsOpenReq, devVars, fileVars, netVars, NoFile, Become
<1>2. ASSUME app[a] # "closed", app[a] # "waiting"
      PROVE  /\ \A b \in Apps : app[b] # "closed" => b = a
             /\ attempt[a] \in Attempts
             /\ dpc # "opening" /\ \A i \in 1..Len(chan) : ~IsOpenReq(i)
  <2>1. (\A b \in Apps : app[b] # "closed" => b = a) /\ attempt[a] \in Attempts
    BY <1>2 DEF Exclusive, Holders, TypeInv
  <2>2. \A n : ~Asked(n)
    BY <1>2, <2>1 DEF Asked
  <2>3. dpc # "opening"
    BY <2>2, Zenon DEF AnswerInv
  <2>4. \A i \in 1..Len(chan) : ~IsOpenReq(i)
    BY <2>2, Zenon DEF AnswerInv
  <2> QED BY <2>1, <2>3, <2>4
<1>3. CASE OpenClaim(a, Remains)
  BY <1>1, <1>3 DEF OpenClaim, SetWaiting
<1>4. CASE OpenSend(a) \/ Write(a) \/ ReleaseSend(a)
  <2>1. app[a] # "closed" /\ app[a] # "waiting"
    BY <1>4 DEF OpenSend, Write, ReleaseSend
  <2>2. UNCHANGED conn_status
    BY <1>4 DEF OpenSend, Write, ReleaseSend
  <2>3. app'[a] = "open" => app[a] = "open" /\ attempt'[a] = attempt[a]
    BY <1>4 DEF OpenSend, Write, ReleaseSend
  <2>4. \A b \in Apps : app'[b] # "closed" => b = a
    BY <1>2, <1>4, <2>1 DEF OpenSend, Write, ReleaseSend
  <2>5. PICK type \in {"OPEN_REQ", "DATA", "CLOSE_REQ"} :
             /\ chan' = chan \/ chan' = Append(chan, Msg(type, attempt[a]))
             /\ type = "DATA" => app[a] = "open"
             /\ type = "OPEN_REQ" => app[a] = "claimed"
    BY <1>4 DEF OpenSend, Write, ReleaseSend, Sent, NotSent
  <2>6. app'[a] = "waiting" => conn_status = "WAITING"
    BY <1>4 DEF OpenSend, Write, ReleaseSend, AnswerInv
  <2>7. \A b \in Apps :
           app'[b] = "open" \/ (app'[b] = "waiting" /\ conn_status' = "SUCCESS")
              => write_tx' \in {0, attempt'[b]}
    BY <1>1, <2>2, <2>3, <2>4, <2>6
  <2>8. CASE chan' = chan
    BY <1>1, <2>7, <2>8
  <2>9. CASE chan' = Append(chan, Msg(type, attempt[a]))
    <3>1. Msg(type, attempt[a]) \in ChanMsg
      BY <1>2, <2>1 DEF Msg, ChanMsg
    <3>2. /\ Len(chan) \in Nat /\ Len(chan') = Len(chan) + 1
          /\ \A i \in 1..Len(chan') :
                \/ i \in 1..Len(chan) /\ chan'[i] = chan[i]
                \/ i = Len(chan') /\ chan'[i] = Msg(type, attempt[a])
      BY <2>9, <3>1, Appended
    <3>3. ASSUME NEW i \in 1..Len(chan')
          PROVE  /\ IsOpenReq(i)' => i = Len(chan')
                 /\ chan'[i].type = "DATA" => write_tx \in {0, chan'[i].n}
      <4>1. CASE i \in 1..Len(chan) /\ chan'[i] = chan[i]
        BY <1>2, <2>1, <4>1
      <4>2. CASE i = Len(chan') /\ chan'[i] = Msg(type, attempt[a])
        BY <2>5, <4>2 DEF Msg
      <4> QED BY <3>2, <4>1, <4>2
    <3> QED BY <1>1, <1>2, <2>1, <2>7, <3>3
  <2> QED BY <2>5, <2>8, <2>9
<1>5. CASE OpenReturn(a)
  BY <1>1, <1>5 DEF OpenReturn
<1>6. CASE OpenInterrupted(a)
  BY <1>6 DEF OpenInterrupted
<1>7. CASE Read(a)
  BY <1>1, <1>7 DEF Read
<1>8. CASE Release(a)
  BY <1>1, <1>8 DEF Release, SetWaiting
<1> QED
  BY <1>3, <1>4, <1>5, <1>6, <1>7, <1>8
     DEF Process, ProcessOpens, ProcessUses, ProcessCloses, ProcessSignal, CallStep

\* A command for the actor that write_tx leads to.
LEMMA CommandKept ==
    ASSUME TypeInv, WriteInv, NEW cmd \in 0..MaxOpens, send_command(cmd),
           cmd # Close => write_tx \in {0, cmd}
    PROVE  \A c \in Attempts :
              \A i \in 1..Len(write_rx'[c]) : write_rx'[c][i] \in {Close, c}
<1>1. write_rx \in [Attempts -> Seq(0..MaxOpens)] /\ write_tx \in 0..MaxOpens
  BY DEF TypeInv, TypeOK, DaemonTypeOK
<1>2. CASE UNCHANGED write_rx
  BY <1>2 DEF WriteInv
<1>3. CASE write_tx # 0 /\ write_rx' = [write_rx EXCEPT ![write_tx] = Append(@, cmd)]
  <2>1. write_tx \in Attempts /\ write_rx[write_tx] \in Seq(0..MaxOpens)
    BY <1>1, <1>3, Constants
  <2>2. /\ write_rx'[write_tx] = Append(write_rx[write_tx], cmd)
        /\ \A c \in Attempts \ {write_tx} : write_rx'[c] = write_rx[c]
    BY <1>1, <1>3, <2>1
  <2>3. ASSUME NEW i \in 1..Len(write_rx'[write_tx])
        PROVE  write_rx'[write_tx][i] \in {Close, write_tx}
    <3>1. \/ i \in 1..Len(write_rx[write_tx])
             /\ write_rx'[write_tx][i] = write_rx[write_tx][i]
          \/ write_rx'[write_tx][i] = cmd
      BY <2>1, <2>2, <2>3, Appended
    <3>2. cmd \in {Close, write_tx}
      BY <1>3
    <3> QED BY <2>1, <3>1, <3>2 DEF WriteInv
  <2> QED BY <2>2, <2>3 DEF WriteInv
<1> QED BY <1>2, <1>3 DEF send_command

LEMMA WritesDaemon ==
    ASSUME TypeInv, Exclusive, Answers, Writes, Daemon
    PROVE  Writes'
<1>1. interrupted' = interrupted /\ (~cleaned' => ~cleaned)
  BY DaemonHistory
<1> SUFFICES ASSUME ~interrupted, ~cleaned, AnswerInv, WriteInv PROVE WriteInv'
  BY <1>1 DEF Writes, Answers
<1>2. write_rx \in [Attempts -> Seq(0..MaxOpens)] /\ write_tx \in 0..MaxOpens
  BY DEF TypeInv, TypeOK, DaemonTypeOK
<1> USE QueueTypes DEF WriteInv, IsOpenReq, driverVars, devVars, fileVars, netVars
<1>3. ASSUME NEW type, Receive(type)
      PROVE  /\ \A i \in 1..Len(chan') :
                   /\ chan'[i] = chan[i + 1]
                   /\ i + 1 \in 1..Len(chan) /\ Len(chan) = Len(chan') + 1
             /\ Len(chan') \in Nat
             /\ 1 \in 1..Len(chan) /\ chan[1].type = type /\ chan[1] = Head(chan)
             /\ UNCHANGED <<conn_status, app, attempt>>
  BY <1>3, HeadTail DEF Receive
<1>4. ASSUME NEW type, Receive(type)
      PROVE  /\ \A i \in 1..Len(chan') : IsOpenReq(i)' => i = Len(chan')
             /\ \A i \in 1..Len(chan') :
                   chan'[i].type = "DATA" => write_tx \in {0, chan'[i].n}
  <2> SUFFICES ASSUME NEW i \in 1..Len(chan')
               PROVE  /\ IsOpenReq(i)' => i = Len(chan')
                      /\ chan'[i].type = "DATA" => write_tx \in {0, chan'[i].n}
    OBVIOUS
  <2>1. chan'[i] = chan[i + 1] /\ i + 1 \in 1..Len(chan) /\ Len(chan) = Len(chan') + 1
    BY <1>3, <1>4
  <2>2. IsOpenReq(i + 1) => i + 1 = Len(chan') + 1
    BY <2>1
  <2> QED BY <2>1, <2>2
<1>5. CASE DaemonOpenReq
  <2>1. Receive("OPEN_REQ")
    BY <1>5 DEF DaemonOpenReq
  <2>2. 1 = Len(chan)
    BY <1>3, <2>1
  <2>3. chan' = <<>>
    BY <1>5, <2>2, HeadTail, EmptyType DEF DaemonOpenReq, Receive
  <2> QED
    BY <1>3, <1>4, <1>5, <2>1, <2>3, EmptyType DEF DaemonOpenReq, OnOpenReq
<1>6. CASE DaemonData
  <2>1. Receive("DATA") /\ OnData(chan[1].n) /\ send_command(chan[1].n)
    BY <1>3, <1>6 DEF DaemonData, OnData
  <2>2. write_tx \in {0, chan[1].n} /\ chan[1].n \in 0..MaxOpens
    BY <1>3, <2>1, ReceiveType, Constants
  <2>3. \A c \in Attempts :
           \A i \in 1..Len(write_rx'[c]) : write_rx'[c][i] \in {Close, c}
    BY <2>1, <2>2, CommandKept
  <2> QED BY <1>3, <1>4, <2>1, <2>3 DEF OnData
<1>7. CASE DaemonCloseReq
  <2>1. Receive("CLOSE_REQ") /\ OnCloseReq /\ send_command(Close)
    BY <1>7 DEF DaemonCloseReq, OnCloseReq
  <2>2. \A c \in Attempts :
           \A i \in 1..Len(write_rx'[c]) : write_rx'[c][i] \in {Close, c}
    BY <2>1, CommandKept, Constants DEF Close
  <2> QED BY <1>3, <1>4, <2>1, <2>2 DEF OnCloseReq
<1>8. CASE DaemonTcp \/ DaemonFlush \/ DaemonRegister
  BY <1>8 DEF DaemonTcp, OnTcpData, DaemonFlush, FlushOne, RecvData,
              DaemonRegister, RecvRegister, DaemonStep
<1>9. CASE DaemonOpened
  <2>1. /\ chan = <<>> /\ chan' = <<>> /\ dpc' = "select"
        /\ UNCHANGED <<app, attempt, write_rx, arrived>>
    BY <1>9 DEF DaemonOpened, Opened, OpenFailed, RecvConnRes
  <2>2. PICK a \in Apps : app[a] = "waiting" /\ attempt[a] = request
    BY <1>9 DEF DaemonOpened, Opened, OpenFailed, AnswerInv, Asked
  <2>3. \A b \in Apps : app[b] # "closed" => b = a
    BY <2>2 DEF Exclusive, Holders
  <2>4. \/ write_tx' = request
        \/ conn_status' # "SUCCESS"
    BY <1>9 DEF DaemonOpened, Opened, OpenFailed, RecvConnRes, AnswerInv, Asked
  <2> QED BY <2>1, <2>2, <2>3, <2>4, EmptyType
<1>10. CASE DaemonCreate
  <2>1. conn_status' = conn_status \/ conn_status' = "WAITING"
    BY <1>10 DEF DaemonCreate, RecvCreateDev, CreateDevice, SetWaiting
  <2> QED BY <1>10, <2>1 DEF DaemonCreate, RecvCreateDev, DaemonStep
<1>11. CASE DaemonCrash
  <2>1. chan' = <<>> /\ write_tx' = 0 /\ arrived' = arrived
        /\ write_rx' = [c \in Attempts |-> <<>>]
    BY <1>11 DEF DaemonCrash, DaemonDies, Socket
  <2> QED BY <2>1, EmptyType
<1>12. CASE DaemonRestart
  BY <1>12, EmptyType DEF DaemonRestart, DaemonStarts, Socket
<1>13. ASSUME NEW c \in Attempts, ActorStep(c) \/ PeerSends(c) \/ ConnLost(c)
       PROVE  WriteInv'
  <2>1. UNCHANGED <<chan, app, attempt, conn_status, dpc, write_tx>>
    BY <1>13 DEF ActorStep, PeerSends, ConnLost, ActorForward, ActorCommand,
                 ActorBreaks, ActorEnds, ActorLosesConn
  <2>2. CASE ActorCommand(c)
    <3>1. write_rx[c] \in Seq(0..MaxOpens) /\ write_rx[c] # <<>>
      BY <1>2, <2>2 DEF ActorCommand
    <3>2. Head(write_rx[c]) \in {Close, c}
      BY <3>1, HeadTail
    <3>3. arrived' = {}
      <4>1. <<c, c>> \in Own
        BY DEF Own
      <4> QED BY <2>2, <3>2, <4>1 DEF ActorCommand
    <3>4. /\ write_rx'[c] = Tail(write_rx[c])
          /\ \A d \in Attempts \ {c} : write_rx'[d] = write_rx[d]
      BY <1>2, <2>2 DEF ActorCommand
    <3>5. \A i \in 1..Len(write_rx'[c]) : write_rx'[c][i] \in {Close, c}
      BY <3>1, <3>4, HeadTail
    <3> QED BY <2>1, <3>3, <3>4, <3>5
  <2>3. CASE ActorLosesConn(c)
    <3>1. /\ write_rx'[c] = <<>>
          /\ \A d \in Attempts \ {c} : write_rx'[d] = write_rx[d]
      BY <1>2, <2>3 DEF ActorLosesConn
    <3> QED BY <2>1, <2>3, <3>1, EmptyType DEF ActorLosesConn
  <2>4. CASE ActorForward(c) \/ ActorBreaks(c) \/ ActorEnds(c)
    BY <2>1, <2>4 DEF ActorForward, ActorBreaks, ActorEnds
  <2> QED BY <1>13, <2>2, <2>3, <2>4 DEF ActorStep, PeerSends, ConnLost
<1> QED
  BY <1>5, <1>6, <1>7, <1>8, <1>9, <1>10, <1>11, <1>12, <1>13
     DEF Daemon, DaemonLoop

\* What a process writes goes to the connection of its own session or nowhere,
\* for any number of sessions, writes, lost messages and dying daemons
\* (Device::write, open and close).
THEOREM WritesGoToOwnConnection == Spec => []WritesReachOwnConn
<1>1. Init => Writes
  BY EmptyType DEF Init, DriverInit, DaemonInit, Writes, WriteInv
<1>2. TypeInv /\ Exclusive /\ Answers /\ Writes /\ [Next]_vars => Writes'
  <2> SUFFICES ASSUME TypeInv, Exclusive, Answers, Writes, [Next]_vars PROVE Writes'
    OBVIOUS
  <2>1. CASE UNCHANGED vars
    BY <2>1 DEF vars, driverVars, devVars, fileVars, netVars, histVars, daemonVars,
                Writes, WriteInv, IsOpenReq
  <2> QED BY <2>1, WritesDaemon, WritesProcess DEF Next
<1>3. Writes => WritesReachOwnConn
  BY DEF Writes, WriteInv, WritesReachOwnConn
<1>4. Spec => []Writes
  BY AlwaysAnswers, <1>1, <1>2, PTL DEF Spec
<1> QED BY <1>3, <1>4, PTL
=============================================================================
