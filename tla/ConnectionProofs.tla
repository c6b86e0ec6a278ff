-------------------------- MODULE ConnectionProofs --------------------------
(***************************************************************************)
(* Theorems about Connection and MCConnection, for every value of their    *)
(* constants: the stream between the two ends, the type invariant, what    *)
(* the parties stand at, and, in the second half, that each direction is a *)
(* pipe and that ControlClose means all.                                   *)
(***************************************************************************)
EXTENDS MCConnection, SequenceTheorems, SequenceLemmas, TLAPS

(***************************************************************************)
(* The stream between the two ends.                                        *)
(***************************************************************************)

LEMMA QueueType ==
    ASSUME NEW S, NEW q \in Seq(S), q # <<>>
    PROVE  Head(q) \in S /\ Tail(q) \in Seq(S) /\ Len(Tail(q)) = Len(q) - 1
  OBVIOUS

LEMMA EmptyByLength ==
    ASSUME NEW S, NEW t \in Seq(S)
    PROVE  /\ Len(t) = 0 => t = <<>>
           /\ Len(t) > 0 => t # <<>>
<1>1. Len(t) = 0 => t = <<>>
  BY EmptySeq
<1>2. Len(t) > 0 => t # <<>>
  OBVIOUS
<1> QED BY <1>1, <1>2

LEMMA TailLemma ==
    ASSUME NEW S, NEW q \in Seq(S), q # <<>>
    PROVE  /\ Len(q) \in Nat \ {0} /\ Tail(q) \in Seq(S) /\ Len(Tail(q)) = Len(q) - 1
           /\ \A i \in 1..Len(Tail(q)) : Tail(q)[i] = q[i + 1] /\ i + 1 \in 1..Len(q)
           /\ Len(q) = 1 => Tail(q) = <<>>
           /\ Len(q) > 1 => Tail(q) # <<>> /\ Tail(q)[Len(Tail(q))] = q[Len(q)]
<1>1. Len(q) \in Nat \ {0} /\ Tail(q) \in Seq(S) /\ Len(Tail(q)) = Len(q) - 1
  OBVIOUS
<1>2. \A i \in 1..Len(Tail(q)) : Tail(q)[i] = q[i + 1] /\ i + 1 \in 1..Len(q)
  BY <1>1
<1>3. Len(q) = 1 => Tail(q) = <<>>
  <2>1. Len(q) = 1 => Len(Tail(q)) = 0
    BY <1>1
  <2> QED BY <1>1, <2>1, EmptyByLength
<1>4. Len(q) > 1 => Tail(q) # <<>> /\ Tail(q)[Len(Tail(q))] = q[Len(q)]
  <2> SUFFICES ASSUME Len(q) > 1
               PROVE  Tail(q) # <<>> /\ Tail(q)[Len(Tail(q))] = q[Len(q)]
    OBVIOUS
  <2>1. Len(Tail(q)) \in 1..Len(Tail(q)) /\ Len(Tail(q)) + 1 = Len(q)
    BY <1>1
  <2>2. Len(Tail(q)) > 0
    BY <1>1
  <2>3. Tail(q)[Len(Tail(q))] = q[Len(q)]
    BY <1>2, <2>1
  <2> QED BY <1>1, <2>2, <2>3, EmptyByLength
<1> QED BY <1>1, <1>2, <1>3, <1>4

LEMMA PeerType == \A e \in Node : Peer[e] \in Node /\ Peer[e] # e
  BY DEF Node, Peer

LEMMA PacketType ==
    /\ \A t \in Control : Ctl(t) \in Packet
    /\ \A n \in Nat : Data(n) \in Packet
    /\ Idle \in Packet
  BY DEF Control, Packet, Ctl, Data, Idle

LEMMA PrefixType ==
    ASSUME NEW S, NEW s \in Seq(S), NEW k \in 0..Len(s)
    PROVE  SubSeq(s, 1, k) \in Seq(S)
  OBVIOUS

LEMMA TakeType ==
    ASSUME TcpTypeOK, NEW e \in Node, wire[e] # <<>>, Take(e)
    PROVE  TcpTypeOK' /\ Head(wire[e]) \in Packet
<1>1. wire[e] \in Seq(Packet)
  BY DEF TcpTypeOK
<1>2. Head(wire[e]) \in Packet /\ Tail(wire[e]) \in Seq(Packet)
  BY <1>1, QueueType
<1> QED BY <1>2 DEF TcpTypeOK, Take

LEMMA ResetType ==
    ASSUME TcpTypeOK, NEW e \in Node, Reset(e)
    PROVE  wire' \in [Node -> Seq(Packet)] /\ ending' \in [Node -> {"none", "FIN", "RST"}]
<1>1. PICK k \in 0..Len(wire[e]) : wire' = [wire EXCEPT ![e] = SubSeq(@, 1, k)]
  BY DEF Reset
<1>2. SubSeq(wire[e], 1, k) \in Seq(Packet)
  BY PrefixType DEF TcpTypeOK
<1> QED BY <1>1, <1>2 DEF TcpTypeOK, Reset

LEMMA SendToType ==
    ASSUME TcpTypeOK, NEW p \in Node, NEW packet \in Packet, SendTo(p, packet)
    PROVE  wire' \in [Node -> Seq(Packet)]
<1>1. Append(wire[p], packet) \in Seq(Packet)
  BY DEF TcpTypeOK
<1> QED BY <1>1 DEF TcpTypeOK, SendTo

LEMMA SendType ==
    ASSUME TcpTypeOK, NEW e \in Node, NEW packet \in Packet,
           Send(e, packet) \/ SendLast(e, packet)
    PROVE  TcpTypeOK'
<1>1. Peer[e] \in Node
  BY PeerType
<1>2. CASE SendLost(e) /\ UNCHANGED open
  BY <1>2, ResetType DEF TcpTypeOK, SendLost
<1>3. CASE SendTo(Peer[e], packet) /\ UNCHANGED <<ending, open>>
  BY <1>1, <1>3, SendToType DEF TcpTypeOK
<1>4. CASE /\ SendTo(Peer[e], packet)
           /\ ending' = [ending EXCEPT ![Peer[e]] = "FIN"]
           /\ UNCHANGED open
  BY <1>1, <1>4, SendToType DEF TcpTypeOK
<1> QED BY <1>2, <1>3, <1>4 DEF Send, SendLast

LEMMA CloseSocketType ==
    ASSUME TcpTypeOK, NEW e \in Node, CloseSocket(e)
    PROVE  TcpTypeOK'
<1>1. Peer[e] \in Node /\ Peer[e] # e
  BY PeerType
<1>2. <<>> \in Seq(Packet)
  OBVIOUS
<1>3. open' \in [Node -> BOOLEAN]
  BY DEF TcpTypeOK, CloseSocket
<1>4. ending' \in [Node -> {"none", "FIN", "RST"}]
  BY <1>1 DEF TcpTypeOK, CloseSocket
<1>5. wire' \in [Node -> Seq(Packet)]
  <2>1. CASE wire' = [wire EXCEPT ![e] = <<>>]
    BY <1>2, <2>1 DEF TcpTypeOK
  <2>2. CASE \E k \in 0..Len(wire[Peer[e]]) :
                wire' = [wire EXCEPT ![e] = <<>>, ![Peer[e]] = SubSeq(@, 1, k)]
    <3>1. PICK k \in 0..Len(wire[Peer[e]]) :
             wire' = [wire EXCEPT ![e] = <<>>, ![Peer[e]] = SubSeq(@, 1, k)]
      BY <2>2
    <3>2. SubSeq(wire[Peer[e]], 1, k) \in Seq(Packet)
      BY <1>1, PrefixType DEF TcpTypeOK
    <3> QED BY <1>1, <1>2, <3>1, <3>2 DEF TcpTypeOK
  <2> QED BY <2>1, <2>2 DEF CloseSocket
<1> QED BY <1>3, <1>4, <1>5 DEF TcpTypeOK

-----------------------------------------------------------------------------
(***************************************************************************)
(* Type correctness of the task.                                           *)
(***************************************************************************)

LEMMA GotoType ==
    ASSUME TypeOK, NEW e \in Node, NEW label \in Label, Goto(e, label)
    PROVE  pc' \in [Node -> Label]
  BY DEF TypeOK, TaskTypeOK, Goto

LEMMA HoldType ==
    ASSUME TypeOK, NEW e \in Node, NEW label \in Label, NEW packet \in Packet,
           Hold(e, label, packet)
    PROVE  pc' \in [Node -> Label] /\ hand' \in [Node -> Packet]
  BY GotoType DEF TypeOK, TaskTypeOK, Hold

LEMMA ReturnType ==
    ASSUME TypeOK, NEW e \in Node, NEW o \in Outcome, Return(e, o)
    PROVE  pc' \in [Node -> Label] /\ outcome' \in [Node -> Outcome]
  BY GotoType DEF TypeOK, TaskTypeOK, Return, Label

LEMMA PopType ==
    ASSUME TypeOK, NEW e \in Node, req[e] # <<>>, PopRequest(e)
    PROVE  /\ req' \in [Node -> Seq(Packet)]
           /\ \A f \in Node : Len(req'[f]) <= BufferSize
           /\ resp' = resp
           /\ Head(req[e]) \in Packet
<1>1. /\ req \in [Node -> Seq(Packet)] /\ req[e] \in Seq(Packet)
      /\ \A f \in Node : Len(req[f]) <= BufferSize
      /\ BufferSize \in Nat
  BY TaskAssumption DEF TypeOK, TaskTypeOK
<1>2. Head(req[e]) \in Packet /\ Tail(req[e]) \in Seq(Packet)
      /\ Len(Tail(req[e])) = Len(req[e]) - 1 /\ Len(req[e]) \in Nat
  BY <1>1, QueueType
<1> QED BY <1>1, <1>2 DEF PopRequest

LEMMA HandshakeType ==
    ASSUME TypeOK, NEW e \in Node, HandshakeStep(e)
    PROVE  TcpTypeOK' /\ TaskTypeOK'
<1> USE DEF TypeOK, TaskTypeOK, Unheld, channels
<1>1. CASE SendHello(e)
  <2>1. Ctl("Hello") \in Packet /\ Ctl("HelloAck") \in Packet
    BY PacketType DEF Control
  <2>2. TcpTypeOK'
    BY <1>1, <2>1, SendType DEF SendHello
  <2>3. pc' \in [Node -> Label]
    BY <1>1, GotoType DEF SendHello, Label
  <2> QED BY <1>1, <2>2, <2>3 DEF SendHello
<1>2. CASE RecvHello(e)
  <2>1. TcpTypeOK'
    BY <1>2, TakeType DEF RecvHello, HasPacket
  <2>2. pc' \in [Node -> Label]
    BY <1>2, GotoType DEF RecvHello, Label
  <2> QED BY <1>2, <2>1, <2>2 DEF RecvHello
<1>3. CASE HandshakeFails(e)
  <2>1. TcpTypeOK'
    BY <1>3, CloseSocketType DEF HandshakeFails
  <2>2. pc' \in [Node -> Label]
    BY <1>3, GotoType DEF HandshakeFails, Label
  <2> QED BY <1>3, <2>1, <2>2 DEF HandshakeFails, Outcome
<1> QED BY <1>1, <1>2, <1>3 DEF HandshakeStep

LEMMA ReceiveType ==
    ASSUME TypeOK, NEW e \in Node, ReceiveStep(e)
    PROVE  TcpTypeOK' /\ TaskTypeOK'
<1> USE DEF TypeOK, TaskTypeOK, Unheld, channels
<1>1. CASE RunPing(e)
  <2>1. TcpTypeOK' /\ Ctl("Pong") \in Packet
    BY <1>1, TakeType, PacketType DEF RunPing, HasPacket, Control
  <2>2. pc' \in [Node -> Label] /\ hand' \in [Node -> Packet]
    BY <1>1, <2>1, HoldType DEF RunPing, Label
  <2> QED BY <1>1, <2>1, <2>2 DEF RunPing
<1>2. CASE RunIgnored(e)
  BY <1>2, TakeType DEF RunIgnored, HasPacket, taskVars
<1>3. CASE RunData(e)
  <2>1. TcpTypeOK' /\ Head(wire[e]) \in Packet
    BY <1>3, TakeType DEF RunData, HasPacket
  <2>2. pc' \in [Node -> Label] /\ hand' \in [Node -> Packet]
    BY <1>3, <2>1, HoldType DEF RunData, Label
  <2> QED BY <1>3, <2>1, <2>2 DEF RunData
<1>4. CASE RunClose(e)
  <2>1. TcpTypeOK'
    BY <1>4, TakeType DEF RunClose, HasPacket
  <2>2. pc' \in [Node -> Label]
    BY <1>4, GotoType DEF RunClose, Label
  <2> QED BY <1>4, <2>1, <2>2 DEF RunClose
<1>5. CASE RunEnds(e)
  <2>1. pc' \in [Node -> Label] /\ outcome' \in [Node -> Outcome]
    BY <1>5, ReturnType DEF RunEnds, Outcome
  <2> QED BY <1>5, <2>1 DEF RunEnds, TcpTypeOK, tcpVars
<1> QED BY <1>1, <1>2, <1>3, <1>4, <1>5 DEF ReceiveStep

LEMMA RequestType ==
    ASSUME TypeOK, NEW e \in Node, RequestStep(e)
    PROVE  TcpTypeOK' /\ TaskTypeOK'
<1> USE DEF TypeOK, TaskTypeOK, Unheld, TcpTypeOK, tcpVars
<1>1. CASE RunSend(e)
  <2>1. pc' \in [Node -> Label] /\ hand' \in [Node -> Packet]
    BY <1>1, PopType, HoldType DEF RunSend, Label
  <2> QED BY <1>1, <2>1, PopType DEF RunSend
<1>2. CASE RunCloseRequest(e)
  <2>1. pc' \in [Node -> Label]
    BY <1>2, GotoType DEF RunCloseRequest, Label
  <2> QED BY <1>2, <2>1, PopType DEF RunCloseRequest
<1> QED BY <1>1, <1>2 DEF RequestStep

LEMMA DeliverType ==
    ASSUME TypeOK, NEW e \in Node, Deliver(e)
    PROVE  TcpTypeOK' /\ TaskTypeOK'
<1>1. pc' \in [Node -> Label] /\ hand' \in [Node -> Packet]
  BY HoldType, PacketType DEF Deliver, Label
<1>2. hand[e].n \in Nat /\ resp[e] \in Seq(Nat) /\ Len(resp[e]) \in Nat
  BY DEF TypeOK, TaskTypeOK, Packet
<1>3. Append(resp[e], hand[e].n) \in Seq(Nat)
      /\ Len(Append(resp[e], hand[e].n)) = Len(resp[e]) + 1
  BY <1>2
<1>4. /\ resp' \in [Node -> Seq(Nat)]
      /\ \A f \in Node : Len(resp'[f]) <= BufferSize
  BY <1>2, <1>3, TaskAssumption DEF TypeOK, TaskTypeOK, Deliver
<1> QED BY <1>1, <1>4 DEF TypeOK, TaskTypeOK, TcpTypeOK, Deliver, Unheld, tcpVars

LEMMA HandlerType ==
    ASSUME TypeOK, NEW e \in Node, HandlerStep(e)
    PROVE  TcpTypeOK' /\ TaskTypeOK'
<1> USE DEF TypeOK, TaskTypeOK, Unheld, channels, tcpVars
<1>1. CASE FirstPing(e)
  <2>1. Ctl("Ping") \in Packet
    BY PacketType DEF Control
  <2>2. pc' \in [Node -> Label] /\ hand' \in [Node -> Packet]
    BY <1>1, <2>1, HoldType DEF FirstPing, Label
  <2> QED BY <1>1, <2>2 DEF FirstPing, TcpTypeOK
<1>2. CASE SendDone(e)
  <2>1. TcpTypeOK'
    BY <1>2, SendType DEF SendDone
  <2>2. pc' \in [Node -> Label] /\ hand' \in [Node -> Packet]
    BY <1>2, HoldType, PacketType DEF SendDone, Label
  <2>3. transmitted' \in [Node -> Nat]
    BY <1>2 DEF SendDone, CountSent
  <2> QED BY <1>2, <2>1, <2>2, <2>3 DEF SendDone
<1>3. CASE SendFails(e)
  <2>1. pc' \in [Node -> Label] /\ outcome' \in [Node -> Outcome]
    BY <1>3, ReturnType DEF SendFails, Outcome
  <2> QED BY <1>3, <2>1 DEF SendFails, TcpTypeOK
<1> QED BY <1>1, <1>2, <1>3, DeliverType DEF HandlerStep

LEMMA CloseType ==
    ASSUME TypeOK, NEW e \in Node, CloseStep(e)
    PROVE  TcpTypeOK' /\ TaskTypeOK'
<1> USE DEF TypeOK, TaskTypeOK, Unheld, channels, tcpVars
<1>1. CASE SendClose(e)
  <2>1. Ctl("Close") \in Packet
    BY PacketType DEF Control
  <2>2. TcpTypeOK'
    BY <1>1, <2>1, SendType DEF SendClose
  <2>3. pc' \in [Node -> Label]
    BY <1>1, GotoType DEF SendClose, Label
  <2> QED BY <1>1, <2>2, <2>3 DEF SendClose
<1>2. CASE AwaitClose(e)
  <2>1. TcpTypeOK'
    BY <1>2, TakeType DEF AwaitClose, HasPacket
  <2>2. pc' \in [Node -> Label] /\ outcome' \in [Node -> Outcome]
    BY <1>2, ReturnType DEF AwaitClose, Closed, Outcome
  <2> QED BY <1>2, <2>1, <2>2 DEF AwaitClose
<1>3. CASE AwaitData(e)
  <2>1. TcpTypeOK' /\ Head(wire[e]) \in Packet
    BY <1>3, TakeType DEF AwaitData, HasPacket
  <2>2. pc' \in [Node -> Label] /\ hand' \in [Node -> Packet]
    BY <1>3, <2>1, HoldType DEF AwaitData, Label
  <2> QED BY <1>3, <2>1, <2>2 DEF AwaitData
<1>4. CASE AwaitIgnored(e)
  BY <1>4, TakeType DEF AwaitIgnored, taskVars
<1>5. CASE AwaitEnds(e)
  <2>1. pc' \in [Node -> Label] /\ outcome' \in [Node -> Outcome]
    BY <1>5, ReturnType DEF AwaitEnds, Closed, Outcome
  <2> QED BY <1>5, <2>1 DEF AwaitEnds, TcpTypeOK
<1> QED BY <1>1, <1>2, <1>3, <1>4, <1>5 DEF CloseStep

LEMMA DrainType ==
    ASSUME TypeOK, NEW e \in Node, DrainStep(e)
    PROVE  TcpTypeOK' /\ TaskTypeOK'
<1> USE DEF TypeOK, TaskTypeOK, Unheld, tcpVars
<1>1. CASE DrainSend(e)
  <2>1. pc' \in [Node -> Label] /\ hand' \in [Node -> Packet]
    BY <1>1, PopType, HoldType DEF DrainSend, Label
  <2> QED BY <1>1, <2>1, PopType DEF DrainSend, TcpTypeOK
<1>2. CASE DrainStops(e)
  <2>1. pc' \in [Node -> Label]
    BY <1>2, GotoType DEF DrainStops, Label
  <2>2. CASE req[e] = <<>> /\ UNCHANGED channels
    BY <1>2, <2>1, <2>2 DEF DrainStops, TcpTypeOK, channels
  <2>3. CASE req[e] # <<>> /\ PopRequest(e)
    BY <1>2, <2>1, <2>3, PopType DEF DrainStops, TcpTypeOK
  <2> QED BY <1>2, <2>2, <2>3 DEF DrainStops
<1>3. CASE DrainClose(e)
  <2>1. Ctl("Close") \in Packet
    BY PacketType DEF Control
  <2>2. TcpTypeOK'
    BY <1>3, <2>1, SendType DEF DrainClose
  <2>3. pc' \in [Node -> Label] /\ outcome' \in [Node -> Outcome]
    BY <1>3, ReturnType DEF DrainClose, Outcome
  <2> QED BY <1>3, <2>2, <2>3 DEF DrainClose, channels
<1> QED BY <1>1, <1>2, <1>3 DEF DrainStep

LEMMA EndType ==
    ASSUME TypeOK, NEW e \in Node, EndStep(e)
    PROVE  TcpTypeOK' /\ TaskTypeOK'
<1> USE DEF TypeOK, TaskTypeOK, Unheld, channels, tcpVars
<1>1. CASE Drop(e)
  <2>1. TcpTypeOK'
    BY <1>1, CloseSocketType DEF Drop
  <2>2. pc' \in [Node -> Label]
    BY <1>1, GotoType DEF Drop, Label
  <2> QED BY <1>1, <2>1, <2>2 DEF Drop
<1>2. CASE Finish(e)
  <2>1. pc' \in [Node -> Label]
    BY <1>2, GotoType DEF Finish, Label
  <2> QED BY <1>2, <2>1 DEF Finish, TcpTypeOK
<1> QED BY <1>1, <1>2 DEF EndStep

LEMMA TimerType ==
    ASSUME TypeOK, NEW e \in Node, TimerStep(e)
    PROVE  TcpTypeOK' /\ TaskTypeOK'
<1> USE DEF TypeOK, TaskTypeOK, channels, tcpVars
<1>1. CASE Tick(e)
  <2>1. PICK type \in {"KeepAlive", "Ping"} : Hold(e, "send", Ctl(type))
    BY <1>1 DEF Tick
  <2>2. Ctl(type) \in Packet
    BY PacketType DEF Control
  <2>3. pc' \in [Node -> Label] /\ hand' \in [Node -> Packet]
    BY <2>1, <2>2, HoldType DEF Label
  <2>4. ticks' \in [Node -> Nat] /\ \A f \in Node : ticks'[f] <= MaxTicks[f]
    <3>1. ticks' = [ticks EXCEPT ![e] = @ + 1] /\ ticks[e] < MaxTicks[e]
      BY <1>1 DEF Tick
    <3>2. ticks[e] \in Nat /\ MaxTicks[e] \in Nat
      BY TaskAssumption
    <3> QED BY <3>1, <3>2
  <2> QED BY <1>1, <2>3, <2>4 DEF Tick, TcpTypeOK
<1>2. CASE PeerInactive(e)
  <2>1. pc' \in [Node -> Label]
    BY <1>2, GotoType DEF PeerInactive, Label
  <2> QED BY <1>2, <2>1 DEF PeerInactive, TcpTypeOK
<1>3. CASE CloseTimeout(e)
  <2>1. pc' \in [Node -> Label] /\ outcome' \in [Node -> Outcome]
    BY <1>3, ReturnType DEF CloseTimeout, Outcome
  <2> QED BY <1>3, <2>1 DEF CloseTimeout, TcpTypeOK
<1> QED BY <1>1, <1>2, <1>3 DEF TimerStep

LEMMA TaskType ==
    ASSUME TypeOK, NEW e \in Node, TaskStep(e)
    PROVE  TypeOK'
<1>1. AppTypeOK'
  BY DEF TypeOK, AppTypeOK, TaskStep, appVars
<1>2. TcpTypeOK' /\ TaskTypeOK'
  BY HandshakeType, ReceiveType, RequestType, HandlerType, CloseType, DrainType,
     EndType, TimerType DEF TaskStep, Task
<1> QED BY <1>1, <1>2 DEF TypeOK

-----------------------------------------------------------------------------
(***************************************************************************)
(* Type correctness of the user's side.  That the number of writes stays   *)
(* within its bound rests on the guard of Write.                           *)
(***************************************************************************)

WriteRoom == \A e \in Node : app[e] = "writing" => written[e] < MaxWrites[e]

LEMMA CacheType ==
    ASSUME TypeOK, NEW e \in Node, CacheRemaining(e)
    PROVE  /\ Remaining(e) \in Seq(Nat)
           /\ cached' \in [Node -> BOOLEAN]
           /\ cache' \in [Node -> Seq(Nat)]
           /\ resp' \in [Node -> Seq(Nat)]
           /\ \A f \in Node : Len(resp'[f]) <= BufferSize
           /\ req' = req
<1>1. Remaining(e) \in Seq(Nat)
  BY DEF TypeOK, TaskTypeOK, AppTypeOK, Remaining
<1>2. <<>> \in Seq(Nat) /\ Len(<<>>) = 0
  OBVIOUS
<1>3. resp' \in [Node -> Seq(Nat)] /\ \A f \in Node : Len(resp'[f]) <= BufferSize
  BY <1>2, TaskAssumption DEF TypeOK, TaskTypeOK, CacheRemaining
<1> QED BY <1>1, <1>3 DEF TypeOK, TaskTypeOK, AppTypeOK, CacheRemaining

LEMMA ReceiveMsgsType ==
    ASSUME TypeOK, NEW e \in Node, NEW msgs \in Seq(Nat), Receive(e, msgs)
    PROVE  got' \in [Node -> Seq(Nat)]
<1>1. got[e] \o msgs \in Seq(Nat)
  BY DEF TypeOK, AppTypeOK
<1> QED BY <1>1 DEF TypeOK, AppTypeOK, Receive

LEMMA BecomeType ==
    ASSUME TypeOK, NEW e \in Node, NEW state \in AppState, Become(e, state)
    PROVE  /\ app' \in [Node -> AppState]
           /\ app'[e] = state
           /\ \A f \in Node \ {e} : app'[f] = app[f]
  BY DEF TypeOK, AppTypeOK, Become

\* A request is queued if there is room for it.
LEMMA QueueRequestType ==
    ASSUME TypeOK, NEW e \in Node, NEW packet \in Packet,
           Len(req[e]) < BufferSize, req' = [req EXCEPT ![e] = Append(@, packet)]
    PROVE  req' \in [Node -> Seq(Packet)] /\ \A f \in Node : Len(req'[f]) <= BufferSize
<1>1. req[e] \in Seq(Packet) /\ Len(req[e]) \in Nat /\ BufferSize \in Nat
  BY TaskAssumption DEF TypeOK, TaskTypeOK
<1>2. Append(req[e], packet) \in Seq(Packet)
      /\ Len(Append(req[e], packet)) = Len(req[e]) + 1
  BY <1>1
<1> QED BY <1>1, <1>2 DEF TypeOK, TaskTypeOK

\* The steps of the user that touch neither the channels nor its messages.
PlainStep(e) == \/ Opened(e) \/ OpenFailed(e) \/ ReadPanics(e) \/ Write(e)
                \/ WriteFails(e) \/ Close(e) \/ CloseFails(e)

\* Those that cache what is left in the channel.
CachingStep(e) == ReadClosed(e) \/ WriteClosed(e) \/ CloseFinished(e) \/ CloseReturns(e)

LEMMA AppCases ==
    ASSUME NEW e \in Node, App(e)
    PROVE  PlainStep(e) \/ CachingStep(e) \/ Read(e) \/ WriteQueued(e) \/ CloseQueued(e)
  BY DEF App, OpenStep, ReadStep, WriteStep, EndOfApp, PlainStep, CachingStep

LEMMA PlainType ==
    ASSUME TypeOK, WriteRoom, NEW e \in Node, PlainStep(e)
    PROVE  AppTypeOK' /\ WriteRoom' /\ req' = req /\ resp' = resp
<1>1. UNCHANGED <<written, got, cached, cache, channels>>
  BY DEF PlainStep, Opened, OpenFailed, ReadPanics, Write, WriteFails, Close, CloseFails
<1>2. \E s \in AppState : /\ Become(e, s)
                          /\ s = "writing" => written[e] < MaxWrites[e]
  BY DEF PlainStep, Opened, OpenFailed, ReadPanics, Write, WriteFails, Close,
         CloseFails, AppState
<1>3. app' \in [Node -> AppState] /\ WriteRoom'
  BY <1>1, <1>2, BecomeType DEF WriteRoom
<1>4. result' \in [Node -> {"none", "Ok", "Unknown"}]
  BY DEF PlainStep, Opened, OpenFailed, ReadPanics, Write, WriteFails, Close,
         CloseFails, TypeOK, AppTypeOK
<1> QED BY <1>1, <1>3, <1>4 DEF TypeOK, AppTypeOK, channels

LEMMA CachingType ==
    ASSUME TypeOK, WriteRoom, NEW e \in Node, CachingStep(e)
    PROVE  /\ AppTypeOK' /\ WriteRoom' /\ req' = req
           /\ resp' \in [Node -> Seq(Nat)]
           /\ \A f \in Node : Len(resp'[f]) <= BufferSize
<1>1. CacheRemaining(e) /\ written' = written
  BY DEF CachingStep, ReadClosed, WriteClosed, CloseFinished, CloseReturns
<1>2. \E s \in {"breaking", "over"} : Become(e, s)
  BY DEF CachingStep, ReadClosed, WriteClosed, CloseFinished, CloseReturns
<1>3. app' \in [Node -> AppState] /\ WriteRoom'
  BY <1>1, <1>2, BecomeType DEF WriteRoom, AppState
<1>4. got' \in [Node -> Seq(Nat)]
  <2>1. Receive(e, Remaining(e)) \/ got' = got
    BY DEF CachingStep, ReadClosed, WriteClosed, CloseFinished, CloseReturns
  <2> QED BY <1>1, <2>1, CacheType, ReceiveMsgsType DEF TypeOK, AppTypeOK
<1>5. result' \in [Node -> {"none", "Ok", "Unknown"}]
  BY DEF CachingStep, ReadClosed, WriteClosed, CloseFinished, CloseReturns,
         TypeOK, AppTypeOK
<1> QED BY <1>1, <1>3, <1>4, <1>5, CacheType DEF TypeOK, AppTypeOK

LEMMA ReadType ==
    ASSUME TypeOK, WriteRoom, NEW e \in Node, Read(e)
    PROVE  /\ AppTypeOK' /\ WriteRoom' /\ req' = req
           /\ resp' \in [Node -> Seq(Nat)]
           /\ \A f \in Node : Len(resp'[f]) <= BufferSize
<1>1. resp[e] \in Seq(Nat) /\ resp[e] # <<>> /\ Len(resp[e]) <= BufferSize
      /\ BufferSize \in Nat
  BY TaskAssumption DEF TypeOK, TaskTypeOK, Read
<1>2. Head(resp[e]) \in Nat /\ Tail(resp[e]) \in Seq(Nat)
      /\ Len(Tail(resp[e])) <= BufferSize
  BY <1>1, QueueType
<1>3. <<Head(resp[e])>> \in Seq(Nat)
  BY <1>2
<1>4. got' \in [Node -> Seq(Nat)]
  BY <1>3, ReceiveMsgsType DEF Read
<1>5. /\ resp' \in [Node -> Seq(Nat)]
      /\ \A f \in Node : Len(resp'[f]) <= BufferSize
  BY <1>2 DEF TypeOK, TaskTypeOK, Read
<1> QED BY <1>4, <1>5 DEF TypeOK, AppTypeOK, WriteRoom, Read

LEMMA QueueingType ==
    ASSUME TypeOK, WriteRoom, NEW e \in Node, WriteQueued(e) \/ CloseQueued(e)
    PROVE  /\ AppTypeOK' /\ WriteRoom' /\ resp' = resp
           /\ req' \in [Node -> Seq(Packet)]
           /\ \A f \in Node : Len(req'[f]) <= BufferSize
<1>1. CASE WriteQueued(e)
  <2>1. written[e] \in Nat /\ written[e] < MaxWrites[e] /\ MaxWrites[e] \in Nat
    BY <1>1, AppAssumption DEF TypeOK, AppTypeOK, WriteRoom, WriteQueued
  <2>2. Data(written[e] + 1) \in Packet
    BY <2>1, PacketType
  <2>3. app' \in [Node -> AppState] /\ WriteRoom'
    BY <1>1, BecomeType DEF WriteQueued, WriteRoom, AppState, TypeOK, AppTypeOK
  <2>4. written' \in [Node -> Nat] /\ \A f \in Node : written'[f] <= MaxWrites[f]
    BY <1>1, <2>1 DEF WriteQueued, TypeOK, AppTypeOK
  <2> QED BY <1>1, <2>2, <2>3, <2>4, QueueRequestType DEF WriteQueued, TypeOK, AppTypeOK
<1>2. CASE CloseQueued(e)
  <2>1. Ctl("Close") \in Packet
    BY PacketType DEF Control
  <2>2. app' \in [Node -> AppState] /\ WriteRoom'
    BY <1>2, BecomeType DEF CloseQueued, WriteRoom, AppState
  <2> QED BY <1>2, <2>1, <2>2, QueueRequestType DEF CloseQueued, TypeOK, AppTypeOK
<1> QED BY <1>1, <1>2

LEMMA AppType ==
    ASSUME TypeOK, WriteRoom, NEW e \in Node, AppStep(e)
    PROVE  TypeOK' /\ WriteRoom'
<1>1. UNCHANGED <<tcpVars, taskVars>>
  BY DEF AppStep
<1>2. /\ AppTypeOK' /\ WriteRoom'
      /\ req' \in [Node -> Seq(Packet)] /\ resp' \in [Node -> Seq(Nat)]
      /\ \A f \in Node : Len(req'[f]) <= BufferSize /\ Len(resp'[f]) <= BufferSize
  BY AppCases, PlainType, CachingType, ReadType, QueueingType
     DEF AppStep, TypeOK, TaskTypeOK
<1> QED BY <1>1, <1>2 DEF TypeOK, TcpTypeOK, TaskTypeOK, tcpVars, taskVars

LEMMA CrashType ==
    ASSUME TypeOK, WriteRoom, NEW e \in Node, Crash(e)
    PROVE  TypeOK' /\ WriteRoom'
<1>1. TcpTypeOK'
  BY CloseSocketType DEF TypeOK, Crash
<1>2. pc' \in [Node -> Label]
  BY GotoType DEF Crash, Label
<1>3. app' \in [Node -> AppState] /\ WriteRoom'
  BY BecomeType DEF Crash, AppState, WriteRoom
<1> QED BY <1>1, <1>2, <1>3 DEF Crash, TypeOK, TaskTypeOK, AppTypeOK, Unheld, channels

LEMMA TypeInit == Init => TypeOK /\ WriteRoom
<1> SUFFICES ASSUME Init PROVE TypeOK /\ WriteRoom
  OBVIOUS
<1>1. <<>> \in Seq(Packet) /\ <<>> \in Seq(Nat) /\ Len(<<>>) = 0
  OBVIOUS
<1>2. TcpTypeOK
  BY <1>1 DEF Init, TcpInit, TcpTypeOK
<1>3. TaskTypeOK
  BY <1>1, PacketType, TaskAssumption
     DEF Init, TaskInit, TaskTypeOK, Label, Outcome
<1>4. AppTypeOK /\ WriteRoom
  BY <1>1, AppAssumption DEF Init, AppInit, AppTypeOK, AppState, WriteRoom
<1> QED BY <1>2, <1>3, <1>4 DEF TypeOK

LEMMA TypeStep ==
    ASSUME TypeOK, WriteRoom, [Next]_vars
    PROVE  TypeOK' /\ WriteRoom'
<1>1. CASE UNCHANGED vars
  BY <1>1 DEF vars, tcpVars, taskVars, channels, appVars, TypeOK, TcpTypeOK,
              TaskTypeOK, AppTypeOK, WriteRoom
<1>2. ASSUME NEW e \in Node, TaskStep(e) PROVE TypeOK' /\ WriteRoom'
  BY <1>2, TaskType DEF TaskStep, appVars, WriteRoom
<1>3. ASSUME NEW e \in Node, AppStep(e) PROVE TypeOK' /\ WriteRoom'
  BY <1>3, AppType
<1>4. ASSUME NEW e \in Node, Crash(e) PROVE TypeOK' /\ WriteRoom'
  BY <1>4, CrashType
<1> QED BY <1>1, <1>2, <1>3, <1>4 DEF Next

\* Every variable of a connection has its type, and its channels never hold more
\* than max_buffer_size messages: Connection::handle_data_packet and
\* ConnHandler::write wait for room.
THEOREM ConnTypeCorrect == Spec => []TypeOK
<1>1. Init => TypeOK /\ WriteRoom
  BY TypeInit
<1>2. (TypeOK /\ WriteRoom) /\ [Next]_vars => (TypeOK /\ WriteRoom)'
  BY TypeStep
<1> QED BY <1>1, <1>2, PTL DEF Spec

-----------------------------------------------------------------------------
(***************************************************************************)
(* The requests of a user, in order.  The invariant speaks of one endpoint *)
(* at a time, and a step of the other one does not concern it.             *)
(***************************************************************************)

\* A task that closes on request has nothing left to send.
UserCloses(e) ==
    pc[e] \in {"sendClose", "await", "awaitDeliver"} /\ why[e] = "user"
        => req[e] = <<>> /\ AskedToClose(e)

Ledger(e) == (Serving(e) => InOrder(e)) /\ UserCloses(e)

LEMMA OwnStateType ==
    ASSUME TypeOK, NEW e \in Node
    PROVE  /\ req[e] \in Seq(Packet) /\ Len(req[e]) \in Nat
           /\ transmitted[e] \in Nat /\ written[e] \in Nat /\ Begun(e) \in Nat
           /\ hand[e] \in Packet
  BY DEF TypeOK, TaskTypeOK, AppTypeOK, Begun

\* The state of an endpoint that the ledger is about, untouched.
Same(e) ==
    /\ pc'[e] = pc[e] /\ hand'[e] = hand[e] /\ why'[e] = why[e]
    /\ transmitted'[e] = transmitted[e] /\ req'[e] = req[e]
    /\ app'[e] = app[e] /\ written'[e] = written[e]

LEMMA SameKeeps ==
    ASSUME NEW e \in Node, Ledger(e), Same(e)
    PROVE  Ledger(e)'
  BY DEF Ledger, Same, Serving, InOrder, Sending, Begun, EndsWithClose,
         AskedToClose, UserCloses

\* The step of an endpoint leaves the other one's state alone.
LEMMA TaskFrame ==
    ASSUME TypeOK, NEW e \in Node, NEW f \in Node \ {e}, TaskStep(f)
    PROVE  Same(e)
<1> USE DEF TypeOK, TaskTypeOK, Unheld, taskVars, channels, Goto, Hold, Return,
            PopRequest, Same
<1>1. app' = app /\ written' = written
  BY DEF TaskStep, appVars
<1>2. CASE HandshakeStep(f)
  BY <1>1, <1>2 DEF HandshakeStep, SendHello, RecvHello, HandshakeFails
<1>3. CASE ReceiveStep(f)
  BY <1>1, <1>3 DEF ReceiveStep, RunPing, RunIgnored, RunData, RunClose, RunEnds
<1>4. CASE RequestStep(f)
  BY <1>1, <1>4 DEF RequestStep, RunSend, RunCloseRequest
<1>5. CASE HandlerStep(f)
  BY <1>1, <1>5 DEF HandlerStep, FirstPing, SendDone, SendFails, Deliver, CountSent
<1>6. CASE CloseStep(f)
  BY <1>1, <1>6 DEF CloseStep, SendClose, AwaitClose, AwaitData, AwaitIgnored,
                    AwaitEnds, Closed
<1>7. CASE DrainStep(f)
  BY <1>1, <1>7 DEF DrainStep, DrainSend, DrainStops, DrainClose
<1>8. CASE EndStep(f)
  BY <1>1, <1>8 DEF EndStep, Drop, Finish
<1>9. CASE TimerStep(f)
  BY <1>1, <1>9 DEF TimerStep, Tick, PeerInactive, CloseTimeout
<1> QED BY <1>2, <1>3, <1>4, <1>5, <1>6, <1>7, <1>8, <1>9 DEF TaskStep, Task

LEMMA AppFrame ==
    ASSUME TypeOK, NEW e \in Node, NEW f \in Node \ {e}, AppStep(f) \/ Crash(f)
    PROVE  Same(e)
<1> USE DEF TypeOK, TaskTypeOK, AppTypeOK, Unheld, taskVars, channels, Goto,
            Become, CacheRemaining, Same
<1>1. CASE Crash(f)
  BY <1>1 DEF Crash
<1>2. CASE AppStep(f) /\ PlainStep(f)
  BY <1>2 DEF AppStep, PlainStep, Opened, OpenFailed, ReadPanics, Write,
              WriteFails, Close, CloseFails
<1>3. CASE AppStep(f) /\ CachingStep(f)
  BY <1>3 DEF AppStep, CachingStep, ReadClosed, WriteClosed, CloseFinished,
              CloseReturns
<1>4. CASE AppStep(f) /\ (Read(f) \/ WriteQueued(f) \/ CloseQueued(f))
  BY <1>4 DEF AppStep, Read, WriteQueued, CloseQueued
<1> QED BY <1>1, <1>2, <1>3, <1>4, AppCases DEF AppStep

\* A step that neither ends nor begins a send and moves no request.
Quiet(e) ==
    /\ transmitted'[e] = transmitted[e] /\ req'[e] = req[e]
    /\ app'[e] = app[e] /\ written'[e] = written[e]
    /\ Serving(e) /\ ~Sending(e) /\ ~Sending(e)'

LEMMA QuietKeeps ==
    ASSUME NEW e \in Node, Ledger(e), Quiet(e)
    PROVE  Serving(e)' => InOrder(e)'
  BY DEF Ledger, Quiet, InOrder, Begun, EndsWithClose, AskedToClose

\* The steps of the task that are quiet.
QuietStep(e) ==
    \/ SendHello(e) \/ RecvHello(e)
    \/ RunPing(e) \/ RunIgnored(e) \/ RunData(e) \/ RunClose(e)
    \/ FirstPing(e) \/ Deliver(e) \/ Tick(e) \/ PeerInactive(e)
    \/ SendClose(e) \/ AwaitData(e) \/ AwaitIgnored(e)
    \/ DrainStops(e) /\ req[e] = <<>>

\* Those that end the task's service.
EndingStep(e) ==
    \/ HandshakeFails(e) \/ RunEnds(e) \/ SendFails(e) \/ AwaitClose(e) \/ AwaitEnds(e)
    \/ CloseTimeout(e) \/ DrainClose(e) \/ Drop(e) \/ Finish(e)

\* Those that take a request.
TakingStep(e) ==
    \/ RunSend(e) \/ DrainSend(e) \/ RunCloseRequest(e)
    \/ DrainStops(e) /\ req[e] # <<>>

LEMMA TaskCases ==
    ASSUME NEW e \in Node, Task(e)
    PROVE  QuietStep(e) \/ EndingStep(e) \/ TakingStep(e) \/ SendDone(e)
  BY DEF Task, HandshakeStep, ReceiveStep, RequestStep, HandlerStep, CloseStep,
         DrainStep, EndStep, TimerStep, QuietStep, EndingStep, TakingStep

LEMMA QuietStepKeeps ==
    ASSUME TypeOK, NEW e \in Node, Ledger(e), QuietStep(e), UNCHANGED appVars
    PROVE  Ledger(e)'
<1> USE DEF TypeOK, TaskTypeOK, Unheld, taskVars, channels, appVars, Goto, Hold
<1>1. Quiet(e)
  <2> USE DEF Quiet, Serving, Sending
  <2>1. CASE SendHello(e) \/ RecvHello(e)
    BY <2>1 DEF SendHello, RecvHello, Awaits, Expected
  <2>2. CASE RunPing(e) \/ RunIgnored(e) \/ RunData(e) \/ RunClose(e)
    BY <2>2 DEF RunPing, RunIgnored, RunData, RunClose, Ctl
  <2>3. CASE FirstPing(e) \/ Tick(e)
    BY <2>3 DEF FirstPing, Tick, Ctl
  <2>4. CASE Deliver(e) \/ PeerInactive(e)
    BY <2>4 DEF Deliver, PeerInactive
  <2>5. CASE SendClose(e) \/ AwaitData(e) \/ AwaitIgnored(e)
    BY <2>5 DEF SendClose, AwaitData, AwaitIgnored
  <2>6. CASE DrainStops(e) /\ req[e] = <<>>
    BY <2>6 DEF DrainStops
  <2> QED BY <2>1, <2>2, <2>3, <2>4, <2>5, <2>6 DEF QuietStep
<1>2. UserCloses(e)'
  <2>1. req'[e] = req[e] /\ app'[e] = app[e]
    BY <1>1 DEF Quiet
  <2>2. CASE PeerInactive(e)
    BY <2>2 DEF PeerInactive, UserCloses
  <2>3. CASE SendHello(e) \/ RecvHello(e) \/ RunPing(e) \/ RunIgnored(e)
                \/ RunData(e) \/ RunClose(e) \/ FirstPing(e) \/ Tick(e)
    BY <2>3 DEF SendHello, RecvHello, RunPing, RunIgnored, RunData, RunClose,
                FirstPing, Tick, UserCloses
  <2>4. CASE DrainStops(e)
    BY <2>4 DEF DrainStops, UserCloses
  <2>5. CASE Deliver(e) \/ SendClose(e) \/ AwaitData(e) \/ AwaitIgnored(e)
    <3>1. why' = why
      BY <2>5 DEF Deliver, SendClose, AwaitData, AwaitIgnored
    <3>2. pc'[e] \in {"sendClose", "await", "awaitDeliver"}
             => pc[e] \in {"sendClose", "await", "awaitDeliver"}
      BY <2>5 DEF Deliver, SendClose, AwaitData, AwaitIgnored
    <3> QED BY <2>1, <3>1, <3>2 DEF Ledger, UserCloses, AskedToClose
  <2> QED BY <2>2, <2>3, <2>4, <2>5 DEF QuietStep
<1> QED BY <1>1, <1>2, QuietKeeps DEF Ledger

LEMMA EndingStepKeeps ==
    ASSUME TypeOK, NEW e \in Node, Ledger(e), EndingStep(e)
    PROVE  Ledger(e)'
<1>1. pc'[e] \in {"drop", "dropped", "finished", "failed"}
  BY DEF EndingStep, HandshakeFails, RunEnds, SendFails, AwaitClose, AwaitEnds,
         CloseTimeout, DrainClose, Drop, Finish, Closed, Return, Goto, TypeOK,
         TaskTypeOK
<1> QED BY <1>1 DEF Ledger, Serving, UserCloses

\* The request that is taken: a message is the next one, a Close the last one.
LEMMA FirstRequest ==
    ASSUME TypeOK, NEW e \in Node, Serving(e), InOrder(e), ~Sending(e), req[e] # <<>>,
           Head(req[e]).type \in {"Data", "Close"}
    PROVE  /\ Len(req[e]) >= 1 /\ Head(req[e]) = req[e][1]
           /\ Begun(e) = transmitted[e]
           /\ Head(req[e]).type = "Data" =>
                 /\ Head(req[e]) = Data(transmitted[e] + 1)
                 /\ EndsWithClose(e) => Len(req[e]) > 1
           /\ Head(req[e]).type = "Close" =>
                 /\ Len(req[e]) = 1 /\ AskedToClose(e) /\ EndsWithClose(e)
<1>1. req[e] \in Seq(Packet) /\ Len(req[e]) \in Nat /\ transmitted[e] \in Nat
  BY OwnStateType
<1>2. Len(req[e]) >= 1 /\ Head(req[e]) = req[e][1]
  BY <1>1
<1>3. Begun(e) = transmitted[e]
  BY <1>1 DEF Begun
<1>4. \/ req[e][1] = Data(transmitted[e] + 1)
      \/ 1 = Len(req[e]) /\ EndsWithClose(e) /\ AskedToClose(e)
  <2>1. 1 \in 1..Len(req[e])
    BY <1>1, <1>2
  <2>2. \/ req[e][1] = Data(Begun(e) + 1)
        \/ 1 = Len(req[e]) /\ EndsWithClose(e) /\ AskedToClose(e)
    BY <2>1, Zenon DEF InOrder
  <2> QED BY <1>3, <2>2
<1>5. Data(transmitted[e] + 1).type = "Data"
  BY DEF Data
<1>6. EndsWithClose(e) => req[e][Len(req[e])].type = "Close"
  BY DEF EndsWithClose
<1> QED BY <1>1, <1>2, <1>3, <1>4, <1>5, <1>6

\* The task begins to send the first message.
LEMMA TakeMessageKeeps ==
    ASSUME TypeOK, NEW e \in Node, Ledger(e), RunSend(e) \/ DrainSend(e),
           UNCHANGED appVars
    PROVE  Ledger(e)'
<1>1. /\ Serving(e) /\ ~Sending(e) /\ InOrder(e)
      /\ req[e] # <<>> /\ Head(req[e]).type = "Data"
  BY DEF RunSend, DrainSend, Serving, Sending, Ledger
<1>2. /\ req'[e] = Tail(req[e]) /\ hand'[e] = Head(req[e])
      /\ transmitted'[e] = transmitted[e]
      /\ written' = written /\ app' = app
      /\ pc'[e] \in {"send", "drainSend"}
  BY DEF RunSend, DrainSend, PopRequest, Hold, Goto, Unheld, appVars, TypeOK,
         TaskTypeOK
<1>3. /\ req[e] \in Seq(Packet) /\ Len(req[e]) \in Nat
      /\ transmitted[e] \in Nat /\ written[e] \in Nat
  BY OwnStateType
<1>4. /\ Len(req[e]) >= 1 /\ Begun(e) = transmitted[e]
      /\ Head(req[e]) = Data(transmitted[e] + 1)
      /\ EndsWithClose(e) => Len(req[e]) > 1
  BY <1>1, FirstRequest
<1>5. Sending(e)' /\ Begun(e)' = transmitted[e] + 1
  BY <1>1, <1>2 DEF Sending, Begun
<1>6. /\ Len(req'[e]) = Len(req[e]) - 1
      /\ \A i \in 1..Len(req'[e]) : req'[e][i] = req[e][i + 1] /\ i + 1 \in 1..Len(req[e])
      /\ Len(req[e]) = 1 => req'[e] = <<>>
      /\ Len(req[e]) > 1 => req'[e] # <<>> /\ req'[e][Len(req'[e])] = req[e][Len(req[e])]
  BY <1>1, <1>2, <1>3, TailLemma
<1>7. EndsWithClose(e)' <=> EndsWithClose(e)
  <2>1. CASE Len(req[e]) = 1
    <3>1. ~EndsWithClose(e)
      BY <1>4, <2>1
    <3>2. ~EndsWithClose(e)'
      BY <1>6, <2>1 DEF EndsWithClose
    <3> QED BY <3>1, <3>2
  <2>2. CASE Len(req[e]) > 1
    BY <1>1, <1>6, <2>2 DEF EndsWithClose
  <2>3. Len(req[e]) = 1 \/ Len(req[e]) > 1
    <3>1. Len(req[e]) \in Nat /\ Len(req[e]) >= 1
      BY <1>3, <1>4
    <3>2. \A n \in Nat : n >= 1 => n = 1 \/ n > 1
      OBVIOUS
    <3> QED BY <3>1, <3>2, Zenon
  <2> QED BY <2>1, <2>2, <2>3
<1>8. ASSUME NEW i \in 1..Len(req'[e])
      PROVE  \/ req'[e][i] = Data(Begun(e)' + i)
             \/ i = Len(req'[e]) /\ EndsWithClose(e)' /\ AskedToClose(e)'
  <2>1. i + 1 \in 1..Len(req[e]) /\ req'[e][i] = req[e][i + 1]
    BY <1>6
  <2>2. \/ req[e][i + 1] = Data(Begun(e) + (i + 1))
        \/ i + 1 = Len(req[e]) /\ EndsWithClose(e) /\ AskedToClose(e)
    BY <1>1, <2>1, Zenon DEF InOrder
  <2>3. AskedToClose(e)' = AskedToClose(e)
    BY <1>2 DEF AskedToClose
  <2>4. Begun(e)' + i = Begun(e) + (i + 1)
    BY <1>3, <1>4, <1>5
  <2>5. i + 1 = Len(req[e]) => i = Len(req'[e])
    BY <1>3, <1>6
  <2> QED BY <1>7, <2>1, <2>2, <2>3, <2>4, <2>5
<1>9. written'[e] = Begun(e)' + Len(req'[e]) - (IF EndsWithClose(e)' THEN 1 ELSE 0)
  <2>1. written[e] = Begun(e) + Len(req[e]) - (IF EndsWithClose(e) THEN 1 ELSE 0)
    BY <1>1 DEF InOrder
  <2>2. written'[e] = written[e]
    BY <1>2
  <2>3. (IF EndsWithClose(e)' THEN 1 ELSE 0) = (IF EndsWithClose(e) THEN 1 ELSE 0)
    BY <1>7, Zenon
  <2> DEFINE c == IF EndsWithClose(e) THEN 1 ELSE 0
  <2>4. c = 1 \/ c = 0
    BY Zenon
  <2>5. written[e] = Begun(e) + Len(req[e]) - c
    BY <2>1
  <2> HIDE DEF c
  <2>6. written'[e] = Begun(e)' + Len(req'[e]) - c
    <3>1. /\ written'[e] = written[e] /\ Begun(e)' = transmitted[e] + 1
          /\ Len(req'[e]) = Len(req[e]) - 1 /\ Begun(e) = transmitted[e]
          /\ Len(req[e]) \in Nat /\ transmitted[e] \in Nat
      BY <1>3, <1>4, <1>5, <1>6, <2>2
    <3>2. \A t, n, d \in Int : t + n - d = t + 1 + (n - 1) - d
      OBVIOUS
    <3>3. written'[e] = transmitted[e] + Len(req[e]) - c
      BY <2>5, <3>1
    <3>4. transmitted[e] \in Int /\ Len(req[e]) \in Int /\ c \in Int
      BY <2>4, <3>1
    <3>5. transmitted[e] + Len(req[e]) - c = transmitted[e] + 1 + (Len(req[e]) - 1) - c
      BY <3>2, <3>4, Zenon
    <3> QED BY <3>1, <3>3, <3>5
  <2> QED BY <2>3, <2>6, Zenon DEF c
<1>10. InOrder(e)'
  BY <1>2, <1>4, <1>8, <1>9 DEF InOrder
<1>11. UserCloses(e)'
  BY <1>2 DEF UserCloses
<1> QED BY <1>10, <1>11 DEF Ledger

\* The task takes a Close: it was the last request, and all before it is sent.
LEMMA TakeCloseKeeps ==
    ASSUME TypeOK, NEW e \in Node, Ledger(e), UNCHANGED appVars,
           RunCloseRequest(e) \/ (DrainStops(e) /\ req[e] # <<>>)
    PROVE  Ledger(e)'
<1>1. /\ Serving(e) /\ ~Sending(e) /\ InOrder(e)
      /\ req[e] # <<>> /\ Head(req[e]).type = "Close"
  BY DEF RunCloseRequest, DrainStops, Serving, Sending, Ledger
<1>2. /\ req'[e] = Tail(req[e]) /\ transmitted'[e] = transmitted[e]
      /\ written' = written /\ app' = app
      /\ pc'[e] \in {"sendClose", "drainClose"}
  BY DEF RunCloseRequest, DrainStops, PopRequest, Goto, Unheld, appVars, TypeOK,
         TaskTypeOK
<1>3. /\ req[e] \in Seq(Packet) /\ transmitted[e] \in Nat /\ written[e] \in Nat
  BY OwnStateType
<1>4. /\ Len(req[e]) = 1 /\ Begun(e) = transmitted[e]
      /\ AskedToClose(e) /\ EndsWithClose(e)
  BY <1>1, FirstRequest
<1>5. req'[e] = <<>> /\ Len(req'[e]) = 0
  BY <1>1, <1>2, <1>3, <1>4, TailLemma
<1>6. ~EndsWithClose(e)' /\ ~Sending(e)' /\ Begun(e)' = transmitted[e]
  BY <1>2, <1>3, <1>5 DEF EndsWithClose, Sending, Begun
<1>7. written[e] = transmitted[e]
  BY <1>1, <1>3, <1>4 DEF InOrder
<1>8. InOrder(e)'
  <2>1. written'[e] = Begun(e)' + Len(req'[e]) - 0
    <3>1. written'[e] = written[e] /\ Begun(e)' = transmitted[e] /\ Len(req'[e]) = 0
      BY <1>2, <1>5, <1>6
    <3> QED BY <1>3, <1>7, <3>1
  <2>2. 1..Len(req'[e]) = {}
    BY <1>5
  <2> QED BY <1>6, <2>1, <2>2 DEF InOrder
<1>9. UserCloses(e)'
  BY <1>2, <1>4, <1>5 DEF UserCloses, AskedToClose
<1> QED BY <1>8, <1>9 DEF Ledger

\* send_packet returns: what was in hand counts as transmitted.
LEMMA SendDoneKeeps ==
    ASSUME TypeOK, NEW e \in Node, Ledger(e), SendDone(e), UNCHANGED appVars
    PROVE  Ledger(e)'
<1>1. /\ Serving(e) /\ InOrder(e)
      /\ Sending(e) <=> hand[e].type = "Data"
  BY DEF SendDone, Serving, Sending, Ledger
<1>2. /\ req'[e] = req[e] /\ written' = written /\ app' = app
      /\ pc'[e] \in {"run", "drain"}
  BY DEF SendDone, Hold, Goto, channels, appVars, TypeOK, TaskTypeOK
<1>3. transmitted'[e] = IF hand[e].type = "Data" THEN transmitted[e] + 1 ELSE transmitted[e]
  BY DEF SendDone, CountSent, TypeOK, TaskTypeOK
<1>4. ~Sending(e)'
  BY <1>2 DEF Sending
<1>5. Begun(e)' = Begun(e)
  BY <1>1, <1>3, <1>4, OwnStateType DEF Begun
<1>6. EndsWithClose(e)' = EndsWithClose(e) /\ AskedToClose(e)' = AskedToClose(e)
  BY <1>2 DEF EndsWithClose, AskedToClose
<1>7. InOrder(e)'
  BY <1>1, <1>2, <1>4, <1>5, <1>6 DEF InOrder
<1>8. UserCloses(e)'
  BY <1>2 DEF UserCloses
<1> QED BY <1>7, <1>8 DEF Ledger

LEMMA TaskKeeps ==
    ASSUME TypeOK, NEW e \in Node, Ledger(e), TaskStep(e)
    PROVE  Ledger(e)'
  BY TaskCases, QuietStepKeeps, EndingStepKeeps, TakeMessageKeeps, TakeCloseKeeps,
     SendDoneKeeps DEF TaskStep, TakingStep

\* The user appends to the requests, behind which there is no Close yet.
LEMMA AppendKeeps ==
    ASSUME TypeOK, NEW e \in Node, Ledger(e), WriteQueued(e) \/ CloseQueued(e),
           UNCHANGED taskVars
    PROVE  Ledger(e)'
<1>1. /\ ~AskedToClose(e) /\ app[e] \in {"writing", "closeReq"}
      /\ pc' = pc /\ hand' = hand /\ why' = why /\ transmitted' = transmitted
  BY DEF WriteQueued, CloseQueued, AskedToClose, taskVars
<1>2. req[e] \in Seq(Packet) /\ transmitted[e] \in Nat /\ written[e] \in Nat
      /\ Begun(e) \in Nat /\ Len(req[e]) \in Nat
  BY OwnStateType
<1>3. UserCloses(e)'
  BY <1>1 DEF Ledger, UserCloses
<1>4. Sending(e)' = Sending(e) /\ Begun(e)' = Begun(e)
  BY <1>1 DEF Sending, Begun
<1>5. ASSUME InOrder(e) PROVE ~EndsWithClose(e)
  <2> SUFFICES ASSUME EndsWithClose(e) PROVE FALSE
    OBVIOUS
  <2>1. Len(req[e]) \in 1..Len(req[e]) /\ req[e][Len(req[e])].type = "Close"
    BY <1>2, EmptySeq DEF EndsWithClose
  <2>2. req[e][Len(req[e])] = Data(Begun(e) + Len(req[e]))
    BY <1>1, <1>5, <2>1, Zenon DEF InOrder
  <2> QED BY <2>1, <2>2 DEF Data
<1>6. ASSUME InOrder(e) PROVE written[e] = Begun(e) + Len(req[e])
  <2>1. written[e] = Begun(e) + Len(req[e]) - (IF EndsWithClose(e) THEN 1 ELSE 0)
    BY <1>6, Zenon DEF InOrder
  <2>2. (IF EndsWithClose(e) THEN 1 ELSE 0) = 0
    BY <1>5, <1>6, Zenon
  <2>3. written[e] = Begun(e) + Len(req[e]) - 0
    BY <2>1, <2>2, Zenon
  <2> QED BY <1>2, <2>3
<1>7. ASSUME NEW packet \in Packet, req' = [req EXCEPT ![e] = Append(@, packet)]
      PROVE  /\ Len(req'[e]) = Len(req[e]) + 1 /\ req'[e] # <<>>
             /\ req'[e][Len(req'[e])] = packet
             /\ \A i \in 1..Len(req[e]) : req'[e][i] = req[e][i]
  <2>1. req'[e] = Append(req[e], packet)
    BY <1>7 DEF TypeOK, TaskTypeOK
  <2>2. /\ req'[e] \in Seq(Packet) /\ Len(req'[e]) = Len(req[e]) + 1
        /\ req'[e][Len(req'[e])] = packet
        /\ \A i \in 1..Len(req[e]) : req'[e][i] = req[e][i]
    BY <1>2, <2>1
  <2>3. Len(req'[e]) > 0
    BY <1>2, <2>2
  <2> QED BY <2>2, <2>3, EmptyByLength
<1>8. ASSUME InOrder(e), WriteQueued(e) PROVE InOrder(e)'
  <2> DEFINE packet == Data(written[e] + 1)
  <2>1. packet \in Packet /\ packet.type = "Data"
    BY <1>2, PacketType DEF Data
  <2>2. req' = [req EXCEPT ![e] = Append(@, packet)] /\ written'[e] = written[e] + 1
    BY <1>8 DEF WriteQueued, TypeOK, AppTypeOK
  <2>3. written[e] = Begun(e) + Len(req[e])
    BY <1>8, <1>6
  <2> HIDE DEF packet
  <2>4. /\ Len(req'[e]) = Len(req[e]) + 1 /\ req'[e][Len(req'[e])] = packet
        /\ \A i \in 1..Len(req[e]) : req'[e][i] = req[e][i]
    BY <1>7, <2>1, <2>2
  <2>5. ~EndsWithClose(e)'
    BY <2>1, <2>4 DEF EndsWithClose
  <2>6. ASSUME NEW i \in 1..Len(req'[e]) PROVE req'[e][i] = Data(Begun(e)' + i)
    <3>1. CASE i = Len(req'[e])
      <4>1. written[e] + 1 = Begun(e)' + i
        BY <1>2, <1>4, <2>3, <2>4, <3>1
      <4> QED BY <2>4, <3>1, <4>1 DEF packet
    <3>2. CASE i \in 1..Len(req[e])
      <4>1. req[e][i] = Data(Begun(e) + i)
        BY <1>1, <1>8, <3>2, Zenon DEF InOrder
      <4> QED BY <1>4, <2>4, <3>2, <4>1
    <3> QED BY <1>2, <2>4, <3>1, <3>2
  <2>7. written'[e] = Begun(e)' + Len(req'[e]) - 0
    BY <1>2, <1>4, <2>2, <2>3, <2>4
  <2>8. Sending(e)' => hand'[e] = Data(transmitted'[e] + 1)
    BY <1>1, <1>4, <1>8 DEF InOrder
  <2> QED BY <2>5, <2>6, <2>7, <2>8 DEF InOrder
<1>9. ASSUME InOrder(e), CloseQueued(e) PROVE InOrder(e)'
  <2> DEFINE packet == Ctl("Close")
  <2>1. packet \in Packet /\ packet.type = "Close"
    BY PacketType DEF Ctl, Control
  <2>2. /\ req' = [req EXCEPT ![e] = Append(@, packet)] /\ written' = written
        /\ AskedToClose(e)'
    BY <1>9 DEF CloseQueued, Become, AskedToClose, TypeOK, AppTypeOK
  <2>3. written[e] = Begun(e) + Len(req[e])
    BY <1>9, <1>6
  <2> HIDE DEF packet
  <2>4. /\ Len(req'[e]) = Len(req[e]) + 1 /\ req'[e][Len(req'[e])] = packet
        /\ req'[e] # <<>>
        /\ \A i \in 1..Len(req[e]) : req'[e][i] = req[e][i]
    BY <1>7, <2>1, <2>2
  <2>5. EndsWithClose(e)'
    BY <2>1, <2>4 DEF EndsWithClose
  <2>6. ASSUME NEW i \in 1..Len(req'[e]), i # Len(req'[e])
        PROVE  req'[e][i] = Data(Begun(e)' + i)
    <3>1. i \in 1..Len(req[e])
      BY <1>2, <2>4, <2>6
    <3>2. req[e][i] = Data(Begun(e) + i)
      BY <1>1, <1>9, <3>1, Zenon DEF InOrder
    <3> QED BY <1>4, <2>4, <3>1, <3>2
  <2>7. written'[e] = Begun(e)' + Len(req'[e]) - 1
    BY <1>2, <1>4, <2>2, <2>3, <2>4
  <2>8. Sending(e)' => hand'[e] = Data(transmitted'[e] + 1)
    BY <1>1, <1>4, <1>9 DEF InOrder
  <2> QED BY <2>2, <2>5, <2>6, <2>7, <2>8 DEF InOrder
<1>10. Serving(e)' => InOrder(e)'
  BY <1>1, <1>8, <1>9 DEF Ledger, Serving
<1> QED BY <1>3, <1>10 DEF Ledger

\* The other steps of the user move no request, and it never forgets that it has
\* asked for the close.
LEMMA OtherAppKeeps ==
    ASSUME TypeOK, NEW e \in Node, Ledger(e), UNCHANGED taskVars,
           PlainStep(e) \/ CachingStep(e) \/ Read(e)
    PROVE  Ledger(e)'
<1>1. /\ req' = req /\ written' = written
      /\ pc' = pc /\ hand' = hand /\ why' = why /\ transmitted' = transmitted
  BY DEF PlainStep, Opened, OpenFailed, ReadPanics, Write, WriteFails, Close,
         CloseFails, CachingStep, ReadClosed, WriteClosed, CloseFinished,
         CloseReturns, Read, CacheRemaining, channels, taskVars
<1>2. AskedToClose(e) => AskedToClose(e)'
  BY DEF PlainStep, Opened, OpenFailed, ReadPanics, Write, WriteFails, Close,
         CloseFails, CachingStep, ReadClosed, WriteClosed, CloseFinished,
         CloseReturns, Read, WantsClose, Become, AskedToClose, TypeOK, AppTypeOK
<1>3. /\ Sending(e)' <=> Sending(e)
      /\ Begun(e)' = Begun(e)
      /\ EndsWithClose(e)' <=> EndsWithClose(e)
      /\ Serving(e)' <=> Serving(e)
  BY <1>1 DEF Sending, Begun, EndsWithClose, Serving
<1>4. ASSUME InOrder(e) PROVE InOrder(e)'
  <2>1. Sending(e)' => hand'[e] = Data(transmitted'[e] + 1)
    BY <1>1, <1>3, <1>4 DEF InOrder
  <2>2. \A i \in 1..Len(req'[e]) :
           \/ req'[e][i] = Data(Begun(e)' + i)
           \/ i = Len(req'[e]) /\ EndsWithClose(e)' /\ AskedToClose(e)'
    BY <1>1, <1>2, <1>3, <1>4 DEF InOrder
  <2>3. written'[e] = Begun(e)' + Len(req'[e]) - (IF EndsWithClose(e)' THEN 1 ELSE 0)
    BY <1>1, <1>3, <1>4 DEF InOrder
  <2> QED BY <2>1, <2>2, <2>3 DEF InOrder
<1>5. UserCloses(e)'
  BY <1>1, <1>2 DEF Ledger, UserCloses
<1> QED BY <1>3, <1>4, <1>5 DEF Ledger

LEMMA AppKeeps ==
    ASSUME TypeOK, NEW e \in Node, Ledger(e), AppStep(e)
    PROVE  Ledger(e)'
<1>1. UNCHANGED taskVars
  BY DEF AppStep
<1> QED BY <1>1, AppCases, AppendKeeps, OtherAppKeeps DEF AppStep

LEMMA CrashKeeps ==
    ASSUME TypeOK, NEW e \in Node, Ledger(e), Crash(e)
    PROVE  Ledger(e)'
<1>1. pc'[e] = "crashed"
  BY DEF Crash, Goto, TypeOK, TaskTypeOK
<1> QED BY <1>1 DEF Ledger, Serving, UserCloses

-----------------------------------------------------------------------------
(***************************************************************************)
(* The invariant and what it says of closing.                              *)
(***************************************************************************)

IInv == TypeOK /\ WriteRoom /\ \A e \in Node : Ledger(e)

LEMMA IInvInit == Init => IInv
<1> SUFFICES ASSUME Init PROVE IInv
  OBVIOUS
<1>1. ASSUME NEW e \in Node PROVE Ledger(e)
  <2>1. /\ pc[e] \in {"hello", "awaitHello"} /\ req[e] = <<>> /\ Len(req[e]) = 0
        /\ transmitted[e] = 0 /\ written[e] = 0
    BY EmptySeq DEF Init, TaskInit, AppInit
  <2>2. ~Sending(e) /\ Begun(e) = 0 /\ ~EndsWithClose(e)
    BY <2>1 DEF Sending, Begun, EndsWithClose
  <2>3. 1..Len(req[e]) = {}
    BY <2>1
  <2>4. written[e] = Begun(e) + Len(req[e]) - 0
    BY <2>1, <2>2
  <2>5. InOrder(e)
    BY <2>2, <2>3, <2>4 DEF InOrder
  <2> QED BY <2>1, <2>5 DEF Ledger, UserCloses
<1> QED BY <1>1, TypeInit DEF IInv

LEMMA IInvStep == IInv /\ [Next]_vars => IInv'
<1> SUFFICES ASSUME IInv, [Next]_vars PROVE IInv'
  OBVIOUS
<1> USE DEF IInv
<1>1. TypeOK' /\ WriteRoom'
  BY TypeStep
<1>2. ASSUME NEW e \in Node PROVE Ledger(e)'
  <2>1. CASE UNCHANGED vars
    BY <2>1, SameKeeps DEF Same, vars, taskVars, channels, appVars
  <2>2. ASSUME NEW f \in Node, TaskStep(f) PROVE Ledger(e)'
    BY <2>2, TaskKeeps, TaskFrame, SameKeeps
  <2>3. ASSUME NEW f \in Node, AppStep(f) PROVE Ledger(e)'
    BY <2>3, AppKeeps, AppFrame, SameKeeps
  <2>4. ASSUME NEW f \in Node, Crash(f) PROVE Ledger(e)'
    BY <2>4, CrashKeeps, AppFrame, SameKeeps
  <2> QED BY <2>1, <2>2, <2>3, <2>4 DEF Next
<1> QED BY <1>1, <1>2

\* No request is lost, repeated or overtaken between ConnHandler::write and the
\* socket, however sends, timers, closes and crashes interleave.
THEOREM RequestsKeepOrder == Spec => []RequestsInOrder
<1>1. IInv => RequestsInOrder
  BY DEF IInv, Ledger, RequestsInOrder
<1> QED BY IInvInit, IInvStep, <1>1, PTL DEF Spec

\* close_inner(false) on request of the user: every message the user had written
\* was sent before ControlClose.
THEOREM CloseComesLast == Spec => []CloseFlushesWrites
<1>1. IInv => CloseFlushesWrites
  <2> SUFFICES ASSUME IInv, NEW e \in Node, why[e] = "user",
                      pc[e] \in {"sendClose", "await", "awaitDeliver"}
               PROVE  transmitted[e] = written[e]
    BY DEF CloseFlushesWrites
  <2>1. Ledger(e) /\ TypeOK
    BY DEF IInv
  <2>2. InOrder(e) /\ req[e] = <<>> /\ ~Sending(e)
    BY <2>1 DEF Ledger, Serving, UserCloses, Sending
  <2>3. Len(req[e]) = 0 /\ ~EndsWithClose(e) /\ Begun(e) = transmitted[e]
    BY <2>1, <2>2, EmptySeq, OwnStateType DEF EndsWithClose, Begun
  <2>4. transmitted[e] \in Nat /\ written[e] \in Nat
    BY <2>1, OwnStateType
  <2> QED BY <2>2, <2>3, <2>4 DEF InOrder
<1> QED BY IInvInit, IInvStep, <1>1, PTL DEF Spec

\* close_inner(true): when the task stops draining request_rx, every message the
\* user had written is sent.
THEOREM DrainComplete == Spec => DrainLeavesNothing
<1> DEFINE D(e) == pc[e] = "drain" /\ pc'[e] = "drainClose" => transmitted[e] = written[e]
<1>1. ASSUME IInv, Next, NEW e \in Node PROVE D(e)
  <2> SUFFICES ASSUME pc[e] = "drain", pc'[e] = "drainClose"
               PROVE  transmitted[e] = written[e]
    OBVIOUS
  <2>1. TypeOK /\ Ledger(e)
    BY <1>1 DEF IInv
  <2>2. ~Same(e)
    BY DEF Same
  <2>3. TaskStep(e)
    <3>1. ASSUME AppStep(e) \/ Crash(e) PROVE FALSE
      BY <2>1, <3>1 DEF AppStep, taskVars, Crash, Goto, TypeOK, TaskTypeOK
    <3> QED BY <1>1, <2>1, <2>2, <3>1, TaskFrame, AppFrame DEF Next
  <2>4. DrainStops(e)
    <3> USE <2>1 DEF TypeOK, TaskTypeOK, Unheld, taskVars, Goto, Hold, Return
    <3>1. ~QuietStep(e) \/ DrainStops(e)
      BY DEF QuietStep, SendHello, RecvHello, Awaits, Expected, RunPing, RunIgnored,
             RunData, RunClose, FirstPing, Deliver, Tick, PeerInactive, SendClose,
             AwaitData, AwaitIgnored
    <3>2. ~EndingStep(e)
      BY DEF EndingStep, HandshakeFails, RunEnds, SendFails, AwaitClose, AwaitEnds,
             Closed, CloseTimeout, DrainClose, Drop, Finish
    <3>3. ~SendDone(e) /\ (~TakingStep(e) \/ DrainStops(e))
      BY DEF SendDone, TakingStep, RunSend, DrainSend, RunCloseRequest
    <3> QED BY <2>3, <3>1, <3>2, <3>3, TaskCases DEF TaskStep
  <2>5. Serving(e) /\ ~Sending(e) /\ InOrder(e)
    BY <2>1 DEF Serving, Sending, Ledger
  <2>6. /\ req[e] \in Seq(Packet) /\ transmitted[e] \in Nat /\ written[e] \in Nat
        /\ Begun(e) = transmitted[e]
    BY <2>1, <2>5, OwnStateType DEF Begun
  <2>7. CASE req[e] = <<>>
    <3>1. Len(req[e]) = 0 /\ ~EndsWithClose(e)
      BY <2>7, EmptySeq DEF EndsWithClose
    <3> QED BY <2>5, <2>6, <3>1 DEF InOrder
  <2>8. CASE req[e] # <<>>
    <3>1. Head(req[e]).type = "Close"
      BY <2>4, <2>8 DEF DrainStops
    <3>2. Len(req[e]) = 1 /\ EndsWithClose(e)
      BY <2>1, <2>5, <2>8, <3>1, FirstRequest
    <3> QED BY <2>5, <2>6, <3>2 DEF InOrder
  <2> QED BY <2>7, <2>8
<1>2. IInv /\ [Next]_vars => [\A e \in Node : D(e)]_vars
  BY <1>1
<1> QED BY IInvInit, IInvStep, <1>2, PTL DEF Spec, DrainLeavesNothing

-----------------------------------------------------------------------------
(***************************************************************************)
(* What a connection delivers.  The messages of a direction are numbered;  *)
(* what the user has got, what waits in the channel or in the cache, what  *)
(* the task delivers and what is on the wire follow each other.            *)
(***************************************************************************)

(***************************************************************************)
(* The packets on the wire.  f[i] is the number of the last message among  *)
(* the first i packets.                                                    *)
(***************************************************************************)
IsData(packet) == packet.type = "Data"

NumberedBy(q, f) ==
    /\ \A i \in 1..Len(q) : f[i] = f[i - 1] + (IF IsData(q[i]) THEN 1 ELSE 0)
    /\ \A i \in 1..Len(q) : IsData(q[i]) => q[i] = Data(f[i])
    /\ \A i, j \in 0..Len(q) : i <= j => f[i] <= f[j]

\* The messages in q are those after the first from, up to to.
Carries(q, from, to) ==
    \E f \in [0..Len(q) -> Nat] : f[0] = from /\ f[Len(q)] = to /\ NumberedBy(q, f)

HasClose(q)  == \E i \in 1..Len(q) : q[i].type = "Close"
CloseLast(q) == \A i \in 1..Len(q) : q[i].type = "Close" => i = Len(q)

\* A wire on which nothing is lost unless the sender's socket is closed (not whole):
\* it goes on after from, and up to what the sender has transmitted, and there is
\* nothing after a Close, whose sender is silent from then on.
Line(q, from, sent, silent, whole) ==
    /\ CloseLast(q)
    /\ HasClose(q) => silent
    /\ \E to \in 0..sent : /\ Carries(q, from, to)
                           /\ whole \/ HasClose(q) => to = sent

\* The numbers go up, and do not when there is no packet.
LEMMA CarriesFromTo ==
    ASSUME NEW q \in Seq(Packet), NEW a, NEW b, Carries(q, a, b)
    PROVE  a \in Nat /\ b \in Nat /\ a <= b /\ (q = <<>> => a = b)
  BY DEF Carries, NumberedBy

\* The empty wire.
LEMMA CarriesNothing ==
    ASSUME NEW a \in Nat
    PROVE  Carries(<<>>, a, a)
<1> DEFINE f == [i \in 0..0 |-> a]
<1>1. Len(<<>>) = 0 /\ f \in [0..Len(<<>>) -> Nat] /\ f[0] = a /\ f[Len(<<>>)] = a
  OBVIOUS
<1>2. NumberedBy(<<>>, f)
  BY DEF NumberedBy
<1> QED BY <1>1, <1>2 DEF Carries

\* A packet is put at the end.
LEMMA CarriesAppend ==
    ASSUME NEW q \in Seq(Packet), NEW a, NEW b, Carries(q, a, b), NEW p \in Packet,
           NEW c \in Nat,
           IF IsData(p) THEN p = Data(b + 1) /\ c = b + 1 ELSE c = b
    PROVE  Carries(Append(q, p), a, c)
<1> DEFINE r == Append(q, p)
           n == Len(q)
<1>1. PICK f \in [0..n -> Nat] : f[0] = a /\ f[n] = b /\ NumberedBy(q, f)
  BY DEF Carries
<1>2. /\ n \in Nat /\ r \in Seq(Packet) /\ Len(r) = n + 1 /\ r[n + 1] = p
      /\ \A i \in 1..n : r[i] = q[i]
  OBVIOUS
<1> DEFINE g == [i \in 0..n + 1 |-> IF i = n + 1 THEN c ELSE f[i]]
<1>3. g \in [0..n + 1 -> Nat] /\ g[n + 1] = c /\ \A i \in 0..n : g[i] = f[i]
  BY <1>2
<1>4. b \in Nat /\ b <= c /\ (IsData(p) => p = Data(c) /\ c = b + 1) /\ (~IsData(p) => c = b)
  BY <1>1, <1>2
<1> HIDE DEF r, n, g
<1>5. ASSUME NEW i \in 1..n + 1
      PROVE  /\ g[i] = g[i - 1] + (IF IsData(r[i]) THEN 1 ELSE 0)
             /\ IsData(r[i]) => r[i] = Data(g[i])
  <2>1. CASE i = n + 1
    BY <1>1, <1>2, <1>3, <1>4, <2>1
  <2>2. CASE i \in 1..n
    <3>1. i \in 0..n /\ i - 1 \in 0..n
      BY <1>2, <2>2
    <3> QED BY <1>1, <1>2, <1>3, <2>2, <3>1 DEF NumberedBy, n
  <2> QED BY <1>2, <2>1, <2>2
<1>6. ASSUME NEW i \in 0..n + 1, NEW j \in 0..n + 1, i <= j
      PROVE  g[i] <= g[j]
  <2>1. CASE j \in 0..n
    <3>1. i \in 0..n
      BY <1>2, <1>6, <2>1
    <3> QED BY <1>1, <1>3, <1>6, <2>1, <3>1 DEF NumberedBy, n
  <2>2. CASE j = n + 1 /\ i \in 0..n
    <3>1. n \in 0..n /\ i <= n
      BY <1>2, <2>2
    <3>2. f[i] <= b
      BY <1>1, <2>2, <3>1 DEF NumberedBy, n
    <3> QED BY <1>1, <1>2, <1>3, <1>4, <2>2, <3>2
  <2>3. CASE i = n + 1 /\ j = n + 1
    BY <1>3, <2>3
  <2> QED BY <1>2, <1>6, <2>1, <2>2, <2>3
<1>7. NumberedBy(r, g)
  BY <1>2, <1>5, <1>6 DEF NumberedBy
<1>8. g[0] = a
  BY <1>1, <1>2, <1>3
<1> QED BY <1>2, <1>3, <1>7, <1>8 DEF Carries, r

\* The first packet is taken.
LEMMA CarriesTail ==
    ASSUME NEW q \in Seq(Packet), q # <<>>, NEW a, NEW b, Carries(q, a, b)
    PROVE  IF IsData(Head(q))
           THEN Head(q) = Data(a + 1) /\ Carries(Tail(q), a + 1, b)
           ELSE Carries(Tail(q), a, b)
<1> DEFINE t == Tail(q)
           n == Len(t)
<1>1. PICK f \in [0..Len(q) -> Nat] : f[0] = a /\ f[Len(q)] = b /\ NumberedBy(q, f)
  BY DEF Carries
<1>2. /\ Len(q) = n + 1 /\ n \in Nat /\ t \in Seq(Packet) /\ Head(q) = q[1]
      /\ \A i \in 1..n : t[i] = q[i + 1]
  BY TailLemma
<1> DEFINE g == [i \in 0..n |-> f[i + 1]]
<1>3. g \in [0..n -> Nat] /\ g[n] = b /\ \A i \in 0..n : g[i] = f[i + 1]
  BY <1>1, <1>2
<1> HIDE DEF t, n, g
<1>4. ASSUME NEW i \in 1..n
      PROVE  /\ g[i] = g[i - 1] + (IF IsData(t[i]) THEN 1 ELSE 0)
             /\ IsData(t[i]) => t[i] = Data(g[i])
  <2>1. i + 1 \in 1..Len(q) /\ (i + 1) - 1 = i /\ i \in 0..n /\ i - 1 \in 0..n
        /\ (i - 1) + 1 = i
    BY <1>2
  <2>2. g[i] = f[i + 1] /\ g[i - 1] = f[i] /\ t[i] = q[i + 1]
    BY <1>2, <1>3, <2>1
  <2>3. /\ f[i + 1] = f[i] + (IF IsData(q[i + 1]) THEN 1 ELSE 0)
        /\ IsData(q[i + 1]) => q[i + 1] = Data(f[i + 1])
    BY <1>1, <2>1 DEF NumberedBy
  <2> QED BY <2>2, <2>3
<1>5. ASSUME NEW i \in 0..n, NEW j \in 0..n, i <= j
      PROVE  g[i] <= g[j]
  <2>1. i + 1 \in 0..Len(q) /\ j + 1 \in 0..Len(q) /\ i + 1 <= j + 1
    BY <1>2, <1>5
  <2> QED BY <1>1, <1>3, <2>1 DEF NumberedBy
<1>6. NumberedBy(t, g)
  BY <1>2, <1>4, <1>5 DEF NumberedBy, n
<1>7. /\ f[1] = a + (IF IsData(q[1]) THEN 1 ELSE 0)
      /\ IsData(q[1]) => q[1] = Data(f[1])
  BY <1>1, <1>2 DEF NumberedBy
<1>8. g[0] = f[1] /\ a \in Nat
  BY <1>1, <1>2, <1>3
<1>9. Carries(t, f[1], b)
  BY <1>2, <1>3, <1>6, <1>8 DEF Carries, n
<1>10. CASE IsData(q[1])
  BY <1>2, <1>7, <1>9, <1>10 DEF t
<1>11. CASE ~IsData(q[1])
  BY <1>2, <1>7, <1>8, <1>9, <1>11 DEF t
<1> QED BY <1>2, <1>10, <1>11

\* The rest is cut off.
LEMMA CarriesCut ==
    ASSUME NEW q \in Seq(Packet), NEW a, NEW b, Carries(q, a, b), NEW k \in 0..Len(q)
    PROVE  \E c \in 0..b : /\ Carries(SubSeq(q, 1, k), a, c)
                           /\ k = Len(q) => c = b
<1> DEFINE s == SubSeq(q, 1, k)
<1>1. PICK f \in [0..Len(q) -> Nat] : f[0] = a /\ f[Len(q)] = b /\ NumberedBy(q, f)
  BY DEF Carries
<1>2. k \in Nat /\ k <= Len(q) /\ Len(q) \in Nat
  OBVIOUS
<1>3. s \in Seq(Packet) /\ Len(s) = k /\ \A i \in 1..k : s[i] = q[i]
  BY <1>2, PieceType
<1> DEFINE g == [i \in 0..k |-> f[i]]
<1>4. g \in [0..k -> Nat] /\ g[0] = a /\ \A i \in 0..k : g[i] = f[i]
  BY <1>1, <1>2
<1> HIDE DEF s, g
<1>5. NumberedBy(s, g)
  <2>1. ASSUME NEW i \in 1..k
        PROVE  /\ g[i] = g[i - 1] + (IF IsData(s[i]) THEN 1 ELSE 0)
               /\ IsData(s[i]) => s[i] = Data(g[i])
    <3>1. i \in 1..Len(q) /\ i \in 0..k /\ i - 1 \in 0..k
      BY <1>2
    <3>2. g[i] = f[i] /\ g[i - 1] = f[i - 1] /\ s[i] = q[i]
      BY <1>3, <1>4, <3>1
    <3>3. /\ f[i] = f[i - 1] + (IF IsData(q[i]) THEN 1 ELSE 0)
          /\ IsData(q[i]) => q[i] = Data(f[i])
      BY <1>1, <3>1 DEF NumberedBy
    <3> QED BY <3>2, <3>3
  <2>2. ASSUME NEW i \in 0..k, NEW j \in 0..k, i <= j
        PROVE  g[i] <= g[j]
    <3>1. i \in 0..Len(q) /\ j \in 0..Len(q)
      BY <1>2
    <3> QED BY <1>1, <1>4, <2>2, <3>1 DEF NumberedBy
  <2> QED BY <1>3, <2>1, <2>2 DEF NumberedBy
<1>6. f[k] \in 0..b /\ (k = Len(q) => f[k] = b)
  <2>1. k \in 0..Len(q) /\ Len(q) \in 0..Len(q)
    BY <1>2
  <2>2. f[k] <= f[Len(q)]
    BY <1>1, <1>2, <2>1 DEF NumberedBy
  <2> QED BY <1>1, <2>1, <2>2
<1>7. Carries(s, a, f[k])
  BY <1>2, <1>3, <1>4, <1>5 DEF Carries
<1> QED BY <1>6, <1>7 DEF s

-----------------------------------------------------------------------------
(***************************************************************************)
(* The same of a line.                                                     *)
(***************************************************************************)
\* An empty line, at the beginning.
LEMMA LineNothing ==
    ASSUME NEW a \in Nat, NEW silent, NEW whole
    PROVE  Line(<<>>, a, a, silent, whole)
<1>1. Carries(<<>>, a, a) /\ a \in 0..a /\ 1..Len(<<>>) = {}
  BY CarriesNothing
<1>2. CloseLast(<<>>) /\ ~HasClose(<<>>)
  BY <1>1 DEF CloseLast, HasClose
<1> QED BY <1>1, <1>2 DEF Line

\* The receiver takes the first packet: a message is the next one, and a Close means
\* that there was none left, nor will there be.
LEMMA LineTail ==
    ASSUME NEW q \in Seq(Packet), q # <<>>, NEW a, NEW sent \in Nat,
           NEW silent, NEW whole, Line(q, a, sent, silent, whole)
    PROVE  /\ a \in Nat
           /\ IsData(Head(q)) => /\ Head(q) = Data(a + 1) /\ a + 1 <= sent
                                 /\ Line(Tail(q), a + 1, sent, silent, whole)
           /\ ~IsData(Head(q)) => Line(Tail(q), a, sent, silent, whole)
           /\ Head(q).type = "Close" => a = sent /\ silent
<1>1. PICK to \in 0..sent : Carries(q, a, to) /\ (whole \/ HasClose(q) => to = sent)
  BY DEF Line
<1>2. CloseLast(q) /\ (HasClose(q) => silent)
  BY DEF Line
<1>3. /\ Len(q) \in Nat \ {0} /\ Tail(q) \in Seq(Packet) /\ Head(q) = q[1]
      /\ Len(Tail(q)) = Len(q) - 1
      /\ \A i \in 1..Len(Tail(q)) : Tail(q)[i] = q[i + 1] /\ i + 1 \in 1..Len(q)
  BY TailLemma
<1>4. CloseLast(Tail(q))
  <2> SUFFICES ASSUME NEW i \in 1..Len(Tail(q)), Tail(q)[i].type = "Close"
               PROVE  i = Len(Tail(q))
    BY DEF CloseLast
  <2>1. i + 1 \in 1..Len(q) /\ q[i + 1].type = "Close"
    BY <1>3
  <2>2. i + 1 = Len(q)
    BY <1>2, <2>1 DEF CloseLast
  <2>3. Len(q) \in Nat /\ Len(Tail(q)) = Len(q) - 1 /\ i \in Nat
    BY <1>3
  <2> QED BY <2>2, <2>3
<1>5. HasClose(Tail(q)) => HasClose(q)
  BY <1>3 DEF HasClose
<1>6. a \in Nat
  BY <1>1, CarriesFromTo
<1>7. ASSUME IsData(Head(q))
      PROVE  Head(q) = Data(a + 1) /\ a + 1 <= sent /\ Line(Tail(q), a + 1, sent, silent, whole)
  <2>1. Head(q) = Data(a + 1) /\ Carries(Tail(q), a + 1, to)
    BY <1>1, <1>7, CarriesTail
  <2>2. a + 1 <= to
    BY <1>3, <2>1, CarriesFromTo
  <2>3. a + 1 <= sent
    BY <1>1, <1>6, <2>2
  <2> QED BY <1>1, <1>2, <1>4, <1>5, <2>1, <2>3 DEF Line
<1>8. ASSUME ~IsData(Head(q)) PROVE Line(Tail(q), a, sent, silent, whole)
  <2>1. Carries(Tail(q), a, to)
    BY <1>1, <1>8, CarriesTail
  <2> QED BY <1>1, <1>2, <1>4, <1>5, <2>1 DEF Line
<1>9. ASSUME Head(q).type = "Close" PROVE a = sent /\ silent
  <2>1. 1 \in 1..Len(q) /\ q[1].type = "Close"
    BY <1>3, <1>9
  <2>2. Len(q) = 1 /\ HasClose(q)
    BY <1>2, <2>1 DEF CloseLast, HasClose
  <2>3. Tail(q) = <<>> /\ ~IsData(Head(q))
    BY <1>9, <2>2, TailLemma DEF IsData
  <2>4. Carries(Tail(q), a, to)
    BY <1>1, <2>3, CarriesTail
  <2>5. a = to
    BY <1>3, <2>3, <2>4, CarriesFromTo
  <2> QED BY <1>1, <1>2, <2>2, <2>5
<1> QED BY <1>6, <1>7, <1>8, <1>9

\* The sender puts a packet on the line while its socket is open.
LEMMA LineAppend ==
    ASSUME NEW q \in Seq(Packet), NEW a, NEW sent \in Nat, Line(q, a, sent, FALSE, TRUE),
           NEW p \in Packet, NEW silent, p.type = "Close" => silent,
           NEW now \in Nat,
           IF IsData(p) THEN p = Data(sent + 1) /\ now = sent + 1 ELSE now = sent
    PROVE  Line(Append(q, p), a, now, silent, TRUE)
<1> DEFINE r == Append(q, p)
<1>1. Carries(q, a, sent) /\ ~HasClose(q)
  BY DEF Line
<1>2. /\ Len(q) \in Nat /\ Len(r) = Len(q) + 1 /\ r[Len(r)] = p
      /\ \A i \in 1..Len(q) : r[i] = q[i]
  OBVIOUS
<1>3. Carries(r, a, now)
  BY <1>1, CarriesAppend
<1> HIDE DEF r
<1>4. ASSUME NEW i \in 1..Len(r), r[i].type = "Close"
      PROVE  i = Len(r) /\ p.type = "Close"
  BY <1>1, <1>2, <1>4 DEF HasClose
<1>5. CloseLast(r) /\ (HasClose(r) => silent)
  BY <1>4 DEF CloseLast, HasClose
<1> QED BY <1>3, <1>5 DEF Line, r

\* The sender's socket has been closed, and what was under way is cut off somewhere.
LEMMA LineCut ==
    ASSUME NEW q \in Seq(Packet), NEW a, NEW sent \in Nat, NEW silent, NEW whole,
           Line(q, a, sent, silent, whole), NEW k \in 0..Len(q)
    PROVE  Line(SubSeq(q, 1, k), a, sent, silent, FALSE)
<1> DEFINE s == SubSeq(q, 1, k)
<1>1. PICK to \in 0..sent : Carries(q, a, to) /\ (whole \/ HasClose(q) => to = sent)
  BY DEF Line
<1>2. PICK c \in 0..to : Carries(s, a, c) /\ (k = Len(q) => c = to)
  BY <1>1, CarriesCut
<1>3. k \in Nat /\ k <= Len(q) /\ Len(q) \in Nat
  OBVIOUS
<1>4. s \in Seq(Packet) /\ Len(s) = k /\ \A i \in 1..k : s[i] = q[i]
  BY <1>3, PieceType
<1>5. c \in 0..sent
  BY <1>1, <1>2
<1> HIDE DEF s
<1>6. ASSUME NEW i \in 1..k, s[i].type = "Close"
      PROVE  HasClose(q) /\ i = k /\ k = Len(q)
  <2>1. i \in 1..Len(q) /\ q[i].type = "Close"
    BY <1>3, <1>4, <1>6
  <2>2. i = Len(q) /\ HasClose(q)
    BY <2>1 DEF Line, CloseLast, HasClose
  <2> QED BY <1>3, <2>2
<1>7. CloseLast(s)
  BY <1>4, <1>6 DEF CloseLast
<1>8. HasClose(s) => HasClose(q) /\ k = Len(q)
  BY <1>4, <1>6 DEF HasClose
<1>9. HasClose(q) => silent
  BY DEF Line
<1> QED BY <1>1, <1>2, <1>5, <1>7, <1>8, <1>9 DEF Line, s

\* What is known of the sender may become less, and it may fall silent.
LEMMA LineWeaker ==
    ASSUME NEW q, NEW a, NEW sent, NEW silent, NEW whole, Line(q, a, sent, silent, whole),
           NEW quiet, silent => quiet, NEW all, all => whole
    PROVE  Line(q, a, sent, quiet, all)
  BY DEF Line

-----------------------------------------------------------------------------
(***************************************************************************)
(* The invariant: what an endpoint knows of itself, and the way to it.     *)
(***************************************************************************)

\* It sends no message any more.
Silent(e) == pc[e] \in {"await", "awaitDeliver"} \/ ~Serving(e)

\* It receives nothing any more.
Leaving(e) == pc[e] \in {"drain", "drainSend", "drainClose"} \/ ~Serving(e)

Delivering(e) == pc[e] \in {"deliver", "awaitDeliver"}

\* What has been delivered and the user has not got yet.
Pending(e) ==
    IF ~cached[e] THEN resp[e] ELSE IF result[e] = "Ok" THEN <<>> ELSE cache[e]

Delivered(e) == Len(got[e]) + Len(Pending(e))
Taken(e)     == Delivered(e) + (IF Delivering(e) THEN 1 ELSE 0)

Socket(e) == open[e] <=> pc[e] \notin {"dropped", "finished", "failed", "crashed"}

Handler(e) ==
    /\ cached[e] => pc[e] = "finished" /\ resp[e] = <<>> /\ app[e] \in {"breaking", "over"}
    /\ result[e] = "Ok" => cached[e] /\ app[e] = "over"

Sends(e) ==
    /\ pc[e] \in {"send", "drainSend"} => hand[e].type # "Close"
    /\ transmitted[e] <= written[e]

Local(e) == Ledger(e) /\ Socket(e) /\ Handler(e) /\ Sends(e)

\* The user's queues: each message once, in order, and only what was sent.
Queues(e) ==
    /\ Counts(got[e], 0)
    /\ Counts(Pending(e), Len(got[e]))
    /\ Delivered(e) <= transmitted[Peer[e]]

\* While it listens, hand and wire go on where the queues end.
Way(e) ==
    Serving(e) /\ ~heardClose[e] =>
        /\ Delivering(e) => hand[e] = Data(Delivered(e) + 1)
        /\ Line(wire[e], Taken(e), transmitted[Peer[e]], Silent(Peer[e]), open[Peer[e]])

\* Once it has heard the Close, everything sent has been delivered.
Heard(e) ==
    heardClose[e] => /\ Leaving(e) /\ Silent(Peer[e])
                     /\ Delivered(e) = transmitted[Peer[e]]

Path(e) == Queues(e) /\ Way(e) /\ Heard(e)

DInv == TypeOK /\ WriteRoom /\ \A e \in Node : Local(e) /\ Path(e)

-----------------------------------------------------------------------------
(***************************************************************************)
(* What an endpoint knows of itself.                                       *)
(***************************************************************************)
Unmoved(e) ==
    /\ Same(e)
    /\ heardClose'[e] = heardClose[e] /\ resp'[e] = resp[e] /\ open'[e] = open[e]
    /\ got'[e] = got[e] /\ cached'[e] = cached[e] /\ cache'[e] = cache[e]
    /\ result'[e] = result[e]

\* What it knows of itself, an endpoint that does not move keeps.
LEMMA UnmovedKeeps ==
    ASSUME NEW e \in Node, Local(e), Unmoved(e)
    PROVE  Local(e)'
  BY SameKeeps DEF Local, Unmoved, Same, Socket, Handler, Sends

\* A socket that is closed.
LEMMA CloseSocketOpens ==
    ASSUME TypeOK, NEW e \in Node, CloseSocket(e)
    PROVE  ~open'[e] /\ \A f \in Node \ {e} : open'[f] = open[f]
  BY DEF CloseSocket, TypeOK, TcpTypeOK

\* No step of an endpoint moves the other one.
LEMMA Frame ==
    ASSUME TypeOK, NEW e \in Node, NEW f \in Node \ {e},
           TaskStep(f) \/ AppStep(f) \/ Crash(f)
    PROVE  Unmoved(e)
<1> USE DEF TypeOK, TaskTypeOK, AppTypeOK, Unheld, taskVars, appVars, channels, tcpVars,
            Goto, Hold, Return, PopRequest, Become, CacheRemaining
<1>1. Same(e)
  BY TaskFrame, AppFrame
<1>2. ASSUME TaskStep(f)
      PROVE  heardClose'[e] = heardClose[e] /\ resp'[e] = resp[e] /\ open'[e] = open[e]
  <2>1. CASE HandshakeStep(f)
    BY <2>1, CloseSocketOpens
       DEF HandshakeStep, SendHello, RecvHello, HandshakeFails, Send, Take
  <2>2. CASE ReceiveStep(f)
    BY <2>2 DEF ReceiveStep, RunPing, RunIgnored, RunData, RunClose, RunEnds, Take
  <2>3. CASE RequestStep(f)
    BY <2>3 DEF RequestStep, RunSend, RunCloseRequest
  <2>4. CASE HandlerStep(f)
    BY <2>4 DEF HandlerStep, FirstPing, SendDone, SendFails, Deliver, Send
  <2>5. CASE CloseStep(f)
    BY <2>5 DEF CloseStep, SendClose, AwaitClose, AwaitData, AwaitIgnored, AwaitEnds,
                Closed, SendLast, Take
  <2>6. CASE DrainStep(f)
    BY <2>6 DEF DrainStep, DrainSend, DrainStops, DrainClose, SendLast
  <2>7. CASE EndStep(f)
    BY <2>7, CloseSocketOpens DEF EndStep, Drop, Finish
  <2>8. CASE TimerStep(f)
    BY <2>8 DEF TimerStep, Tick, PeerInactive, CloseTimeout
  <2> QED BY <1>2, <2>1, <2>2, <2>3, <2>4, <2>5, <2>6, <2>7, <2>8 DEF TaskStep, Task
<1>3. CASE TaskStep(f)
  BY <1>1, <1>2, <1>3 DEF TaskStep, Unmoved
<1>4. CASE Crash(f)
  BY <1>1, <1>4, CloseSocketOpens DEF Crash, Unmoved
<1>5. CASE AppStep(f) /\ PlainStep(f)
  BY <1>1, <1>5 DEF AppStep, PlainStep, Opened, OpenFailed, ReadPanics, Write,
                    WriteFails, Close, CloseFails, Unmoved
<1>6. CASE AppStep(f) /\ CachingStep(f)
  BY <1>1, <1>6 DEF AppStep, CachingStep, ReadClosed, WriteClosed, CloseFinished,
                    CloseReturns, Receive, Unmoved
<1>7. CASE AppStep(f) /\ (Read(f) \/ WriteQueued(f) \/ CloseQueued(f))
  BY <1>1, <1>7 DEF AppStep, Read, WriteQueued, CloseQueued, Receive, Unmoved
<1> QED BY <1>3, <1>4, <1>5, <1>6, <1>7, AppCases DEF AppStep

\* A step of its task leaves the socket open until it drops the connection.
LEMMA TaskSocket ==
    ASSUME TypeOK, NEW e \in Node, Socket(e), TaskStep(e)
    PROVE  Socket(e)' /\ pc[e] \notin {"finished", "failed", "crashed"}
<1> USE DEF TypeOK, TaskTypeOK, TcpTypeOK, Unheld, taskVars, tcpVars, Goto, Hold, Return,
            Socket
<1>1. CASE HandshakeFails(e) \/ Drop(e)
  <2>1. CloseSocket(e) /\ pc'[e] \in {"failed", "dropped"}
        /\ pc[e] \notin {"finished", "failed", "crashed"}
    BY <1>1 DEF HandshakeFails, HandshakeBroken, Awaits, Expected, Drop
  <2> QED BY <2>1, CloseSocketOpens
<1>2. CASE Finish(e)
  BY <1>2 DEF Finish
<1>3. CASE SendHello(e) \/ RecvHello(e)
  BY <1>3 DEF SendHello, RecvHello, Awaits, Expected, Send, Take
<1>4. CASE ReceiveStep(e)
  BY <1>4 DEF ReceiveStep, RunPing, RunIgnored, RunData, RunClose, RunEnds, Take
<1>5. CASE RequestStep(e)
  BY <1>5 DEF RequestStep, RunSend, RunCloseRequest
<1>6. CASE HandlerStep(e)
  BY <1>6 DEF HandlerStep, FirstPing, SendDone, SendFails, Deliver, Send
<1>7. CASE CloseStep(e)
  BY <1>7 DEF CloseStep, SendClose, AwaitClose, AwaitData, AwaitIgnored, AwaitEnds,
              Closed, SendLast, Take
<1>8. CASE DrainStep(e)
  BY <1>8 DEF DrainStep, DrainSend, DrainStops, DrainClose, SendLast
<1>9. CASE TimerStep(e)
  BY <1>9 DEF TimerStep, Tick, PeerInactive, CloseTimeout
<1> QED BY <1>1, <1>2, <1>3, <1>4, <1>5, <1>6, <1>7, <1>8, <1>9
       DEF TaskStep, Task, HandshakeStep, EndStep

\* What it sends is never a Close, and it has transmitted no more than was written.
LEMMA TaskSends ==
    ASSUME TypeOK, NEW e \in Node, Ledger(e), Sends(e), TaskStep(e)
    PROVE  Sends(e)'
<1> USE DEF TypeOK, TaskTypeOK, Unheld, taskVars, Goto, Hold, Return
<1>1. written' = written
  BY DEF TaskStep, appVars
<1>2. CASE SendDone(e)
  <2>1. Serving(e) /\ InOrder(e) /\ pc'[e] \in {"run", "drain"}
        /\ (Sending(e) <=> hand[e].type = "Data")
        /\ transmitted'[e] = IF Sending(e) THEN transmitted[e] + 1 ELSE transmitted[e]
    BY <1>2 DEF SendDone, CountSent, Serving, Sending, Ledger
  <2>2. /\ transmitted[e] \in Nat /\ written[e] \in Nat /\ Len(req[e]) \in Nat
        /\ req[e] \in Seq(Packet)
    BY OwnStateType
  <2>3. transmitted'[e] = Begun(e) /\ Begun(e) \in Nat
    BY <2>1, <2>2 DEF Begun
  <2>4. EndsWithClose(e) => Len(req[e]) >= 1
    BY <2>2, EmptySeq DEF EndsWithClose
  <2>5. Begun(e) <= written[e]
    <3>1. written[e] = Begun(e) + Len(req[e]) - (IF EndsWithClose(e) THEN 1 ELSE 0)
      BY <2>1, Zenon DEF InOrder
    <3>2. CASE EndsWithClose(e)
      <4>1. written[e] = Begun(e) + Len(req[e]) - 1 /\ Len(req[e]) >= 1
        BY <2>4, <3>1, <3>2
      <4> QED BY <2>2, <2>3, <4>1
    <3>3. CASE ~EndsWithClose(e)
      <4>1. written[e] = Begun(e) + Len(req[e]) - 0
        BY <3>1, <3>3
      <4> QED BY <2>2, <2>3, <4>1
    <3> QED BY <3>2, <3>3
  <2> QED BY <1>1, <2>1, <2>3, <2>5 DEF Sends
<1>3. ASSUME ~SendDone(e) PROVE transmitted'[e] = transmitted[e]
  BY <1>3 DEF TaskStep, Task, HandshakeStep, ReceiveStep, RequestStep, HandlerStep,
     CloseStep, DrainStep, EndStep, TimerStep, SendHello, RecvHello, HandshakeFails,
     RunPing, RunIgnored, RunData, RunClose, RunEnds, RunSend, RunCloseRequest, FirstPing,
     SendFails, Deliver, SendClose, AwaitClose, AwaitData, AwaitIgnored, AwaitEnds,
     DrainSend, DrainStops, DrainClose, Drop, Finish, Tick, PeerInactive, CloseTimeout
<1>4. CASE RunSend(e) \/ DrainSend(e) \/ FirstPing(e) \/ Tick(e) \/ RunPing(e)
  <2>1. hand'[e].type # "Close"
    BY <1>4 DEF RunSend, DrainSend, FirstPing, Tick, RunPing, Ctl
  <2>2. ~SendDone(e)
    BY <1>4 DEF RunSend, DrainSend, FirstPing, Tick, RunPing, SendDone
  <2> QED BY <1>1, <1>3, <2>1, <2>2 DEF Sends
<1>5. ASSUME ~SendDone(e),
             ~(RunSend(e) \/ DrainSend(e) \/ FirstPing(e) \/ Tick(e) \/ RunPing(e))
      PROVE  pc'[e] \notin {"send", "drainSend"}
  <2>1. CASE EndStep(e) \/ HandshakeStep(e)
    BY <2>1 DEF HandshakeStep, EndStep, SendHello, RecvHello, HandshakeFails, Drop, Finish
  <2>2. CASE ReceiveStep(e)
    BY <1>5, <2>2 DEF ReceiveStep, RunIgnored, RunData, RunClose, RunEnds
  <2>3. CASE RequestStep(e) \/ TimerStep(e)
    BY <1>5, <2>3 DEF RequestStep, RunCloseRequest, TimerStep, PeerInactive, CloseTimeout
  <2>4. CASE HandlerStep(e)
    BY <1>5, <2>4 DEF HandlerStep, SendFails, Deliver
  <2>5. CASE CloseStep(e)
    BY <2>5 DEF CloseStep, SendClose, AwaitClose, AwaitData, AwaitIgnored, AwaitEnds,
                Closed
  <2>6. CASE DrainStep(e)
    BY <1>5, <2>6 DEF DrainStep, DrainStops, DrainClose
  <2> QED BY <2>1, <2>2, <2>3, <2>4, <2>5, <2>6 DEF TaskStep, Task
<1> QED BY <1>1, <1>2, <1>3, <1>4, <1>5 DEF Sends

\* The step of its task.
LEMMA TaskLocal ==
    ASSUME TypeOK, NEW e \in Node, Local(e), TaskStep(e)
    PROVE  Local(e)'
<1>1. Ledger(e)' /\ Socket(e)' /\ Sends(e)' /\ pc[e] # "finished"
  BY TaskKeeps, TaskSocket, TaskSends DEF Local
<1>2. cached'[e] = cached[e] /\ result'[e] = result[e]
  BY DEF TaskStep, appVars
<1>3. Handler(e)'
  BY <1>1, <1>2 DEF Local, Handler
<1> QED BY <1>1, <1>3 DEF Local

\* The user's side: once the handler has cached what was left, its channel is empty, and
\* the user has only to call close.
LEMMA AppLocal ==
    ASSUME TypeOK, WriteRoom, NEW e \in Node, Local(e), AppStep(e)
    PROVE  Local(e)'
<1> USE DEF TypeOK, TaskTypeOK, AppTypeOK
<1>1. Ledger(e)'
  BY AppKeeps DEF Local
<1>2. UNCHANGED <<tcpVars, taskVars>>
  BY DEF AppStep
<1>3. Socket(e)'
  BY <1>2 DEF Local, Socket, tcpVars, taskVars
<1>4. Sends(e)'
  <2>1. written'[e] = written[e] \/ written'[e] = written[e] + 1
    BY AppCases DEF AppStep, PlainStep, Opened, OpenFailed, ReadPanics, Write, WriteFails,
       Close, CloseFails, CachingStep, ReadClosed, WriteClosed, CloseFinished,
       CloseReturns, Read, WriteQueued, CloseQueued
  <2>2. transmitted[e] <= written[e] /\ written[e] \in Nat /\ transmitted[e] \in Nat
    BY DEF Local, Sends
  <2>3. transmitted[e] <= written'[e]
    BY <2>1, <2>2
  <2> QED BY <1>2, <2>3 DEF Local, Sends, taskVars
<1>5. Handler(e)'
  <2>1. CASE PlainStep(e)
    BY <1>2, <2>1 DEF PlainStep, Opened, OpenFailed, ReadPanics, Write, WriteFails, Close,
       CloseFails, Become, Finished, Local, Handler, taskVars, channels
  <2>2. CASE CachingStep(e)
    BY <1>2, <2>2 DEF CachingStep, ReadClosed, WriteClosed, CloseFinished, CloseReturns,
       CacheRemaining, Become, Finished, Local, Handler, taskVars
  <2>3. CASE Read(e) \/ WriteQueued(e) \/ CloseQueued(e)
    BY <1>2, <2>3 DEF Read, WriteQueued, CloseQueued, Become, Local, Handler, taskVars
  <2> QED BY <2>1, <2>2, <2>3, AppCases DEF AppStep
<1> QED BY <1>1, <1>3, <1>4, <1>5 DEF Local

\* Its crash.
LEMMA CrashLocal ==
    ASSUME TypeOK, NEW e \in Node, Local(e), Crash(e)
    PROVE  Local(e)'
<1>1. Ledger(e)'
  BY CrashKeeps DEF Local
<1>2. /\ pc'[e] = "crashed" /\ ~open'[e] /\ pc[e] # "finished"
      /\ UNCHANGED <<hand, transmitted, written, cached, result>>
  BY CloseSocketOpens DEF Crash, Goto, Unheld, TypeOK, TaskTypeOK, Local, Socket
<1> QED BY <1>1, <1>2 DEF Local, Socket, Handler, Sends

-----------------------------------------------------------------------------
(***************************************************************************)
(* The way to an endpoint, when its own task makes a step.                 *)
(***************************************************************************)
\* The types of what lies between the two users.
LEMMA PathTypes ==
    ASSUME TypeOK, NEW e \in Node
    PROVE  /\ wire[e] \in Seq(Packet) /\ resp[e] \in Seq(Nat) /\ got[e] \in Seq(Nat)
           /\ Pending(e) \in Seq(Nat) /\ Delivered(e) \in Nat /\ Taken(e) \in Nat
           /\ Len(got[e]) \in Nat /\ Len(Pending(e)) \in Nat /\ hand[e] \in Packet
           /\ transmitted[e] \in Nat /\ transmitted[Peer[e]] \in Nat
           /\ Peer[e] \in Node \ {e} /\ Peer[Peer[e]] = e
<1>1. /\ wire[e] \in Seq(Packet) /\ resp[e] \in Seq(Nat) /\ got[e] \in Seq(Nat)
      /\ cache[e] \in Seq(Nat) /\ hand[e] \in Packet
  BY DEF TypeOK, TcpTypeOK, TaskTypeOK, AppTypeOK
<1>2. Peer[e] \in Node \ {e} /\ Peer[Peer[e]] = e
  BY DEF Peer, Node
<1>3. transmitted[e] \in Nat /\ transmitted[Peer[e]] \in Nat
  BY <1>2 DEF TypeOK, TaskTypeOK
<1>4. <<>> \in Seq(Nat)
  OBVIOUS
<1>5. Pending(e) \in Seq(Nat)
  BY <1>1, <1>4 DEF Pending
<1>6. Len(got[e]) \in Nat /\ Len(Pending(e)) \in Nat
  BY <1>1, <1>5
<1>7. Delivered(e) \in Nat
  BY <1>6 DEF Delivered
<1>8. Taken(e) \in Nat
  BY <1>7 DEF Taken
<1> QED BY <1>1, <1>2, <1>3, <1>5, <1>6, <1>7, <1>8

\* What is cut off a wire: nothing, or something since the sender's socket is closed.
Cut(e) == \/ wire'[e] = wire[e]
          \/ /\ ~open'[Peer[e]]
             /\ \E k \in 0..Len(wire[e]) : wire'[e] = SubSeq(wire[e], 1, k)

\* The steps of a task, by what they do to the messages for its user.
Rests(e) ==
    /\ resp'[e] = resp[e] /\ heardClose'[e] = heardClose[e]
    /\ Serving(e) /\ ~Delivering(e) /\ ~Delivering(e)' /\ (Leaving(e) => Leaving(e)')
    /\ Cut(e)

Skips(e) ==
    /\ resp'[e] = resp[e] /\ heardClose'[e] = heardClose[e]
    /\ Serving(e) /\ ~Delivering(e) /\ ~Delivering(e)' /\ ~Leaving(e)
    /\ wire[e] # <<>> /\ Head(wire[e]).type \notin {"Data", "Close"}
    /\ wire'[e] = Tail(wire[e])

Picks(e) ==
    /\ resp'[e] = resp[e] /\ heardClose'[e] = heardClose[e]
    /\ Serving(e) /\ ~Delivering(e) /\ Delivering(e)' /\ ~Leaving(e)
    /\ wire[e] # <<>> /\ Head(wire[e]).type = "Data"
    /\ hand'[e] = Head(wire[e]) /\ wire'[e] = Tail(wire[e])

Hears(e) ==
    /\ resp'[e] = resp[e] /\ heardClose'[e]
    /\ Serving(e) /\ ~Delivering(e) /\ ~Leaving(e) /\ Leaving(e)'
    /\ wire[e] # <<>> /\ Head(wire[e]).type = "Close"

Delivers(e) ==
    /\ resp'[e] = Append(resp[e], hand[e].n) /\ heardClose'[e] = heardClose[e]
    /\ Serving(e) /\ Delivering(e) /\ ~Delivering(e)' /\ ~Leaving(e)
    /\ wire'[e] = wire[e]

Leaves(e) ==
    /\ resp'[e] = resp[e] /\ heardClose'[e] = heardClose[e]
    /\ ~Serving(e)'

\* There are no other steps.
LEMMA OwnEffects ==
    ASSUME TypeOK, NEW e \in Node, Unmoved(Peer[e]), TaskStep(e)
    PROVE  Rests(e) \/ Skips(e) \/ Picks(e) \/ Hears(e) \/ Delivers(e) \/ Leaves(e)
<1> USE DEF TypeOK, TaskTypeOK, TcpTypeOK, Unheld, taskVars, tcpVars, channels, Goto, Hold,
            Return, Serving, Delivering, Leaving
<1>1. Peer[e] \in Node \ {e} /\ open'[Peer[e]] = open[Peer[e]]
  BY PathTypes DEF Unmoved
<1>2. CASE SendHello(e) \/ SendDone(e) \/ SendClose(e)
  <2>1. Cut(e)
    <3>1. \E p \in Packet : Send(e, p) \/ SendLast(e, p)
      BY <1>2, PacketType DEF SendHello, SendDone, SendClose, Control
    <3>2. PICK p \in Packet : Send(e, p) \/ SendLast(e, p)
      BY <3>1
    <3>3. CASE SendLost(e)
      BY <1>1, <3>3 DEF SendLost, Reset, Cut
    <3>4. CASE SendTo(Peer[e], p)
      BY <1>1, <3>4 DEF SendTo, Cut
    <3> QED BY <3>2, <3>3, <3>4 DEF Send, SendLast
  <2> QED BY <1>2, <2>1 DEF SendHello, SendDone, SendClose, Rests
<1>3. CASE FirstPing(e) \/ Tick(e) \/ PeerInactive(e) \/ RunSend(e) \/ RunCloseRequest(e)
              \/ DrainSend(e) \/ DrainStops(e)
  BY <1>3 DEF FirstPing, Tick, PeerInactive, RunSend, RunCloseRequest, DrainSend, DrainStops,
              PopRequest, Rests, Cut
<1>4. CASE RecvHello(e) \/ RunIgnored(e) \/ RunPing(e) \/ AwaitIgnored(e)
  <2>1. wire[e] # <<>> /\ Head(wire[e]).type \notin {"Data", "Close"}
    BY <1>4 DEF RecvHello, RunIgnored, RunPing, AwaitIgnored, HasPacket, Awaits, Expected
  <2> QED BY <1>4, <2>1 DEF RecvHello, RunIgnored, RunPing, AwaitIgnored, Take, Awaits,
                            Expected, Skips
<1>5. CASE RunData(e) \/ AwaitData(e)
  BY <1>5 DEF RunData, AwaitData, HasPacket, Take, Picks
<1>6. CASE RunClose(e) \/ AwaitClose(e)
  BY <1>6 DEF RunClose, AwaitClose, Closed, HasPacket, Hears
<1>7. CASE Deliver(e)
  BY <1>7 DEF Deliver, Delivers
<1>8. CASE HandshakeFails(e) \/ RunEnds(e) \/ SendFails(e) \/ AwaitEnds(e) \/ CloseTimeout(e)
              \/ DrainClose(e) \/ Drop(e) \/ Finish(e)
  BY <1>8 DEF HandshakeFails, RunEnds, SendFails, AwaitEnds, Closed, CloseTimeout, DrainClose,
              Drop, Finish, Leaves
<1> QED BY <1>2, <1>3, <1>4, <1>5, <1>6, <1>7, <1>8
       DEF TaskStep, Task, HandshakeStep, ReceiveStep, RequestStep, HandlerStep, CloseStep,
           DrainStep, EndStep, TimerStep

\* One more of two lengths.
LEMMA OneMore ==
    ASSUME NEW m \in Nat, NEW n \in Nat, NEW d, d = m + n
    PROVE  /\ d \in Nat /\ d + 1 \in Nat
           /\ d + 1 = m + n + 1 /\ d + 1 = m + (n + 1)
  OBVIOUS

\* Whatever its task does, the queues, the hand and the wire go on where they did.
LEMMA OwnPath ==
    ASSUME TypeOK, TypeOK', NEW e \in Node, Local(e), Local(Peer[e]), Path(e),
           NEW s \in Node, s = Peer[e], Unmoved(s), TaskStep(e)
    PROVE  Path(e)'
<1>1. /\ s \in Node \ {e} /\ wire[e] \in Seq(Packet) /\ resp[e] \in Seq(Nat)
      /\ Delivered(e) \in Nat /\ Taken(e) \in Nat /\ transmitted[s] \in Nat
      /\ Len(got[e]) \in Nat /\ Len(Pending(e)) \in Nat
  BY PathTypes
<1>2. /\ transmitted'[s] = transmitted[s] /\ open'[s] = open[s] /\ open[s] \in BOOLEAN
      /\ Silent(s)' = Silent(s) /\ Silent(s) \in BOOLEAN
  BY DEF Unmoved, Same, Silent, Serving, TypeOK, TcpTypeOK
<1>3. /\ got'[e] = got[e] /\ ~cached[e] /\ ~cached'[e]
      /\ Pending(e) = resp[e] /\ Pending(e)' = resp'[e]
  BY TaskSocket DEF Local, Handler, TaskStep, appVars, Pending
<1>4. ASSUME resp'[e] = resp[e] PROVE Queues(e)' /\ Delivered(e)' = Delivered(e)
  BY <1>2, <1>3, <1>4 DEF Path, Queues, Delivered
<1>5. Serving(e) /\ ~Leaving(e) => ~heardClose[e]
  BY DEF Path, Heard
<1>6. Len(got[e]) \in Nat /\ Len(resp[e]) \in Nat /\ Delivered(e) \in Nat
  BY <1>1
<1>10. CASE Rests(e)
  <2>1. Queues(e)' /\ Delivered(e)' = Delivered(e) /\ Taken(e) = Delivered(e)
        /\ Taken(e)' = Delivered(e)
    BY <1>1, <1>4, <1>10 DEF Rests, Taken
  <2>2. Heard(e)'
    BY <1>2, <1>10, <2>1 DEF Rests, Path, Heard
  <2>3. Way(e)'
    <3> SUFFICES ASSUME Serving(e)', ~heardClose'[e]
                 PROVE  Line(wire'[e], Delivered(e), transmitted[s], Silent(s), open[s])
      BY <1>2, <1>10, <2>1 DEF Way, Rests
    <3>1. Line(wire[e], Delivered(e), transmitted[s], Silent(s), open[s])
      BY <1>10, <2>1 DEF Path, Way, Rests
    <3>2. CASE wire'[e] = wire[e]
      BY <3>1, <3>2
    <3>3. CASE ~open'[s] /\ \E k \in 0..Len(wire[e]) : wire'[e] = SubSeq(wire[e], 1, k)
      BY <1>1, <1>2, <3>1, <3>3, LineCut
    <3> QED BY <1>10, <3>2, <3>3 DEF Rests, Cut
  <2> QED BY <2>1, <2>2, <2>3 DEF Path
<1>11. CASE Skips(e)
  <2>1. Queues(e)' /\ Delivered(e)' = Delivered(e) /\ Taken(e) = Delivered(e)
        /\ Taken(e)' = Delivered(e) /\ ~heardClose[e] /\ ~heardClose'[e]
    BY <1>1, <1>4, <1>5, <1>11 DEF Skips, Taken
  <2>2. Line(wire[e], Delivered(e), transmitted[s], Silent(s), open[s])
    BY <1>11, <2>1 DEF Path, Way, Skips
  <2>3. Line(Tail(wire[e]), Delivered(e), transmitted[s], Silent(s), open[s])
    BY <1>1, <1>11, <2>2, LineTail DEF Skips, IsData
  <2> QED BY <1>2, <1>11, <2>1, <2>3 DEF Path, Way, Heard, Skips
<1>12. CASE Picks(e)
  <2>1. Queues(e)' /\ Delivered(e)' = Delivered(e) /\ Taken(e) = Delivered(e)
        /\ Taken(e)' = Delivered(e) + 1 /\ ~heardClose[e] /\ ~heardClose'[e]
    BY <1>1, <1>4, <1>5, <1>12 DEF Picks, Taken
  <2>2. Line(wire[e], Delivered(e), transmitted[s], Silent(s), open[s])
    BY <1>12, <2>1 DEF Path, Way, Picks
  <2>3. /\ Line(Tail(wire[e]), Delivered(e) + 1, transmitted[s], Silent(s), open[s])
        /\ Head(wire[e]) = Data(Delivered(e) + 1)
    BY <1>1, <1>12, <2>2, LineTail DEF Picks, IsData
  <2> QED BY <1>2, <1>12, <2>1, <2>3 DEF Path, Way, Heard, Picks
<1>13. CASE Hears(e)
  <2>1. Queues(e)' /\ Delivered(e)' = Delivered(e) /\ Taken(e) = Delivered(e)
        /\ ~heardClose[e]
    BY <1>1, <1>4, <1>5, <1>13 DEF Hears, Taken
  <2>2. Line(wire[e], Delivered(e), transmitted[s], Silent(s), open[s])
    BY <1>13, <2>1 DEF Path, Way, Hears
  <2>3. Delivered(e) = transmitted[s] /\ Silent(s)
    <3>1. 1 \in 1..Len(wire[e]) /\ wire[e][1].type = "Close"
      <4>1. Len(wire[e]) \in Nat \ {0} /\ Head(wire[e]) = wire[e][1]
        BY <1>1, <1>13, TailLemma DEF Hears
      <4> QED BY <1>13, <4>1 DEF Hears
    <3>2. Silent(s)
      BY <2>2, <3>1 DEF Line, HasClose
    <3>3. Delivered(e) = transmitted[s]
      BY <1>1, <1>13, <2>2, LineTail DEF Hears
    <3> QED BY <3>2, <3>3
  <2> QED BY <1>2, <1>13, <2>1, <2>3 DEF Path, Way, Heard, Hears
<1>14. CASE Delivers(e)
  <2>1. ~heardClose[e] /\ ~heardClose'[e] /\ Taken(e) = Delivered(e) + 1
    BY <1>1, <1>5, <1>14 DEF Delivers, Taken
  <2>2. /\ Line(wire[e], Delivered(e) + 1, transmitted[s], Silent(s), open[s])
        /\ hand[e] = Data(Delivered(e) + 1)
    BY <1>14, <2>1 DEF Path, Way, Delivers
  <2>3. hand[e].n = Len(got[e]) + Len(resp[e]) + 1 /\ hand[e].n \in Nat
    <3>1. hand[e].n = Delivered(e) + 1
      BY <2>2 DEF Data
    <3>2. Delivered(e) = Len(got[e]) + Len(resp[e])
      BY <1>3 DEF Delivered
    <3> QED BY <1>6, <3>1, <3>2, OneMore, Zenon
  <2>4. Counts(resp'[e], Len(got[e])) /\ Len(resp'[e]) = Len(resp[e]) + 1
    <3>1. Counts(resp[e], Len(got[e]))
      BY <1>3 DEF Path, Queues
    <3>2. resp'[e] = Append(resp[e], hand[e].n)
      BY <1>14 DEF Delivers
    <3>3. resp[e] \in Seq(Nat) /\ Len(got[e]) \in Nat
      BY <1>1
    <3>4. /\ Counts(Append(resp[e], hand[e].n), Len(got[e]))
          /\ Len(Append(resp[e], hand[e].n)) = Len(resp[e]) + 1
      BY <2>3, <3>1, <3>3, CountsAppend, Zenon
    <3> QED BY <3>2, <3>4, Zenon
  <2>5. Delivered(e)' = Delivered(e) + 1 /\ Taken(e)' = Delivered(e) + 1
    <3>1. Delivered(e)' = Len(got[e]) + (Len(resp[e]) + 1)
      BY <1>3, <2>4 DEF Delivered
    <3>2. Delivered(e) = Len(got[e]) + Len(resp[e])
      BY <1>3 DEF Delivered
    <3>3. Delivered(e) + 1 = Len(got[e]) + (Len(resp[e]) + 1)
      BY <1>6, <3>2, OneMore, Zenon
    <3>4. Delivered(e)' = Delivered(e) + 1
      BY <3>1, <3>3
    <3>5. Taken(e)' = Delivered(e)' + 0
      BY <1>14 DEF Delivers, Taken
    <3> QED BY <1>6, <3>4, <3>5
  <2>6. Delivered(e) + 1 <= transmitted[s]
    <3>1. PICK to \in 0..transmitted[s] : Carries(wire[e], Delivered(e) + 1, to)
      BY <2>2 DEF Line
    <3>2. Delivered(e) + 1 <= to
      BY <1>1, <3>1, CarriesFromTo
    <3> QED BY <1>1, <3>2
  <2>7. Queues(e)'
    BY <1>2, <1>3, <2>4, <2>5, <2>6 DEF Path, Queues
  <2> QED BY <1>2, <1>14, <2>1, <2>2, <2>5, <2>7 DEF Path, Way, Heard, Delivers
<1>15. CASE Leaves(e)
  <2>1. Queues(e)' /\ Delivered(e)' = Delivered(e) /\ Leaving(e)' /\ ~Serving(e)'
        /\ heardClose'[e] = heardClose[e]
    BY <1>4, <1>15 DEF Leaves, Leaving
  <2> QED BY <1>2, <2>1 DEF Path, Way, Heard
<1> QED BY <1>10, <1>11, <1>12, <1>13, <1>14, <1>15, OwnEffects DEF Local

-----------------------------------------------------------------------------
(***************************************************************************)
(* The way to an endpoint, when the task of the other one makes a step: it *)
(* puts a packet on the wire, or sends one to a closed socket, or leaves   *)
(* the wire alone, but for what may be cut off it as it closes its socket. *)
(***************************************************************************)
Puts(s) ==
    \E p \in Packet :
        /\ wire'[Peer[s]] = Append(wire[Peer[s]], p)
        /\ open[s] /\ open'[s] /\ ~Silent(s)
        /\ p.type = "Close" => Silent(s)'
        /\ IF IsData(p) THEN p = Data(transmitted[s] + 1) /\ transmitted'[s] = transmitted[s] + 1
                        ELSE transmitted'[s] = transmitted[s]

Loses(s) == ~open[Peer[s]] /\ ~Silent(s) /\ transmitted'[s] >= transmitted[s]

Keeps(s) ==
    /\ transmitted'[s] = transmitted[s] /\ (Silent(s) => Silent(s)')
    /\ open'[s] => open[s]
    /\ Cut(Peer[s])

\* A socket that closes cuts off only what it has sent itself.
LEMMA CutByClosing ==
    ASSUME TypeOK, NEW s \in Node, CloseSocket(s)
    PROVE  Cut(Peer[s])
<1>1. Peer[s] \in Node \ {s} /\ Peer[Peer[s]] = s /\ ~open'[s]
  BY PathTypes, CloseSocketOpens
<1>2. CASE wire' = [wire EXCEPT ![s] = <<>>]
  BY <1>1, <1>2 DEF TypeOK, TcpTypeOK, Cut
<1>3. CASE \E k \in 0..Len(wire[Peer[s]]) :
              wire' = [wire EXCEPT ![s] = <<>>, ![Peer[s]] = SubSeq(@, 1, k)]
  <2>1. PICK k \in 0..Len(wire[Peer[s]]) :
           wire' = [wire EXCEPT ![s] = <<>>, ![Peer[s]] = SubSeq(@, 1, k)]
    BY <1>3
  <2>2. wire'[Peer[s]] = SubSeq(wire[Peer[s]], 1, k)
    BY <1>1, <2>1 DEF TypeOK, TcpTypeOK
  <2> QED BY <1>1, <2>2 DEF Cut
<1> QED BY <1>2, <1>3 DEF CloseSocket

\* A write either puts its packet on the wire or loses it.
LEMMA SendEffects ==
    ASSUME TypeOK, NEW s \in Node, Local(s), NEW p \in Packet,
           Send(s, p) \/ SendLast(s, p), ~Silent(s), pc'[s] \notin {"dropped", "failed"},
           p.type = "Close" => Silent(s)',
           IF IsData(p) THEN p = Data(transmitted[s] + 1) /\ transmitted'[s] = transmitted[s] + 1
                        ELSE transmitted'[s] = transmitted[s]
    PROVE  Puts(s) \/ Loses(s)
<1>1. Peer[s] \in Node \ {s} /\ transmitted[s] \in Nat /\ open' = open /\ open[s]
  BY PathTypes DEF Send, SendLast, Local, Socket, Silent, Serving
<1>2. CASE SendLost(s)
  <2>1. ~open[Peer[s]]
    BY <1>2 DEF SendLost
  <2>2. transmitted'[s] >= transmitted[s]
    <3>1. transmitted'[s] = transmitted[s] + 1 \/ transmitted'[s] = transmitted[s]
      OBVIOUS
    <3>2. transmitted[s] \in Nat
      BY <1>1
    <3> QED BY <3>1, <3>2
  <2> QED BY <2>1, <2>2 DEF Loses
<1>3. CASE SendTo(Peer[s], p)
  <2>1. wire'[Peer[s]] = Append(wire[Peer[s]], p)
    BY <1>1, <1>3 DEF SendTo, TypeOK, TcpTypeOK
  <2> QED BY <1>1, <2>1 DEF Puts
<1> QED BY <1>2, <1>3 DEF Send, SendLast

\* The steps of the sender's task, by what they do to the wire.
LEMMA PeerEffects ==
    ASSUME TypeOK, NEW s \in Node, Local(s), TaskStep(s)
    PROVE  Puts(s) \/ Loses(s) \/ Keeps(s)
<1> USE DEF TypeOK, TaskTypeOK, TcpTypeOK, Unheld, taskVars, tcpVars, channels, Goto, Hold,
            Return, Serving, Silent
<1>1. Peer[s] \in Node \ {s}
  BY PathTypes
<1>2. CASE SendHello(s) \/ SendClose(s) \/ DrainClose(s)
  <2>1. \E p \in Packet : /\ Send(s, p) \/ SendLast(s, p)
                          /\ ~IsData(p) /\ (p.type = "Close" => Silent(s)')
    <3>1. CASE SendHello(s)
      BY <3>1, PacketType DEF SendHello, Control, IsData, Ctl
    <3>2. CASE SendClose(s)
      BY <3>2, PacketType DEF SendClose, Control, IsData, Ctl
    <3>3. CASE DrainClose(s)
      BY <3>3, PacketType DEF DrainClose, Control, IsData, Ctl
    <3> QED BY <1>2, <3>1, <3>2, <3>3
  <2>2. PICK p \in Packet : /\ Send(s, p) \/ SendLast(s, p)
                            /\ ~IsData(p) /\ (p.type = "Close" => Silent(s)')
    BY <2>1
  <2>3. /\ ~Silent(s) /\ pc'[s] \notin {"dropped", "failed"}
        /\ transmitted'[s] = transmitted[s]
    BY <1>2 DEF SendHello, SendClose, DrainClose
  <2> HIDE DEF TypeOK, Silent
  <2> QED BY <2>2, <2>3, SendEffects
<1>3. CASE SendDone(s)
  <2>1. /\ Send(s, hand[s]) /\ hand[s] \in Packet /\ hand[s].type # "Close"
        /\ ~Silent(s) /\ pc'[s] \notin {"dropped", "failed"}
        /\ transmitted'[s] = IF IsData(hand[s]) THEN transmitted[s] + 1 ELSE transmitted[s]
    BY <1>3 DEF SendDone, CountSent, IsData, Local, Sends
  <2>2. IsData(hand[s]) => hand[s] = Data(transmitted[s] + 1)
    BY <1>3 DEF SendDone, IsData, Local, Ledger, InOrder, Sending
  <2> HIDE DEF TypeOK, Silent
  <2> QED BY <2>1, <2>2, SendEffects
<1>4. CASE HandshakeFails(s) \/ Drop(s)
  <2>1. CloseSocket(s) /\ transmitted'[s] = transmitted[s] /\ Silent(s)'
    BY <1>4 DEF HandshakeFails, Drop
  <2> QED BY <2>1, CutByClosing, CloseSocketOpens DEF Keeps
<1>5. CASE RecvHello(s) \/ RunPing(s) \/ RunIgnored(s) \/ RunData(s) \/ RunClose(s)
              \/ AwaitClose(s) \/ AwaitData(s) \/ AwaitIgnored(s)
  <2>1. Take(s) /\ transmitted' = transmitted /\ (Silent(s) => Silent(s)')
    BY <1>5 DEF RecvHello, Awaits, Expected, RunPing, RunIgnored, RunData, RunClose,
                AwaitClose, AwaitData, AwaitIgnored, Closed
  <2> QED BY <1>1, <2>1 DEF Take, Keeps, Cut
<1>6. CASE RunEnds(s) \/ RunSend(s) \/ RunCloseRequest(s) \/ FirstPing(s) \/ SendFails(s)
              \/ Deliver(s) \/ AwaitEnds(s) \/ DrainSend(s) \/ DrainStops(s) \/ Finish(s)
              \/ Tick(s) \/ PeerInactive(s) \/ CloseTimeout(s)
  BY <1>1, <1>6 DEF RunEnds, RunSend, RunCloseRequest, FirstPing, SendFails, Deliver, AwaitEnds,
     Closed, DrainSend, DrainStops, Finish, Tick, PeerInactive, CloseTimeout, Keeps, Cut
<1> QED BY <1>2, <1>3, <1>4, <1>5, <1>6
       DEF TaskStep, Task, HandshakeStep, ReceiveStep, RequestStep, HandlerStep, CloseStep,
           DrainStep, EndStep, TimerStep

\* What the sender does leaves the way to the receiver intact.
LEMMA PeerPath ==
    ASSUME TypeOK, NEW e \in Node, NEW s \in Node, s = Peer[e], Socket(e), Path(e),
           Unmoved(e), Puts(s) \/ Loses(s) \/ Keeps(s),
           transmitted'[s] \in Nat
    PROVE  Path(e)'
<1>1. /\ e = Peer[s] /\ wire[e] \in Seq(Packet) /\ transmitted[s] \in Nat
      /\ Delivered(e) \in Nat /\ open[s] \in BOOLEAN
      /\ Silent(s) \in BOOLEAN /\ Silent(s)' \in BOOLEAN
  BY PathTypes DEF TypeOK, TcpTypeOK, Silent, Serving
<1>2. /\ got'[e] = got[e] /\ Pending(e)' = Pending(e) /\ Delivered(e)' = Delivered(e)
      /\ Taken(e)' = Taken(e) /\ Delivering(e)' = Delivering(e) /\ hand'[e] = hand[e]
      /\ Serving(e)' = Serving(e) /\ Leaving(e)' = Leaving(e)
      /\ heardClose'[e] = heardClose[e] /\ open'[e] = open[e]
  BY DEF Unmoved, Same, Pending, Delivered, Taken, Delivering, Serving, Leaving
<1>3. ASSUME transmitted'[s] >= transmitted[s] PROVE Queues(e)'
  <2>1. Delivered(e) <= transmitted[s]
    BY DEF Path, Queues
  <2>2. Delivered(e) <= transmitted'[s]
    BY <1>1, <1>3, <2>1
  <2> QED BY <1>2, <2>2 DEF Path, Queues
<1>4. CASE Puts(s)
  <2>1. PICK p \in Packet :
           /\ wire'[e] = Append(wire[e], p)
           /\ open[s] /\ open'[s] /\ ~Silent(s)
           /\ p.type = "Close" => Silent(s)'
           /\ IF IsData(p) THEN /\ p = Data(transmitted[s] + 1)
                                /\ transmitted'[s] = transmitted[s] + 1
                           ELSE transmitted'[s] = transmitted[s]
    BY <1>1, <1>4 DEF Puts
  <2>2. Queues(e)'
    <3>1. transmitted'[s] = transmitted[s] + 1 \/ transmitted'[s] = transmitted[s]
      BY <2>1
    <3>2. transmitted'[s] >= transmitted[s]
      BY <1>1, <3>1
    <3> QED BY <1>3, <3>2
  <2>3. Heard(e)'
    BY <1>2, <2>1 DEF Path, Heard
  <2>4. ASSUME Serving(e), ~heardClose[e]
        PROVE  Line(wire'[e], Taken(e), transmitted'[s], Silent(s)', open'[s])
    <3>1. Line(wire[e], Taken(e), transmitted[s], FALSE, TRUE)
      <4>1. Silent(s) = FALSE /\ open[s] = TRUE
        BY <1>1, <2>1
      <4> QED BY <2>4, <4>1 DEF Path, Way
    <3>2. Line(Append(wire[e], p), Taken(e), transmitted'[s], Silent(s)', TRUE)
      BY <1>1, <2>1, <3>1, LineAppend
    <3>3. open'[s] => Line(wire'[e], Taken(e), transmitted'[s], Silent(s)', open'[s])
      BY <2>1, <3>2 DEF Line
    <3> QED BY <2>1, <3>3
  <2>5. Way(e)'
    BY <1>2, <2>4 DEF Path, Way
  <2> QED BY <2>2, <2>3, <2>5 DEF Path
<1>5. CASE Loses(s)
  <2>1. ~Serving(e)
    BY <1>1, <1>5 DEF Loses, Socket, Serving
  <2>2. Heard(e)' /\ Way(e)' /\ Queues(e)'
    BY <1>1, <1>2, <1>3, <1>5, <2>1 DEF Loses, Path, Heard, Way
  <2> QED BY <2>2 DEF Path
<1>6. CASE Keeps(s)
  <2>1. transmitted'[s] = transmitted[s] /\ (Silent(s) => Silent(s)')
        /\ (open'[s] => open[s]) /\ Cut(e)
    BY <1>1, <1>6 DEF Keeps
  <2>2. Queues(e)' /\ Heard(e)'
    BY <1>2, <2>1 DEF Path, Queues, Heard
  <2>3. ASSUME Serving(e), ~heardClose[e]
        PROVE  Line(wire'[e], Taken(e), transmitted[s], Silent(s)', open'[s])
    <3>1. Line(wire[e], Taken(e), transmitted[s], Silent(s), open[s])
      BY <2>3 DEF Path, Way
    <3>2. CASE wire'[e] = wire[e]
      BY <2>1, <3>1, <3>2 DEF Line
    <3>3. CASE ~open'[s] /\ \E k \in 0..Len(wire[e]) : wire'[e] = SubSeq(wire[e], 1, k)
      <4>1. Line(wire'[e], Taken(e), transmitted[s], Silent(s), FALSE)
        BY <1>1, <3>1, <3>3, LineCut
      <4> QED BY <2>1, <3>3, <4>1 DEF Line
    <3> QED BY <2>1, <3>2, <3>3 DEF Cut
  <2>4. Way(e)'
    BY <1>2, <2>1, <2>3 DEF Path, Way
  <2> QED BY <2>2, <2>4 DEF Path
<1> QED BY <1>4, <1>5, <1>6

-----------------------------------------------------------------------------
(***************************************************************************)
(* The user's steps and the crash.                                         *)
(***************************************************************************)

\* A user either gets nothing, or the next message, or all that is left.
Gets(e) ==
    \/ got'[e] = got[e] /\ Pending(e)' = Pending(e)
    \/ got'[e] = got[e] \o Pending(e) /\ Pending(e)' = <<>>
    \/ /\ Pending(e) # <<>>
       /\ got'[e] = got[e] \o <<Head(Pending(e))>> /\ Pending(e)' = Tail(Pending(e))

\* The steps of the user do nothing else.
LEMMA AppGets ==
    ASSUME TypeOK, NEW e \in Node, Handler(e), AppStep(e)
    PROVE  Gets(e)
<1> USE DEF TypeOK, TaskTypeOK, AppTypeOK, Handler, Pending
<1>1. CASE PlainStep(e)
  BY <1>1 DEF PlainStep, Opened, OpenFailed, ReadPanics, Write, WriteFails, Close, CloseFails,
     Finished, channels, Gets
<1>2. CASE WriteQueued(e) \/ CloseQueued(e)
  BY <1>2 DEF WriteQueued, CloseQueued, Gets
<1>3. CASE Read(e)
  <2>1. ~cached[e] /\ Pending(e) = resp[e]
    BY <1>3 DEF Read
  <2>2. ~cached'[e] /\ resp[e] # <<>> /\ got'[e] = got[e] \o <<Head(resp[e])>>
        /\ resp'[e] = Tail(resp[e])
    BY <1>3, <2>1 DEF Read, Receive
  <2> QED BY <2>1, <2>2 DEF Gets
<1>4. CASE CachingStep(e)
  <2>1. result[e] # "Ok" /\ Remaining(e) = Pending(e)
    BY <1>4 DEF CachingStep, ReadClosed, WriteClosed, CloseFinished, CloseReturns, WantsClose,
                Remaining
  <2>2. cached'[e] /\ cache'[e] = Pending(e)
    BY <1>4, <2>1 DEF CachingStep, ReadClosed, WriteClosed, CloseFinished, CloseReturns,
                      CacheRemaining
  <2>3. CASE WriteClosed(e)
    <3>1. result'[e] = result[e] /\ got' = got
      BY <2>3 DEF WriteClosed
    <3> QED BY <2>1, <2>2, <3>1 DEF Gets
  <2>4. CASE ReadClosed(e)
    <3>1. result'[e] = result[e] /\ got'[e] = got[e] \o Pending(e) /\ Pending(e) = <<>>
      BY <2>1, <2>4 DEF ReadClosed, Receive, Remaining
    <3> QED BY <2>1, <2>2, <3>1 DEF Gets
  <2>5. CASE CloseFinished(e) \/ CloseReturns(e)
    <3>1. result'[e] = "Ok" /\ got'[e] = got[e] \o Pending(e)
      BY <2>1, <2>5 DEF CloseFinished, CloseReturns, Receive
    <3> QED BY <2>2, <3>1 DEF Gets
  <2> QED BY <1>4, <2>3, <2>4, <2>5 DEF CachingStep
<1> QED BY <1>1, <1>2, <1>3, <1>4, AppCases DEF AppStep

\* The user's queues still go on where they did.
LEMMA GetsInOrder ==
    ASSUME TypeOK, NEW e \in Node, Queues(e), Gets(e)
    PROVE  /\ Counts(got'[e], 0) /\ Counts(Pending(e)', Len(got'[e]))
           /\ Delivered(e)' = Delivered(e)
           /\ \E m \in Seq(Nat) : got'[e] = got[e] \o m
<1> DEFINE g == got[e]
           p == Pending(e)
<1>1. g \in Seq(Nat) /\ p \in Seq(Nat) /\ Len(g) \in Nat /\ Len(p) \in Nat
  BY PathTypes
<1>2. Counts(g, 0) /\ Counts(p, Len(g)) /\ Counts(p, 0 + Len(g))
  BY <1>1 DEF Queues
<1>3. Delivered(e)' = Len(got'[e]) + Len(Pending(e)') /\ Delivered(e) = Len(g) + Len(p)
  BY DEF Delivered
<1> HIDE DEF g, p
<1>4. CASE got'[e] = g /\ Pending(e)' = p
  <2>1. <<>> \in Seq(Nat) /\ g = g \o <<>>
    BY <1>1
  <2> QED BY <1>2, <1>3, <1>4, <2>1 DEF g
<1>5. CASE got'[e] = g \o p /\ Pending(e)' = <<>>
  <2>1. Counts(g \o p, 0) /\ Len(g \o p) = Len(g) + Len(p)
    BY <1>1, <1>2, CountsCat
  <2>2. Len(<<>>) = 0 /\ Counts(<<>>, Len(g \o p)) /\ Len(g \o p) \in Nat
    <3>1. Len(g \o p) \in Nat
      BY <1>1, <2>1
    <3>2. Counts(<<>>, Len(g \o p))
      BY <3>1, CountsShort, Zenon
    <3> QED BY <3>1, <3>2
  <2>3. Delivered(e)' = Delivered(e)
    BY <1>1, <1>3, <1>5, <2>1, <2>2
  <2> QED BY <1>1, <1>5, <2>1, <2>2, <2>3 DEF g
<1>6. CASE p # <<>> /\ got'[e] = g \o <<Head(p)>> /\ Pending(e)' = Tail(p)
  <2>1. Head(p) = Len(g) + 1 /\ Len(Tail(p)) = Len(p) - 1 /\ Counts(Tail(p), Len(g) + 1)
    BY <1>1, <1>2, <1>6, CountsTail
  <2> DEFINE m == <<Head(p)>>
  <2>2. m \in Seq(Nat) /\ Len(m) = 1 /\ Counts(m, 0 + Len(g))
    <3>1. Counts(<<Len(g) + 1>>, Len(g))
      BY <1>1, CountsShort
    <3>2. Head(p) \in Nat /\ 0 + Len(g) = Len(g)
      BY <1>1, <2>1
    <3>3. m \in Seq(Nat) /\ Len(m) = 1
      BY <3>2
    <3>4. Counts(m, Len(g))
      BY <2>1, <3>1
    <3> QED BY <3>2, <3>3, <3>4
  <2> HIDE DEF m
  <2>3. Counts(g \o m, 0) /\ Len(g \o m) = Len(g) + 1
    BY <1>1, <1>2, <2>2, CountsCat
  <2>4. Delivered(e)' = Delivered(e)
    BY <1>1, <1>3, <1>6, <2>1, <2>3 DEF m
  <2> QED BY <1>1, <1>6, <2>1, <2>2, <2>3, <2>4 DEF m, g
<1> QED BY <1>4, <1>5, <1>6 DEF Gets, g, p

\* Nor do they touch the wire.
LEMMA AppPath ==
    ASSUME TypeOK, NEW e \in Node, Handler(e), Path(e), NEW s \in Node, s = Peer[e],
           Unmoved(s), AppStep(e)
    PROVE  Path(e)'
<1>1. /\ wire' = wire /\ pc' = pc /\ hand' = hand /\ heardClose' = heardClose
      /\ transmitted' = transmitted /\ open' = open
  BY DEF AppStep, tcpVars, taskVars
<1>2. Queues(e)' /\ Delivered(e)' = Delivered(e)
  BY <1>1, AppGets, GetsInOrder DEF Path, Queues
<1>3. /\ Delivering(e)' = Delivering(e) /\ Serving(e)' = Serving(e)
      /\ Leaving(e)' = Leaving(e) /\ Silent(s)' = Silent(s)
  BY <1>1 DEF Delivering, Serving, Leaving, Silent
<1>4. Taken(e)' = Taken(e)
  BY <1>2, <1>3 DEF Taken
<1>5. Way(e)' /\ Heard(e)'
  BY <1>1, <1>2, <1>3, <1>4 DEF Path, Way, Heard
<1> QED BY <1>2, <1>5 DEF Path

\* The other user, and the crash of either process.
LEMMA PeerAppKeeps ==
    ASSUME TypeOK, NEW s \in Node, AppStep(s)
    PROVE  Keeps(s)
  BY PathTypes DEF AppStep, tcpVars, taskVars, Keeps, Silent, Serving, Cut

\* The crash of the sender cuts the wire off.
LEMMA PeerCrashKeeps ==
    ASSUME TypeOK, NEW s \in Node, Crash(s)
    PROVE  Keeps(s)
<1>1. CloseSocket(s) /\ transmitted' = transmitted /\ pc'[s] = "crashed"
  BY DEF Crash, Goto, Unheld, TypeOK, TaskTypeOK
<1> QED BY <1>1, CutByClosing, CloseSocketOpens DEF Keeps, Silent, Serving

\* The crash of the receiver.
LEMMA CrashPath ==
    ASSUME TypeOK, NEW e \in Node, Path(e), NEW s \in Node, s = Peer[e],
           Unmoved(s), Crash(e)
    PROVE  Path(e)'
<1>1. /\ heardClose' = heardClose /\ pc'[e] = "crashed" /\ resp' = resp
      /\ got' = got /\ cached' = cached /\ cache' = cache /\ result' = result
      /\ transmitted' = transmitted
  BY DEF Crash, Goto, Unheld, channels, TypeOK, TaskTypeOK
<1>2. Pending(e)' = Pending(e) /\ Delivered(e)' = Delivered(e) /\ ~Serving(e)' /\ Leaving(e)'
      /\ (Silent(s)' = Silent(s))
  BY <1>1 DEF Pending, Delivered, Serving, Leaving, Silent, Unmoved, Same
<1> QED BY <1>1, <1>2 DEF Path, Queues, Way, Heard

-----------------------------------------------------------------------------
(***************************************************************************)
(* The invariant holds, and what it says.                                  *)
(***************************************************************************)
\* At the beginning nothing is under way.
LEMMA DInit == Init => DInv
<1> SUFFICES ASSUME Init PROVE DInv
  OBVIOUS
<1>1. IInv
  BY IInvInit
<1>2. ASSUME NEW e \in Node PROVE Local(e) /\ Path(e)
  <2>1. /\ pc[e] \in {"hello", "awaitHello"} /\ open[e] /\ wire[e] = <<>> /\ resp[e] = <<>>
        /\ ~heardClose[e] /\ ~cached[e] /\ result[e] = "none" /\ got[e] = <<>>
        /\ transmitted[e] = 0 /\ written[e] = 0 /\ transmitted[Peer[e]] = 0
    BY PeerType DEF Init, TcpInit, TaskInit, AppInit
  <2>2. Local(e)
    BY <1>1, <2>1 DEF IInv, Local, Socket, Handler, Sends
  <2>3. Pending(e) = <<>> /\ Len(<<>>) = 0 /\ ~Delivering(e)
    BY <2>1 DEF Pending, Delivering
  <2>4. Delivered(e) = 0
    BY <2>1, <2>3 DEF Delivered
  <2>5. Taken(e) = 0
    BY <2>3, <2>4 DEF Taken
  <2>6. Counts(<<>>, 0)
    BY CountsShort
  <2>7. Line(<<>>, 0, 0, Silent(Peer[e]), open[Peer[e]])
    BY LineNothing
  <2>8. Queues(e)
    BY <2>1, <2>3, <2>4, <2>6 DEF Queues
  <2>9. Way(e)
    BY <2>1, <2>3, <2>5, <2>7 DEF Way
  <2>10. Heard(e)
    BY <2>1 DEF Heard
  <2> QED BY <2>2, <2>8, <2>9, <2>10 DEF Path
<1> QED BY <1>1, <1>2 DEF IInv, DInv

\* Each step is that of one endpoint, and the other one is its peer.
LEMMA DStep == DInv /\ [Next]_vars => DInv'
<1> SUFFICES ASSUME DInv, [Next]_vars PROVE DInv'
  OBVIOUS
<1>1. TypeOK /\ WriteRoom /\ TypeOK' /\ WriteRoom'
  BY TypeStep DEF DInv
<1>2. ASSUME NEW e \in Node PROVE Local(e) /\ Path(e)
  BY DEF DInv
<1>3. CASE UNCHANGED vars
  <2>1. ASSUME NEW e \in Node PROVE Local(e)' /\ Path(e)'
    <3>1. Unmoved(e)
      BY <1>3 DEF vars, tcpVars, taskVars, channels, appVars, Unmoved, Same
    <3>2. Path(e)'
      BY <1>2, <1>3 DEF vars, tcpVars, taskVars, channels, appVars, Path, Queues, Way, Heard,
         Pending, Delivered, Taken, Delivering, Serving, Leaving, Silent
    <3> QED BY <1>2, <3>1, <3>2, UnmovedKeeps
  <2> QED BY <1>1, <2>1 DEF DInv
<1>4. ASSUME NEW f \in Node, TaskStep(f) \/ AppStep(f) \/ Crash(f)
      PROVE  DInv'
  <2>1. Local(f)'
    BY <1>1, <1>2, <1>4, TaskLocal, AppLocal, CrashLocal
  <2>2. PICK g \in Node \ {f} : g = Peer[f] /\ f = Peer[g] /\ Node = {f, g}
    BY DEF Peer, Node
  <2>3. Unmoved(g)
    BY <1>1, <1>4, <2>2, Frame
  <2>4. Local(g)'
    BY <1>2, <2>2, <2>3, UnmovedKeeps
  <2>5. Path(f)'
    <3>1. Local(f) /\ Local(g) /\ Path(f) /\ Handler(f)
      BY <1>2, <2>2 DEF Local
    <3> QED BY <1>1, <1>4, <2>2, <2>3, <3>1, OwnPath, AppPath, CrashPath
  <2>6. Path(g)'
    <3>1. Local(f) /\ Socket(g) /\ Path(g)
      BY <1>2, <2>2 DEF Local
    <3>2. Puts(f) \/ Loses(f) \/ Keeps(f)
      BY <1>1, <1>4, <3>1, PeerEffects, PeerAppKeeps, PeerCrashKeeps
    <3>3. transmitted'[f] \in Nat
      BY <1>1 DEF TypeOK, TaskTypeOK
    <3> QED BY <1>1, <2>2, <2>3, <3>1, <3>2, <3>3, PeerPath
  <2> QED BY <1>1, <2>1, <2>2, <2>4, <2>5, <2>6 DEF DInv
<1> QED BY <1>3, <1>4 DEF Next

\* The messages a user has got are the first ones.
LEMMA GotIsStream ==
    ASSUME NEW q \in Seq(Nat), Counts(q, 0)
    PROVE  q = [i \in 1..Len(q) |-> i]
<1>1. q = [i \in 1..Len(q) |-> q[i]]
  OBVIOUS
<1>2. ASSUME NEW i \in 1..Len(q) PROVE q[i] = i
  BY DEF Counts
<1> QED BY <1>1, <1>2

\* "received ControlClose assumed peer has send all the data" (close_inner): the users
\* of connections of any length, whose processes may crash and whose packets may be
\* cut off by a reset, have got everything when close says Ok after a ControlClose.
THEOREM CloseHandsOverAll == Spec => []CloseMeansAll
<1>1. DInv => CloseMeansAll
  <2> SUFFICES ASSUME DInv, NEW e \in Node, heardClose[e], result[e] = "Ok"
               PROVE  got[e] = Stream(transmitted[Peer[e]])
    BY DEF CloseMeansAll
  <2>1. TypeOK /\ Local(e) /\ Path(e)
    BY DEF DInv
  <2>2. Pending(e) = <<>> /\ Len(<<>>) = 0
    BY <2>1 DEF Local, Handler, Pending
  <2>3. Delivered(e) = transmitted[Peer[e]] /\ Counts(got[e], 0)
    BY <2>1 DEF Path, Heard, Queues
  <2>4. got[e] \in Seq(Nat) /\ Len(got[e]) \in Nat
    BY <2>1, PathTypes
  <2>5. Len(got[e]) = transmitted[Peer[e]]
    BY <2>2, <2>3, <2>4 DEF Delivered
  <2> QED BY <2>3, <2>4, <2>5, GotIsStream DEF Stream
<1> QED BY DInit, DStep, <1>1, PTL DEF Spec

\* The numbers that are compared.
LEMMA LengthTypes ==
    ASSUME NEW e \in Node
    PROVE  TypeOK => /\ Len(got[e]) \in Nat /\ Len(Pending(e)) \in Nat
                     /\ Delivered(e) \in Nat /\ transmitted[Peer[e]] \in Nat
  BY PathTypes

\* What a step does to the pipe that ends at e.
LEMMA PipeMoves ==
    ASSUME DInv, DInv', NEW e \in Node, NEW s \in Node, s = Peer[e], [Next]_vars
    PROVE  \/ written'[s] >= written[s] /\ got'[e] = got[e]
           \/ /\ written'[s] = written[s]
              /\ Len(got'[e]) >= Len(got[e]) /\ Len(got'[e]) <= written[s]
              /\ got'[e] = [i \in 1..Len(got'[e]) |-> i]
<1>1. /\ TypeOK /\ s \in Node \ {e} /\ written[s] \in Nat /\ written'[s] \in Nat
      /\ got[e] \in Seq(Nat) /\ got'[e] \in Seq(Nat)
  BY PathTypes DEF DInv, TypeOK, AppTypeOK
<1>2. CASE AppStep(e)
  <2>1. written'[s] = written[s]
    BY <1>1, <1>2, Frame DEF Unmoved, Same
  <2>2. PICK m \in Seq(Nat) : got'[e] = got[e] \o m
    <3>1. Handler(e) /\ Queues(e)
      BY DEF DInv, Local, Path
    <3> QED BY <1>1, <1>2, <3>1, AppGets, GetsInOrder
  <2>3. Len(got'[e]) >= Len(got[e])
    <3>1. Len(got'[e]) = Len(got[e]) + Len(m) /\ Len(m) \in Nat /\ Len(got[e]) \in Nat
      BY <1>1, <2>2
    <3> QED BY <3>1
  <2>4. Counts(got'[e], 0) /\ Delivered(e)' <= transmitted'[s] /\ transmitted'[s] <= written'[s]
    BY DEF DInv, Local, Path, Sends, Queues
  <2>5. Len(got'[e]) <= written[s]
    <3>1. /\ Len(got'[e]) \in Nat /\ Len(Pending(e)') \in Nat /\ Delivered(e)' \in Nat
          /\ transmitted'[s] \in Nat
      <4>1. (TypeOK => /\ Len(got[e]) \in Nat /\ Len(Pending(e)) \in Nat
                       /\ Delivered(e) \in Nat /\ transmitted[Peer[e]] \in Nat)'
        BY LengthTypes, PTL
      <4> QED BY <4>1 DEF DInv
    <3>2. Delivered(e)' = Len(got'[e]) + Len(Pending(e)')
      BY DEF Delivered
    <3> HIDE DEF DInv
    <3> QED BY <1>1, <2>1, <2>4, <3>1, <3>2
  <2> QED BY <1>1, <2>1, <2>3, <2>4, <2>5, GotIsStream
<1>3. CASE AppStep(s)
  <2>1. got'[e] = got[e]
    BY <1>1, <1>3, Frame DEF Unmoved
  <2>2. written'[s] = written[s] \/ written'[s] = written[s] + 1
    BY <1>1, <1>3, AppCases DEF AppStep, PlainStep, Opened, OpenFailed, ReadPanics, Write,
       WriteFails, Close, CloseFails, CachingStep, ReadClosed, WriteClosed, CloseFinished,
       CloseReturns, Read, WriteQueued, CloseQueued, TypeOK, AppTypeOK
  <2>3. written'[s] >= written[s]
    BY <1>1, <2>2
  <2> QED BY <2>1, <2>3
<1>4. CASE UNCHANGED <<written, got>>
  BY <1>1, <1>4
<1>5. ASSUME NEW f \in Node, TaskStep(f) \/ Crash(f) PROVE UNCHANGED <<written, got>>
  BY <1>5 DEF TaskStep, Crash, appVars
<1>6. Node = {e, s}
  BY <1>1 DEF Node
<1>7. CASE UNCHANGED vars
  BY <1>4, <1>7 DEF vars, appVars
<1> QED BY <1>2, <1>3, <1>4, <1>5, <1>6, <1>7 DEF Next

\* Either direction is a pipe of messages: read, the errors and close together hand on
\* what the peer wrote, in order and each message once.
THEOREM ConnectionIsTwoPipes == Spec => ImplementsPipes
<1>1. Init => ToDevice!Init /\ ToHost!Init
  BY DEF Init, AppInit, ToDevice!Init, ToHost!Init, Node
<1>2. DInv /\ DInv' /\ [Next]_vars => [ToDevice!Next]_(<<written["Host"], got["Device"]>>)
  BY PipeMoves DEF Node, Peer, ToDevice!Next, ToDevice!Accept, ToDevice!Deliver
<1>3. DInv /\ DInv' /\ [Next]_vars => [ToHost!Next]_(<<written["Device"], got["Host"]>>)
  BY PipeMoves DEF Node, Peer, ToHost!Next, ToHost!Accept, ToHost!Deliver
<1> QED BY DInit, DStep, <1>1, <1>2, <1>3, PTL
       DEF Spec, ImplementsPipes, ToDevice!Spec, ToHost!Spec
=============================================================================
