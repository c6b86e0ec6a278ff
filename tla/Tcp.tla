-------------------------------- MODULE Tcp --------------------------------
(***************************************************************************)
(* The TCP stream under one connection, as far as the connection task of   *)
(* crates/libncd-runtime/src/connection.rs can tell: packets arrive whole  *)
(* (recv_packet reassembles them) and in order, a bounded number of them is*)
(* under way in each direction, and a direction ends with a FIN or with a  *)
(* reset that cuts off part of what was under way.  External to src/.      *)
(***************************************************************************)
EXTENDS Naturals, Sequences

CONSTANT WireCap   \* packets that fit between the two ends, buffers included

ASSUME TcpAssumption == WireCap \in Nat \ {0}

Node == {"Host", "Device"}
Peer == [e \in Node |-> IF e = "Host" THEN "Device" ELSE "Host"]

Control == {"Hello", "HelloAck", "Ping", "Pong", "KeepAlive", "Close"}
Packet  == [type : Control \union {"Data"}, n : Nat]
Ctl(t)  == [type |-> t, n |-> 0]
Data(n) == [type |-> "Data", n |-> n]

VARIABLES
    wire,     \* wire[e]: packets on their way to e, or received but not taken
    ending,   \* ending[e]: what follows them: nothing yet, a FIN or a reset
    open      \* open[e]: e's socket is open

tcpVars == <<wire, ending, open>>

TcpTypeOK ==
    /\ wire \in [Node -> Seq(Packet)]
    /\ ending \in [Node -> {"none", "FIN", "RST"}]
    /\ open \in [Node -> BOOLEAN]

TcpInit ==
    /\ wire = [e \in Node |-> <<>>]
    /\ ending = [e \in Node |-> "none"]
    /\ open = [e \in Node |-> TRUE]

\* recv at the end of the stream returns 0 bytes, or fails.
AtEof(e)   == wire[e] = <<>> /\ ending[e] = "FIN"
AtReset(e) == wire[e] = <<>> /\ ending[e] = "RST"

HasPacket(e, type) == wire[e] # <<>> /\ Head(wire[e]).type = type

Take(e) ==
    /\ wire' = [wire EXCEPT ![e] = Tail(@)]
    /\ UNCHANGED <<ending, open>>

\* What is under way to e is cut off somewhere and followed by a reset.
Reset(e) ==
    /\ \E k \in 0..Len(wire[e]) :
          wire' = [wire EXCEPT ![e] = SubSeq(@, 1, k)]
    /\ ending' = [ending EXCEPT ![e] = "RST"]

\* A write of e that succeeds: the packet gets under way, or it is lost since
\* the peer's socket is closed, which the peer's TCP may answer with a reset.
SendTo(p, packet) ==
    /\ open[p]
    /\ Len(wire[p]) < WireCap
    /\ wire' = [wire EXCEPT ![p] = Append(@, packet)]

SendLost(e) ==
    /\ ~open[Peer[e]]
    /\ \/ UNCHANGED <<wire, ending>>
       \/ Reset(e)

Send(e, packet) ==
    /\ \/ SendTo(Peer[e], packet) /\ UNCHANGED ending
       \/ SendLost(e)
    /\ UNCHANGED open

\* The same, followed by a shutdown of e's direction.
SendLast(e, packet) ==
    /\ \/ /\ SendTo(Peer[e], packet)
          /\ ending' = [ending EXCEPT ![Peer[e]] = "FIN"]
       \/ SendLost(e)
    /\ UNCHANGED open

\* A write can only fail when the peer's socket is closed.
SendCanFail(e) == ~open[Peer[e]]

\* e's socket is closed.  Data it has not read makes TCP reset the connection;
\* some of what is under way to e may have been read into user-space buffers.
CloseSocket(e) ==
    LET p == Peer[e] IN
    /\ open' = [open EXCEPT ![e] = FALSE]
    /\ \/ /\ wire' = [wire EXCEPT ![e] = <<>>]
          /\ ending' = [ending EXCEPT ![p] = IF @ = "none" THEN "FIN" ELSE @]
       \/ /\ wire[e] # <<>>
          /\ \E k \in 0..Len(wire[p]) :
                wire' = [wire EXCEPT ![e] = <<>>, ![p] = SubSeq(@, 1, k)]
          /\ ending' = [ending EXCEPT ![p] = "RST"]
=============================================================================
