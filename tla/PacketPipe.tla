----------------------------- MODULE PacketPipe -----------------------------
(***************************************************************************)
(* What sending and receiving packets over one connection promises: a pipe *)
(* of packets.  Each packet that went in comes out whole, in order, once,  *)
(* and one at a time.                                                      *)
(***************************************************************************)
EXTENDS Naturals, Sequences

VARIABLES
    input,    \* the packets that went in
    output    \* those that came out

Init == input = <<>> /\ output = <<>>

Send ==
    /\ Len(input') = Len(input) + 1
    /\ SubSeq(input', 1, Len(input)) = input
    /\ UNCHANGED output

Receive ==
    /\ Len(output) < Len(input)
    /\ output' = Append(output, input[Len(output) + 1])
    /\ UNCHANGED input

Next == Send \/ Receive

Spec == Init /\ [][Next]_<<input, output>>
=============================================================================
