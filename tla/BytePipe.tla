------------------------------ MODULE BytePipe ------------------------------
(***************************************************************************)
(* What the path from the connection to read(2) promises: a pipe.  The     *)
(* bytes that come out are the first bytes that went in, in order, each    *)
(* once; nothing is promised about when.                                   *)
(***************************************************************************)
EXTENDS Naturals, Sequences

VARIABLES
    accepted,   \* number of bytes that went in
    delivered   \* the bytes that came out, as positions in the input

Init == accepted = 0 /\ delivered = <<>>

Accept ==
    /\ accepted' >= accepted
    /\ delivered' = delivered

Deliver ==
    /\ accepted' = accepted
    /\ Len(delivered') >= Len(delivered)
    /\ Len(delivered') <= accepted
    /\ delivered' = [i \in 1..Len(delivered') |-> i]

Next == Accept \/ Deliver

Spec == Init /\ [][Next]_<<accepted, delivered>>
=============================================================================
