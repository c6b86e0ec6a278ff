--------------------------- MODULE SessionBounds ---------------------------
(***************************************************************************)
(* What the driver's and the daemon's side of a session share: the numbers *)
(* of the opens, which are also those of the connections made for them.    *)
(***************************************************************************)
EXTENDS Naturals, Sequences, FiniteSets

CONSTANTS
    MaxOpens,   \* bound: calls of open(2)
    MaxData     \* bound: messages each way in one session

ASSUME SessionAssumption == MaxOpens \in Nat /\ MaxData \in Nat

Attempts == 1..MaxOpens

\* A session with its own connection.
Own == {<<n, n>> : n \in Attempts}
=============================================================================
