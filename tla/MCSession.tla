----------------------------- MODULE MCSession -----------------------------
(***************************************************************************)
(* Model-checking module of Session.                                       *)
(***************************************************************************)
EXTENDS Session, TLC

\* Processes are interchangeable.
AppSymmetry == Permutations(Apps)
=============================================================================
