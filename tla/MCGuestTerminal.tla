-------------------------- MODULE MCGuestTerminal --------------------------
(* Model-checking instance of GuestTerminal.                               *)
EXTENDS GuestTerminal, TLC

(* Identifiers are interchangeable, and no liveness property is checked.   *)
IdSymmetry == Permutations(Ids)
=============================================================================
