------------------------ MODULE MCSessionController ------------------------
(* Model-checking instance of SessionController: one id number in its two  *)
(* JSON types.                                                             *)
EXTENDS SessionController, TLC

CONSTANTS Integer, String
MCIds == {<<1, Integer>>, <<1, String>>}
MCId == {<<1, Integer>>}
MCSymmetry == Permutations({Integer, String})
=============================================================================
