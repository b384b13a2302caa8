------------------------- MODULE MCLinuxCollection --------------------------
(* Model-checking instance of LinuxCollection: every mechanism, one fault, *)
(* two calls on the scope after its apply.                                 *)
EXTENDS LinuxCollection
=============================================================================
