--------------------------- MODULE MCGuestReceive ---------------------------
(* Model-checking instance of GuestReceive.                                *)
EXTENDS GuestReceive

ByteSymmetry == Permutations(Bytes)
=============================================================================
