---------------------------- MODULE MCGuestTask ----------------------------
(* Model-checking instance of GuestTask: identifiers are small numbers.    *)
EXTENDS GuestTask
=============================================================================
