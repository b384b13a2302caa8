--------------------------- MODULE MCGuestWorkers ---------------------------
(* Model-checking instance of GuestWorkers: two tasks, of which one may be *)
(* aborted and may expire.  Tasks are alike, so which one is no loss.      *)
EXTENDS GuestWorkers

CONSTANTS t1, t2

MCTasks == {t1, t2}
MCRequests == ({"begin", "status"} \X MCTasks) \cup {<<"abort", t1>>}
=============================================================================
