--------------------------- MODULE MCHostPartial ---------------------------
(* Model-checking instance of HostPartial: one publication fact and one    *)
(* attempt to take it back.                                                *)
EXTENDS HostPartial, TLC

MCFirst == [phase |-> "CREATED", published |-> FALSE, begun |-> FALSE,
            channel |-> None, receipt |-> None, completion |-> FALSE]
MCBegun == [MCFirst EXCEPT !.phase = "ACTIVE", !.begun = TRUE, !.channel = "velo"]
MCFacts == {MCFirst, MCBegun, [MCBegun EXCEPT !.phase = "COMPLETE"]}
HostSymmetry == Permutations(Hosts)
MCPackage == <<1, 2>>
=============================================================================
