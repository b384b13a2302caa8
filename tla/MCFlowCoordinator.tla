------------------------- MODULE MCFlowCoordinator -------------------------
(* Model-checking instance of FlowCoordinator.                             *)
EXTENDS FlowCoordinator

(* Up to two sources of up to MaxRows rows together, of size one or two,   *)
(* and a flow with a row no response can hold; identities number the rows. *)
CONSTANT MaxRows

Rows(sizes) == [i \in DOMAIN sizes |-> [id |-> i, size |-> sizes[i]]]
Splits(rows) == {<<SubSeq(rows, 1, n), SubSeq(rows, n + 1, Len(rows))>> : n \in 0..Len(rows)}
SmallFlows ==
    {<<>>, <<Rows(<<1, ResponseLimit + 1>>)>>}
      \cup UNION {Splits(Rows(sizes)) : sizes \in BoundedSeq({1, 2}, MaxRows)}
=============================================================================
