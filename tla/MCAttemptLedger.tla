-------------------------- MODULE MCAttemptLedger --------------------------
(* Two sessions with one key each: a key sent twice is a duplicate.        *)
EXTENDS AttemptLedger

MCKeys == {"k1", "k2"}
MCSession == [k \in MCKeys |-> IF k = "k1" THEN "s1" ELSE "s2"]
MCKeyBytes == [k \in MCKeys |-> IF k = "k1" THEN 1 ELSE 2]
=============================================================================
