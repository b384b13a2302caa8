---------------------------- MODULE LinuxFaults -----------------------------
(***************************************************************************)
(* The one budget of what goes wrong on a Linux guest while it is          *)
(* observed: kills, failures, restarts, replaced and rewritten files.      *)
(***************************************************************************)
EXTENDS Integers

CONSTANT MaxFaults

ASSUME FaultBound == MaxFaults \in Nat

VARIABLE faults

Fault == faults < MaxFaults /\ faults' = faults + 1
=============================================================================
