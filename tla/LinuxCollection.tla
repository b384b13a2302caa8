-------------------------- MODULE LinuxCollection ---------------------------
(***************************************************************************)
(* The Linux collections of a guest.  A round observes one mechanism       *)
(* (create_collector): a timer, a service, crond or the one installation,  *)
(* each proved by its evidence collector, or the boot service, observed,   *)
(* resumed under a kernel scope and finished.  The collections share the   *)
(* guest and the budget of its faults.                                     *)
(***************************************************************************)
EXTENDS SchedulerEvidence, BootResume

Mechanisms == {"timer", "service", "cron", "install", "boot"}
scopeFiles == <<file, mem, worker, probe, request, response, call, clock, exported>>

CollectionInit ==
    /\ mechanism \in Mechanisms /\ faults = 0
    /\ ScopeInit /\ EvidenceInit /\ BootInit
CollectionNext ==
    \/ mechanism = "boot" /\ BootNext /\ UNCHANGED evidenceVars
    \/ mechanism # "boot" /\ EvidenceNext /\ UNCHANGED <<scopeFiles, bootVars>>
CollectionSpec == CollectionInit /\ [][CollectionNext]_<<scopeVars, bootVars, evidenceVars>>
=============================================================================
