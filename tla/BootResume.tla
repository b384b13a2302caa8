----------------------------- MODULE BootResume -----------------------------
(***************************************************************************)
(* The boot service of a Linux guest observed twice, and the kernel scope  *)
(* put on it (velociraptor_linux_boot_service, _boot_resume): a read-only  *)
(* collector seals a bundle about the unit that is already running, resume *)
(* checks that the same instance still runs, applies the scope to it and   *)
(* seals that, finish stops and exports the scope.  Later the sealed       *)
(* directories are replayed.                                               *)
(*                                                                         *)
(* Every step of a collector is one reading of the machine, which restarts *)
(* services, reuses process ids and replaces files between two of them.    *)
(* Version 0 of a file is the one whose hash the profile pins; the inode   *)
(* tells copies of it apart.  Kills and window ends leave the output       *)
(* directory without its manifest: refused.                                *)
(***************************************************************************)
EXTENDS LinuxScope, Sequences

VARIABLES
    world,    \* the machine: unit, files and manager
    bundle,   \* [at, intact, seen]: the boot service bundle and its collector
    resumed,  \* [at, intact, seen]: the resume output
    finished  \* "new", "stop", "export", "copy", "sealed"

bootVars == <<world, bundle, resumed, finished>>

Pinned == [v |-> 0, i |-> 0]
Unseen == [inst |-> 0, pid |-> 0, birth |-> 0, bind |-> 0, frag |-> Pinned, payload |-> Pinned, manager |-> 0]
BootInit ==
    /\ world = [boot |-> 0, pid |-> 1, imgs |-> <<Pinned>>, up |-> TRUE, frag |-> Pinned, payload |-> Pinned,
                loaded |-> 0, enabled |-> TRUE, manager |-> 0]
    /\ bundle = [at |-> "start", intact |-> TRUE, seen |-> Unseen]
    /\ resumed = [at |-> "start", intact |-> TRUE, seen |-> Unseen]
    /\ finished = "new"

(* The unit's invocations are numbered; the process of invocation n runs   *)
(* the file imgs[n].                                                       *)
Inst == Len(world.imgs)
Image == world.imgs[Inst]

-----------------------------------------------------------------------------
(* The machine.                                                            *)

Drift(w) == Fault /\ world' = w
Copy(f, v) == [v |-> v, i |-> f.i + 1]
UnitRestarts(pid) == Drift([world EXCEPT !.imgs = Append(@, world.payload), !.pid = pid, !.up = TRUE])
UnitDies == world.up /\ Drift([world EXCEPT !.up = FALSE])
FragmentReplaced(v) == Drift([world EXCEPT !.frag = Copy(@, v)])
PayloadReplaced(v) == Drift([world EXCEPT !.payload = Copy(@, v)])
LinkRemoved == world.enabled /\ Drift([world EXCEPT !.enabled = FALSE])
ManagerReexecutes == Drift([world EXCEPT !.manager = @ + 1])
WorldDrifts ==
    /\ (\E p \in 1..2 : UnitRestarts(p)) \/ UnitDies \/ LinkRemoved \/ ManagerReexecutes
        \/ (\E v \in {0, 1} : FragmentReplaced(v) \/ PayloadReplaced(v))
    /\ UNCHANGED <<file, mem, worker, probe, request, response, call, clock, exported, bundle, resumed, finished>>
(* Somebody touches a sealed directory.                                    *)
Touched(d) == d.at = "sealed" /\ d.intact /\ Fault
SealedChanges ==
    /\ \/ Touched(bundle) /\ bundle' = [bundle EXCEPT !.intact = FALSE] /\ UNCHANGED resumed
       \/ Touched(resumed) /\ resumed' = [resumed EXCEPT !.intact = FALSE] /\ UNCHANGED bundle
    /\ UNCHANGED <<file, mem, worker, probe, request, response, call, clock, exported, world, finished>>

-----------------------------------------------------------------------------
(* What a reading finds acceptable.                                        *)

(* The boot id of the profile.                                             *)
ThisBoot == world.boot = 0
(* The manager's loaded ExecStart is the fragment's.                       *)
LoadedIsFragment == world.loaded = world.frag.v
(* check_properties: active, enabled, no reload pending, no drop-ins.      *)
Shows == world.up /\ world.enabled /\ LoadedIsFragment
(* bind_fragment_path: the file that the loaded unit's path leads to.      *)
Binding == world.frag.i
(* /proc/<pid>: the process that has this id now, if any.                  *)
Process(pid) == world.up /\ world.pid = pid
IsPinned(f) == f.v = 0

-----------------------------------------------------------------------------
(* collect_boot_service, one action per record it writes.                  *)

Collects(at, ok, next, seen) ==
    /\ bundle.at = at
    /\ bundle' = IF ok THEN [bundle EXCEPT !.at = next, !.seen = seen] ELSE [bundle EXCEPT !.at = "refused"]
    /\ UNCHANGED <<scopeVars, world, resumed, finished>>

CollectKernel == Collects("start", ThisBoot, "show", [bundle.seen EXCEPT !.manager = world.manager])
CollectShow == Collects("show", Shows, "fragment",
    [bundle.seen EXCEPT !.inst = Inst, !.pid = world.pid, !.bind = Binding])
CollectFragment == Collects("fragment", IsPinned(world.frag) /\ LoadedIsFragment, "payload", [bundle.seen EXCEPT !.frag = world.frag])
CollectPayload == Collects("payload", IsPinned(world.payload), "process", [bundle.seen EXCEPT !.payload = world.payload])
CollectProcess == Collects("process", Process(bundle.seen.pid) /\ IsPinned(Image), "show2", [bundle.seen EXCEPT !.birth = Inst])
(* Mutant: the invocation id is not compared.                              *)
SameUnit_Pid(seen) == world.pid = seen.pid
SameUnit(seen) == Inst = seen.inst /\ world.pid = seen.pid
CollectShowAgain == Collects("show2", Shows /\ SameUnit(bundle.seen), "process2", bundle.seen)
SameProcess(seen) == Process(seen.pid) /\ Inst = seen.birth
CollectProcessAgain == Collects("process2", SameProcess(bundle.seen), "recheck", bundle.seen)
SameFiles(seen) == world.frag = seen.frag /\ world.payload = seen.payload
CollectRecheck == Collects("recheck", world.manager = bundle.seen.manager /\ SameFiles(bundle.seen), "seal", bundle.seen)
(* check_records over the whole, observation.json, the manifest last.      *)
CheckRecords(seen) == seen.bind = seen.frag.i
CollectSeals == Collects("seal", CheckRecords(bundle.seen), "sealed", bundle.seen)
(* The window ends, a command fails, the collector is killed.              *)
CollectEnds == bundle.at \notin {"sealed", "refused"} /\ Collects(bundle.at, FALSE, "refused", bundle.seen)

CollectNext == CollectKernel \/ CollectShow \/ CollectFragment \/ CollectPayload \/ CollectProcess
    \/ CollectShowAgain \/ CollectProcessAgain \/ CollectRecheck \/ CollectSeals \/ CollectEnds

-----------------------------------------------------------------------------
(* resume: the bundle again, the unit again, its journal, the scope.       *)

Resumes(at, ok, next, seen) ==
    /\ resumed.at = at
    /\ resumed' = IF ok THEN [resumed EXCEPT !.at = next, !.seen = seen] ELSE [resumed EXCEPT !.at = "refused"]
    /\ UNCHANGED <<world, bundle, finished>>
Reads(at, ok, next, seen) == Resumes(at, ok, next, seen) /\ UNCHANGED scopeVars

(* normalize_boot_service: manifest, inventory and records.                *)
Rederives == bundle.at = "sealed" /\ bundle.intact
ResumeBundle == bundle.at \in {"sealed", "refused"} /\
    Reads("start", ThisBoot /\ Rederives, "show", [resumed.seen EXCEPT !.manager = world.manager])
ResumeShow == Reads("show", Shows /\ SameUnit(bundle.seen), "fragment",
    [resumed.seen EXCEPT !.inst = Inst, !.pid = world.pid, !.bind = Binding])
ResumeFragment == Reads("fragment", IsPinned(world.frag) /\ LoadedIsFragment, "payload", [resumed.seen EXCEPT !.frag = world.frag])
ResumePayload == Reads("payload", IsPinned(world.payload), "link", [resumed.seen EXCEPT !.payload = world.payload])
(* The enablement link, and the inode that the process executes.           *)
ExeIsPayload(seen) == Process(seen.pid) /\ Image.i = seen.payload.i
ResumeLink == Reads("link", world.enabled /\ ExeIsPayload(resumed.seen), "process", resumed.seen)
ResumeProcess == Reads("process", SameProcess(bundle.seen) /\ IsPinned(Image), "journal", [resumed.seen EXCEPT !.birth = Inst])
(* check_journal: one unit-start record in this boot, of this invocation;  *)
(* the main process may not have written yet.                              *)
CheckJournal == Inst = 1 /\ bundle.seen.inst = 1
ResumeJournal == Reads("journal", CheckJournal, "apply", resumed.seen)
ResumeApplies ==
    /\ resumed.at = "apply" /\ resumed' = [resumed EXCEPT !.at = "receipt"] /\ Apply
    /\ UNCHANGED <<world, bundle, finished>>
(* check_scope_receipt: applied, first generation.                         *)
ReceiptFits == call.got.status = "APPLIED" /\ call.got.gen = 1
ResumeReceipt == call.at = "idle" /\ Reads("receipt", ReceiptFits, "again", resumed.seen)
ResumeRechecksUnit == Reads("again",
    SameProcess(bundle.seen) /\ world.manager = resumed.seen.manager /\ SameUnit(bundle.seen), "files", resumed.seen)
ResumeRechecksFiles == Reads("files",
    SameFiles(resumed.seen) /\ world.enabled /\ ExeIsPayload(resumed.seen), "seal", resumed.seen)
ResumeSeals == Reads("seal", TRUE, "sealed", resumed.seen)
ResumeEnds ==
    /\ resumed.at \notin {"start", "receipt", "sealed", "refused"}
    /\ Reads(resumed.at, FALSE, "refused", resumed.seen)

ResumeNext == ResumeBundle \/ ResumeShow \/ ResumeFragment \/ ResumePayload \/ ResumeLink \/ ResumeProcess
    \/ ResumeJournal \/ ResumeApplies \/ ResumeReceipt \/ ResumeRechecksUnit \/ ResumeRechecksFiles
    \/ ResumeSeals \/ ResumeEnds

-----------------------------------------------------------------------------
(* The replay of the sealed directories.                                   *)

(* _normalize_bundle, in place or as a transported copy.                   *)
BundleReplays == Rederives /\ CheckRecords(bundle.seen)
(* _check_manifest: inventory, protection, hashes, inodes.                 *)
ManifestHolds == resumed.at = "sealed" /\ resumed.intact
(* The records of resume against the bundle's, inodes included.            *)
ManagerReplays(r, b) == r.manager = b.manager
UnitReplays(r, b) == r.pid = b.pid /\ r.inst = b.inst
FilesReplay(r, b) == r.frag = b.frag /\ r.payload = b.payload
ProcessReplays(r, b) == r.birth = b.birth
(* The journal's one start, of the invocation that the scope was put on.   *)
JournalReplays(r) == r.inst = 1
(* bind_fragment_path is evaluated again, on the machine that replays.     *)
BindingRebuilds(r) == world.enabled /\ Binding = r.bind
Replays ==
    LET r == resumed.seen
        b == bundle.seen
    IN  /\ ManifestHolds /\ BundleReplays
        /\ ManagerReplays(r, b) /\ UnitReplays(r, b) /\ FilesReplay(r, b) /\ ProcessReplays(r, b)
        /\ JournalReplays(r) /\ BindingRebuilds(r)

-----------------------------------------------------------------------------
(* finish: stop, export, copy, seal; one that is refused may be repeated   *)
(* into another directory.                                                 *)

FinishTo(next) == finished' = next /\ UNCHANGED <<world, bundle, resumed>>
ScopeIsThere == resumed.at \in {"sealed", "refused"} /\ worker.at # "none"
FinishStops == finished = "new" /\ ScopeIsThere /\ ThisBoot /\ (Submit("stop") \/ RecoverStop) /\ FinishTo("stop")
FinishStopped ==
    /\ finished = "stop" /\ call.at = "idle"
    /\ FinishTo(IF StopConfirmed THEN "export" ELSE "new") /\ UNCHANGED scopeVars
(* Mutant: any generation of the scope is exported.                        *)
Exportable_Stopped == Snapshot.status = "STOPPED"
Exportable == Snapshot.status = "STOPPED" /\ Snapshot.gen = 1
FinishExports ==
    /\ finished = "export"
    /\ \/ Exportable /\ Export /\ FinishTo("copy")
       \/ ~(Exports /\ Exportable) /\ FinishTo("refused") /\ UNCHANGED scopeVars
(* verify_ref: every original still has the size and hash of its reference.*)
FinishCopies ==
    /\ finished = "copy" /\ FinishTo(IF file = exported THEN "sealed" ELSE "new") /\ UNCHANGED scopeVars

(* normalize_boot_resume_finish.                                           *)
FinishReplays == finished = "sealed" /\ exported.status = "STOPPED" /\ exported.gen = 1

FinishNext == FinishStops \/ FinishStopped \/ FinishExports \/ FinishCopies

(* Other calls of the session's owner, while no finish is under way; an    *)
(* export does not wait for the lock.                                      *)
OwnerCalls == finished = "new" /\ resumed.at \in {"again", "files", "seal", "sealed", "refused"}
    /\ ((\E k \in Kinds : Submit(k)) \/ Export) /\ UNCHANGED bootVars

(* The machine reboots: every process is gone, its boot id is another.     *)
Reboots ==
    /\ Fault /\ world' = [world EXCEPT !.boot = 1, !.imgs = Append(@, world.payload), !.loaded = world.frag.v]
    /\ worker' = [worker EXCEPT !.at = IF @ = "none" THEN @ ELSE "gone"]
    /\ probe' = [probe EXCEPT !.at = IF @ = "none" THEN @ ELSE "dead"]
    /\ call' = [call EXCEPT !.at = "idle", !.got = NoFile]
    /\ bundle' = [bundle EXCEPT !.at = IF @ = "sealed" THEN @ ELSE "refused"]
    /\ resumed' = [resumed EXCEPT !.at = IF @ = "sealed" THEN @ ELSE "refused"]
    /\ finished' = IF finished = "sealed" THEN finished ELSE "refused"
    /\ UNCHANGED <<file, mem, request, response, clock, exported>>

BootNext == WorldDrifts \/ SealedChanges \/ CollectNext \/ ResumeNext \/ FinishNext \/ OwnerCalls
    \/ Reboots \/ ((WorkerNext \/ ProbeNext \/ CallGoesOn) /\ UNCHANGED bootVars)

-----------------------------------------------------------------------------
(* Properties.                                                             *)

(* A sealed bundle is about one instance: the process whose facts it holds *)
(* is the main process of the invocation it names, also when process ids   *)
(* are used again, and that process executes the pinned payload.           *)
ObservationIsTrue ==
    bundle.at = "sealed" => LET s == bundle.seen
                            IN  s.birth = s.inst /\ world.imgs[s.birth].v = 0 /\ s.bind = s.frag.i

(* A sealed resume put the first generation of the scope on the bundle's   *)
(* process, which executes the very file that resume hashed; if it also    *)
(* replays, that file is the bundle's, not a copy.  A sealed finish        *)
(* replays and holds the final originals of that generation, which ended   *)
(* by its own marker.                                                      *)
ResumeIsTrue ==
    /\ resumed.at = "sealed" => /\ resumed.seen.birth = bundle.seen.inst /\ mem.gen >= 1
                                /\ world.imgs[resumed.seen.birth].i = resumed.seen.payload.i
    /\ Replays => bundle.seen.payload = world.imgs[bundle.seen.birth]
    /\ finished = "sealed" => /\ FinishReplays /\ file = exported
                              /\ probe.gen = 1 /\ (world.boot = 0 => probe.ended)
=============================================================================
