---------------------------- MODULE HostJournal ----------------------------
(***************************************************************************)
(* The host's task journal (velo_transfer/host_journal.py): one state.json *)
(* per task, replaced by rename under an exclusive writer lock, and the    *)
(* evidence files beside it.  Host processes start, are refused, work, are *)
(* killed and start again; a machine may lose power between a rename and   *)
(* the fsync of its directory.                                             *)
(*                                                                         *)
(* What a state holds is its facts (the fields _phase_data guards) and rp, *)
(* the field of the reception that HostPartial.tla gives a meaning to.     *)
(***************************************************************************)
EXTENDS Naturals, FiniteSets

CONSTANTS
    Hosts,          \* host processes of one task
    Facts,          \* the facts a coordinator may save: see FactFields
    FirstFacts,     \* the facts of the first revision
    None,           \* absent
    MaxStarts,      \* bound: process starts in a behaviour
    MaxRevision,    \* bound: revisions in a behaviour
    MaxFaults,      \* bound: failing calls and power losses in a behaviour
    MaxEvidence     \* max_evidence_files

Channels == {"velo", "windows"}

FactFields == [phase: {"CREATED", "ACTIVE", "COMPLETE"}, published: BOOLEAN, begun: BOOLEAN,
               channel: Channels \cup {None}, receipt: {"r1", "r2", None}, completion: BOOLEAN]

(* The first facts pass the initial check of _phase_data.                  *)
Initial(f) == f.phase = "CREATED" /\ ~f.published /\ ~f.begun /\ f.channel = None

ASSUME FactsAssumption == Facts \subseteq FactFields /\ FirstFacts \in FactFields /\ Initial(FirstFacts)
ASSUME NoneAssumption == None \notin Channels /\ None \notin {"r1", "r2"} /\ None \notin Hosts
ASSUME CodesAssumption ==
    None \notin {"resume_required", "task_not_found", "task_incomplete", "host_identity_mismatch",
                "stale_revision", "completion_unproven", "immutable_fact_changed"}
ASSUME BoundsAssumption == MaxRevision \in Nat /\ MaxStarts \in Nat /\ MaxFaults \in Nat /\ MaxEvidence \in Nat

VARIABLES
    taskDir,    \* the task directory exists
    disk,       \* state.json as the running kernel shows it, or None
    durable,    \* what a power loss leaves of it
    evidence,   \* [value, synced] of the one evidence name, or None
    litter,     \* temporary files a killed evidence writer left behind
    boot,       \* the boot identity
    lock,       \* the holder of .host-writer.lock
    pc,         \* where each process is
    then,       \* where a save returns to
    env,        \* the envelope a process last loaded
    want,       \* the data it is committing
    resume,     \* request.resume of each process
    created,    \* _created of each process
    code,       \* the last error of each process
    starts,     \* process starts so far
    faults      \* failing calls and power losses so far

stores == <<taskDir, disk, durable, evidence, litter, boot>>
procs == <<pc, then, env, want, resume, created, code>>
bounds == <<starts, faults>>
journalVars == <<stores, lock, procs, bounds>>

-----------------------------------------------------------------------------
(* _phase_data: what any state must satisfy, and what the next may not lose. *)
Permitted(f) ==
    /\ f.begun => f.channel # None
    /\ f.phase = "COMPLETE" => f.published /\ f.receipt # None /\ f.completion

Keeps(old, new) ==
    /\ old.published => new.published
    /\ old.begun => new.begun /\ new.channel = old.channel
    /\ old.receipt # None => new.receipt = old.receipt

JournalInit ==
    /\ taskDir = FALSE /\ disk = None /\ durable = None /\ evidence = None /\ litter = 0
    /\ boot = 0 /\ lock = None
    /\ pc = [h \in Hosts |-> "out"] /\ then = [h \in Hosts |-> "idle"]
    /\ env = [h \in Hosts |-> None] /\ want = [h \in Hosts |-> None]
    /\ resume = [h \in Hosts |-> FALSE] /\ created = [h \in Hosts |-> FALSE]
    /\ code = [h \in Hosts |-> None]
    /\ starts = 0 /\ faults = 0

At(h, place) == pc[h] = place
Goto(h, place) == pc' = [pc EXCEPT ![h] = place]
Fault == faults < MaxFaults /\ faults' = faults + 1

(* An operation of h ends with an error: the caller sees its code.         *)
Raise(h, error) ==
    /\ Goto(h, "idle")
    /\ code' = [code EXCEPT ![h] = error]

(* ... and what it holds in memory may be out of date: it loads again.     *)
Fail(h, error) ==
    /\ Goto(h, "failed")
    /\ code' = [code EXCEPT ![h] = error]

-----------------------------------------------------------------------------
(* HostJournal.writer: the lock is tried once; whoever finds it taken is   *)
(* refused.  A resumed request needs the tasks directory.                  *)
Start(h, r) ==
    /\ At(h, "out") /\ starts < MaxStarts
    /\ starts' = starts + 1
    /\ r => starts > 0
    /\ IF lock = None
       THEN lock' = h /\ Goto(h, "idle") /\ resume' = [resume EXCEPT ![h] = r]
       ELSE UNCHANGED <<lock, pc, resume>>
    /\ UNCHANGED <<stores, then, env, want, created, code, faults>>

(* A process that is gone leaves nothing in memory.                        *)
Forget(gone) ==
    /\ then' = [h \in Hosts |-> IF h \in gone THEN "idle" ELSE then[h]]
    /\ env' = [h \in Hosts |-> IF h \in gone THEN None ELSE env[h]]
    /\ want' = [h \in Hosts |-> IF h \in gone THEN None ELSE want[h]]
    /\ resume' = [h \in Hosts |-> resume[h] /\ h \notin gone]
    /\ created' = [h \in Hosts |-> created[h] /\ h \notin gone]
    /\ code' = [h \in Hosts |-> IF h \in gone THEN None ELSE code[h]]

(* The process leaves writer(), or is killed anywhere: its flock goes.     *)
Leave(h) ==
    /\ ~At(h, "out")
    /\ Goto(h, "out")
    /\ lock' = None
    /\ litter' = IF At(h, "evidence") THEN litter + 1 ELSE litter
    /\ Forget({h})
    /\ UNCHANGED <<taskDir, disk, durable, evidence, boot, bounds>>

(* Power is lost: every process is gone, a rename whose directory was not  *)
(* synced may be undone, and the boot identity changes.                    *)
PowerLoss ==
    /\ boot = 0 /\ Fault
    /\ boot' = 1
    /\ disk' \in {disk, durable}
    /\ durable' = disk'
    /\ evidence' \in IF evidence # None /\ ~evidence.synced THEN {evidence, None} ELSE {evidence}
    /\ pc' = [h \in Hosts |-> "out"]
    /\ lock' = None
    /\ Forget(Hosts)
    /\ UNCHANGED <<taskDir, litter, starts>>

-----------------------------------------------------------------------------
(* _read_state and load: the error a load meets, or None.                  *)
LoadError(h) ==
    IF ~resume[h] /\ ~created[h] THEN "resume_required"
    ELSE IF ~taskDir THEN "task_not_found"
    ELSE IF disk = None THEN "task_incomplete"
    ELSE IF disk.boot # boot THEN "host_identity_mismatch"
    ELSE None

Load(h) ==
    /\ (At(h, "idle") /\ env[h] = None) \/ At(h, "failed")
    /\ IF LoadError(h) # None
       THEN Raise(h, LoadError(h)) /\ env' = [env EXCEPT ![h] = None]
       ELSE Goto(h, "idle") /\ env' = [env EXCEPT ![h] = disk] /\ UNCHANGED code
    /\ UNCHANGED <<stores, lock, then, want, resume, created, bounds>>

(* create: refused for a resumed request or where the task directory is    *)
(* already there; the directory is made before the first state is written. *)
Create(h) ==
    /\ At(h, "idle") /\ env[h] = None
    /\ IF resume[h] \/ taskDir
       THEN /\ Raise(h, "resume_required")
            /\ UNCHANGED <<taskDir, want, then>>
       ELSE /\ taskDir' = TRUE
            /\ want' = [want EXCEPT ![h] = [facts |-> FirstFacts, rp |-> None]]
            /\ then' = [then EXCEPT ![h] = "idle"]
            /\ Goto(h, "rename")
            /\ UNCHANGED code
    /\ UNCHANGED <<disk, durable, evidence, litter, boot, lock, env, resume, created, bounds>>

(* A save that does not compare the facts with the ones it replaces.       *)
SaveErrorForgetful(h, data) ==
    IF LoadError(h) # None THEN LoadError(h)
    ELSE IF disk.rev # env[h].rev THEN "stale_revision"
    ELSE IF ~Permitted(data.facts) THEN "completion_unproven"
    ELSE None

(* save, up to _commit's rename: the revision the caller holds must be the *)
(* one on disk, and the facts must be kept.                                *)
SaveError(h, data) ==
    IF LoadError(h) # None THEN LoadError(h)
    ELSE IF disk.rev # env[h].rev THEN "stale_revision"
    ELSE IF ~Permitted(data.facts) THEN "completion_unproven"
    ELSE IF ~Keeps(disk.data.facts, data.facts) THEN "immutable_fact_changed"
    ELSE None

Save(h, data, next) ==
    IF SaveError(h, data) # None
    THEN Fail(h, SaveError(h, data)) /\ UNCHANGED <<want, then>>
    ELSE /\ disk.rev < MaxRevision
         /\ want' = [want EXCEPT ![h] = data]
         /\ then' = [then EXCEPT ![h] = next]
         /\ Goto(h, "rename")
         /\ code' = [code EXCEPT ![h] = None]

(* The coordinator saves facts of its own.                                 *)
SaveFacts(h, f) ==
    /\ At(h, "idle") /\ env[h] # None
    /\ f # env[h].data.facts
    /\ Save(h, [env[h].data EXCEPT !.facts = f], "idle")
    /\ UNCHANGED <<stores, lock, env, resume, created, bounds>>

Envelope(h) ==
    [rev |-> IF env[h] = None THEN 0 ELSE env[h].rev + 1,
     boot |-> IF env[h] = None THEN boot ELSE env[h].boot,
     data |-> want[h]]

(* _commit: the temporary file replaces state.json (the first one may not  *)
(* replace anything), unless state.json changed since the save loaded it.  *)
Rename(h) ==
    /\ At(h, "rename")
    /\ disk = env[h]
    /\ disk' = Envelope(h)
    /\ Goto(h, "sync")
    /\ UNCHANGED <<taskDir, durable, evidence, litter, boot, lock, then, env, want, resume, created, code, bounds>>

(* _sync_directory succeeds: the commit is durable and its caller goes on. *)
Sync(h) ==
    /\ At(h, "sync")
    /\ durable' = disk
    /\ env' = [env EXCEPT ![h] = disk]
    /\ created' = [created EXCEPT ![h] = @ \/ env[h] = None]
    /\ Goto(h, then[h])
    /\ want' = [want EXCEPT ![h] = None]
    /\ then' = [then EXCEPT ![h] = "idle"]
    /\ UNCHANGED <<taskDir, disk, evidence, litter, boot, lock, resume, code, bounds>>

(* What _commit tells of a failure, from the state it reads back: seen is  *)
(* FALSE when that read fails too.  A first commit reads nothing back.     *)
Verdict(h, seen) ==
    IF disk = None \/ ~seen THEN "storage_reconcile_required"
    ELSE IF disk = Envelope(h) THEN "storage_durability_unknown"
    ELSE IF disk.rev < Envelope(h).rev THEN "storage_write_failed"
    ELSE "storage_reconcile_required"

(* A system call of _commit fails before the rename or after it.  The      *)
(* next use of the journal loads again.                                    *)
CommitFails(h, seen) ==
    /\ pc[h] \in {"rename", "sync"}
    /\ Fault
    /\ Fail(h, Verdict(h, seen))
    /\ UNCHANGED <<stores, lock, then, env, want, resume, created, starts>>

-----------------------------------------------------------------------------
(* write_evidence: a name that exists is compared and synced, never        *)
(* replaced; a new one is renamed in place from a temporary file, which    *)
(* counts as a file of the directory until it is.                          *)
WriteEvidence(h, value) ==
    /\ At(h, "idle") /\ env[h] # None
    /\ \/ /\ evidence # None /\ evidence.value # value
          /\ Raise(h, "evidence_conflict") /\ UNCHANGED <<want, evidence, faults>>
       \/ /\ evidence # None /\ evidence.value = value
          /\ evidence' = [evidence EXCEPT !.synced = TRUE]
          /\ UNCHANGED <<want, pc, code, faults>>
       \/ /\ evidence # None /\ evidence.value = value
          /\ Fault /\ Raise(h, "evidence_durability_unknown") /\ UNCHANGED <<want, evidence>>
       \/ /\ evidence = None /\ litter >= MaxEvidence
          /\ Raise(h, "evidence_collection_exceeded") /\ UNCHANGED <<want, evidence, faults>>
       \/ /\ evidence = None /\ litter < MaxEvidence
          /\ Goto(h, "evidence") /\ want' = [want EXCEPT ![h] = value]
          /\ code' = [code EXCEPT ![h] = None]
          /\ UNCHANGED <<evidence, faults>>
    /\ UNCHANGED <<taskDir, disk, durable, litter, boot, lock, then, env, resume, created, starts>>

(* ... and its temporary file is renamed, then the directory is synced.    *)
PlaceEvidence(h) ==
    /\ At(h, "evidence")
    /\ \/ /\ evidence' = [value |-> want[h], synced |-> TRUE]
          /\ Goto(h, "idle")
          /\ UNCHANGED <<code, faults>>
       \/ /\ Fault
          /\ evidence' = [value |-> want[h], synced |-> FALSE]
          /\ Raise(h, "evidence_durability_unknown")
       \/ /\ Fault
          /\ Raise(h, "evidence_write_failed")
          /\ UNCHANGED evidence
    /\ want' = [want EXCEPT ![h] = None]
    /\ UNCHANGED <<taskDir, disk, durable, litter, boot, lock, then, env, resume, created, starts>>

-----------------------------------------------------------------------------
JournalNext ==
    \/ PowerLoss
    \/ \E h \in Hosts :
         \/ \E r \in BOOLEAN : Start(h, r)
         \/ Leave(h) \/ Load(h) \/ Create(h) \/ Rename(h) \/ Sync(h) \/ PlaceEvidence(h)
         \/ \E seen \in BOOLEAN : CommitFails(h, seen)
         \/ \E f \in Facts : SaveFacts(h, f)
         \/ \E v \in {"v1", "v2"} : WriteEvidence(h, v)

JournalSpec == JournalInit /\ [][JournalNext]_journalVars

-----------------------------------------------------------------------------
(* What a failed save tells its caller is what happened: the old state is  *)
(* in place after storage_write_failed, the new one after                  *)
(* storage_durability_unknown (_commit).                                   *)
VerdictIsTrue ==
    \A h \in Hosts : At(h, "failed") =>
        /\ code[h] = "storage_durability_unknown" => disk = Envelope(h)
        /\ code[h] = "storage_write_failed" => disk = env[h]

(* What FactsAreKept says of one step.                                     *)
StateKept ==
    disk # None /\ boot' = boot =>
        \/ disk' = disk
        \/ disk'.rev = disk.rev + 1 /\ Keeps(disk.data.facts, disk'.data.facts)

(* No revision is skipped or taken back and no fact is lost, whoever wrote *)
(* it and however the writer ended, as long as the machine runs            *)
(* (HostJournal.save, _phase_data).                                        *)
FactsAreKept == [][StateKept]_journalVars
=============================================================================
