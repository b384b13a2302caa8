----------------------------- MODULE GuestTask -----------------------------
(***************************************************************************)
(* One guest task's terminal jobs (guest_service.py: _prepare, _commit,    *)
(* _release, _finalize_release): what the worker does to the disk between  *)
(* the saves of the ledger of TerminalRules.  The worker may raise or be   *)
(* killed between any two of its steps; the host repeats its requests; the *)
(* destination path and the sources belong to other users as well.         *)
(*                                                                         *)
(* GuestWorkers shows that at most one registered worker runs, so a worker *)
(* here is one process and owner registration is one step.  GuestTerminal  *)
(* shows that restore returns every saved ledger unchanged, so the ledger  *)
(* is used as it was saved.                                                *)
(***************************************************************************)
EXTENDS Naturals

CONSTANTS
    Ids, Codes, None,  \* as in TerminalRules
    MaxWorkers,  \* bound: worker processes launched
    MaxFaults    \* bound: workers that raise or are killed, and service crashes

ASSUME BoundsAssumption == MaxWorkers \in Nat /\ MaxFaults \in Nat

VARIABLES
    direction, \* "push" or "pull", fixed when the task begins
    terminal,  \* saved action ledger
    task,      \* the other saved fields of the state file
    disk,      \* temporaries, stage, manifest.json, destination
    worker,    \* the worker process
    request,   \* the launch a service call is about to make
    source,    \* what the pulled sources are: "same" or "changed"
    faults     \* faults so far

vars == <<direction, terminal, task, disk, worker, request, source, faults>>

INSTANCE TerminalRules WITH Direction <- direction

Jobs == Actions \cup {"verify_partial"}

(* The absent value is none of the values it stands in for.                *)
ASSUME NoneIsAbsent ==
    /\ None \notin Ids /\ None \notin Codes /\ None \notin Jobs /\ None \notin PrepareReceipts
    /\ None \notin ValidationReceipts /\ None \notin PublicationReceipts
    /\ None \notin Authorizations /\ None \notin Snapshots
(* uuid4: an identifier is left whatever four a task has drawn.            *)
ASSUME IdsSuffice == \A i, j, k, l \in Ids \cup {None} : Ids \ {i, j, k, l} # {}
(* The codes the except branch of _child records.                          *)
ASSUME CodesAssumption == {"source_changed", "worker_failed"} \subseteq Codes

(* received.part and chunks.jsonl, or bundle.zip.                          *)
Temporaries == IF direction = "push" THEN {"part", "ledger"} ELSE {"bundle"}

Errors == Codes \cup {"deadline_exceeded", "transfer_cancelled", "verification_invalid"}

Pcs == {"dead", "exiting", "failed", "start", "mkdir", "register", "unpack", "unpacking",
        "sidecar", "sidecar_write", "persist", "publish", "receipt", "authorize", "delete",
        "reverify", "conclude"}

TypeOK ==
    /\ direction \in {"push", "pull"}
    /\ terminal \in Snapshots
    /\ task \in [stage_intent : BOOLEAN, staging : BOOLEAN,
                 publish_intent : PublicationReceipts \cup {None},
                 owner : [job : Jobs \cup {None}, nonce : 0..MaxWorkers, stopped : BOOLEAN],
                 error : Errors \cup {None}, targets : BOOLEAN,
                 proof : (1..MaxWorkers) \cup {None}, cleaned : BOOLEAN,
                 cancelled : BOOLEAN, expired : BOOLEAN]
    /\ disk \in [temps : SUBSET Temporaries, stage : {"none", "empty", "partial", "full"},
                 manifest : {"none", "torn", "complete"},
                 dest : {"none", "ours", "altered", "foreign"}]
    /\ worker \in [pc : Pcs, code : Codes \cup {None}]
    /\ request \in Jobs \cup {None}
    /\ source \in {"same", "changed"}
    /\ faults \in 0..MaxFaults

(* A push whose last chunk has been received, or a pull package that is ready. *)
Init ==
    /\ direction \in {"push", "pull"}
    /\ terminal = FreshTerminal
    /\ task = [stage_intent |-> FALSE, staging |-> FALSE, publish_intent |-> None,
               owner |-> [job |-> None, nonce |-> 0, stopped |-> TRUE],
               error |-> None, targets |-> FALSE, proof |-> None, cleaned |-> FALSE,
               cancelled |-> FALSE, expired |-> FALSE]
    /\ disk = [temps |-> Temporaries, stage |-> "none",
               manifest |-> IF direction = "pull" THEN "complete" ELSE "none", dest |-> "none"]
    /\ worker = [pc |-> "dead", code |-> None]
    /\ request = None
    /\ source = "same"
    /\ faults = 0

-----------------------------------------------------------------------------
UsedIds == {terminal.ops[a].id : a \in Actions}
             \cup {r.id : r \in {terminal.prepare, terminal.publication, task.publish_intent} \ {None}}

FreshId == CHOOSE i \in Ids : i \notin UsedIds

(* The receipts a host that follows the protocol sends with an action.     *)
HostInputs(action) ==
    IF action = "prepare" THEN NoInputs
    ELSE IF action = "commit"
    THEN [prepare |-> terminal.prepare, publication |-> None,
          validation |-> [binding |-> "K", prepare |-> terminal.prepare, id |-> terminal.prepare.id]]
    ELSE [prepare |-> terminal.prepare, validation |-> None,
          publication |-> IF direction = "push" THEN terminal.publication
                          ELSE [binding |-> "K", prepare |-> terminal.prepare, id |-> terminal.prepare.id]]

Receipted(action) == /\ action # "prepare" => terminal.prepare # None
                     /\ action = "release" /\ direction = "push" => terminal.publication # None

Idle == worker.pc = "dead"
Halted == task.cancelled \/ task.expired

(* Mutant: only a worker of another action is replaced.                    *)
RelaunchesOtherJob(action) == task.owner.job # action

(* transfer_finish on an operation that is recorded as IN_PROGRESS.        *)
Relaunches(action) ==
    /\ task.owner.job # action \/ task.owner.stopped \/ Idle
    /\ ~(action = "prepare" /\ direction = "push" /\ task.stage_intent /\ ~task.staging)
    /\ ~(action = "release" /\ direction = "push" /\ task.proof # None /\ task.error = None)

TransferFinish(action) ==
    /\ request = None
    /\ Receipted(action)
    /\ \/ /\ BeginStarts(terminal, action, HostInputs(action))
          /\ ~Halted
          /\ Idle
          /\ terminal' = Begun(terminal, action, HostInputs(action), FreshId)
       \/ /\ BeginReplays(terminal, action, HostInputs(action))
          /\ terminal.ops[action].status = "IN_PROGRESS"
          /\ Relaunches(action)
          /\ UNCHANGED terminal
    /\ request' = action
    /\ UNCHANGED <<task, disk, worker, source, faults>>

(* transfer_begin repeated by a resuming host: verifies received.part.     *)
Resume ==
    /\ request = None
    /\ direction = "push"
    /\ terminal.phase = "READY"
    /\ Idle
    /\ request' = "verify_partial"
    /\ UNCHANGED <<terminal, task, disk, worker, source, faults>>

(* _launch: a new owner; it never inherits an error or a proof.            *)
Launch ==
    /\ request # None
    /\ IF Halted \/ ~Idle
       THEN UNCHANGED <<task, worker>>
       ELSE /\ task.owner.nonce < MaxWorkers
            /\ task' = [task EXCEPT
                 !.owner = [job |-> request, nonce |-> task.owner.nonce + 1, stopped |-> FALSE],
                 !.error = None,
                 !.proof = IF request = "release" /\ direction = "push" THEN None ELSE @]
            /\ worker' = [pc |-> "start", code |-> None]
    /\ request' = None
    /\ UNCHANGED <<terminal, disk, source, faults>>

(* The service dies between saving the operation and launching.            *)
ServiceCrash ==
    /\ request # None /\ faults < MaxFaults
    /\ request' = None
    /\ faults' = faults + 1
    /\ UNCHANGED <<terminal, task, disk, worker, source>>

-----------------------------------------------------------------------------
(* The worker.  Every step is one save or one change of the disk; a step   *)
(* whose checks fail leaves through Raise.                                 *)

Job(job) == task.owner.job = job
At(pc)   == worker.pc = pc
Go(pc)   == worker' = [worker EXCEPT !.pc = pc]
Operation(action) == terminal.ops[action]

(* Package hash and, for push, the received prefix.                        *)
PackageHolds == disk.temps = Temporaries

(* verify_partial: the proof itself is the subject of GuestReceive.        *)
VerifyPartial ==
    /\ Job("verify_partial") /\ At("start")
    /\ Go("exiting")
    /\ UNCHANGED <<terminal, task, disk>>

(* _prepare of a pull: the sources are read again.                         *)
PreparePull ==
    /\ Job("prepare") /\ At("start") /\ direction = "pull"
    /\ source = "same" /\ PackageHolds
    /\ Go("persist")
    /\ UNCHANGED <<terminal, task, disk>>

(* _prepare of a push, first attempt: name the stage before creating it.   *)
StageIntent ==
    /\ Job("prepare") /\ At("start") /\ direction = "push"
    /\ PackageHolds /\ ~task.staging /\ ~task.stage_intent
    /\ task' = [task EXCEPT !.stage_intent = TRUE]
    /\ Go("mkdir")
    /\ UNCHANGED <<terminal, disk>>

(* Later attempt: empty the registered stage and extract again.            *)
ClearStage ==
    /\ Job("prepare") /\ At("start") /\ direction = "push"
    /\ PackageHolds /\ task.staging
    /\ disk.stage # "none" /\ disk.dest = "none"
    /\ disk' = [disk EXCEPT !.stage = "empty"]
    /\ Go("unpack")
    /\ UNCHANGED <<terminal, task>>

MakeStage ==
    /\ At("mkdir")
    /\ disk.dest = "none" /\ disk.stage = "none"
    /\ disk' = [disk EXCEPT !.stage = "empty"]
    /\ Go("register")
    /\ UNCHANGED <<terminal, task>>

RegisterStage ==
    /\ At("register")
    /\ task' = [task EXCEPT !.staging = TRUE]
    /\ Go("unpack")
    /\ UNCHANGED <<terminal, disk>>

Unpack ==
    /\ At("unpack") \/ At("unpacking")
    /\ disk' = [disk EXCEPT !.stage = IF At("unpack") THEN "partial" ELSE "full"]
    /\ Go(IF At("unpack") THEN "unpacking" ELSE "sidecar")
    /\ UNCHANGED <<terminal, task>>

(* manifest.json is created exclusively, then written.                     *)
ManifestSidecar ==
    /\ \/ At("sidecar") /\ disk.manifest = "none"
          /\ disk' = [disk EXCEPT !.manifest = "torn"] /\ Go("sidecar_write")
       \/ At("sidecar") /\ disk.manifest = "complete"
          /\ UNCHANGED disk /\ Go("persist")
       \/ At("sidecar_write")
          /\ disk' = [disk EXCEPT !.manifest = "complete"] /\ Go("persist")
    /\ UNCHANGED <<terminal, task>>

(* Mutant: the receipt is stored but not the phase it implies.             *)
PersistPrepareStalePhase ==
    LET r == [binding |-> "K", id |-> FreshId] IN
    /\ At("persist")
    /\ PrepareCompletes(terminal, Operation("prepare").id, r)
    /\ terminal' = [PrepareDone(terminal, r) EXCEPT !.phase = terminal.phase]
    /\ Go("exiting")
    /\ UNCHANGED <<task, disk>>

PersistPrepare ==
    LET r == [binding |-> "K", id |-> FreshId] IN
    /\ At("persist")
    /\ PrepareCompletes(terminal, Operation("prepare").id, r)
    /\ terminal' = PrepareDone(terminal, r)
    /\ Go("exiting")
    /\ UNCHANGED <<task, disk>>

(* _commit: the intent carries the receipt that any later attempt reuses.  *)
PublishIntent ==
    /\ Job("commit") /\ At("start")
    /\ task.staging /\ disk.manifest = "complete"
    /\ \/ /\ task.publish_intent = None
          /\ PackageHolds /\ disk.stage = "full"
          /\ task' = [task EXCEPT !.publish_intent =
                        [binding |-> "K", prepare |-> terminal.prepare, id |-> FreshId]]
       \/ task.publish_intent # None /\ UNCHANGED task
    /\ Go("publish")
    /\ UNCHANGED <<terminal, disk>>

(* Rename without replacement, or recognise the tree renamed earlier.      *)
Publish ==
    /\ At("publish")
    /\ \/ /\ disk.dest = "none" /\ disk.stage = "full"
          /\ disk' = [disk EXCEPT !.dest = "ours", !.stage = "none"]
       \/ disk.dest = "ours" /\ UNCHANGED disk
    /\ Go("receipt")
    /\ UNCHANGED <<terminal, task>>

(* Mutant: every attempt makes a receipt of its own.                       *)
PersistCommitFresh ==
    LET r == [binding |-> "K", prepare |-> terminal.prepare, id |-> terminal.prepare.id] IN
    /\ At("receipt")
    /\ CommitCompletes(terminal, Operation("commit").id, r)
    /\ terminal' = CommitDone(terminal, r)
    /\ Go("exiting")
    /\ UNCHANGED <<task, disk>>

PersistCommit ==
    /\ At("receipt")
    /\ CommitCompletes(terminal, Operation("commit").id, task.publish_intent)
    /\ terminal' = CommitDone(terminal, task.publish_intent)
    /\ Go("exiting")
    /\ UNCHANGED <<task, disk>>

(* Mutant: temporaries go first, the authorization is saved afterwards.    *)
StartReleaseDeletes ==
    /\ Job("release") /\ At("start")
    /\ Go("delete")
    /\ UNCHANGED <<terminal, task, disk>>

(* _release: verify once more, then the point of no return.                *)
StartRelease ==
    /\ Job("release") /\ At("start")
    /\ \/ /\ terminal.authorized = None
          /\ IF direction = "pull" THEN source = "same" ELSE disk.dest = "ours"
          /\ PackageHolds
          /\ Go("authorize")
       \/ terminal.authorized # None /\ task.targets /\ Go("delete")
    /\ UNCHANGED <<terminal, task, disk>>

Authorize ==
    /\ At("authorize")
    /\ terminal' = ReleaseAuthorized(terminal)
    /\ task' = [task EXCEPT !.targets = TRUE]
    /\ Go("delete")
    /\ UNCHANGED disk

(* _remove_owned_temporary, one file at a time.                            *)
Delete ==
    /\ At("delete")
    /\ IF disk.temps = {} THEN Go("reverify") /\ UNCHANGED disk
       ELSE /\ \E name \in disk.temps : disk' = [disk EXCEPT !.temps = @ \ {name}]
            /\ UNCHANGED worker
    /\ UNCHANGED <<terminal, task>>

(* _verify_push_destination reads the published tree after the deletions.  *)
Reverify ==
    /\ At("reverify")
    /\ direction = "push" => disk.dest = "ours"
    /\ Go("conclude")
    /\ UNCHANGED <<terminal, task, disk>>

Conclude ==
    /\ At("conclude")
    /\ task.error = None
    /\ task' = [task EXCEPT !.cleaned = TRUE,
                            !.proof = IF direction = "push" THEN task.owner.nonce ELSE @]
    /\ Go("exiting")
    /\ UNCHANGED <<terminal, disk>>

Exit ==
    /\ At("exiting")
    /\ Go("dead")
    /\ UNCHANGED <<terminal, task, disk>>

WorkerStep ==
    /\ \/ VerifyPartial \/ PreparePull \/ StageIntent \/ ClearStage \/ MakeStage \/ RegisterStage
       \/ Unpack \/ ManifestSidecar \/ PersistPrepare \/ PublishIntent \/ Publish \/ PersistCommit
       \/ StartRelease \/ Authorize \/ Delete \/ Reverify \/ Conclude \/ Exit
    /\ UNCHANGED <<request, source, faults>>

Running == ~Idle /\ ~At("failed") /\ ~At("exiting")

(* A check of the current step fails.                                      *)
Refused ==
    \/ At("start") /\ Job("prepare") /\ direction = "pull" /\ source = "changed"
    \/ At("start") /\ Job("prepare") /\ direction = "push"
          /\ IF task.staging THEN disk.stage = "none" \/ disk.dest # "none" ELSE task.stage_intent
    \/ At("mkdir") /\ (disk.dest # "none" \/ disk.stage # "none")
    \/ At("sidecar") /\ disk.manifest = "torn"
    \/ At("publish") /\ disk.dest \in {"altered", "foreign"}
    \/ At("start") /\ Job("release") /\ terminal.authorized = None
          /\ IF direction = "pull" THEN source = "changed" ELSE disk.dest # "ours"
    \/ At("reverify") /\ direction = "push" /\ disk.dest # "ours"
    \/ At("conclude") /\ task.error # None

Raise ==
    /\ Refused
    /\ worker' = [pc |-> "failed", code |-> IF source = "changed" THEN "source_changed" ELSE "worker_failed"]
    /\ UNCHANGED <<terminal, task, disk, request, source, faults>>

(* I/O error, writer_busy, cancellation seen by the budget: any step may raise. *)
Fault ==
    /\ Running /\ faults < MaxFaults
    /\ worker' = [pc |-> "failed", code |-> "worker_failed"]
    /\ faults' = faults + 1
    /\ UNCHANGED <<terminal, task, disk, request, source>>

(* Killed, or ended by the deadline guard.                                 *)
Die ==
    /\ Running /\ faults < MaxFaults
    /\ Go("dead")
    /\ faults' = faults + 1
    /\ UNCHANGED <<terminal, task, disk, request, source>>

Recoverable == \/ Job("commit") /\ task.publish_intent # None
               \/ Job("prepare") /\ task.staging

(* The except branch of _child: the error, and the action unless it can be retried. *)
RecordError ==
    LET job == task.owner.job IN
    /\ At("failed")
    /\ task' = [task EXCEPT !.error = worker.code]
    /\ terminal' = IF /\ job \in Actions
                      /\ ActionFails(terminal, job, Operation(job).id)
                      /\ ~Recoverable
                   THEN ActionFailed(terminal, job, worker.code) ELSE terminal
    /\ Go("exiting")
    /\ UNCHANGED <<disk, request, source, faults>>

-----------------------------------------------------------------------------
(* transfer_status: _reconcile_exit, then _finalize_release.               *)
Reconcile ==
    /\ request = None
    /\ Idle /\ ~task.owner.stopped
    /\ task' = [task EXCEPT !.owner.stopped = TRUE,
                            !.error = IF @ = None /\ task.expired THEN "deadline_exceeded" ELSE @]
    /\ UNCHANGED <<terminal, disk, worker, request, source, faults>>

Finalizable ==
    /\ terminal.phase = "RELEASING" /\ terminal.authorized # None
    /\ Job("release") /\ task.owner.stopped /\ Idle
    /\ disk.temps = {}
    /\ direction = "push" => task.error = None /\ task.cleaned /\ task.proof # None

FinalizeRelease ==
    /\ request = None
    /\ Finalizable
    /\ IF direction = "push" /\ task.proof # task.owner.nonce
       THEN task' = [task EXCEPT !.error = "verification_invalid"] /\ UNCHANGED terminal
       ELSE /\ ReleaseCompletes(terminal, Operation("release").id)
            /\ terminal' = ReleaseDone(terminal)
            /\ UNCHANGED task
    /\ UNCHANGED <<disk, worker, request, source, faults>>

(* transfer_abort: a live worker is killed, or its stop is not confirmed.  *)
Abort ==
    /\ request = None
    /\ ~task.cancelled
    /\ \/ /\ ~task.owner.stopped
          /\ task' = [task EXCEPT !.cancelled = TRUE, !.owner.stopped = TRUE,
                                  !.error = "transfer_cancelled"]
          /\ Go("dead")
       \/ task' = [task EXCEPT !.cancelled = TRUE] /\ UNCHANGED worker
    /\ UNCHANGED <<terminal, disk, request, source, faults>>

Expire ==
    /\ ~task.expired
    /\ task' = [task EXCEPT !.expired = TRUE]
    /\ UNCHANGED <<terminal, disk, worker, request, source, faults>>

(* Other users of the guest.                                               *)
OtherUsers ==
    /\ \/ direction = "push" /\ disk.dest = "none" /\ disk' = [disk EXCEPT !.dest = "foreign"]
          /\ UNCHANGED source
       \/ disk.dest = "ours" /\ disk' = [disk EXCEPT !.dest = "altered"] /\ UNCHANGED source
       \/ direction = "pull" /\ source = "same" /\ source' = "changed" /\ UNCHANGED disk
    /\ UNCHANGED <<terminal, task, worker, request, faults>>

ServiceStep == \/ \E action \in Actions : TransferFinish(action)
               \/ Launch \/ Reconcile \/ FinalizeRelease

Next ==
    /\ \/ ServiceStep \/ Resume \/ ServiceCrash \/ Abort \/ Expire
       \/ WorkerStep \/ Raise \/ Fault \/ Die \/ RecordError
       \/ OtherUsers
    /\ UNCHANGED direction

Spec == Init /\ [][Next]_vars

(* The worker runs and the host polls: as long as one of them has a step,  *)
(* some such step is eventually taken.                                     *)
Progress == (ServiceStep \/ WorkerStep \/ Raise \/ RecordError) /\ UNCHANGED direction
Fairness == WF_vars(Progress)

FairSpec == Spec /\ Fairness

-----------------------------------------------------------------------------
(* A publication receipt is only stored for a tree this task renamed into  *)
(* place, and it is the receipt the publish intent fixed before the        *)
(* rename, whichever attempt of the commit job stored it.                  *)
ReceiptIsPublished ==
    direction = "push" /\ terminal.publication # None =>
        /\ disk.dest \in {"ours", "altered"}
        /\ terminal.publication = task.publish_intent

(* "From this point failure means published-but-unconfirmed, never absent" *)
(* (publish_directory): once the tree is in place no failure of the commit *)
(* job records the commit as failed.                                       *)
PublishedNeverFails ==
    disk.dest \in {"ours", "altered"} => terminal.ops["commit"].status \in {"IN_PROGRESS", "DONE"}

(* Temporaries are deleted only under a durable authorization that names   *)
(* the publication, with their identities recorded.                        *)
Authorized == /\ terminal.authorized # None
              /\ terminal.phase = "RELEASING"
              /\ task.targets
DeletionIsAuthorized == [][disk'.temps # disk.temps => Authorized]_vars

(* RELEASED means what the host takes it for: no temporary is left, the    *)
(* release worker is gone, and for a push that same worker has read the    *)
(* published tree after the deletions and reported no error.               *)
ReleasedIsClean ==
    terminal.ops["release"].status = "DONE" =>
        /\ disk.temps = {}
        /\ Idle /\ Job("release")
        /\ direction = "push" => /\ task.proof = task.owner.nonce
                                 /\ disk.dest \in {"ours", "altered"}

(* The jobs use the ledger only through its methods: every step of the     *)
(* task is a step of GuestTerminal or leaves the ledger alone.  The        *)
(* instances bring along what is proved of GuestTerminal.                  *)
PushLedger == INSTANCE GuestTerminalProofs WITH Direction <- "push", told <- {}
PullLedger == INSTANCE GuestTerminalProofs WITH Direction <- "pull", told <- {}

LedgerInit == IF direction = "push" THEN PushLedger!Init ELSE PullLedger!Init
LedgerNext == IF direction = "push" THEN PushLedger!Next ELSE PullLedger!Next
ImplementsLedger == LedgerInit /\ [][LedgerNext]_<<direction, terminal>>

(* What ends a task without an outcome: the deadline, an abort, or (in the *)
(* model) the bound on workers.                                            *)
Ended == Halted \/ task.owner.nonce = MaxWorkers

(* Nothing once accepted is left hanging: after the intent the commit job  *)
(* ends with its receipt, and after the authorization the release ends     *)
(* RELEASED, whatever worker was lost between which two steps.             *)
IntentIsCommitted ==
    task.publish_intent # None ~>
        terminal.ops["commit"].status = "DONE" \/ disk.dest \in {"altered", "foreign"} \/ Ended

AuthorizedIsReleased ==
    terminal.authorized # None ~>
        terminal.phase = "RELEASED" \/ (direction = "push" /\ disk.dest # "ours") \/ Ended

(* "A registered push stage with its exact identity and parent can be      *)
(* cleared ... and re-extracted after interrupted prepare": when a prepare *)
(* is left unfinished with its stage intact, the next attempt can get past *)
(* the manifest it writes.                                                 *)
StagedPrepareRetryable ==
    Idle /\ ~Halted /\ task.staging /\ terminal.ops["prepare"].status = "IN_PROGRESS" =>
        disk.manifest # "torn"

(* Every receipt of a task is true of the disk: committed means published, *)
(* a published task never fails, and released leaves nothing behind.       *)
ReceiptsAreTrue == ReceiptIsPublished /\ PublishedNeverFails /\ ReleasedIsClean

(* A commit that was recorded and a release that was authorized are        *)
(* carried out in the end, whatever worker is lost on the way.             *)
JobsEnd == IntentIsCommitted /\ AuthorizedIsReleased
=============================================================================
