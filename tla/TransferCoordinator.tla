------------------------ MODULE TransferCoordinator ------------------------
(***************************************************************************)
(* The host side of one transfer: TransferCoordinator.run with the content,*)
(* publication and cleanup steps it drives (velo_transfer/                 *)
(* host_coordinator.py, host_content.py, host_publication.py,              *)
(* host_cleanup.py), its journal and its result, over a channel that       *)
(* loses, drops or delays requests.  A run may be killed between any two   *)
(* saves or calls and be started again on the same journal.                *)
(*                                                                         *)
(* The guest is the service as the host sees it: the ledger of             *)
(* TerminalRules, one worker, and what status reports; GuestTask,          *)
(* GuestWorkers and GuestReceive hold its details.  Transferred bytes are  *)
(* one value: either every byte is at the receiver or the rest is missing. *)
(* A guest error in answer to a mutation reaches the host as an unanswered *)
(* call (may_have_committed).  Evidence files, identities and budgets are  *)
(* left out.                                                               *)
(***************************************************************************)
EXTENDS Naturals, FiniteSets

CONSTANTS
    Ids, Codes, None,  \* as in TerminalRules
    MaxRuns,   \* bound: host runs (start, resume or abort)
    MaxFaults, \* bound: failed calls and workers lost, together
    MaxLate    \* bound: requests still under way after the host gave up on them

ASSUME HostBoundsAssumption == MaxRuns \in Nat /\ MaxFaults \in Nat /\ MaxLate \in Nat

VARIABLES
    direction,\* "push" or "pull", fixed when the journal is created
    journal,  \* HostJournal data: what a resumed run knows
    host,     \* the running process: location, current action
    files,    \* package or partial, stage and destination of the host; sources
    guest,    \* the guest task
    late,     \* requests given up by the host that the guest may still execute
    result,   \* result document of the last run; None while one is running
    bounds    \* runs and faults so far, and what this run met (history)

vars == <<direction, journal, host, files, guest, late, result, bounds>>

INSTANCE TerminalRules WITH Direction <- direction

RetryCap == 3
GuestErrors == Codes \cup {"worker_result_unknown", "transfer_cancelled"}
HostPhases == {"CREATED", "PREPARING", "READY", "TRANSFERRING", "VERIFYING", "PUBLISHED",
               "CLEANING", "COMPLETE", "FAILED", "CONFLICT", "CANCELLED"}
HostErrors ==
    {"outcome_unknown", "cleanup_failed", "connection_failed", "task_not_found",
     "deadline_exceeded", "host_package_reconcile_required", "stage_reconcile_required",
     "chunk_outcome_unresolved", "guest_terminal_missing", "action_retry_exhausted",
     "guest_cleanup_unproven", "source_validation_missing", "publication_outcome_unknown",
     "published_destination_missing", "source_unavailable", "missing_tree_member",
     "tree_content_mismatch", "destination_exists", "publication_recovery_conflict",
     "guest_phase_conflict", "guest_operation_conflict", "receipt_binding_mismatch",
     "action_conflict", "source_validation_conflict", "adapter_cleanup_pending",
     "source_changed"} \cup GuestErrors

Pcs == {"idle", "connect", "register_package", "begin", "begin_call", "ready", "send",
        "verify_wait", "verify_call", "verify_ready", "poll", "request", "validate", "chunks",
        "stage", "register_stage", "publish", "rename", "mark", "receipt", "clean", "delete",
        "final", "abort_status", "abort_call", "abort_done"}

Requests == [call : {"begin", "chunks", "abort"} \cup Actions, inputs : Inputs]

(* An operation as _ingest pins it: operation_id and input_digest.         *)
Identities == [id : Ids, inputs : Inputs]

(* The absent value is none of the values it stands in for.                *)
ASSUME NoneIsAbsent ==
    /\ None \notin Ids /\ None \notin HostErrors /\ None \notin HostPhases /\ None \notin BOOLEAN
    /\ None \notin Actions \cup {"package", "verify_partial"}
    /\ None \notin Identities /\ None \notin Inputs
    /\ None \notin PrepareReceipts /\ None \notin ValidationReceipts
    /\ None \notin PublicationReceipts /\ None \notin Authorizations /\ None \notin Snapshots
(* uuid4: an identifier is left whatever four a transfer has drawn.        *)
ASSUME IdsSuffice == \A i, j, k, l \in Ids \cup {None} : Ids \ {i, j, k, l} # {}
(* The codes the except branch of _child records.                          *)
ASSUME CodesAssumption == {"source_changed", "worker_failed"} \subseteq Codes

TypeOK ==
    /\ direction \in {"push", "pull"}
    /\ journal \in [phase : HostPhases, last : HostPhases \cup {None}, begun : BOOLEAN,
                    operations : [Actions -> Identities \cup {None}],
                    prepare : PrepareReceipts \cup {None},
                    validation : ValidationReceipts \cup {None},
                    publication : PublicationReceipts \cup {None},
                    intent : PublicationReceipts \cup {None},
                    published : BOOLEAN, unknown : BOOLEAN, stable : BOOLEAN,
                    asked : [Actions -> Inputs \cup {None}],
                    attempts : [Actions -> 0..RetryCap],
                    destVerified : BOOLEAN \cup {None}, guestClean : BOOLEAN,
                    hostClean : BOOLEAN, cleanIntent : BOOLEAN, adapterPending : BOOLEAN]
    /\ host \in [pc : Pcs, action : Actions, back : {"proceed", "send", "prepare"},
                 sent : BOOLEAN, abort : BOOLEAN]
    /\ files \in [temp : {"none", "unregistered", "ready", "gone"},
                  stage : {"none", "unregistered", "registered", "full"},
                  dest : {"none", "ours", "altered", "pruned", "removed", "foreign"},
                  source : {"same", "changed"}]
    /\ guest \in [made : BOOLEAN, terminal : Snapshots \cup {None},
                  job : Actions \cup {"package", "verify_partial", None},
                  alive : BOOLEAN, stopped : BOOLEAN, known : BOOLEAN,
                  error : GuestErrors \cup {None}, proof : BOOLEAN, cleaned : BOOLEAN,
                  intent : PublicationReceipts \cup {None}, cancelled : BOOLEAN]
    /\ late \subseteq Requests
    /\ result \in [outcome : {"complete", "rejected", "incomplete", "conflict", "cleanup_pending"},
                   code : HostErrors \cup {None}, phase : HostPhases, last : HostPhases,
                   published : BOOLEAN \cup {None}, destVerified : BOOLEAN \cup {None},
                   hostClean : BOOLEAN, guestClean : BOOLEAN, receipt : BOOLEAN,
                   stable : BOOLEAN] \cup {None}
    /\ bounds \in [faults : 0..MaxFaults, runs : 0..MaxRuns, expired : BOOLEAN,
                   quiet : BOOLEAN, inherited : BOOLEAN, overdue : BOOLEAN]

Each(value) == [a \in Actions |-> value]

(* journal.create; nothing at the destination, no guest task.              *)
Init ==
    /\ direction \in {"push", "pull"}
    /\ journal = [phase |-> "CREATED", last |-> None, begun |-> FALSE, operations |-> Each(None),
                  prepare |-> None, validation |-> None, publication |-> None, intent |-> None,
                  published |-> FALSE, unknown |-> FALSE, stable |-> FALSE,
                  asked |-> Each(None), attempts |-> Each(0), destVerified |-> None,
                  guestClean |-> FALSE, hostClean |-> FALSE, cleanIntent |-> FALSE,
                  adapterPending |-> FALSE]
    /\ host = [pc |-> "idle", action |-> "prepare", back |-> "proceed", sent |-> FALSE,
               abort |-> FALSE]
    /\ files = [temp |-> "none", stage |-> "none", dest |-> "none", source |-> "same"]
    /\ guest = [made |-> FALSE, terminal |-> None, job |-> None, alive |-> FALSE,
                stopped |-> TRUE, known |-> FALSE, error |-> None, proof |-> FALSE,
                cleaned |-> FALSE, intent |-> None, cancelled |-> FALSE]
    /\ late = {}
    /\ result = None
    /\ bounds = [faults |-> 0, runs |-> 0, expired |-> FALSE, quiet |-> TRUE, inherited |-> FALSE,
                 overdue |-> FALSE]

UsedIds ==
    LET t == guest.terminal IN
    {r.id : r \in {journal.intent, guest.intent} \ {None}}
      \cup (IF t = None THEN {} ELSE {t.ops[a].id : a \in Actions} \cup {r.id : r \in {t.prepare} \ {None}})

FreshId == CHOOSE i \in Ids : i \notin UsedIds

-----------------------------------------------------------------------------
(* The guest service: operators from one task to the next.                 *)

Op(g, action) == g.terminal.ops[action]
InPhase(g, phase) == g.terminal # None /\ g.terminal.phase = phase

(* _launch: no error or proof is inherited from an earlier worker.         *)
Launched(g, job) ==
    [g EXCEPT !.job = job, !.alive = TRUE, !.stopped = FALSE, !.known = FALSE, !.error = None,
              !.proof = FALSE, !.cleaned = @ /\ ~(job = "release" /\ direction = "push")]

(* transfer_status: _reconcile_exit, then _finalize_release.               *)
Settled(g) ==
    LET exited == [g EXCEPT !.stopped = g.stopped \/ ~g.alive]
        lost   == /\ ~g.alive /\ ~g.stopped
                  /\ g.job = "verify_partial" /\ ~g.proof /\ g.error = None
        seen   == IF lost THEN [exited EXCEPT !.error = "worker_result_unknown"] ELSE exited
    IN  IF /\ InPhase(seen, "RELEASING")
           /\ seen.job = "release" /\ seen.stopped /\ seen.cleaned
           /\ direction = "push" => seen.error = None
        THEN [seen EXCEPT !.terminal = ReleaseDone(@)] ELSE seen

(* transfer_begin.                                                         *)
BeginLaunches(g) ==
    IF ~g.made THEN direction = "pull"
    ELSE /\ ~g.alive
         /\ IF direction = "pull" THEN g.terminal = None /\ g.error \in {None, "worker_failed"}
            ELSE g.terminal = None \/ InPhase(g, "READY")

BeginAt(g) ==
    LET made == [g EXCEPT !.made = TRUE] IN
    IF BeginLaunches(g) /\ ~g.cancelled
    THEN Launched(made, IF direction = "pull" THEN "package" ELSE "verify_partial") ELSE made

(* transfer_chunks of a push: a byte already there is a replay.            *)
ChunksAccepted(g) == /\ g.made /\ ~g.cancelled /\ ~g.alive
                     /\ g.terminal = None \/ InPhase(g, "READY")

ChunksAt(g) ==
    IF ChunksAccepted(g) /\ g.terminal = None
    THEN [g EXCEPT !.terminal = FreshTerminal, !.proof = FALSE] ELSE g

(* transfer_finish.                                                        *)
FinishStarts(g, action, in) ==
    /\ g.terminal # None /\ BeginStarts(g.terminal, action, in)
    /\ ~g.cancelled /\ ~g.alive

FinishReplays(g, action, in) == g.terminal # None /\ BeginReplays(g.terminal, action, in)

FinishRelaunches(g, action, in) ==
    /\ FinishReplays(g, action, in)
    /\ Op(g, action).status = "IN_PROGRESS"
    /\ g.job # action \/ ~g.alive
    /\ ~(action = "release" /\ direction = "push" /\ g.cleaned /\ g.error = None)

(* A push prepare whose stage was named but never registered is not        *)
(* launched again; the stage itself is in GuestTask.                       *)
FinishAt(g, action, in) ==
    IF FinishStarts(g, action, in)
    THEN {Launched([g EXCEPT !.terminal = Begun(@, action, in, FreshId)], action)}
    ELSE IF FinishRelaunches(g, action, in) /\ ~g.cancelled /\ ~g.alive
    THEN {Launched(g, action)} \cup (IF action = "prepare" /\ direction = "push" THEN {g} ELSE {})
    ELSE {g}

(* transfer_abort: a registered worker is ended.                           *)
AbortAt(g) ==
    Settled([g EXCEPT !.cancelled = TRUE, !.alive = FALSE, !.stopped = TRUE,
                      !.error = IF g.stopped THEN @ ELSE "transfer_cancelled"])

Executed(g, r) ==
    IF r.call = "begin" THEN {BeginAt(g)}
    ELSE IF r.call = "chunks" THEN {ChunksAt(g)}
    ELSE IF r.call = "abort" THEN {IF g.made THEN AbortAt(g) ELSE g}
    ELSE FinishAt(g, r.call, r.inputs)

(* Requests that are answered with a result rather than an error.          *)
Answers(g, r) ==
    \/ r.call = "begin" /\ ~(BeginLaunches(g) /\ g.cancelled)
    \/ r.call = "chunks" /\ ChunksAccepted(g)
    \/ r.call = "abort" /\ g.made
    \/ r.call \in Actions /\ FinishStarts(g, r.call, r.inputs)
    \/ /\ r.call \in Actions /\ FinishReplays(g, r.call, r.inputs)
       /\ FinishRelaunches(g, r.call, r.inputs) => ~g.cancelled /\ ~g.alive

-----------------------------------------------------------------------------
(* Journal updates.                                                        *)

SetPhase(j, phase) == IF j.phase = phase THEN j ELSE [j EXCEPT !.phase = phase, !.last = j.phase]

FinishInputs(j, action) ==
    IF action = "prepare" THEN NoInputs
    ELSE IF action = "commit"
    THEN [prepare |-> j.prepare, validation |-> j.validation, publication |-> None]
    ELSE [prepare |-> j.prepare, validation |-> None, publication |-> j.publication]

Differs(held, seen) == held # None /\ seen # None /\ held # seen

Identity(t, action) == IF t.ops[action].status = "NONE" THEN None
                       ELSE [id |-> t.ops[action].id, inputs |-> t.ops[action].inputs]

(* _ingest refuses a status that contradicts a pinned fact.                *)
IngestError(j, g) ==
    LET t == g.terminal IN
    IF t = None THEN None
    ELSE IF \E a \in Actions : Differs(j.operations[a], Identity(t, a)) THEN "guest_operation_conflict"
    ELSE IF Differs(j.prepare, t.prepare) \/ Differs(j.publication, t.publication)
    THEN "receipt_binding_mismatch"
    ELSE None

First(seen, held) == IF seen # None THEN seen ELSE held

Ingested(j, g) ==
    LET t == g.terminal IN
    IF t = None THEN j
    ELSE [j EXCEPT
            !.operations = [a \in Actions |-> First(Identity(t, a), @[a])],
            !.prepare = First(t.prepare, @),
            !.publication = First(t.publication, @),
            !.published = @ \/ t.publication # None,
            !.unknown = /\ @
                        /\ t.publication = None
                        /\ ~(direction = "push" /\ t.ops["commit"].status = "NONE")]

(* _accept_finish: the operation in the answer of transfer_finish.         *)
AcceptError(j, g, action) ==
    IF Differs(j.operations[action], Identity(g.terminal, action)) THEN "guest_operation_conflict" ELSE None

(* Mutant: an accepted commit counts as published.                         *)
AcceptedEarly(j, g, action) ==
    LET op == Op(g, action)
        k  == [j EXCEPT !.operations[action] = Identity(g.terminal, action),
                        !.published = @ \/ action = "commit"]
    IN  IF op.status # "DONE" THEN k
        ELSE IF action = "prepare" THEN [k EXCEPT !.prepare = op.result.prepare]
        ELSE [k EXCEPT !.publication = op.result.publication, !.published = TRUE, !.unknown = FALSE]

Accepted(j, g, action) ==
    LET op == Op(g, action)
        k  == [j EXCEPT !.operations[action] = Identity(g.terminal, action)]
    IN  IF op.status # "DONE" THEN k
        ELSE IF action = "prepare" THEN [k EXCEPT !.prepare = op.result.prepare]
        ELSE [k EXCEPT !.publication = op.result.publication, !.published = TRUE, !.unknown = FALSE]

-----------------------------------------------------------------------------
(* The end of a run.                                                       *)

At(pc) == host.pc = pc
Go(j, pc) == /\ journal' = j
             /\ host' = [host EXCEPT !.pc = pc]
             /\ UNCHANGED <<files, result>>

(* _result: the document built from the journal.                           *)
Report(j, outcome, code) ==
    [outcome |-> outcome, code |-> code,
     phase |-> IF outcome = "complete" THEN "COMPLETE" ELSE j.phase,
     last |-> IF outcome = "complete" THEN "CLEANING" ELSE j.last,
     published |-> IF j.published THEN TRUE ELSE IF j.unknown THEN None ELSE FALSE,
     destVerified |-> j.destVerified, hostClean |-> j.hostClean, guestClean |-> j.guestClean,
     receipt |-> j.publication # None, stable |-> j.stable]

Proven(j) == j.destVerified = TRUE /\ j.guestClean /\ j.hostClean /\ ~j.adapterPending

(* A completion that is not proven raises out of run, without a result.    *)
End(j, outcome, code) ==
    /\ host' = [host EXCEPT !.pc = "idle"]
    /\ IF outcome # "complete" THEN journal' = j /\ result' = Report(j, outcome, code)
       ELSE IF Proven(j)
       THEN /\ journal' = [j EXCEPT !.phase = "COMPLETE", !.last = "CLEANING"]
            /\ result' = Report(j, outcome, code)
       ELSE journal' = j /\ UNCHANGED result

(* Codes with a word of _CONFLICTS in them, and destination_exists.        *)
ConflictCodes == {"source_changed", "tree_content_mismatch", "destination_exists",
                  "publication_recovery_conflict", "guest_phase_conflict",
                  "guest_operation_conflict", "receipt_binding_mismatch", "action_conflict",
                  "source_validation_conflict"}
(* Codes that start with destination_, tree_ or published_destination_.    *)
DestinationCodes == {"destination_exists", "tree_content_mismatch", "published_destination_missing"}

(* The except branch of run.                                               *)
Fail(failed, code) ==
    LET j == [failed EXCEPT
                !.destVerified = IF failed.published /\ code \in DestinationCodes THEN FALSE ELSE @,
                !.stable = @ /\ code # "source_changed"]
    IN  IF code \in ConflictCodes \/ j.destVerified = FALSE
        THEN End(SetPhase(j, "CONFLICT"), "conflict", code)
        ELSE IF j.publication # None THEN
             IF j.hostClean /\ j.guestClean THEN End(SetPhase(j, "FAILED"), "incomplete", code)
             ELSE End(SetPhase(j, "CLEANING"), "cleanup_pending", code)
        ELSE IF ~j.begun THEN End(SetPhase(j, "FAILED"), "rejected", code)
        ELSE End(j, "incomplete", code)

(* An error raised by a step that changes no file.                         *)
Raise(j, code) == Fail(j, code) /\ UNCHANGED files

-----------------------------------------------------------------------------
(* Calls.  The intent is saved before each of them; one step is the save,  *)
(* the call and what the host does with the answer.                        *)

InTime == ~bounds.expired

Faulty == /\ bounds.faults < MaxFaults
          /\ bounds' = [bounds EXCEPT !.faults = @ + 1, !.quiet = FALSE]

(* A read, tried three times by the adapter.  With mark the worker seen is *)
(* one whose nonce the host will not accept as new.                        *)
StatusAnswered(mark) ==
    /\ InTime
    /\ guest' = [Settled(guest) EXCEPT !.known = @ \/ mark]
    /\ UNCHANGED <<late, bounds>>

StatusFails ==
    LET g == Settled(guest) IN
    /\ InTime
    /\ UNCHANGED late
    /\ \/ Faulty /\ guest' \in {guest, g} /\ Raise(journal, "outcome_unknown")
       \/ /\ Faulty /\ guest' = g /\ IngestError(journal, g) = None
          /\ Raise([Ingested(journal, g) EXCEPT !.adapterPending = TRUE], "cleanup_failed")

(* Then is what the caller does with a status that _ingest accepts.        *)
Status(Then(_, _), mark) ==
    LET g == Settled(guest) IN
    \/ /\ StatusAnswered(mark)
       /\ IF IngestError(journal, g) # None THEN Raise(journal, IngestError(journal, g))
          ELSE Then(Ingested(journal, g), g)
    \/ StatusFails

(* No answer to a mutation: executed, not executed, or not yet executed.   *)
Unanswered(r) ==
    /\ InTime
    /\ \/ Faulty /\ guest' \in Executed(guest, r) /\ UNCHANGED late
       \/ Faulty /\ UNCHANGED <<guest, late>>
       \/ Faulty /\ UNCHANGED guest /\ Cardinality(late) < MaxLate /\ late' = late \cup {r}
       \/ ~Answers(guest, r) /\ UNCHANGED <<guest, late, bounds>>

Answered(r) == InTime /\ Answers(guest, r) /\ guest' \in Executed(guest, r) /\ UNCHANGED late

Call(call) == [call |-> call, inputs |-> NoInputs]

-----------------------------------------------------------------------------
(* Where a run goes from a status it has ingested.                         *)

(* _finish: the exact inputs of an action are saved before its request.    *)
EnterFinish(j, action) ==
    LET in == FinishInputs(j, action) IN
    IF j.asked[action] \notin {None, in} THEN Raise(j, "action_conflict")
    ELSE /\ journal' = [j EXCEPT !.asked[action] = in]
         /\ host' = [host EXCEPT !.pc = "poll", !.action = action]
         /\ UNCHANGED <<files, result>>

EnterRelease(j) == EnterFinish(SetPhase(SetPhase(j, "PUBLISHED"), "CLEANING"), "release")

(* _push: published transfers are released, a started commit is finished,  *)
(* anything earlier checks the package and the source first.               *)
Push(j, g) ==
    IF j.publication # None THEN EnterRelease(j)
    ELSE IF g.terminal # None /\ Op(g, "commit").status # "NONE"
    THEN IF j.validation = None THEN Raise(j, "source_validation_missing") ELSE EnterFinish(j, "commit")
    ELSE IF files.source = "changed" THEN Raise(j, "source_changed")
    ELSE IF g.terminal = None \/ InPhase(g, "READY")
    THEN /\ journal' = SetPhase(j, "TRANSFERRING")
         /\ host' = [host EXCEPT !.pc = "send", !.sent = g.terminal # None]
         /\ UNCHANGED <<files, result>>
    ELSE EnterFinish(SetPhase(j, "VERIFYING"), "prepare")

(* Mutant: a resumed pull receives and stages again.                       *)
PullAgain(j, g) ==
    IF j.published THEN Go(j, "publish")
    ELSE IF InPhase(g, "READY") \/ InPhase(g, "PREPARED") THEN Go(SetPhase(j, "TRANSFERRING"), "chunks")
    ELSE Raise(j, "guest_phase_conflict")

(* _pull: an intent or a publication is never followed by a new reception. *)
Pull(j, g) ==
    IF j.intent # None \/ j.published THEN Go(j, "publish")
    ELSE IF InPhase(g, "READY") \/ InPhase(g, "PREPARED") THEN Go(SetPhase(j, "TRANSFERRING"), "chunks")
    ELSE Raise(j, "guest_phase_conflict")

Proceed(j, g) ==
    LET ready == SetPhase(j, "READY") IN IF direction = "push" THEN Push(ready, g) ELSE Pull(ready, g)

(* _ready.                                                                 *)
Ready(j, g) ==
    IF g.error # None THEN Raise(j, g.error)
    ELSE IF ~g.stopped \/ (direction = "pull" /\ g.terminal = None) THEN Go(j, "ready")
    ELSE Proceed(j, g)

RecoverableErrors == {None, "worker_failed", "worker_result_unknown"}

(* _reverify_push, before and after its begin.                             *)
VerifyWait(j, g) ==
    IF ~g.stopped THEN Go(j, "verify_wait")
    ELSE IF g.error \notin RecoverableErrors THEN Raise(j, "chunk_outcome_unresolved")
    ELSE Go(j, "verify_call")

VerifyReady(j, g) ==
    IF g.error # None THEN Raise(j, "chunk_outcome_unresolved")
    ELSE IF ~g.stopped THEN Go(j, "verify_ready")
    ELSE IF ~g.proof \/ g.known \/ g.job # "verify_partial" THEN Raise(j, "chunk_outcome_unresolved")
    ELSE IF host.back = "proceed" THEN Proceed(j, g)
    ELSE IF host.back = "prepare" THEN EnterFinish(SetPhase(j, "VERIFYING"), "prepare")
    ELSE /\ journal' = j
         /\ host' = [host EXCEPT !.pc = "send", !.sent = g.terminal # None]
         /\ UNCHANGED <<files, result>>

(* _begin of a resumed run.                                                *)
Resumed(j, g) ==
    LET resumable == g.terminal = None \/ (direction = "push" /\ InPhase(g, "READY")) IN
    IF g.error # None /\ (~resumable \/ g.error \notin RecoverableErrors) THEN Raise(j, g.error)
    ELSE IF ~resumable THEN Ready(j, g)
    ELSE IF direction = "push" THEN VerifyWait(j, g)
    ELSE IF ~g.stopped THEN Ready(j, g)
    ELSE Go(j, "begin_call")

Vacant == files.dest \in {"none", "removed"}

(* The published tree as verify_tree and the identity checks see it.       *)
DestinationError ==
    IF files.dest = "ours" THEN None
    ELSE IF files.dest = "altered" THEN "tree_content_mismatch"
    ELSE IF files.dest = "pruned" THEN "missing_tree_member"
    ELSE IF files.dest = "foreign" THEN "publication_recovery_conflict"
    ELSE "source_unavailable"

ReleaseProved(j, g) ==
    /\ InPhase(g, "RELEASED") /\ g.error = None
    /\ g.stopped /\ g.job = "release" /\ g.cleaned
    /\ g.terminal.publication = j.publication

(* _verify_released; the proof is saved and host cleanup is still to come. *)
Released(j, g) ==
    IF ~ReleaseProved(j, g) THEN Raise(j, "guest_cleanup_unproven")
    ELSE IF direction = "pull" /\ DestinationError # None THEN Raise(j, DestinationError)
    ELSE Go([j EXCEPT !.destVerified = TRUE, !.guestClean = TRUE, !.hostClean = FALSE], "clean")

Finished(j, g) ==
    \/ host.action = "prepare" /\ direction = "push" /\ Go(j, "validate")
    \/ host.action = "prepare" /\ direction = "pull" /\ Go([j EXCEPT !.stable = TRUE], "publish")
    \/ host.action = "commit"  /\ EnterRelease(j)
    \/ host.action = "release" /\ Released(j, g)

(* Mutant: a release is taken for done as soon as its worker has stopped.  *)
PolledOnce(j, g) ==
    LET op == Op(g, host.action) IN
    IF g.terminal = None THEN Raise(j, "guest_terminal_missing")
    ELSE IF op.status = "FAILED" THEN Raise(j, op.result.error)
    ELSE IF g.stopped /\ (op.status = "DONE" \/ (op.status = "IN_PROGRESS" /\ host.action = "release"))
    THEN Finished(j, g)
    ELSE IF g.stopped /\ j.attempts[host.action] < RetryCap THEN Go(j, "request")
    ELSE IF g.stopped THEN Raise(j, "action_retry_exhausted")
    ELSE Go(j, "poll")

(* Mutant: an action that has started is only waited for.                  *)
PolledWaits(j, g) ==
    LET op == Op(g, host.action) IN
    IF g.terminal = None THEN Raise(j, "guest_terminal_missing")
    ELSE IF op.status = "DONE" THEN IF g.stopped THEN Finished(j, g) ELSE Go(j, "poll")
    ELSE IF op.status = "FAILED" THEN Raise(j, op.result.error)
    ELSE IF op.status = "NONE" THEN Go(j, "request")
    ELSE Go(j, "poll")

(* The loop of _finish.                                                    *)
Polled(j, g) ==
    LET op == Op(g, host.action) IN
    IF g.terminal = None THEN Raise(j, "guest_terminal_missing")
    ELSE IF op.status # "NONE" /\ op.inputs # j.asked[host.action]
    THEN Raise(j, "guest_operation_conflict")
    ELSE IF op.status = "DONE" THEN IF g.stopped THEN Finished(j, g) ELSE Go(j, "poll")
    ELSE IF op.status = "FAILED" THEN Raise(j, op.result.error)
    ELSE IF g.stopped THEN
         IF j.attempts[host.action] < RetryCap THEN Go(j, "request") ELSE Raise(j, "action_retry_exhausted")
    ELSE IF g.error # None THEN Raise(j, g.error)
    ELSE Go(j, "poll")

-----------------------------------------------------------------------------
(* The steps of a run.                                                     *)

Local == UNCHANGED <<guest, late, bounds>>

(* What an earlier run left at the guest and this one does not work around:*)
(* a worker's error, or a prepare still running, which _begin mistakes for *)
(* a prefix verification and reports as chunk_outcome_unresolved.          *)
Leftover == guest.error # None \/ (direction = "push" /\ guest.alive /\ guest.job = "prepare")

Start ==
    /\ At("idle") /\ bounds.runs < MaxRuns
    /\ \E abort \in (IF bounds.runs = 0 THEN {FALSE} ELSE BOOLEAN) :
          host' = [pc |-> "connect", action |-> "prepare", back |-> "proceed", sent |-> FALSE,
                   abort |-> abort]
    /\ journal' = [SetPhase(journal, "PREPARING") EXCEPT !.destVerified = None]
    /\ result' = None
    /\ bounds' = [bounds EXCEPT !.runs = @ + 1, !.quiet = TRUE, !.inherited = Leftover]
    /\ UNCHANGED <<files, guest, late>>

(* select_adapter and the head of _connected, up to the guest request.     *)
Connect ==
    /\ At("connect") /\ InTime
    /\ \/ Faulty /\ Raise(journal, "connection_failed") /\ UNCHANGED <<guest, late>>
       \/ /\ host.abort
          /\ IF journal.begun THEN Go(journal, "abort_status")
             ELSE End(SetPhase(journal, "CANCELLED"), "incomplete", "transfer_cancelled") /\ UNCHANGED files
          /\ Local
       \/ /\ ~host.abort
          /\ IF direction = "push" /\ files.temp = "none"
             THEN /\ files' = [files EXCEPT !.temp = "unregistered"]
                  /\ host' = [host EXCEPT !.pc = "register_package"]
                  /\ UNCHANGED <<journal, result>>
             ELSE IF files.temp = "unregistered"
             THEN Raise(journal, "host_package_reconcile_required")
             ELSE Go(journal, IF journal.begun THEN "begin" ELSE "begin_call")
          /\ Local

RegisterPackage ==
    /\ At("register_package")
    /\ files' = [files EXCEPT !.temp = "ready"]
    /\ host' = [host EXCEPT !.pc = "begin_call"]
    /\ UNCHANGED <<journal, result>> /\ Local

(* _begin: a begun transfer is queried first.                              *)
Begin ==
    /\ At("begin")
    /\ IF guest.made THEN Status(Resumed, TRUE) ELSE InTime /\ Go(journal, "begin_call") /\ Local

BeginCall ==
    LET j == [journal EXCEPT !.begun = TRUE] IN
    /\ At("begin_call")
    /\ \/ /\ InTime /\ Answers(guest, Call("begin"))
          /\ LET g == Settled(BeginAt(guest)) IN guest' = g /\ Ready(Ingested(j, g), g)
          /\ UNCHANGED <<late, bounds>>
       \/ Unanswered(Call("begin")) /\ Go(j, "ready")
       \/ ~InTime /\ Raise(j, "deadline_exceeded") /\ Local

AwaitReady ==
    /\ At("ready")
    /\ IF guest.made THEN Status(Ready, FALSE) ELSE InTime /\ Raise(journal, "task_not_found") /\ Local

(* _send: an unanswered batch is settled by a new prefix verification.     *)
Send ==
    /\ At("send")
    /\ IF host.sent
       THEN /\ Local /\ InTime
            /\ host' = [host EXCEPT !.pc = "verify_wait", !.back = "prepare"]
       ELSE \/ /\ Answered(Call("chunks")) /\ UNCHANGED bounds
               /\ host' = [host EXCEPT !.sent = TRUE]
            \/ /\ Unanswered(Call("chunks"))
               /\ host' = [host EXCEPT !.pc = "verify_wait", !.back = "send"]
    /\ UNCHANGED <<journal, files, result>>

AwaitIdle == At("verify_wait") /\ Status(VerifyWait, TRUE)

VerifyCall ==
    /\ At("verify_call")
    /\ \/ /\ InTime /\ Answers(guest, Call("begin"))
          /\ LET g == Settled(BeginAt(guest)) IN guest' = g /\ VerifyReady(Ingested(journal, g), g)
          /\ UNCHANGED <<late, bounds>>
       \/ Unanswered(Call("begin")) /\ Go(journal, "verify_ready")

AwaitProof == At("verify_ready") /\ Status(VerifyReady, FALSE)

Poll == At("poll") /\ Status(Polled, FALSE)

(* The attempt is counted, and a commit made uncertain, before the call.   *)
Request ==
    LET action == host.action
        j == [journal EXCEPT !.attempts[action] = @ + 1, !.unknown = @ \/ action = "commit"]
        r == [call |-> action, inputs |-> journal.asked[action]]
    IN  /\ At("request")
        /\ \/ /\ Answered(r) /\ UNCHANGED bounds
              /\ IF AcceptError(j, guest', action) # None THEN Raise(j, AcceptError(j, guest', action))
                 ELSE Go(Accepted(j, guest', action), "poll")
           \/ /\ Answered(r) /\ Faulty /\ AcceptError(j, guest', action) = None
              /\ Go([Accepted(j, guest', action) EXCEPT !.adapterPending = TRUE], "poll")
           \/ Unanswered(r) /\ Go(j, "poll")
           \/ ~InTime /\ Raise(j, "deadline_exceeded") /\ Local

(* verify_push_source and the source validation receipt.                   *)
Validate ==
    LET r == [binding |-> "K", prepare |-> journal.prepare, id |-> journal.prepare.id] IN
    /\ At("validate")
    /\ IF files.source = "changed" THEN Raise(journal, "source_changed")
       ELSE IF journal.validation \notin {None, r} THEN Raise(journal, "source_validation_conflict")
       ELSE EnterFinish([journal EXCEPT !.validation = r, !.stable = TRUE], "commit")
    /\ Local

(* The reception loop of _pull; HostPartial keeps the bytes.               *)
Chunks ==
    /\ At("chunks")
    /\ \/ /\ files.temp = "ready" \/ (InTime /\ ~guest.cancelled)
          /\ files' = [files EXCEPT !.temp = "ready"]
          /\ journal' = SetPhase(journal, "VERIFYING")
          /\ host' = [host EXCEPT !.pc = "stage"]
          /\ UNCHANGED result /\ Local
       \/ files.temp # "ready" /\ InTime /\ guest.cancelled /\ Raise(journal, "transfer_cancelled") /\ Local
       \/ /\ files.temp # "ready" /\ InTime /\ Faulty
          /\ Raise(journal, "outcome_unknown") /\ UNCHANGED <<guest, late>>

(* prepare_pull: the stage is created, registered, then filled.            *)
Stage ==
    /\ At("stage") /\ Local
    /\ \/ ~Vacant /\ Raise(journal, "destination_exists")
       \/ /\ Vacant /\ files.stage = "unregistered"
          /\ Raise(journal, "stage_reconcile_required")
       \/ /\ Vacant /\ files.stage \in {"none", "registered"}
          /\ files' = [files EXCEPT !.stage = IF @ = "none" THEN "unregistered" ELSE "full"]
          /\ host' = [host EXCEPT !.pc = IF files.stage = "none" THEN "register_stage" ELSE "stage"]
          /\ UNCHANGED <<journal, result>>
       \/ Vacant /\ files.stage = "full" /\ EnterFinish(journal, "prepare")

RegisterStage ==
    /\ At("register_stage")
    /\ files' = [files EXCEPT !.stage = "registered"]
    /\ host' = [host EXCEPT !.pc = "stage"]
    /\ UNCHANGED <<journal, result>> /\ Local

(* Mutant: the publication is recorded before the rename.                  *)
PublishMarks ==
    /\ At("publish") /\ Local
    /\ IF journal.intent # None THEN Go(journal, "rename")
       ELSE Go([journal EXCEPT !.published = TRUE,
                               !.intent = [binding |-> "K", prepare |-> journal.prepare, id |-> FreshId]],
               "rename")

(* HostPublication.publish: the intent fixes the receipt before the rename.*)
Publish ==
    /\ At("publish") /\ Local
    /\ IF journal.intent # None THEN Go(journal, "rename")
       ELSE IF ~Vacant THEN Raise(journal, "destination_exists")
       ELSE Go([journal EXCEPT !.intent = [binding |-> "K", prepare |-> journal.prepare, id |-> FreshId]],
               "rename")

(* Rename exclusively, or recover the rename of an earlier run.            *)
Rename ==
    LET seen == [journal EXCEPT !.published = TRUE] IN
    /\ At("rename") /\ Local
    /\ \/ files.dest = "ours" /\ Go(seen, "receipt")
       \/ files.dest \in {"altered", "pruned"} /\ Raise(seen, DestinationError)
       \/ files.dest = "foreign" /\ Raise(journal, DestinationError)
       \/ /\ Vacant /\ journal.published
          /\ Raise(journal, "published_destination_missing")
       \/ /\ Vacant /\ ~journal.published /\ files.stage = "none"
          /\ Raise([journal EXCEPT !.unknown = TRUE], "publication_outcome_unknown")
       \/ /\ Vacant /\ ~journal.published /\ files.stage = "full"
          /\ files' = [files EXCEPT !.dest = "ours", !.stage = "none"]
          /\ host' = [host EXCEPT !.pc = "mark"]
          /\ UNCHANGED <<journal, result>>

(* _mark_published, then _verify_destination.                              *)
MarkPublished ==
    LET seen == [journal EXCEPT !.published = TRUE] IN
    /\ At("mark") /\ Local
    /\ IF DestinationError # None THEN Raise(seen, DestinationError) ELSE Go(seen, "receipt")

(* Mutant: a published pull is cleaned up before the guest has released.   *)
StoreReceiptCleans ==
    /\ At("receipt") /\ Local
    /\ Go([journal EXCEPT !.publication = journal.intent, !.phase = "CLEANING"], "clean")

StoreReceipt ==
    /\ At("receipt") /\ Local
    /\ EnterRelease([journal EXCEPT !.publication = journal.intent, !.phase = "PUBLISHED"])

(* Mutant: a saved cleanup intent is taken for a finished cleanup.         *)
CleanOnce ==
    /\ At("clean") /\ Local
    /\ IF journal.adapterPending
       THEN End(journal, "cleanup_pending", "adapter_cleanup_pending") /\ UNCHANGED files
       ELSE IF journal.cleanIntent THEN Go(journal, "final")
       ELSE Go([journal EXCEPT !.cleanIntent = TRUE], "delete")

(* HostCleanup.clean: its gate, then the intent that names the targets.    *)
Clean ==
    /\ At("clean") /\ Local
    /\ IF journal.adapterPending
       THEN End(journal, "cleanup_pending", "adapter_cleanup_pending") /\ UNCHANGED files
       ELSE IF direction = "pull" /\ DestinationError # None
       THEN End(journal, "cleanup_pending", DestinationError) /\ UNCHANGED files
       ELSE Go([journal EXCEPT !.cleanIntent = TRUE], "delete")

Delete ==
    /\ At("delete") /\ Local
    /\ files' = [files EXCEPT !.temp = "gone"]
    /\ host' = [host EXCEPT !.pc = "final"]
    /\ UNCHANGED <<journal, result>>

(* Cleanup recorded; a pull reads its destination once more.               *)
Finalize ==
    LET j == [journal EXCEPT !.hostClean = TRUE] IN
    /\ At("final") /\ Local
    /\ IF direction = "pull" /\ DestinationError # None THEN Raise(j, DestinationError)
       ELSE IF bounds.expired THEN Raise(j, "deadline_exceeded")
       ELSE End(j, "complete", None) /\ UNCHANGED files

(* run(abort=True).                                                        *)
AbortSeen(j, g) == Go(j, "abort_call")
AbortDone(j, g) == End(SetPhase(j, "CANCELLED"), "incomplete", "transfer_cancelled") /\ UNCHANGED files

Abort ==
    \/ /\ At("abort_status") \/ At("abort_done")
       /\ IF ~guest.made THEN InTime /\ Raise(journal, "task_not_found") /\ Local
          ELSE IF At("abort_status") THEN Status(AbortSeen, FALSE) ELSE Status(AbortDone, FALSE)
    \/ /\ At("abort_call")
       /\ \/ Answered(Call("abort")) /\ UNCHANGED bounds /\ Go(journal, "abort_done")
          \/ Unanswered(Call("abort")) /\ Raise(journal, "outcome_unknown")

(* The original deadline, checked before and after every call and between  *)
(* local steps.  A rename that was made, and the intent of a begin or of a *)
(* finish, are recorded first.                                             *)
DeadlineEnds ==
    /\ ~InTime /\ host.pc \notin {"idle", "mark", "begin_call", "request"}
    /\ Raise(journal, "deadline_exceeded")
    /\ Local

HostStep ==
    \/ Connect \/ RegisterPackage \/ Begin \/ BeginCall \/ AwaitReady \/ Send \/ AwaitIdle
    \/ VerifyCall \/ AwaitProof \/ Poll \/ Request \/ Validate \/ Chunks \/ Stage \/ RegisterStage
    \/ Publish \/ Rename \/ MarkPublished \/ StoreReceipt \/ Clean \/ Delete \/ Finalize \/ Abort
    \/ DeadlineEnds

(* The host process is killed.                                             *)
Crash ==
    /\ ~At("idle")
    /\ host' = [host EXCEPT !.pc = "idle"]
    /\ UNCHANGED <<journal, files, guest, late, result, bounds>>

Expire ==
    /\ ~bounds.expired /\ ~At("idle")
    /\ bounds' = [bounds EXCEPT !.expired = TRUE, !.quiet = FALSE]
    /\ UNCHANGED <<journal, host, files, guest, late, result>>

-----------------------------------------------------------------------------
(* The guest's worker, and everyone else.                                  *)

Exited(g) == [g EXCEPT !.alive = FALSE]
SourceRefused == direction = "pull" /\ files.source = "changed"

(* One saved step of the current job.                                      *)
Worked(g) ==
    LET prepared  == [binding |-> "K", id |-> FreshId]
        published == [binding |-> "K", prepare |-> g.terminal.prepare, id |-> FreshId]
    IN  IF g.job = "package" THEN [Exited(g) EXCEPT !.terminal = FreshTerminal]
        ELSE IF g.job = "verify_partial" THEN [Exited(g) EXCEPT !.proof = TRUE]
        ELSE IF g.job = "prepare" THEN [Exited(g) EXCEPT !.terminal = PrepareDone(@, prepared)]
        ELSE IF g.job = "commit" THEN
             IF g.intent = None THEN [g EXCEPT !.intent = published]
             ELSE [Exited(g) EXCEPT !.terminal = CommitDone(@, g.intent)]
        ELSE IF g.terminal.authorized = None THEN [g EXCEPT !.terminal = ReleaseAuthorized(@)]
        ELSE IF direction = "pull" /\ ~g.cleaned THEN [g EXCEPT !.cleaned = TRUE]
        ELSE [Exited(g) EXCEPT !.cleaned = TRUE]

ReadsSource == guest.job = "prepare" \/ (guest.job = "release" /\ guest.terminal.authorized = None)

GuestWork ==
    /\ guest.alive
    /\ ~(SourceRefused /\ ReadsSource)
    /\ guest' = Worked(guest)
    /\ UNCHANGED <<journal, host, files, late, result, bounds>>

(* The except branch of _child.                                            *)
Raised(g, code, staged) ==
    LET failed == [Exited(g) EXCEPT !.error = code] IN
    IF /\ g.job \in Actions
       /\ ActionFails(g.terminal, g.job, Op(g, g.job).id)
       /\ ~(g.job = "commit" /\ g.intent # None) /\ ~(g.job = "prepare" /\ staged)
    THEN [failed EXCEPT !.terminal = ActionFailed(@, g.job, code)] ELSE failed

GuestRaises ==
    /\ guest.alive
    /\ \/ Faulty /\ \E staged \in (IF direction = "push" THEN BOOLEAN ELSE {FALSE}) :
                      guest' = Raised(guest, "worker_failed", staged)
       \/ /\ SourceRefused /\ ReadsSource
          /\ guest' = Raised(guest, "source_changed", FALSE)
          /\ UNCHANGED bounds
    /\ UNCHANGED <<journal, host, files, late, result>>

GuestKilled ==
    /\ guest.alive /\ Faulty
    /\ guest' = Exited(guest)
    /\ UNCHANGED <<journal, host, files, late, result>>

(* A request the host gave up on reaches the guest after all.              *)
LateRequest ==
    /\ \E r \in late :
          /\ guest' \in Executed(guest, r) /\ late' = late \ {r}
          /\ bounds' = [bounds EXCEPT !.quiet = FALSE, !.overdue = @ \/ r.call = "commit"]
    /\ UNCHANGED <<journal, host, files, result>>

(* The sources change after their first capture; the pull destination is   *)
(* taken by others, or altered, pruned or removed after the rename.        *)
OtherUsers ==
    /\ \/ /\ files.source = "same" /\ (direction = "push" => files.temp # "none")
          /\ files' = [files EXCEPT !.source = "changed"]
       \/ /\ direction = "pull" /\ Vacant
          /\ files' = [files EXCEPT !.dest = "foreign"]
       \/ /\ files.dest = "ours"
          /\ \E damage \in {"altered", "pruned", "removed"} : files' = [files EXCEPT !.dest = damage]
    /\ bounds' = [bounds EXCEPT !.quiet = FALSE]
    /\ UNCHANGED <<journal, host, guest, late, result>>

GuestStep == GuestWork \/ GuestRaises

Next ==
    /\ \/ Start \/ HostStep \/ Crash \/ Expire
       \/ GuestStep \/ GuestKilled \/ LateRequest \/ OtherUsers
    /\ UNCHANGED direction

Spec == Init /\ [][Next]_vars

(* A running host process and a running worker take their next step.       *)
Fairness == /\ WF_vars(HostStep /\ UNCHANGED direction)
            /\ WF_vars(GuestStep /\ UNCHANGED direction)

FairSpec == Spec /\ Fairness

-----------------------------------------------------------------------------
Told == result # None

(* validate_result: what it asks of outcome, phases and facts.  Its checks *)
(* of the single fields and of the evidence files always hold here.        *)
Validates(r) ==
    /\ r.receipt \/ {r.phase, r.last} \cap {"PUBLISHED", "CLEANING", "COMPLETE"} # {} => r.published = TRUE
    /\ r.phase = "COMPLETE" => r.outcome = "complete"
    /\ r.outcome = "complete" =>
          /\ r.phase = "COMPLETE" /\ r.published = TRUE /\ r.destVerified = TRUE
          /\ r.hostClean /\ r.guestClean /\ r.stable /\ r.receipt
    /\ r.outcome = "rejected" => r.phase = "FAILED" /\ r.published = FALSE /\ ~r.receipt
    /\ r.outcome = "conflict" => r.phase \in {"CONFLICT", "FAILED"}
    /\ r.outcome = "cleanup_pending" =>
          /\ r.phase \in {"PUBLISHED", "CLEANING"} /\ r.published = TRUE /\ r.receipt
          /\ ~(r.hostClean /\ r.guestClean) /\ r.destVerified # FALSE

(* validate_result accepts every document _result builds; otherwise run    *)
(* would raise and report nothing.  Only a commit executed after the host  *)
(* had reported the source as changed can leave a completed transfer whose *)
(* journal lacks the stability the document needs.                         *)
ResultIsValid ==
    Told => \/ Validates(result)
            \/ bounds.overdue /\ Validates([result EXCEPT !.stable = TRUE])

(* "a tool success alone cannot grant completion": COMPLETE means that the *)
(* guest has released under the very publication the host recorded, that   *)
(* its worker is gone and that no temporary of either side is left.        *)
CompleteIsProved ==
    Told /\ result.outcome = "complete" =>
        /\ InPhase(guest, "RELEASED") /\ guest.stopped /\ guest.cleaned
        /\ guest.terminal.publication = journal.publication
        /\ files.temp = "gone" /\ files.stage # "full"
        /\ ~journal.adapterPending

(* What the journal pins is what the guest recorded: operation ids, inputs *)
(* and receipts agree after any loss of answers and any number of runs,    *)
(* and published_ever is only set for a publication that was made.         *)
HostMatchesGuest ==
    /\ \A a \in Actions : journal.operations[a] # None =>
          guest.terminal # None /\ journal.operations[a] = Identity(guest.terminal, a)
    /\ journal.prepare # None => guest.terminal # None /\ journal.prepare = guest.terminal.prepare
    /\ guest.terminal # None => ~Differs(journal.publication, guest.terminal.publication)
    /\ journal.published =>
          IF direction = "push" THEN guest.intent # None /\ journal.publication = guest.intent
          ELSE journal.intent # None /\ files.stage = "none"

Undisturbed == files.source = "same" /\ files.dest \in {"none", "ours"}

(* A conflict is reported only when somebody changed the sources or the    *)
(* destination: retries, lost answers and restarts never make the host     *)
(* disagree with itself or with the guest.                                 *)
NoFalseConflict ==
    Told /\ result.outcome = "conflict" => ~Undisturbed

(* "Registered host temporary files are deleted only after guest and       *)
(* destination proof."                                                     *)
CleanupIsAuthorized ==
    [][files.temp # "gone" /\ files'.temp = "gone" =>
          /\ InPhase(guest, "RELEASED") /\ guest.terminal.publication = journal.publication
          /\ journal.published /\ journal.destVerified = TRUE /\ journal.cleanIntent]_vars

Published == IF direction = "push" THEN guest.intent # None
             ELSE files.dest \in {"ours", "altered", "pruned", "removed"}

(* As long as the last result of a push says published_ever=false, the     *)
(* guest has neither published nor a commit under way that still could.    *)
(* The exception is the code's: a commit request without an answer may be  *)
(* under way past the status that clears publication_unknown               *)
(* (host_coordinator.py:180); once it is executed (bounds.overdue) a       *)
(* publication that was denied can still come about.                       *)
FalseIsKnown ==
    direction = "push" /\ Told /\ result.published = FALSE /\ ~bounds.overdue =>
        /\ ~Published
        /\ guest.terminal # None => guest.terminal.ops["commit"].status \in {"NONE", "FAILED"}

(* Causes for which a run without any fault may still not complete.        *)
Excused == \/ host.abort \/ bounds.expired \/ guest.cancelled \/ journal.adapterPending
           \/ files.temp = "unregistered" \/ files.stage = "unregistered"
           \/ \E a \in Actions : journal.attempts[a] = RetryCap

(* A run in which nothing fails completes the transfer, however the runs   *)
(* before it ended, unless the guest still holds the error of a worker.    *)
QuietRunCompletes ==
    Told /\ bounds.quiet /\ Undisturbed /\ ~Excused /\ ~bounds.inherited => result.outcome = "complete"

(* A pull whose packaging worker was killed: status reports neither an     *)
(* error nor a running worker, and the host waits for its deadline.        *)
PackagerLost == /\ direction = "pull" /\ guest.made /\ guest.terminal = None
                /\ ~guest.alive /\ guest.error = None

(* Every run ends, by itself, without waiting for the deadline.            *)
RunEnds == ~At("idle") ~> At("idle") \/ PackagerLost

(* The result of a run is one its schema admits, and a complete one was    *)
(* proved by the guest's receipts.                                         *)
ResultIsTrue == ResultIsValid /\ CompleteIsProved

(* The host does not claim ahead of what it was told: a publication it     *)
(* denies comes about only by a commit whose answer it gave up on, and     *)
(* only what the guest authorized is cleaned.                              *)
ClaimsAreBacked == []FalseIsKnown /\ CleanupIsAuthorized
=============================================================================
