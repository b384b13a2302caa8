--------------------------- MODULE TerminalRules ---------------------------
(***************************************************************************)
(* The guest's terminal action ledger: the class GuestTerminal of          *)
(* velo_transfer/protocol.py as pure operators from one snapshot to the    *)
(* next.  The module keeps no variables, so the guest task model and the   *)
(* host coordinator model use the same rules the ledger model checks.      *)
(*                                                                         *)
(* Abstraction.  The immutable binding K (identities, digests, direction)  *)
(* and the registered destination are one value, "K"; a receipt bound to   *)
(* anything else carries "foreign".  SHA-256 over canonical JSON is        *)
(* collision free, so a digest of a receipt is the receipt itself and the  *)
(* input digest of an operation is its inputs.  Local phases drop their    *)
(* SOURCE_/DEST_ prefix; READY is SOURCE_READY or DEST_RECEIVED.           *)
(***************************************************************************)
EXTENDS Naturals

CONSTANTS
    Direction,  \* "push" (host to guest) or "pull" (guest to host)
    Ids,        \* identifiers drawn from uuid4: operations and receipts
    Codes,      \* error codes a failing worker may record
    None        \* absent value (JSON null)

ASSUME DirectionAssumption == Direction \in {"push", "pull"}
ASSUME NoneAssumption == /\ None \notin Ids
                         /\ None \notin Codes

Actions  == {"prepare", "commit", "release"}
Statuses == {"NONE", "IN_PROGRESS", "DONE", "FAILED"}
Phases   == {"READY", "PREPARED", "PUBLISHED", "RELEASING", "RELEASED",
             "FAILED", "CHANGED"}
Bindings == {"K", "foreign"}

PrepareReceipts     == [binding : Bindings, id : Ids]
ValidationReceipts  == [binding : Bindings, prepare : PrepareReceipts, id : Ids]
PublicationReceipts == [binding : Bindings, prepare : PrepareReceipts, id : Ids]

(* The keyword arguments of begin_action; None for one the action lacks.   *)
Inputs == [prepare     : PrepareReceipts \cup {None},
           validation  : ValidationReceipts \cup {None},
           publication : PublicationReceipts \cup {None}]
NoInputs == [prepare |-> None, validation |-> None, publication |-> None]

(* _object(inputs, keys): an action is only ever tried with its own keys.  *)
ActionInputs(action) ==
    CASE action = "prepare" -> {NoInputs}
      [] action = "commit"  -> [prepare : PrepareReceipts, validation : ValidationReceipts,
                                publication : {None}]
      [] action = "release" -> [prepare : PrepareReceipts, validation : {None},
                                publication : PublicationReceipts]

Results == [prepare     : PrepareReceipts \cup {None},
            publication : PublicationReceipts \cup {None},
            error       : Codes \cup {None}]
NoResult == [prepare |-> None, publication |-> None, error |-> None]

(* An entry of self.operations; status NONE when the key is missing.       *)
Operations == [status : Statuses, id : Ids \cup {None},
               inputs : Inputs, result : Results]
NoOperation == [status |-> "NONE", id |-> None,
                inputs |-> NoInputs, result |-> NoResult]

(* release_authorization: the operation it names and the receipt whose     *)
(* digest it stores.                                                       *)
Authorizations == [id : Ids \cup {None}, publication : PublicationReceipts \cup {None}]

Snapshots == [phase       : Phases,
              prepare     : PrepareReceipts \cup {None},
              publication : PublicationReceipts \cup {None},
              authorized  : Authorizations \cup {None},
              ops         : [Actions -> Operations]]

ASSUME ReceiptsAreNotNone ==
    /\ None \notin PrepareReceipts
    /\ None \notin ValidationReceipts
    /\ None \notin PublicationReceipts
    /\ None \notin Authorizations
    /\ None \notin Snapshots

Entry(status, id, inputs, result) ==
    [status |-> status, id |-> id, inputs |-> inputs, result |-> result]

Ledger(phase, prepare, publication, authorized, ops) ==
    [phase |-> phase, prepare |-> prepare, publication |-> publication,
     authorized |-> authorized, ops |-> ops]

(* GuestTerminal.__init__: the ledger starts when the package is fixed.    *)
FreshTerminal == Ledger("READY", None, None, None, [a \in Actions |-> NoOperation])

-----------------------------------------------------------------------------
(* Receipt validators: binding, and the digests they chain.                *)

ValidPrepare(r) == r \in PrepareReceipts /\ r.binding = "K"

ValidValidation(r, prepare) ==
    /\ Direction = "push"
    /\ r \in ValidationReceipts
    /\ r.binding = "K"
    /\ r.prepare = prepare

ValidPublication(r, prepare) ==
    /\ r \in PublicationReceipts
    /\ r.binding = "K"
    /\ r.prepare = prepare

(* Mutant: a push release takes any publication chained to the prepare.    *)
InputsValidAnyPublication(t, action, in) ==
    \/ action = "prepare" /\ in = NoInputs
    \/ /\ action = "commit"
       /\ Direction = "push"
       /\ in.prepare = t.prepare
       /\ ValidValidation(in.validation, t.prepare)
    \/ /\ action = "release"
       /\ in.prepare = t.prepare
       /\ ValidPublication(in.publication, t.prepare)

(* GuestTerminal._inputs: checked before replay data is even consulted.    *)
InputsValid(t, action, in) ==
    \/ /\ action = "prepare"
       /\ in = NoInputs
    \/ /\ action = "commit"
       /\ Direction = "push"
       /\ in.publication = None
       /\ ValidPrepare(in.prepare)
       /\ in.prepare = t.prepare
       /\ ValidValidation(in.validation, t.prepare)
    \/ /\ action = "release"
       /\ in.validation = None
       /\ ValidPrepare(in.prepare)
       /\ in.prepare = t.prepare
       /\ ValidPublication(in.publication, t.prepare)
       /\ Direction = "push" => in.publication = t.publication

-----------------------------------------------------------------------------
(* begin_action: replay of a recorded operation, or a new one.             *)

ExpectedPhase(action) ==
    IF action = "prepare" THEN "READY"
    ELSE IF action = "release" /\ Direction = "push" THEN "PUBLISHED"
    ELSE "PREPARED"

NoneInProgress(t) == \A a \in Actions : t.ops[a].status # "IN_PROGRESS"

BeginReplays(t, action, in) ==
    /\ InputsValid(t, action, in)
    /\ t.ops[action].status # "NONE"
    /\ t.ops[action].inputs = in

(* Mutant: an interrupted action is begun again with a new operation id.   *)
BeginStartsAgain(t, action, in) ==
    /\ InputsValid(t, action, in)
    /\ t.ops[action].status \in {"NONE", "IN_PROGRESS"}
    /\ t.phase = ExpectedPhase(action)

BeginStarts(t, action, in) ==
    /\ InputsValid(t, action, in)
    /\ t.ops[action].status = "NONE"
    /\ t.phase = ExpectedPhase(action)
    /\ NoneInProgress(t)

Begun(t, action, in, id) ==
    Ledger(t.phase, t.prepare, t.publication, t.authorized,
           [t.ops EXCEPT ![action] = Entry("IN_PROGRESS", id, in, NoResult)])

(* _pending: only the operation a worker was started for may complete.     *)
Pending(t, action, id) ==
    /\ t.ops[action].status = "IN_PROGRESS"
    /\ t.ops[action].id = id

-----------------------------------------------------------------------------
(* Completion methods.  Each is guarded by the predicate before it.        *)

Receipt(prepare, publication) ==
    [prepare |-> prepare, publication |-> publication, error |-> None]

Failure(code) == [prepare |-> None, publication |-> None, error |-> code]

(* The entry of action with its outcome recorded.                          *)
Closed(t, action, status, result) ==
    [t.ops EXCEPT ![action] = Entry(status, t.ops[action].id, t.ops[action].inputs, result)]

PrepareCompletes(t, id, r) == Pending(t, "prepare", id) /\ ValidPrepare(r)

PrepareDone(t, r) ==
    Ledger("PREPARED", r, t.publication, t.authorized,
           Closed(t, "prepare", "DONE", Receipt(r, None)))

CommitCompletes(t, id, r) ==
    /\ Pending(t, "commit", id)
    /\ Direction = "push"
    /\ ValidPublication(r, t.prepare)

CommitDone(t, r) ==
    Ledger("PUBLISHED", t.prepare, r, t.authorized,
           Closed(t, "commit", "DONE", Receipt(None, r)))

(* authorize_release: idempotent once authorized.                          *)
ReleaseAuthorized(t) ==
    IF t.authorized # None THEN t
    ELSE LET op == t.ops["release"] IN
         Ledger("RELEASING", t.prepare, op.inputs.publication,
                [id |-> op.id, publication |-> op.inputs.publication], t.ops)

ReleaseCompletes(t, id) ==
    /\ Pending(t, "release", id)
    /\ t.authorized # None
    /\ t.authorized.id = id

ReleaseDone(t) ==
    Ledger("RELEASED", t.prepare, t.publication, t.authorized,
           Closed(t, "release", "DONE", Receipt(None, t.publication)))

(* Mutant: a cleanup fault after authorization fails the release.          *)
ActionFailsAlways(t, action, id) == Pending(t, action, id)

(* fail_action: refused once release is authorized.                        *)
ActionFails(t, action, id) == Pending(t, action, id) /\ t.authorized = None

FailedPhase(code) ==
    IF Direction = "pull" /\ code = "source_changed" THEN "CHANGED" ELSE "FAILED"

ActionFailed(t, action, code) ==
    Ledger(FailedPhase(code), t.prepare, t.publication, t.authorized,
           Closed(t, action, "FAILED", Failure(code)))

-----------------------------------------------------------------------------
(***************************************************************************)
(* restore: replay the saved operations in the fixed order prepare,        *)
(* commit, release through the methods above, then demand equality with    *)
(* the snapshot.  None stands for the error invalid_terminal_snapshot (or  *)
(* the error of a replayed method): the task can no longer be read.        *)
(***************************************************************************)
ReplayFinish(t, action, op, authorized) ==
    LET authorizing == ReleaseAuthorized(t) IN
    IF op.status = "FAILED" THEN
       IF ActionFails(t, action, op.id) THEN ActionFailed(t, action, op.result.error) ELSE None
    ELSE IF op.status = "DONE" /\ action = "prepare" THEN
       IF PrepareCompletes(t, op.id, op.result.prepare) THEN PrepareDone(t, op.result.prepare) ELSE None
    ELSE IF op.status = "DONE" /\ action = "commit" THEN
       IF CommitCompletes(t, op.id, op.result.publication) THEN CommitDone(t, op.result.publication) ELSE None
    ELSE IF op.status = "DONE" THEN
       IF ReleaseCompletes(authorizing, op.id) THEN ReleaseDone(authorizing) ELSE None
    ELSE IF action = "release" /\ authorized # None THEN authorizing
    ELSE t

Replay(t, saved, action) ==
    IF t = None \/ saved.ops[action].status = "NONE" THEN t
    ELSE LET op == saved.ops[action] IN
         IF BeginStarts(t, action, op.inputs)
         THEN ReplayFinish(Begun(t, action, op.inputs, op.id), action, op, saved.authorized)
         ELSE None

Restore(saved) ==
    LET afterPrepare == Replay(FreshTerminal, saved, "prepare")
        afterCommit  == Replay(afterPrepare, saved, "commit")
        afterRelease == Replay(afterCommit, saved, "release")
    IN  IF afterRelease = saved THEN afterRelease ELSE None
=============================================================================
