--------------------------- MODULE GuestTaskProofs ---------------------------
(***************************************************************************)
(* Proofs about one guest task's terminal jobs, for every set of           *)
(* identifiers and error codes and every number of workers and faults.     *)
(* What GuestTerminalProofs shows of the ledger is used through the two    *)
(* instances of GuestTask: the jobs only take steps of the ledger, so it   *)
(* keeps its shape.  The rest of the invariant says which worker may be    *)
(* where: an operation stays in progress until the worker launched for it  *)
(* records the outcome, and the publish intent is the receipt of the tree. *)
(***************************************************************************)
EXTENDS GuestTask, TLAPS

Stages == {"none", "empty", "partial", "full"}
Tasks == [stage_intent : BOOLEAN, staging : BOOLEAN,
          publish_intent : PublicationReceipts \cup {None},
          owner : [job : Jobs \cup {None}, nonce : 0..MaxWorkers, stopped : BOOLEAN],
          error : Errors \cup {None}, targets : BOOLEAN,
          proof : (1..MaxWorkers) \cup {None}, cleaned : BOOLEAN,
          cancelled : BOOLEAN, expired : BOOLEAN]
Disks == [temps : SUBSET Temporaries, stage : Stages, manifest : {"none", "torn", "complete"},
          dest : {"none", "ours", "altered", "foreign"}]
WorkerStates == [pc : Pcs, code : Codes \cup {None}]

(* The ledger has the shape the engine writes.                             *)
Shape == IF direction = "push" THEN PushLedger!LedgerShape(terminal)
         ELSE PullLedger!LedgerShape(terminal)

Preparing  == {"mkdir", "register", "unpack", "unpacking", "sidecar", "sidecar_write", "persist"}
Committing == {"publish", "receipt"}
Releasing  == {"authorize", "delete", "reverify", "conclude"}
Status(a) == terminal.ops[a].status
Published == disk.dest \in {"ours", "altered"}

(* A launch that is about to be made is for an operation in progress, and  *)
(* the worker that still runs, if any, is another action's.                *)
Requested ==
    /\ request \in Actions => Status(request) = "IN_PROGRESS" /\ (Idle \/ task.owner.job # request)
    /\ request = "verify_partial" => Status("release") = "NONE"

(* The worker of an action runs while its operation is in progress.        *)
Employed ==
    /\ ~Idle => ~task.owner.stopped /\ task.owner.job \in Jobs /\ task.owner.nonce >= 1
    /\ worker.pc \in Preparing => Job("prepare")
    /\ worker.pc \in Committing => Job("commit")
    /\ worker.pc \in Releasing => Job("release")
    /\ ~Idle /\ ~At("exiting") /\ task.owner.job \in Actions => Status(task.owner.job) = "IN_PROGRESS"
    /\ At("failed") => worker.code \in Codes

(* The receipt of a publish intent is bound to the prepare and is not used *)
(* for anything else before it is stored.                                  *)
Intended ==
    LET intent == task.publish_intent IN
    intent # None =>
        /\ direction = "push" /\ Status("commit") # "NONE"
        /\ intent.binding = "K" /\ intent.prepare = terminal.prepare
        /\ terminal.publication = None =>
              intent.id # terminal.prepare.id /\ \A a \in Actions : intent.id # terminal.ops[a].id

(* The tree is renamed into place under an intent.                         *)
Placed ==
    /\ worker.pc \in Committing => task.publish_intent # None
    /\ At("receipt") => Published
    /\ Published => task.publish_intent # None /\ Status("commit") \in {"IN_PROGRESS", "DONE"}
    /\ direction = "push" /\ terminal.publication # None =>
          Published /\ terminal.publication = task.publish_intent

(* Temporaries go under an authorization, and a release that is done left  *)
(* nothing behind.                                                         *)
Cleared ==
    /\ worker.pc \in {"delete", "reverify", "conclude"} => terminal.authorized # None /\ task.targets
    /\ Status("release") = "DONE" =>
          /\ disk.temps = {} /\ Idle /\ Job("release") /\ request = None
          /\ direction = "push" => task.proof = task.owner.nonce

Types == /\ direction \in {"push", "pull"} /\ task \in Tasks /\ disk \in Disks
         /\ worker \in WorkerStates /\ request \in Jobs \cup {None}
         /\ source \in {"same", "changed"} /\ faults \in 0..MaxFaults

(* The inductive invariant.                                                *)
Inv == Types /\ Shape /\ Requested /\ Employed /\ Intended /\ Placed /\ Cleared

-----------------------------------------------------------------------------
(* The task and the two ledgers use the same sets.                         *)
LEMMA PushLedgerSets ==
    /\ Actions = PushLedger!Actions /\ PrepareReceipts = PushLedger!PrepareReceipts
       /\ Statuses = PushLedger!Statuses
    /\ ValidationReceipts = PushLedger!ValidationReceipts
       /\ PublicationReceipts = PushLedger!PublicationReceipts
    /\ Authorizations = PushLedger!Authorizations /\ Snapshots = PushLedger!Snapshots
       /\ NoInputs = PushLedger!NoInputs
    /\ NoResult = PushLedger!NoResult /\ NoOperation = PushLedger!NoOperation
<1>1. /\ Actions = PushLedger!Actions /\ PrepareReceipts = PushLedger!PrepareReceipts
         /\ Statuses = PushLedger!Statuses
      /\ NoInputs = PushLedger!NoInputs /\ NoResult = PushLedger!NoResult /\ Phases = PushLedger!Phases
         /\ Bindings = PushLedger!Bindings
    BY DEF Actions, PushLedger!Actions, PrepareReceipts, PushLedger!PrepareReceipts, Statuses,
           PushLedger!Statuses, NoInputs,
       PushLedger!NoInputs, NoResult, PushLedger!NoResult, Phases, PushLedger!Phases, Bindings,
       PushLedger!Bindings
<1>2. /\ ValidationReceipts = PushLedger!ValidationReceipts
         /\ PublicationReceipts = PushLedger!PublicationReceipts
    BY <1>1 DEF ValidationReceipts, PushLedger!ValidationReceipts, PublicationReceipts,
       PushLedger!PublicationReceipts
<1>3. Authorizations = PushLedger!Authorizations /\ Inputs = PushLedger!Inputs /\ Results = PushLedger!Results
    BY <1>1, <1>2 DEF Authorizations, PushLedger!Authorizations, Inputs, PushLedger!Inputs, Results,
       PushLedger!Results
<1>4. Operations = PushLedger!Operations /\ NoOperation = PushLedger!NoOperation
    BY <1>1, <1>3 DEF Operations, PushLedger!Operations, NoOperation, PushLedger!NoOperation
<1>5. Snapshots = PushLedger!Snapshots
    BY <1>1, <1>2, <1>3, <1>4 DEF Snapshots, PushLedger!Snapshots
<1> QED BY <1>1, <1>2, <1>3, <1>4, <1>5

LEMMA PullLedgerSets ==
    /\ Actions = PullLedger!Actions /\ PrepareReceipts = PullLedger!PrepareReceipts
       /\ Statuses = PullLedger!Statuses
    /\ ValidationReceipts = PullLedger!ValidationReceipts
       /\ PublicationReceipts = PullLedger!PublicationReceipts
    /\ Authorizations = PullLedger!Authorizations /\ Snapshots = PullLedger!Snapshots
       /\ NoInputs = PullLedger!NoInputs
    /\ NoResult = PullLedger!NoResult /\ NoOperation = PullLedger!NoOperation
<1>1. /\ Actions = PullLedger!Actions /\ PrepareReceipts = PullLedger!PrepareReceipts
         /\ Statuses = PullLedger!Statuses
      /\ NoInputs = PullLedger!NoInputs /\ NoResult = PullLedger!NoResult /\ Phases = PullLedger!Phases
         /\ Bindings = PullLedger!Bindings
    BY DEF Actions, PullLedger!Actions, PrepareReceipts, PullLedger!PrepareReceipts, Statuses,
           PullLedger!Statuses, NoInputs,
       PullLedger!NoInputs, NoResult, PullLedger!NoResult, Phases, PullLedger!Phases, Bindings,
       PullLedger!Bindings
<1>2. /\ ValidationReceipts = PullLedger!ValidationReceipts
         /\ PublicationReceipts = PullLedger!PublicationReceipts
    BY <1>1 DEF ValidationReceipts, PullLedger!ValidationReceipts, PublicationReceipts,
       PullLedger!PublicationReceipts
<1>3. Authorizations = PullLedger!Authorizations /\ Inputs = PullLedger!Inputs /\ Results = PullLedger!Results
    BY <1>1, <1>2 DEF Authorizations, PullLedger!Authorizations, Inputs, PullLedger!Inputs, Results,
       PullLedger!Results
<1>4. Operations = PullLedger!Operations /\ NoOperation = PullLedger!NoOperation
    BY <1>1, <1>3 DEF Operations, PullLedger!Operations, NoOperation, PullLedger!NoOperation
<1>5. Snapshots = PullLedger!Snapshots
    BY <1>1, <1>2, <1>3, <1>4 DEF Snapshots, PullLedger!Snapshots
<1> QED BY <1>1, <1>2, <1>3, <1>4, <1>5

(* What the shape of the ledger says of the statuses and the receipts.     *)
Facts ==
    /\ terminal \in Snapshots
    /\ \A a \in Actions : /\ Status(a) \in Statuses
                          /\ Status(a) # "NONE" => terminal.ops[a].id \in Ids
                          /\ Status(a) = "NONE" => terminal.ops[a].id = None
    /\ terminal.prepare # None <=> Status("prepare") = "DONE"
    /\ Status("commit") # "NONE" => direction = "push" /\ Status("prepare") = "DONE"
    /\ direction = "push" => (terminal.publication # None <=> Status("commit") = "DONE")
    /\ Status("release") # "NONE" =>
          /\ Status("prepare") = "DONE"
          /\ direction = "push" => /\ Status("commit") = "DONE"
                                   /\ terminal.ops["release"].inputs.publication = terminal.publication
    /\ Status("release") \in {"NONE", "FAILED"} => terminal.authorized = None
    /\ Status("release") = "DONE" => terminal.authorized # None
    /\ Status("release") = "IN_PROGRESS" /\ terminal.authorized # None => terminal.phase = "RELEASING"
    /\ terminal.phase = "READY" => Status("commit") = "NONE" /\ Status("release") = "NONE"
    /\ direction = "pull" => (terminal.publication # None <=> terminal.authorized # None)

LEMMA PushFacts ==
    ASSUME Shape, direction = "push"
    PROVE  Facts
<1> DEFINE t == terminal
           p == t.ops["prepare"]
           c == t.ops["commit"]
           r == t.ops["release"]
<1>1. /\ PushLedger!PrepareShape(t) /\ PushLedger!CommitShape(t) /\ PushLedger!ReleaseShape(t)
         /\ PushLedger!PhaseShape(t)
      /\ t \in PushLedger!Snapshots
    BY DEF Shape, PushLedger!LedgerShape
<1>2. t \in Snapshots
    BY <1>1, PushLedgerSets
<1>3. \A a \in Actions : PushLedger!EntryShape(t.ops[a]) /\ t.ops[a].status \in Statuses
  <2>1. \A a \in Actions : a = "prepare" \/ a = "commit" \/ a = "release"
    BY DEF Actions
  <2>2. \A a \in Actions : t.ops[a].status \in Statuses
    BY <1>2 DEF Snapshots, Operations
  <2> QED BY <1>1, <2>1, <2>2 DEF PushLedger!PrepareShape, PushLedger!CommitShape, PushLedger!ReleaseShape
<1>4. \A a \in Actions : /\ t.ops[a].status # "NONE" => t.ops[a].id \in Ids
                         /\ t.ops[a].status = "NONE" => t.ops[a].id = None
    BY <1>3 DEF PushLedger!EntryShape, PushLedger!NoOperation
<1>5. t.prepare # None <=> p.status = "DONE"
    BY <1>1 DEF PushLedger!PrepareShape
<1>6. /\ c.status # "NONE" => direction = "push" /\ p.status = "DONE"
      /\ t.publication # None <=> c.status = "DONE"
    BY <1>1 DEF PushLedger!CommitShape, PushLedger!ReleaseShape
<1>7. /\ r.status # "NONE" => p.status = "DONE" /\ c.status = "DONE" /\ r.inputs.publication = t.publication
      /\ r.status \in {"NONE", "FAILED"} => t.authorized = None
      /\ r.status = "DONE" => t.authorized # None
    BY <1>1 DEF PushLedger!ReleaseShape, PushLedger!InputsValid
<1>8. p.status \in Statuses /\ c.status \in Statuses /\ r.status \in Statuses
    BY <1>3 DEF Actions
<1>9. r.status = "IN_PROGRESS" /\ t.authorized # None => t.phase = "RELEASING"
    BY <1>1 DEF PushLedger!PhaseShape
<1>10. t.phase = "READY" => c.status = "NONE" /\ r.status = "NONE"
    BY <1>1, <1>6, <1>7, <1>8 DEF PushLedger!PhaseShape, PushLedger!FailedPhase, Statuses
<1> QED BY <1>2, <1>3, <1>4, <1>5, <1>6, <1>7, <1>9, <1>10 DEF Facts, Status

LEMMA PullFacts ==
    ASSUME Shape, direction = "pull"
    PROVE  Facts
<1> DEFINE t == terminal
           p == t.ops["prepare"]
           c == t.ops["commit"]
           r == t.ops["release"]
<1>1. /\ PullLedger!PrepareShape(t) /\ PullLedger!CommitShape(t) /\ PullLedger!ReleaseShape(t)
         /\ PullLedger!PhaseShape(t)
      /\ t \in PullLedger!Snapshots
    BY DEF Shape, PullLedger!LedgerShape
<1>2. t \in Snapshots
    BY <1>1, PullLedgerSets
<1>3. \A a \in Actions : PullLedger!EntryShape(t.ops[a]) /\ t.ops[a].status \in Statuses
  <2>1. \A a \in Actions : a = "prepare" \/ a = "commit" \/ a = "release"
    BY DEF Actions
  <2>2. \A a \in Actions : t.ops[a].status \in Statuses
    BY <1>2 DEF Snapshots, Operations
  <2> QED BY <1>1, <2>1, <2>2 DEF PullLedger!PrepareShape, PullLedger!CommitShape, PullLedger!ReleaseShape
<1>4. \A a \in Actions : /\ t.ops[a].status # "NONE" => t.ops[a].id \in Ids
                         /\ t.ops[a].status = "NONE" => t.ops[a].id = None
    BY <1>3 DEF PullLedger!EntryShape, PullLedger!NoOperation
<1>5. t.prepare # None <=> p.status = "DONE"
    BY <1>1 DEF PullLedger!PrepareShape
<1>6. /\ c.status # "NONE" => FALSE /\ p.status = "DONE"
      /\ t.publication # None <=> t.authorized # None
    BY <1>1 DEF PullLedger!CommitShape, PullLedger!ReleaseShape
<1>7. /\ r.status # "NONE" => p.status = "DONE"
      /\ r.status \in {"NONE", "FAILED"} => t.authorized = None
      /\ r.status = "DONE" => t.authorized # None
    BY <1>1 DEF PullLedger!ReleaseShape
<1>8. p.status \in Statuses /\ c.status \in Statuses /\ r.status \in Statuses
    BY <1>3 DEF Actions
<1>9. r.status = "IN_PROGRESS" /\ t.authorized # None => t.phase = "RELEASING"
    BY <1>1 DEF PullLedger!PhaseShape
<1>10. t.phase = "READY" => c.status = "NONE" /\ r.status = "NONE"
    BY <1>1, <1>6, <1>7, <1>8 DEF PullLedger!PhaseShape, PullLedger!FailedPhase, Statuses
<1> QED BY <1>2, <1>3, <1>4, <1>5, <1>6, <1>7, <1>9, <1>10 DEF Facts, Status

LEMMA ShapeFacts == ASSUME Types, Shape PROVE Facts
BY PushFacts, PullFacts DEF Types

-----------------------------------------------------------------------------
(* Steps of the ledger.                                                    *)

LEMMA PushKept ==
    ASSUME Shape, direction = "push", direction' = direction, PushLedger!Next \/ UNCHANGED terminal
    PROVE  Shape'
<1>1. PushLedger!IInv
    BY DEF Shape, PushLedger!IInv, PushLedger!DisclosuresHold
<1>2. CASE PushLedger!Next
  <2>1. PushLedger!IInv'
    BY <1>1, <1>2, NoneIsAbsent, PushLedgerSets, PushLedger!StepGood
  <2> QED BY <2>1 DEF Shape, PushLedger!IInv
<1>3. CASE UNCHANGED terminal
    BY <1>3 DEF Shape
<1> QED BY <1>2, <1>3

LEMMA PullKept ==
    ASSUME Shape, direction = "pull", direction' = direction, PullLedger!Next \/ UNCHANGED terminal
    PROVE  Shape'
<1>1. PullLedger!IInv
    BY DEF Shape, PullLedger!IInv, PullLedger!DisclosuresHold
<1>2. CASE PullLedger!Next
  <2>1. PullLedger!IInv'
    BY <1>1, <1>2, NoneIsAbsent, PullLedgerSets, PullLedger!StepGood
  <2> QED BY <2>1 DEF Shape, PullLedger!IInv
<1>3. CASE UNCHANGED terminal
    BY <1>3 DEF Shape
<1> QED BY <1>2, <1>3

LEMMA ShapeKept ==
    ASSUME Types, Shape, UNCHANGED direction, LedgerNext \/ UNCHANGED terminal
    PROVE  Shape'
BY PushKept, PullKept DEF Types, LedgerNext

(* A saved ledger is read back unchanged.                                  *)
LEMMA PushReads ==
    ASSUME Shape, direction = "push"
    PROVE  PushLedger!Restore(terminal) = terminal /\ terminal # None
BY NoneIsAbsent, PushLedgerSets, PushLedger!RestoreIdentity DEF Shape

LEMMA PullReads ==
    ASSUME Shape, direction = "pull"
    PROVE  PullLedger!Restore(terminal) = terminal /\ terminal # None
BY NoneIsAbsent, PullLedgerSets, PullLedger!RestoreIdentity DEF Shape

(* The task applies the rules of its direction's ledger.                   *)
LEMMA PushLedgerRules ==
    ASSUME direction = "push", NEW t, NEW a, NEW in, NEW id, NEW x
    PROVE  /\ BeginStarts(t, a, in) <=> PushLedger!BeginStarts(t, a, in)
           /\ Begun(t, a, in, id) = PushLedger!Begun(t, a, in, id)
           /\ PrepareCompletes(t, id, x) <=> PushLedger!PrepareCompletes(t, id, x)
           /\ PrepareDone(t, x) = PushLedger!PrepareDone(t, x)
           /\ CommitCompletes(t, id, x) <=> PushLedger!CommitCompletes(t, id, x)
           /\ CommitDone(t, x) = PushLedger!CommitDone(t, x)
           /\ ReleaseAuthorized(t) = PushLedger!ReleaseAuthorized(t)
           /\ ReleaseCompletes(t, id) <=> PushLedger!ReleaseCompletes(t, id)
           /\ ReleaseDone(t) = PushLedger!ReleaseDone(t)
           /\ ActionFails(t, a, id) <=> PushLedger!ActionFails(t, a, id)
           /\ ActionFailed(t, a, x) = PushLedger!ActionFailed(t, a, x)
           /\ FreshTerminal = PushLedger!FreshTerminal
<1>1. InputsValid(t, a, in) <=> PushLedger!InputsValid(t, a, in)
    BY PushLedgerSets DEF InputsValid, PushLedger!InputsValid, ValidPrepare, PushLedger!ValidPrepare,
       ValidValidation, PushLedger!ValidValidation, ValidPublication, PushLedger!ValidPublication
<1>2. BeginStarts(t, a, in) <=> PushLedger!BeginStarts(t, a, in)
    BY <1>1, PushLedgerSets DEF BeginStarts, PushLedger!BeginStarts, ExpectedPhase,
       PushLedger!ExpectedPhase, NoneInProgress, PushLedger!NoneInProgress
<1>3. Begun(t, a, in, id) = PushLedger!Begun(t, a, in, id)
    BY PushLedgerSets DEF Begun, PushLedger!Begun, Ledger, PushLedger!Ledger, Entry, PushLedger!Entry
<1>4. /\ PrepareCompletes(t, id, x) <=> PushLedger!PrepareCompletes(t, id, x)
      /\ CommitCompletes(t, id, x) <=> PushLedger!CommitCompletes(t, id, x)
      /\ ReleaseCompletes(t, id) <=> PushLedger!ReleaseCompletes(t, id)
      /\ ActionFails(t, a, id) <=> PushLedger!ActionFails(t, a, id)
    BY PushLedgerSets DEF PrepareCompletes, PushLedger!PrepareCompletes, CommitCompletes,
       PushLedger!CommitCompletes, ReleaseCompletes, PushLedger!ReleaseCompletes, ActionFails,
       PushLedger!ActionFails, Pending, PushLedger!Pending, ValidPrepare, PushLedger!ValidPrepare,
       ValidPublication, PushLedger!ValidPublication
<1>5. PrepareDone(t, x) = PushLedger!PrepareDone(t, x)
    BY PushLedgerSets DEF PrepareDone, PushLedger!PrepareDone, Closed, PushLedger!Closed, Receipt,
       PushLedger!Receipt, Ledger, PushLedger!Ledger, Entry, PushLedger!Entry
<1>6. CommitDone(t, x) = PushLedger!CommitDone(t, x)
    BY PushLedgerSets DEF CommitDone, PushLedger!CommitDone, Closed, PushLedger!Closed, Receipt,
       PushLedger!Receipt, Ledger, PushLedger!Ledger, Entry, PushLedger!Entry
<1>7. ReleaseDone(t) = PushLedger!ReleaseDone(t)
    BY PushLedgerSets DEF ReleaseDone, PushLedger!ReleaseDone, Closed, PushLedger!Closed, Receipt,
       PushLedger!Receipt, Ledger, PushLedger!Ledger, Entry, PushLedger!Entry
<1>8. ReleaseAuthorized(t) = PushLedger!ReleaseAuthorized(t)
    BY PushLedgerSets DEF ReleaseAuthorized, PushLedger!ReleaseAuthorized, Ledger, PushLedger!Ledger
<1>9. ActionFailed(t, a, x) = PushLedger!ActionFailed(t, a, x)
    BY PushLedgerSets DEF ActionFailed, PushLedger!ActionFailed, FailedPhase, PushLedger!FailedPhase,
       Failure, PushLedger!Failure, Closed, PushLedger!Closed, Ledger, PushLedger!Ledger, Entry,
       PushLedger!Entry
<1>10. FreshTerminal = PushLedger!FreshTerminal
    BY PushLedgerSets DEF FreshTerminal, PushLedger!FreshTerminal, Ledger, PushLedger!Ledger
<1> QED BY <1>2, <1>3, <1>4, <1>5, <1>6, <1>7, <1>8, <1>9, <1>10

LEMMA PullLedgerRules ==
    ASSUME direction = "pull", NEW t, NEW a, NEW in, NEW id, NEW x
    PROVE  /\ BeginStarts(t, a, in) <=> PullLedger!BeginStarts(t, a, in)
           /\ Begun(t, a, in, id) = PullLedger!Begun(t, a, in, id)
           /\ PrepareCompletes(t, id, x) <=> PullLedger!PrepareCompletes(t, id, x)
           /\ PrepareDone(t, x) = PullLedger!PrepareDone(t, x)
           /\ CommitCompletes(t, id, x) <=> PullLedger!CommitCompletes(t, id, x)
           /\ CommitDone(t, x) = PullLedger!CommitDone(t, x)
           /\ ReleaseAuthorized(t) = PullLedger!ReleaseAuthorized(t)
           /\ ReleaseCompletes(t, id) <=> PullLedger!ReleaseCompletes(t, id)
           /\ ReleaseDone(t) = PullLedger!ReleaseDone(t)
           /\ ActionFails(t, a, id) <=> PullLedger!ActionFails(t, a, id)
           /\ ActionFailed(t, a, x) = PullLedger!ActionFailed(t, a, x)
           /\ FreshTerminal = PullLedger!FreshTerminal
<1>1. InputsValid(t, a, in) <=> PullLedger!InputsValid(t, a, in)
    BY PullLedgerSets DEF InputsValid, PullLedger!InputsValid, ValidPrepare, PullLedger!ValidPrepare,
       ValidValidation, PullLedger!ValidValidation, ValidPublication, PullLedger!ValidPublication
<1>2. BeginStarts(t, a, in) <=> PullLedger!BeginStarts(t, a, in)
    BY <1>1, PullLedgerSets DEF BeginStarts, PullLedger!BeginStarts, ExpectedPhase,
       PullLedger!ExpectedPhase, NoneInProgress, PullLedger!NoneInProgress
<1>3. Begun(t, a, in, id) = PullLedger!Begun(t, a, in, id)
    BY PullLedgerSets DEF Begun, PullLedger!Begun, Ledger, PullLedger!Ledger, Entry, PullLedger!Entry
<1>4. /\ PrepareCompletes(t, id, x) <=> PullLedger!PrepareCompletes(t, id, x)
      /\ CommitCompletes(t, id, x) <=> PullLedger!CommitCompletes(t, id, x)
      /\ ReleaseCompletes(t, id) <=> PullLedger!ReleaseCompletes(t, id)
      /\ ActionFails(t, a, id) <=> PullLedger!ActionFails(t, a, id)
    BY PullLedgerSets DEF PrepareCompletes, PullLedger!PrepareCompletes, CommitCompletes,
       PullLedger!CommitCompletes, ReleaseCompletes, PullLedger!ReleaseCompletes, ActionFails,
       PullLedger!ActionFails, Pending, PullLedger!Pending, ValidPrepare, PullLedger!ValidPrepare,
       ValidPublication, PullLedger!ValidPublication
<1>5. PrepareDone(t, x) = PullLedger!PrepareDone(t, x)
    BY PullLedgerSets DEF PrepareDone, PullLedger!PrepareDone, Closed, PullLedger!Closed, Receipt,
       PullLedger!Receipt, Ledger, PullLedger!Ledger, Entry, PullLedger!Entry
<1>6. CommitDone(t, x) = PullLedger!CommitDone(t, x)
    BY PullLedgerSets DEF CommitDone, PullLedger!CommitDone, Closed, PullLedger!Closed, Receipt,
       PullLedger!Receipt, Ledger, PullLedger!Ledger, Entry, PullLedger!Entry
<1>7. ReleaseDone(t) = PullLedger!ReleaseDone(t)
    BY PullLedgerSets DEF ReleaseDone, PullLedger!ReleaseDone, Closed, PullLedger!Closed, Receipt,
       PullLedger!Receipt, Ledger, PullLedger!Ledger, Entry, PullLedger!Entry
<1>8. ReleaseAuthorized(t) = PullLedger!ReleaseAuthorized(t)
    BY PullLedgerSets DEF ReleaseAuthorized, PullLedger!ReleaseAuthorized, Ledger, PullLedger!Ledger
<1>9. ActionFailed(t, a, x) = PullLedger!ActionFailed(t, a, x)
    BY PullLedgerSets DEF ActionFailed, PullLedger!ActionFailed, FailedPhase, PullLedger!FailedPhase,
       Failure, PullLedger!Failure, Closed, PullLedger!Closed, Ledger, PullLedger!Ledger, Entry,
       PullLedger!Entry
<1>10. FreshTerminal = PullLedger!FreshTerminal
    BY PullLedgerSets DEF FreshTerminal, PullLedger!FreshTerminal, Ledger, PullLedger!Ledger
<1> QED BY <1>2, <1>3, <1>4, <1>5, <1>6, <1>7, <1>8, <1>9, <1>10

(* At most four identifiers are in use until a release is begun.           *)
LEMMA FreshIsFree ==
    ASSUME Types, Facts, Intended, Placed, Status("release") = "NONE"
    PROVE  FreshId \in Ids \ UsedIds
<1> DEFINE i == terminal.ops["prepare"].id
           j == terminal.ops["commit"].id
           k == IF terminal.prepare = None THEN None ELSE terminal.prepare.id
           l == IF task.publish_intent = None THEN None ELSE task.publish_intent.id
<1>1. /\ terminal.prepare \in PrepareReceipts \cup {None}
      /\ task.publish_intent \in PublicationReceipts \cup {None}
    BY DEF Types, Facts, Snapshots, Tasks
<1>2. k \in Ids \cup {None} /\ l \in Ids \cup {None}
    BY <1>1 DEF PrepareReceipts, PublicationReceipts
<1>3. /\ i \in Ids \cup {None} /\ j \in Ids \cup {None} /\ terminal.ops["release"].id = None
      /\ \A a \in Actions : a = "prepare" \/ a = "commit" \/ a = "release"
    BY DEF Facts, Actions
<1>4. terminal.publication # None => terminal.publication = task.publish_intent
    BY DEF Types, Facts, Placed
<1> DEFINE P == terminal.ops
<1>5. ASSUME NEW u \in UsedIds PROVE u \in {None, i, j, k, l}
    BY <1>3, <1>4 DEF UsedIds
<1> HIDE DEF i, j, k, l
<1>6. PICK x \in Ids : x \notin {i, j, k, l}
  <2>1. Ids \ {i, j, k, l} # {}
    BY <1>2, <1>3, IdsSuffice
  <2> QED BY <2>1
<1>7. x # None
    BY <1>6, NoneIsAbsent
<1> QED BY <1>5, <1>6, <1>7 DEF FreshId

(* Each change of the ledger by the task is a step of GuestTerminal.       *)
LEMMA DoneNotNone == "DONE" # "NONE" /\ "IN_PROGRESS" # "NONE" /\ "READY" # "PREPARED"
OBVIOUS

LEMMA HostInputsOk ==
    ASSUME NEW a \in Actions, NEW in, in = HostInputs(a), InputsValid(terminal, a, in)
    PROVE  \/ a = "prepare" /\ in = NoInputs
           \/ a = "commit" /\ in \in [prepare : PrepareReceipts, validation : ValidationReceipts,
                                      publication : {None}]
           \/ a = "release" /\ in \in [prepare : PrepareReceipts, validation : {None},
                                       publication : PublicationReceipts]
BY DEF InputsValid, HostInputs, ValidPrepare, ValidValidation, ValidPublication, Actions

LEMMA PushLedgerBegins ==
    ASSUME Types, Shape, Intended, Placed, direction = "push", NEW a \in Actions, NEW in, in = HostInputs(a),
           BeginStarts(terminal, a, in), terminal' = Begun(terminal, a, in, FreshId)
    PROVE  PushLedger!Next
<1>1. Facts
    BY ShapeFacts
<1>2. Status("release") = "NONE"
    BY <1>1, DoneNotNone DEF Facts, BeginStarts, ExpectedPhase, InputsValid, Actions, Status
<1>3. FreshId \in Ids \ UsedIds
    BY <1>1, <1>2, FreshIsFree
<1>4. FreshId \in Ids \ PushLedger!UsedIds
    BY <1>3, PushLedgerSets DEF UsedIds, PushLedger!UsedIds
<1>5. in \in PushLedger!ActionInputs(a)
    BY HostInputsOk, PushLedgerSets DEF BeginStarts, PushLedger!ActionInputs
<1>6. PushLedger!BeginStarts(terminal, a, in) /\ terminal' = PushLedger!Begun(terminal, a, in, FreshId)
    BY PushLedgerRules
<1>7. PushLedger!TransferFinish(a, in)
    BY <1>4, <1>6, PushReads DEF PushLedger!TransferFinish
<1> QED BY <1>5, <1>7, PushLedgerSets DEF PushLedger!Next

LEMMA PushLedgerSteps ==
    ASSUME Types, Shape, Intended, direction = "push"
    PROVE  /\ \A r : /\ PrepareCompletes(terminal, Operation("prepare").id, r) /\ r.id \notin UsedIds
                     /\ terminal' = PrepareDone(terminal, r)
                     => PushLedger!Next
           /\ /\ CommitCompletes(terminal, Operation("commit").id, task.publish_intent)
              /\ terminal' = CommitDone(terminal, task.publish_intent)
              => PushLedger!Next
           /\ Status("release") = "IN_PROGRESS" /\ terminal' = ReleaseAuthorized(terminal) => PushLedger!Next
           /\ ReleaseCompletes(terminal, Operation("release").id) /\ terminal' = ReleaseDone(terminal)
              => PushLedger!Next
           /\ \A a \in Actions, code \in Codes :
                 ActionFails(terminal, a, Operation(a).id) /\ terminal' = ActionFailed(terminal, a, code)
                 => PushLedger!Next
<1>1. Facts /\ PushLedger!Restore(terminal) = terminal /\ terminal # None
    BY ShapeFacts, PushReads
<1>2. \A a \in Actions : Status(a) = "IN_PROGRESS" => Operation(a).id \in Ids
    BY <1>1 DEF Facts, Operation
<1>3. "prepare" \in Actions /\ "commit" \in Actions /\ "release" \in Actions
    BY DEF Actions
<1>4. ASSUME NEW r, PrepareCompletes(terminal, Operation("prepare").id, r), r.id \notin UsedIds,
             terminal' = PrepareDone(terminal, r)
      PROVE  PushLedger!Next
  <2> DEFINE i == Operation("prepare").id
  <2>1. i \in Ids /\ r \in PrepareReceipts /\ r.binding = "K"
    BY <1>2, <1>3, <1>4 DEF PrepareCompletes, Pending, Status, ValidPrepare
  <2>2. r = [binding |-> "K", id |-> r.id] /\ r.id \in Ids
    BY <2>1 DEF PrepareReceipts
  <2>3. PushLedger!PrepareCompletes(terminal, i, r) /\ terminal' = PushLedger!PrepareDone(terminal, r)
    BY <1>4, PushLedgerRules
  <2>4. r.id \notin PushLedger!UsedIds
    BY <1>4, PushLedgerSets DEF UsedIds, PushLedger!UsedIds
  <2> HIDE DEF i
  <2> DEFINE j == r.id
  <2>5. PushLedger!PersistPrepare(i, j)
    BY <1>1, <2>2, <2>3, <2>4 DEF PushLedger!PersistPrepare
  <2> QED BY <2>1, <2>2, <2>5 DEF PushLedger!Next
<1>5. ASSUME CommitCompletes(terminal, Operation("commit").id, task.publish_intent),
             terminal' = CommitDone(terminal, task.publish_intent)
      PROVE  PushLedger!Next
  <2> DEFINE i == Operation("commit").id
             r == task.publish_intent
  <2>1. i \in Ids /\ r \in PublicationReceipts /\ r.binding = "K" /\ r.prepare = terminal.prepare
    BY <1>2, <1>3, <1>5 DEF CommitCompletes, Pending, Status, ValidPublication
  <2>2. r = [binding |-> "K", prepare |-> terminal.prepare, id |-> r.id] /\ r.id \in Ids
    BY <2>1 DEF PublicationReceipts
  <2>3. PushLedger!CommitCompletes(terminal, i, r) /\ terminal' = PushLedger!CommitDone(terminal, r)
    BY <1>5, PushLedgerRules
  <2>4. r # None /\ direction = "push" /\ terminal.publication = None
    BY <1>1, <1>5, <2>1, NoneIsAbsent DEF CommitCompletes, Pending, Facts, Status
  <2>5. r.id # terminal.prepare.id /\ \A a \in Actions : r.id # terminal.ops[a].id
    BY <2>4 DEF Intended
  <2>6. r.id \notin PushLedger!UsedIds
    BY <2>4, <2>5, PushLedgerSets DEF PushLedger!UsedIds
  <2> HIDE DEF i, r
  <2>7. PushLedger!PersistCommit(i, r.id)
    BY <1>1, <2>2, <2>3, <2>6 DEF PushLedger!PersistCommit
  <2> QED BY <2>1, <2>2, <2>7 DEF PushLedger!Next
<1>6. ASSUME Status("release") = "IN_PROGRESS", terminal' = ReleaseAuthorized(terminal)
      PROVE  PushLedger!Next
  <2>1. PushLedger!PersistAuthorization(Operation("release").id)
    BY <1>1, <1>6, PushLedgerRules DEF PushLedger!PersistAuthorization, PushLedger!Pending, Operation, Status
  <2> QED BY <1>2, <1>3, <1>6, <2>1 DEF PushLedger!Next
<1>7. ASSUME ReleaseCompletes(terminal, Operation("release").id), terminal' = ReleaseDone(terminal)
      PROVE  PushLedger!Next
  <2>1. PushLedger!FinalizeRelease(Operation("release").id)
    BY <1>1, <1>7, PushLedgerRules DEF PushLedger!FinalizeRelease
  <2>2. Operation("release").id \in Ids
    BY <1>2, <1>3, <1>7 DEF ReleaseCompletes, Pending, Status
  <2> QED BY <2>1, <2>2 DEF PushLedger!Next
<1>8. ASSUME NEW a \in Actions, NEW code \in Codes, ActionFails(terminal, a, Operation(a).id),
             terminal' = ActionFailed(terminal, a, code)
      PROVE  PushLedger!Next
  <2>1. PushLedger!RecordFailure(a, Operation(a).id, code)
    BY <1>1, <1>8, PushLedgerRules DEF PushLedger!RecordFailure
  <2>2. Operation(a).id \in Ids
    BY <1>2, <1>8 DEF ActionFails, Pending, Status
  <2> QED BY <2>1, <2>2, PushLedgerSets DEF PushLedger!Next
<1> QED BY <1>4, <1>5, <1>6, <1>7, <1>8

LEMMA PullLedgerBegins ==
    ASSUME Types, Shape, Intended, Placed, direction = "pull", NEW a \in Actions, NEW in, in = HostInputs(a),
           BeginStarts(terminal, a, in), terminal' = Begun(terminal, a, in, FreshId)
    PROVE  PullLedger!Next
<1>1. Facts
    BY ShapeFacts
<1>2. Status("release") = "NONE"
    BY <1>1, DoneNotNone DEF Facts, BeginStarts, ExpectedPhase, InputsValid, Actions, Status
<1>3. FreshId \in Ids \ UsedIds
    BY <1>1, <1>2, FreshIsFree
<1>4. FreshId \in Ids \ PullLedger!UsedIds
    BY <1>3, PullLedgerSets DEF UsedIds, PullLedger!UsedIds
<1>5. in \in PullLedger!ActionInputs(a)
    BY HostInputsOk, PullLedgerSets DEF BeginStarts, PullLedger!ActionInputs
<1>6. PullLedger!BeginStarts(terminal, a, in) /\ terminal' = PullLedger!Begun(terminal, a, in, FreshId)
    BY PullLedgerRules
<1>7. PullLedger!TransferFinish(a, in)
    BY <1>4, <1>6, PullReads DEF PullLedger!TransferFinish
<1> QED BY <1>5, <1>7, PullLedgerSets DEF PullLedger!Next

LEMMA PullLedgerSteps ==
    ASSUME Types, Shape, Intended, direction = "pull"
    PROVE  /\ \A r : /\ PrepareCompletes(terminal, Operation("prepare").id, r) /\ r.id \notin UsedIds
                     /\ terminal' = PrepareDone(terminal, r)
                     => PullLedger!Next
           /\ /\ CommitCompletes(terminal, Operation("commit").id, task.publish_intent)
              /\ terminal' = CommitDone(terminal, task.publish_intent)
              => PullLedger!Next
           /\ Status("release") = "IN_PROGRESS" /\ terminal' = ReleaseAuthorized(terminal) => PullLedger!Next
           /\ ReleaseCompletes(terminal, Operation("release").id) /\ terminal' = ReleaseDone(terminal)
              => PullLedger!Next
           /\ \A a \in Actions, code \in Codes :
                 ActionFails(terminal, a, Operation(a).id) /\ terminal' = ActionFailed(terminal, a, code)
                 => PullLedger!Next
<1>1. Facts /\ PullLedger!Restore(terminal) = terminal /\ terminal # None
    BY ShapeFacts, PullReads
<1>2. \A a \in Actions : Status(a) = "IN_PROGRESS" => Operation(a).id \in Ids
    BY <1>1 DEF Facts, Operation
<1>3. "prepare" \in Actions /\ "commit" \in Actions /\ "release" \in Actions
    BY DEF Actions
<1>4. ASSUME NEW r, PrepareCompletes(terminal, Operation("prepare").id, r), r.id \notin UsedIds,
             terminal' = PrepareDone(terminal, r)
      PROVE  PullLedger!Next
  <2> DEFINE i == Operation("prepare").id
  <2>1. i \in Ids /\ r \in PrepareReceipts /\ r.binding = "K"
    BY <1>2, <1>3, <1>4 DEF PrepareCompletes, Pending, Status, ValidPrepare
  <2>2. r = [binding |-> "K", id |-> r.id] /\ r.id \in Ids
    BY <2>1 DEF PrepareReceipts
  <2>3. PullLedger!PrepareCompletes(terminal, i, r) /\ terminal' = PullLedger!PrepareDone(terminal, r)
    BY <1>4, PullLedgerRules
  <2>4. r.id \notin PullLedger!UsedIds
    BY <1>4, PullLedgerSets DEF UsedIds, PullLedger!UsedIds
  <2> HIDE DEF i
  <2> DEFINE j == r.id
  <2>5. PullLedger!PersistPrepare(i, j)
    BY <1>1, <2>2, <2>3, <2>4 DEF PullLedger!PersistPrepare
  <2> QED BY <2>1, <2>2, <2>5 DEF PullLedger!Next
<1>5. ASSUME CommitCompletes(terminal, Operation("commit").id, task.publish_intent),
             terminal' = CommitDone(terminal, task.publish_intent)
      PROVE  PullLedger!Next
  <2> DEFINE i == Operation("commit").id
             r == task.publish_intent
  <2>1. i \in Ids /\ r \in PublicationReceipts /\ r.binding = "K" /\ r.prepare = terminal.prepare
    BY <1>2, <1>3, <1>5 DEF CommitCompletes, Pending, Status, ValidPublication
  <2>2. r = [binding |-> "K", prepare |-> terminal.prepare, id |-> r.id] /\ r.id \in Ids
    BY <2>1 DEF PublicationReceipts
  <2>3. PullLedger!CommitCompletes(terminal, i, r) /\ terminal' = PullLedger!CommitDone(terminal, r)
    BY <1>5, PullLedgerRules
  <2>4. r # None /\ direction = "push" /\ terminal.publication = None
    BY <1>1, <1>5, <2>1, NoneIsAbsent DEF CommitCompletes, Pending, Facts, Status
  <2>5. r.id # terminal.prepare.id /\ \A a \in Actions : r.id # terminal.ops[a].id
    BY <2>4 DEF Intended
  <2>6. r.id \notin PullLedger!UsedIds
    BY <2>4, <2>5, PullLedgerSets DEF PullLedger!UsedIds
  <2> HIDE DEF i, r
  <2>7. PullLedger!PersistCommit(i, r.id)
    BY <1>1, <2>2, <2>3, <2>6 DEF PullLedger!PersistCommit
  <2> QED BY <2>1, <2>2, <2>7 DEF PullLedger!Next
<1>6. ASSUME Status("release") = "IN_PROGRESS", terminal' = ReleaseAuthorized(terminal)
      PROVE  PullLedger!Next
  <2>1. PullLedger!PersistAuthorization(Operation("release").id)
    BY <1>1, <1>6, PullLedgerRules DEF PullLedger!PersistAuthorization, PullLedger!Pending, Operation, Status
  <2> QED BY <1>2, <1>3, <1>6, <2>1 DEF PullLedger!Next
<1>7. ASSUME ReleaseCompletes(terminal, Operation("release").id), terminal' = ReleaseDone(terminal)
      PROVE  PullLedger!Next
  <2>1. PullLedger!FinalizeRelease(Operation("release").id)
    BY <1>1, <1>7, PullLedgerRules DEF PullLedger!FinalizeRelease
  <2>2. Operation("release").id \in Ids
    BY <1>2, <1>3, <1>7 DEF ReleaseCompletes, Pending, Status
  <2> QED BY <2>1, <2>2 DEF PullLedger!Next
<1>8. ASSUME NEW a \in Actions, NEW code \in Codes, ActionFails(terminal, a, Operation(a).id),
             terminal' = ActionFailed(terminal, a, code)
      PROVE  PullLedger!Next
  <2>1. PullLedger!RecordFailure(a, Operation(a).id, code)
    BY <1>1, <1>8, PullLedgerRules DEF PullLedger!RecordFailure
  <2>2. Operation(a).id \in Ids
    BY <1>2, <1>8 DEF ActionFails, Pending, Status
  <2> QED BY <2>1, <2>2, PullLedgerSets DEF PullLedger!Next
<1> QED BY <1>4, <1>5, <1>6, <1>7, <1>8

-----------------------------------------------------------------------------
(* What each change does to the entries of the ledger.                     *)
OthersSame(a) == \A b \in Actions \ {a} : terminal'.ops[b] = terminal.ops[b]

LEMMA Entries ==
    ASSUME Facts, NEW a \in Actions, NEW e
    PROVE  /\ [terminal.ops EXCEPT ![a] = e][a] = e
           /\ \A b \in Actions \ {a} : [terminal.ops EXCEPT ![a] = e][b] = terminal.ops[b]
<1>1. terminal.ops \in [Actions -> Operations]
    BY DEF Facts, Snapshots
<1> QED BY <1>1

LEMMA BegunDoes ==
    ASSUME Facts, NEW a \in Actions, NEW in, NEW id, terminal' = Begun(terminal, a, in, id)
    PROVE  /\ terminal'.prepare = terminal.prepare /\ terminal'.publication = terminal.publication
           /\ terminal'.authorized = terminal.authorized
           /\ Status(a)' = "IN_PROGRESS" /\ terminal'.ops[a].id = id /\ OthersSame(a)
BY Entries DEF Begun, Ledger, Entry, Status, OthersSame

LEMMA PrepareDoneDoes ==
    ASSUME Facts, NEW r, terminal' = PrepareDone(terminal, r)
    PROVE  /\ terminal'.prepare = r /\ terminal'.publication = terminal.publication
           /\ terminal'.authorized = terminal.authorized
           /\ Status("prepare")' = "DONE" /\ OthersSame("prepare")
<1>1. "prepare" \in Actions
    BY DEF Actions
<1> QED BY <1>1, Entries DEF PrepareDone, Closed, Ledger, Entry, Status, OthersSame

LEMMA CommitDoneDoes ==
    ASSUME Facts, NEW r, terminal' = CommitDone(terminal, r)
    PROVE  /\ terminal'.prepare = terminal.prepare /\ terminal'.publication = r
           /\ terminal'.authorized = terminal.authorized
           /\ Status("commit")' = "DONE" /\ OthersSame("commit")
<1>1. "commit" \in Actions
    BY DEF Actions
<1> QED BY <1>1, Entries DEF CommitDone, Closed, Ledger, Entry, Status, OthersSame

LEMMA ReleaseDoneDoes ==
    ASSUME Facts, terminal' = ReleaseDone(terminal)
    PROVE  /\ terminal'.prepare = terminal.prepare /\ terminal'.publication = terminal.publication
           /\ terminal'.authorized = terminal.authorized
           /\ Status("release")' = "DONE" /\ OthersSame("release")
<1>1. "release" \in Actions
    BY DEF Actions
<1> QED BY <1>1, Entries DEF ReleaseDone, Closed, Ledger, Entry, Status, OthersSame

LEMMA ActionFailedDoes ==
    ASSUME Facts, NEW a \in Actions, NEW code, terminal' = ActionFailed(terminal, a, code)
    PROVE  /\ terminal'.prepare = terminal.prepare /\ terminal'.publication = terminal.publication
           /\ terminal'.authorized = terminal.authorized
           /\ Status(a)' = "FAILED" /\ terminal'.ops[a].id = terminal.ops[a].id /\ OthersSame(a)
BY Entries DEF ActionFailed, Closed, Ledger, Entry, Status, OthersSame

LEMMA AuthorizedDoes ==
    ASSUME Facts, terminal' = ReleaseAuthorized(terminal), Status("release") = "IN_PROGRESS"
    PROVE  /\ terminal'.prepare = terminal.prepare /\ terminal'.ops = terminal.ops
           /\ direction = "push" => terminal'.publication = terminal.publication
           /\ terminal'.authorized # None
<1> DEFINE op == terminal.ops["release"]
<1>1. CASE terminal.authorized # None
    BY <1>1 DEF ReleaseAuthorized
<1>2. CASE terminal.authorized = None
  <2>1. terminal' = Ledger("RELEASING", terminal.prepare, op.inputs.publication,
                           [id |-> op.id, publication |-> op.inputs.publication], terminal.ops)
    BY <1>2 DEF ReleaseAuthorized
  <2>2. op \in Operations
    BY DEF Facts, Snapshots, Actions
  <2>3. [id |-> op.id, publication |-> op.inputs.publication] \in Authorizations
    BY <2>2 DEF Operations, Inputs, Authorizations
  <2>4. direction = "push" => op.inputs.publication = terminal.publication
    BY DEF Facts
  <2> QED BY <2>1, <2>3, <2>4, NoneIsAbsent DEF Ledger
<1> QED BY <1>1, <1>2

-----------------------------------------------------------------------------
(* The steps that leave the ledger, the owner, the intent and the          *)
(* destination alone.                                                      *)
LEMMA TypesKept ==
    ASSUME Types, UNCHANGED direction, task' \in Tasks, disk' \in Disks, worker' \in WorkerStates,
           request' \in Jobs \cup {None}, source' \in {"same", "changed"}, faults' \in 0..MaxFaults
    PROVE  Types'
<1>1. Disks' = Disks
    BY DEF Disks, Temporaries
<1>2. Tasks' = Tasks /\ WorkerStates' = WorkerStates /\ Jobs' = Jobs
    BY DEF Tasks, WorkerStates, Jobs, Actions, PublicationReceipts, PrepareReceipts, Bindings, Errors
<1> QED BY <1>1, <1>2 DEF Types

LEMMA Moves ==
    ASSUME Inv, UNCHANGED <<direction, terminal, request, source>>, faults' \in 0..MaxFaults,
           task' \in Tasks, disk' \in Disks, worker' \in WorkerStates, ~Idle,
           task'.owner = task.owner, task'.publish_intent = task.publish_intent, disk'.dest = disk.dest,
           Employed', worker'.pc \in Committing => task.publish_intent # None,
           worker'.pc = "receipt" => Published,
           worker'.pc \in {"delete", "reverify", "conclude"} => terminal.authorized # None /\ task'.targets
    PROVE  Inv'
<1>0. Types /\ UNCHANGED direction /\ request' \in Jobs \cup {None} /\ source' \in {"same", "changed"}
    BY DEF Inv, Types
<1>1. Types'
    BY <1>0, TypesKept
<1>2. Shape'
    BY ShapeKept DEF Inv
<1>3. Requested'
    BY DEF Inv, Requested, Status, Idle
<1>4. Intended'
    BY DEF Inv, Intended, Status
<1>5. Placed'
    BY DEF Inv, Placed, Published, Status, At
<1>6. Cleared'
    BY DEF Inv, Cleared, Status, Idle
<1> QED BY <1>1, <1>2, <1>3, <1>4, <1>5, <1>6 DEF Inv

LEMMA Live ==
    ASSUME Inv
    PROVE  /\ worker \in WorkerStates /\ task \in Tasks /\ disk \in Disks /\ faults \in 0..MaxFaults
           /\ direction \in {"push", "pull"} /\ request \in Jobs \cup {None}
           /\ Facts /\ Employed /\ (worker.pc = "dead" <=> Idle)
BY ShapeFacts DEF Inv, Types, Idle

(* The worker goes on to pc, a place of its own action.                    *)
LEMMA GoesOn ==
    ASSUME Inv, ~Idle, ~At("exiting"), NEW pc \in Pcs \ {"failed"}, Go(pc), UNCHANGED terminal,
           task'.owner = task.owner,
           pc \in Preparing => Job("prepare"), pc \in Committing => Job("commit"),
           pc \in Releasing => Job("release")
    PROVE  worker' \in WorkerStates /\ worker'.pc = pc /\ Employed'
<1>1. worker' = [worker EXCEPT !.pc = pc] /\ worker \in WorkerStates /\ Employed
    BY Live DEF Go
<1>2. worker' \in WorkerStates /\ worker'.pc = pc
    BY <1>1 DEF WorkerStates
<1> QED BY <1>1, <1>2 DEF Employed, Idle, At, Job, Status

LEMMA VerifyPartialKeeps ==
    ASSUME Inv, VerifyPartial, UNCHANGED <<request, source, faults, direction>> PROVE Inv'
<1>1. ~Idle /\ ~At("exiting") /\ Go("exiting") /\ UNCHANGED terminal
    BY Live DEF VerifyPartial, At, Idle, Employed, Job, Preparing, Committing, Releasing
<1>2. task' \in Tasks /\ task'.owner = task.owner /\ task'.publish_intent = task.publish_intent
      /\ task'.targets = task.targets
    BY Live DEF VerifyPartial, Tasks
<1>3. disk' \in Disks /\ disk'.dest = disk.dest
    BY Live DEF VerifyPartial, Disks, Stages
<1>4. worker' \in WorkerStates /\ worker'.pc = "exiting" /\ Employed'
    BY <1>1, <1>2, GoesOn DEF Pcs, Preparing, Committing, Releasing
<1> QED BY <1>1, <1>2, <1>3, <1>4, Live, Moves DEF Committing

LEMMA PreparePullKeeps ==
    ASSUME Inv, PreparePull, UNCHANGED <<request, source, faults, direction>> PROVE Inv'
<1>1. ~Idle /\ ~At("exiting") /\ Go("persist") /\ UNCHANGED terminal /\ Job("prepare")
    BY Live DEF PreparePull, At, Idle, Employed, Job, Preparing, Committing, Releasing
<1>2. task' \in Tasks /\ task'.owner = task.owner /\ task'.publish_intent = task.publish_intent
      /\ task'.targets = task.targets
    BY Live DEF PreparePull, Tasks
<1>3. disk' \in Disks /\ disk'.dest = disk.dest
    BY Live DEF PreparePull, Disks, Stages
<1>4. worker' \in WorkerStates /\ worker'.pc = "persist" /\ Employed'
    BY <1>1, <1>2, GoesOn DEF Pcs, Preparing, Committing, Releasing
<1> QED BY <1>1, <1>2, <1>3, <1>4, Live, Moves DEF Committing

LEMMA StageIntentKeeps ==
    ASSUME Inv, StageIntent, UNCHANGED <<request, source, faults, direction>> PROVE Inv'
<1>1. ~Idle /\ ~At("exiting") /\ Go("mkdir") /\ UNCHANGED terminal /\ Job("prepare")
    BY Live DEF StageIntent, At, Idle, Employed, Job, Preparing, Committing, Releasing
<1>2. task' \in Tasks /\ task'.owner = task.owner /\ task'.publish_intent = task.publish_intent
      /\ task'.targets = task.targets
    BY Live DEF StageIntent, Tasks
<1>3. disk' \in Disks /\ disk'.dest = disk.dest
    BY Live DEF StageIntent, Disks, Stages
<1>4. worker' \in WorkerStates /\ worker'.pc = "mkdir" /\ Employed'
    BY <1>1, <1>2, GoesOn DEF Pcs, Preparing, Committing, Releasing
<1> QED BY <1>1, <1>2, <1>3, <1>4, Live, Moves DEF Committing

LEMMA ClearStageKeeps ==
    ASSUME Inv, ClearStage, UNCHANGED <<request, source, faults, direction>> PROVE Inv'
<1>1. ~Idle /\ ~At("exiting") /\ Go("unpack") /\ UNCHANGED terminal /\ Job("prepare")
    BY Live DEF ClearStage, At, Idle, Employed, Job, Preparing, Committing, Releasing
<1>2. task' \in Tasks /\ task'.owner = task.owner /\ task'.publish_intent = task.publish_intent
      /\ task'.targets = task.targets
    BY Live DEF ClearStage, Tasks
<1>3. disk' \in Disks /\ disk'.dest = disk.dest
    BY Live DEF ClearStage, Disks, Stages
<1>4. worker' \in WorkerStates /\ worker'.pc = "unpack" /\ Employed'
    BY <1>1, <1>2, GoesOn DEF Pcs, Preparing, Committing, Releasing
<1> QED BY <1>1, <1>2, <1>3, <1>4, Live, Moves DEF Committing

LEMMA MakeStageKeeps ==
    ASSUME Inv, MakeStage, UNCHANGED <<request, source, faults, direction>> PROVE Inv'
<1>1. ~Idle /\ ~At("exiting") /\ Go("register") /\ UNCHANGED terminal /\ Job("prepare")
    BY Live DEF MakeStage, At, Idle, Employed, Job, Preparing, Committing, Releasing
<1>2. task' \in Tasks /\ task'.owner = task.owner /\ task'.publish_intent = task.publish_intent
      /\ task'.targets = task.targets
    BY Live DEF MakeStage, Tasks
<1>3. disk' \in Disks /\ disk'.dest = disk.dest
    BY Live DEF MakeStage, Disks, Stages
<1>4. worker' \in WorkerStates /\ worker'.pc = "register" /\ Employed'
    BY <1>1, <1>2, GoesOn DEF Pcs, Preparing, Committing, Releasing
<1> QED BY <1>1, <1>2, <1>3, <1>4, Live, Moves DEF Committing

LEMMA RegisterStageKeeps ==
    ASSUME Inv, RegisterStage, UNCHANGED <<request, source, faults, direction>> PROVE Inv'
<1>1. ~Idle /\ ~At("exiting") /\ Go("unpack") /\ UNCHANGED terminal /\ Job("prepare")
    BY Live DEF RegisterStage, At, Idle, Employed, Job, Preparing, Committing, Releasing
<1>2. task' \in Tasks /\ task'.owner = task.owner /\ task'.publish_intent = task.publish_intent
      /\ task'.targets = task.targets
    BY Live DEF RegisterStage, Tasks
<1>3. disk' \in Disks /\ disk'.dest = disk.dest
    BY Live DEF RegisterStage, Disks, Stages
<1>4. worker' \in WorkerStates /\ worker'.pc = "unpack" /\ Employed'
    BY <1>1, <1>2, GoesOn DEF Pcs, Preparing, Committing, Releasing
<1> QED BY <1>1, <1>2, <1>3, <1>4, Live, Moves DEF Committing

LEMMA UnpackKeeps ==
    ASSUME Inv, Unpack, UNCHANGED <<request, source, faults, direction>> PROVE Inv'
<1>1. ~Idle /\ ~At("exiting") /\ UNCHANGED <<terminal, task>> /\ Job("prepare")
    BY Live DEF Unpack, At, Idle, Employed, Job, Preparing
<1>2. disk' \in Disks /\ disk'.dest = disk.dest
    BY Live DEF Unpack, Disks, Stages
<1>3. PICK pc \in {"unpacking", "sidecar"} : Go(pc)
    BY DEF Unpack
<1>4. worker' \in WorkerStates /\ worker'.pc = pc /\ Employed'
    BY <1>1, <1>3, GoesOn DEF Pcs, Preparing, Committing, Releasing
<1> QED BY <1>1, <1>2, <1>3, <1>4, Live, Moves DEF Committing

LEMMA ManifestSidecarKeeps ==
    ASSUME Inv, ManifestSidecar, UNCHANGED <<request, source, faults, direction>> PROVE Inv'
<1>1. ~Idle /\ ~At("exiting") /\ UNCHANGED <<terminal, task>> /\ Job("prepare")
    BY Live DEF ManifestSidecar, At, Idle, Employed, Job, Preparing
<1>2. disk' \in Disks /\ disk'.dest = disk.dest
    BY Live DEF ManifestSidecar, Disks
<1>3. PICK pc \in {"sidecar_write", "persist"} : Go(pc)
    BY DEF ManifestSidecar
<1>4. worker' \in WorkerStates /\ worker'.pc = pc /\ Employed'
    BY <1>1, <1>3, GoesOn DEF Pcs, Preparing, Committing, Releasing
<1> QED BY <1>1, <1>2, <1>3, <1>4, Live, Moves DEF Committing

LEMMA StartReleaseKeeps ==
    ASSUME Inv, StartRelease, UNCHANGED <<request, source, faults, direction>> PROVE Inv'
<1>1. ~Idle /\ ~At("exiting") /\ UNCHANGED <<terminal, task, disk>> /\ Job("release")
    BY DEF StartRelease, At, Idle
<1>2. PICK pc \in {"authorize", "delete"} : Go(pc) /\ (pc = "delete" => terminal.authorized # None
                                            /\ task.targets)
    BY DEF StartRelease
<1>3. worker' \in WorkerStates /\ worker'.pc = pc /\ Employed'
    BY <1>1, <1>2, GoesOn DEF Pcs, Preparing, Committing, Releasing
<1> QED BY <1>1, <1>2, <1>3, Live, Moves DEF Committing

LEMMA DeleteKeeps ==
    ASSUME Inv, Delete, UNCHANGED <<request, source, faults, direction>> PROVE Inv'
<1>1. ~Idle /\ ~At("exiting") /\ UNCHANGED <<terminal, task>> /\ Job("release") /\ At("delete")
    BY Live DEF Delete, At, Idle, Employed, Releasing
<1>2. disk' \in Disks /\ disk'.dest = disk.dest
    BY Live DEF Delete, Disks
<1>3. PICK pc \in {"delete", "reverify"} : Go(pc)
  <2>1. worker = [worker EXCEPT !.pc = "delete"]
    BY <1>1, Live DEF At, WorkerStates
  <2> QED BY <2>1 DEF Delete, Go
<1>4. worker' \in WorkerStates /\ worker'.pc = pc /\ Employed'
    BY <1>1, <1>3, GoesOn DEF Pcs, Preparing, Committing, Releasing
<1>5. terminal.authorized # None /\ task.targets
    BY <1>1 DEF Inv, Cleared, At
<1> QED BY <1>1, <1>2, <1>3, <1>4, <1>5, Live, Moves DEF Committing

LEMMA ReverifyKeeps ==
    ASSUME Inv, Reverify, UNCHANGED <<request, source, faults, direction>> PROVE Inv'
<1>1. ~Idle /\ ~At("exiting") /\ UNCHANGED <<terminal, task, disk>> /\ Job("release") /\ Go("conclude")
    BY Live DEF Reverify, At, Idle, Employed, Releasing
<1>2. worker' \in WorkerStates /\ worker'.pc = "conclude" /\ Employed'
    BY <1>1, GoesOn DEF Pcs, Preparing, Committing, Releasing
<1>3. terminal.authorized # None /\ task.targets
    BY DEF Inv, Cleared, Reverify, At
<1> QED BY <1>1, <1>2, <1>3, Live, Moves DEF Committing

LEMMA ConcludeKeeps ==
    ASSUME Inv, Conclude, UNCHANGED <<request, source, faults, direction>> PROVE Inv'
<1>1. ~Idle /\ ~At("exiting") /\ UNCHANGED <<terminal, disk>> /\ Go("exiting")
    BY DEF Conclude, At, Idle
<1>2. task.owner.nonce \in 1..MaxWorkers
    BY <1>1, Live, BoundsAssumption DEF Employed, Tasks
<1>3. task' \in Tasks /\ task'.owner = task.owner /\ task'.publish_intent = task.publish_intent
    BY <1>2, Live DEF Conclude, Tasks
<1>4. worker' \in WorkerStates /\ worker'.pc = "exiting" /\ Employed'
    BY <1>1, <1>3, GoesOn DEF Pcs, Preparing, Committing, Releasing
<1> QED BY <1>1, <1>3, <1>4, Live, Moves DEF Committing

(* The worker is gone.                                                     *)
LEMMA GoesAway ==
    ASSUME Inv, ~Idle, Go("dead"), UNCHANGED <<direction, terminal, task, disk, request, source>>,
           faults' \in 0..MaxFaults
    PROVE  Inv'
<1>1. worker' \in WorkerStates /\ worker'.pc = "dead"
    BY Live DEF Go, WorkerStates, Pcs
<1>2. Employed'
    BY <1>1, Live DEF Employed, Idle, At, Preparing, Committing, Releasing
<1> QED BY <1>1, <1>2, Live, Moves DEF Committing

LEMMA ExitKeeps == ASSUME Inv, Exit, UNCHANGED <<request, source, faults, direction>> PROVE Inv'
BY Live, GoesAway DEF Exit, At, Idle

LEMMA DieKeeps == ASSUME Inv, Die, UNCHANGED direction PROVE Inv'
<1>1. faults' \in 0..MaxFaults
    BY Live, BoundsAssumption DEF Die
<1> QED BY <1>1, GoesAway DEF Die, Running

(* The worker raises: its operation is still in progress.                  *)
LEMMA Fails ==
    ASSUME Inv, ~Idle, ~At("exiting"), NEW code \in Codes, worker' = [pc |-> "failed", code |-> code],
           UNCHANGED <<direction, terminal, task, disk, request, source>>, faults' \in 0..MaxFaults
    PROVE  Inv'
<1>1. worker' \in WorkerStates /\ worker'.pc = "failed"
    BY DEF WorkerStates, Pcs
<1>2. Employed'
    BY <1>1, Live DEF Employed, Idle, At, Job, Status, Preparing, Committing, Releasing
<1> QED BY <1>1, <1>2, Live, Moves DEF Committing

LEMMA RaiseKeeps == ASSUME Inv, Raise, UNCHANGED direction PROVE Inv'
<1>1. ~Idle /\ ~At("exiting")
    BY DEF Raise, Refused, At, Idle
<1>2. PICK code \in Codes : worker' = [pc |-> "failed", code |-> code]
    BY CodesAssumption DEF Raise
<1> QED BY <1>1, <1>2, Live, Fails DEF Raise

LEMMA FaultKeeps == ASSUME Inv, Fault, UNCHANGED direction PROVE Inv'
<1>1. faults' \in 0..MaxFaults
    BY Live, BoundsAssumption DEF Fault
<1>2. PICK code \in Codes : worker' = [pc |-> "failed", code |-> code]
    BY CodesAssumption DEF Fault
<1> QED BY <1>1, <1>2, Fails DEF Fault, Running

-----------------------------------------------------------------------------
(* The steps that save the ledger.                                         *)
LEMMA LedgerBegins ==
    ASSUME Types, Shape, Intended, Placed, NEW a \in Actions, BeginStarts(terminal, a, HostInputs(a)),
           terminal' = Begun(terminal, a, HostInputs(a), FreshId)
    PROVE  LedgerNext
<1>1. CASE direction = "push"
    BY <1>1, PushLedgerBegins DEF LedgerNext
<1>2. CASE direction = "pull"
    BY <1>2, PullLedgerBegins DEF LedgerNext
<1> QED BY <1>1, <1>2 DEF Types

LEMMA LedgerSteps ==
    ASSUME Types, Shape, Intended
    PROVE  /\ \A r : /\ PrepareCompletes(terminal, Operation("prepare").id, r) /\ r.id \notin UsedIds
                     /\ terminal' = PrepareDone(terminal, r)
                     => LedgerNext
           /\ /\ CommitCompletes(terminal, Operation("commit").id, task.publish_intent)
              /\ terminal' = CommitDone(terminal, task.publish_intent)
              => LedgerNext
           /\ Status("release") = "IN_PROGRESS" /\ terminal' = ReleaseAuthorized(terminal) => LedgerNext
           /\ ReleaseCompletes(terminal, Operation("release").id) /\ terminal' = ReleaseDone(terminal)
              => LedgerNext
           /\ \A a \in Actions, code \in Codes :
                 ActionFails(terminal, a, Operation(a).id) /\ terminal' = ActionFailed(terminal, a, code)
                 => LedgerNext
<1>1. CASE direction = "push"
    BY <1>1, PushLedgerSteps DEF LedgerNext
<1>2. CASE direction = "pull"
    BY <1>2, PullLedgerSteps DEF LedgerNext
<1> QED BY <1>1, <1>2 DEF Types

LEMMA ActionNames ==
    /\ "prepare" \in Actions /\ "commit" \in Actions /\ "release" \in Actions
    /\ \A a \in Actions : a = "prepare" \/ a = "commit" \/ a = "release"
    /\ "verify_partial" \notin Actions /\ "verify_partial" \in Jobs /\ Actions \subseteq Jobs
    /\ None \notin Jobs
BY NoneIsAbsent DEF Actions, Jobs

LEMMA PersistPrepareKeeps ==
    ASSUME Inv, PersistPrepare, UNCHANGED <<request, source, faults, direction>> PROVE Inv' /\ LedgerNext
<1> DEFINE r == [binding |-> "K", id |-> FreshId]
<1>1. /\ ~Idle /\ Job("prepare") /\ Status("prepare") = "IN_PROGRESS" /\ UNCHANGED <<task, disk>>
      /\ PrepareCompletes(terminal, Operation("prepare").id, r) /\ terminal' = PrepareDone(terminal, r)
      /\ Go("exiting")
    BY Live DEF PersistPrepare, At, Idle, Employed, Preparing, PrepareCompletes, Pending, Status
<1>2. Status("commit") = "NONE" /\ Status("release") = "NONE" /\ task.publish_intent = None
    BY <1>1, Live DEF Facts, Inv, Intended
<1>3. r.id \notin UsedIds
    BY <1>2, Live, FreshIsFree DEF Inv
<1> HIDE DEF r
<1>4. LedgerNext
    BY <1>1, <1>3, LedgerSteps DEF Inv
<1>5. Types'
  <2>1. worker' \in WorkerStates
    BY <1>1, Live DEF Go, WorkerStates, Pcs
  <2> QED BY <1>1, <2>1, TypesKept DEF Inv, Types
<1>6. Shape'
    BY <1>4, ShapeKept DEF Inv
<1>7. /\ terminal'.publication = terminal.publication /\ Status("prepare")' = "DONE"
      /\ OthersSame("prepare")
    BY <1>1, Live, PrepareDoneDoes
<1>8. /\ Status("commit")' = "NONE" /\ Status("release")' = "NONE"
      /\ terminal'.publication = None \/ direction = "pull"
    BY <1>2, <1>7, Live, ActionNames DEF OthersSame, Status, Facts
<1>9. Status("commit")' = "NONE" /\ Status("release")' = "NONE"
    BY <1>2, <1>7, ActionNames DEF OthersSame, Status
<1>10. worker'.pc = "exiting"
    BY <1>1, Live DEF Go, WorkerStates
<1>11. Requested'
    BY <1>1, <1>7, <1>9, <1>10, ActionNames DEF Inv, Requested, OthersSame, Status, Idle, Job
<1>12. Employed'
    BY <1>1, <1>10, Live DEF Employed, Idle, At, Job, Preparing, Committing, Releasing
<1>13. Intended'
    BY <1>1, <1>2 DEF Intended
<1>14. Placed'
    BY <1>1, <1>2, <1>8, <1>10 DEF Inv, Placed, Committing, Published, At
<1>15. Cleared'
    BY <1>9, <1>10 DEF Cleared
<1> QED BY <1>4, <1>5, <1>6, <1>11, <1>12, <1>13, <1>14, <1>15 DEF Inv

LEMMA PublishIntentKeeps ==
    ASSUME Inv, PublishIntent, UNCHANGED <<request, source, faults, direction>> PROVE Inv'
<1>1. ~Idle /\ Job("commit") /\ Status("commit") = "IN_PROGRESS" /\ UNCHANGED <<terminal, disk>>
      /\ Go("publish")
    BY Live, ActionNames DEF PublishIntent, At, Idle, Employed, Job
<1>2. /\ direction = "push" /\ Status("release") = "NONE" /\ terminal.publication = None
      /\ terminal.prepare # None /\ terminal.prepare \in PrepareReceipts
    BY <1>1, Live DEF Facts, Snapshots
<1>3. FreshId \in Ids \ UsedIds
    BY <1>2, Live, FreshIsFree DEF Inv
<1> DEFINE intent == [binding |-> "K", prepare |-> terminal.prepare, id |-> FreshId]
<1>4. intent \in PublicationReceipts /\ intent # None
    BY <1>2, <1>3, NoneIsAbsent DEF PublicationReceipts, Bindings
<1>5. intent.id # terminal.prepare.id /\ \A a \in Actions : intent.id # terminal.ops[a].id
    BY <1>2, <1>3 DEF UsedIds
<1>6. intent.binding = "K" /\ intent.prepare = terminal.prepare
    OBVIOUS
<1>7. \/ task.publish_intent = None /\ task' = [task EXCEPT !.publish_intent = intent]
      \/ task.publish_intent # None /\ UNCHANGED task
    BY DEF PublishIntent
<1> HIDE DEF intent
<1>8. /\ task' \in Tasks /\ task'.owner = task.owner /\ task'.targets = task.targets
         /\ task'.publish_intent # None
      /\ task'.publish_intent = intent \/ task'.publish_intent = task.publish_intent
    BY <1>4, <1>7, Live DEF Tasks
<1>9. worker' \in WorkerStates /\ worker'.pc = "publish" /\ Employed'
  <2>1. ~At("exiting")
    BY DEF PublishIntent, At
  <2> QED BY <1>1, <1>8, <2>1, GoesOn DEF Pcs, Preparing, Committing, Releasing
<1>10. Types'
    BY <1>1, <1>8, <1>9, TypesKept DEF Inv, Types
<1>11. Shape'
    BY <1>1, ShapeKept DEF Inv
<1>12. Requested'
    BY <1>1, <1>8 DEF Inv, Requested, Status, Idle
<1>13. Intended'
    BY <1>1, <1>2, <1>5, <1>6, <1>7, <1>8 DEF Inv, Intended, Status
<1>14. Placed'
    BY <1>1, <1>2, <1>8, <1>9 DEF Inv, Placed, Published, Status, At
<1>15. Cleared'
    BY <1>1, <1>2, <1>9 DEF Cleared, Status
<1> QED BY <1>9, <1>10, <1>11, <1>12, <1>13, <1>14, <1>15 DEF Inv

LEMMA PublishKeeps ==
    ASSUME Inv, Publish, UNCHANGED <<request, source, faults, direction>> PROVE Inv'
<1>1. /\ ~Idle /\ ~At("exiting") /\ Job("commit") /\ Status("commit") = "IN_PROGRESS"
         /\ UNCHANGED <<terminal, task>>
      /\ Go("receipt") /\ task.publish_intent # None
    BY Live, ActionNames DEF Publish, At, Idle, Employed, Job, Committing, Inv, Placed
<1>2. disk' \in Disks /\ Published' /\ (Published => disk'.dest = disk.dest)
    BY Live DEF Publish, Disks, Stages, Published
<1>3. worker' \in WorkerStates /\ worker'.pc = "receipt" /\ Employed'
    BY <1>1, GoesOn DEF Pcs, Preparing, Committing, Releasing
<1>4. Types'
    BY <1>1, <1>2, <1>3, TypesKept DEF Inv, Types
<1>5. Shape'
    BY <1>1, ShapeKept DEF Inv
<1>6. Requested'
    BY <1>1 DEF Inv, Requested, Status, Idle
<1>7. Intended'
    BY <1>1 DEF Inv, Intended, Status
<1>8. Placed'
    BY <1>1, <1>2 DEF Inv, Placed, Status
<1>9. Cleared'
    BY <1>1, <1>3, Live DEF Inv, Cleared, Status, Facts
<1> QED BY <1>3, <1>4, <1>5, <1>6, <1>7, <1>8, <1>9 DEF Inv

LEMMA PersistCommitKeeps ==
    ASSUME Inv, PersistCommit, UNCHANGED <<request, source, faults, direction>> PROVE Inv' /\ LedgerNext
<1> DEFINE r == task.publish_intent
<1>1. /\ ~Idle /\ Job("commit") /\ Status("commit") = "IN_PROGRESS" /\ UNCHANGED <<task, disk>>
      /\ CommitCompletes(terminal, Operation("commit").id, r) /\ terminal' = CommitDone(terminal, r)
      /\ Go("exiting") /\ Published /\ r # None
    BY Live, ActionNames
       DEF PersistCommit, At, Idle, Employed, Committing, CommitCompletes, Pending, Status, Inv, Placed
<1>2. LedgerNext
    BY <1>1, LedgerSteps DEF Inv
<1>3. worker' \in WorkerStates /\ worker'.pc = "exiting"
    BY <1>1, Live DEF Go, WorkerStates, Pcs
<1>4. Types'
    BY <1>1, <1>3, TypesKept DEF Inv, Types
<1>5. Shape'
    BY <1>2, ShapeKept DEF Inv
<1>6. /\ terminal'.publication = r /\ terminal'.prepare = terminal.prepare
      /\ Status("commit")' = "DONE" /\ OthersSame("commit")
    BY <1>1, Live, CommitDoneDoes
<1>7. Status("release")' = "NONE"
    BY <1>1, <1>6, Live, ActionNames DEF Facts, OthersSame, Status, CommitCompletes
<1>8. Requested'
    BY <1>1, <1>6, <1>7, ActionNames DEF Inv, Requested, OthersSame, Status, Idle, Job
<1>9. Employed'
    BY <1>1, <1>3, Live DEF Employed, Idle, At, Job, Preparing, Committing, Releasing
<1>10. Intended'
    BY <1>1, <1>6 DEF Inv, Intended
<1>11. Placed'
    BY <1>1, <1>3, <1>6 DEF Inv, Placed, Committing, Published, At
<1>12. Cleared'
    BY <1>3, <1>7 DEF Cleared
<1> QED BY <1>2, <1>4, <1>5, <1>8, <1>9, <1>10, <1>11, <1>12 DEF Inv

LEMMA AuthorizeKeeps ==
    ASSUME Inv, Authorize, UNCHANGED <<request, source, faults, direction>> PROVE Inv' /\ LedgerNext
<1>1. /\ ~Idle /\ ~At("exiting") /\ Job("release") /\ Status("release") = "IN_PROGRESS" /\ UNCHANGED disk
      /\ terminal' = ReleaseAuthorized(terminal) /\ Go("delete")
    BY Live, ActionNames DEF Authorize, At, Idle, Employed, Job, Releasing
<1>2. LedgerNext
    BY <1>1, LedgerSteps DEF Inv
<1>3. /\ task' \in Tasks /\ task'.owner = task.owner /\ task'.publish_intent = task.publish_intent
      /\ task'.targets = TRUE
    BY Live DEF Authorize, Tasks
<1>4. worker' \in WorkerStates /\ worker'.pc = "delete"
    BY <1>1, Live DEF Go, WorkerStates, Pcs
<1>5. /\ terminal'.prepare = terminal.prepare /\ terminal'.ops = terminal.ops /\ terminal'.authorized # None
      /\ direction = "push" => terminal'.publication = terminal.publication
    BY <1>1, Live, AuthorizedDoes
<1>6. Types'
    BY <1>1, <1>3, <1>4, TypesKept DEF Inv, Types
<1>7. Shape'
    BY <1>2, ShapeKept DEF Inv
<1>8. Requested'
    BY <1>1, <1>3, <1>5 DEF Inv, Requested, Status, Idle
<1>9. Employed'
    BY <1>1, <1>3, <1>4, <1>5, Live DEF Employed, Idle, At, Job, Preparing, Committing, Releasing, Status
<1>10. Intended'
    BY <1>3, <1>5 DEF Inv, Intended, Status
<1>11. Placed'
    BY <1>1, <1>3, <1>4, <1>5 DEF Inv, Placed, Published, Status, At, Committing
<1>12. Cleared'
    BY <1>1, <1>3, <1>4, <1>5 DEF Cleared, Status
<1> QED BY <1>2, <1>6, <1>7, <1>8, <1>9, <1>10, <1>11, <1>12 DEF Inv

LEMMA RecordErrorKeeps ==
    ASSUME Inv, RecordError, UNCHANGED direction PROVE Inv' /\ (LedgerNext \/ UNCHANGED terminal)
<1> DEFINE job == task.owner.job
           fails == job \in Actions /\ ActionFails(terminal, job, Operation(job).id) /\ ~Recoverable
<1>1. /\ ~Idle /\ worker.code \in Codes /\ Go("exiting") /\ UNCHANGED <<disk, request, source, faults>>
      /\ terminal' = IF fails THEN ActionFailed(terminal, job, worker.code) ELSE terminal
    BY Live DEF RecordError, At, Idle, Employed
<1>2. LedgerNext \/ UNCHANGED terminal
  <2>1. CASE fails
    BY <1>1, <2>1, LedgerSteps DEF Inv
  <2>2. CASE ~fails
    BY <1>1, <2>2
  <2> QED BY <2>1, <2>2
<1>3. task' \in Tasks /\ task'.owner = task.owner /\ task'.publish_intent = task.publish_intent
    BY <1>1, Live DEF RecordError, Tasks, Errors
<1>4. worker' \in WorkerStates /\ worker'.pc = "exiting"
    BY <1>1, Live DEF Go, WorkerStates, Pcs
<1>5. Types'
    BY <1>1, <1>3, <1>4, TypesKept DEF Inv, Types
<1>6. Shape'
    BY <1>2, ShapeKept DEF Inv
<1>7. Employed'
    BY <1>3, <1>4, Live, <1>1 DEF Employed, Idle, At, Job, Preparing, Committing, Releasing
<1>8. CASE ~fails
  <2>1. UNCHANGED terminal
    BY <1>1, <1>8
  <2>2. Requested' /\ Intended'
    BY <1>1, <1>3, <2>1 DEF Inv, Requested, Intended, Status, Idle
  <2>3. Placed'
    BY <1>1, <1>3, <1>4, <2>1 DEF Inv, Placed, Committing, Published, Status, At
  <2>4. Cleared'
    BY <1>1, <1>4, <2>1 DEF Inv, Cleared, Status
  <2> QED BY <1>2, <1>5, <1>6, <1>7, <2>2, <2>3, <2>4 DEF Inv
<1>9. CASE fails
  <2>1. job \in Actions /\ Status(job) = "IN_PROGRESS" /\ ~Recoverable
        /\ terminal' = ActionFailed(terminal, job, worker.code)
    BY <1>1, <1>9 DEF ActionFails, Pending, Status
  <2>2. /\ terminal'.prepare = terminal.prepare /\ terminal'.publication = terminal.publication
        /\ terminal'.authorized = terminal.authorized
        /\ Status(job)' = "FAILED" /\ terminal'.ops[job].id = terminal.ops[job].id /\ OthersSame(job)
    BY <1>1, <2>1, Live, ActionFailedDoes, <1>3
  <2> HIDE DEF fails
  <2>3. Requested'
    BY <1>1, <1>3, <2>1, <2>2, ActionNames DEF Inv, Requested, OthersSame, Status, Idle, Job
  <2>4. Intended'
    BY <1>3, <2>2, ActionNames DEF Inv, Intended, OthersSame, Status
  <2>5. Placed'
    BY <1>1, <1>3, <1>4, <2>1, <2>2, ActionNames
       DEF Inv, Placed, Committing, Published, OthersSame, Status, At, Recoverable, Job
  <2>6. Cleared'
    BY <1>1, <1>3, <1>4, <2>1, <2>2, ActionNames DEF Inv, Cleared, OthersSame, Status
  <2> QED BY <1>2, <1>5, <1>6, <1>7, <2>3, <2>4, <2>5, <2>6 DEF Inv
<1> QED BY <1>8, <1>9

-----------------------------------------------------------------------------
(* The service, the host and the other users.                              *)
LEMMA ReplayTargetsAreOpen ==
    ASSUME Facts, NEW a \in Actions, Status(a) = "IN_PROGRESS"
    PROVE  Status("release") # "DONE"
BY ActionNames DEF Facts

LEMMA BeginsBeforeRelease ==
    ASSUME Facts, NEW a \in Actions, NEW in, BeginStarts(terminal, a, in)
    PROVE  Status("release") = "NONE"
BY DoneNotNone DEF Facts, BeginStarts, ExpectedPhase, InputsValid, Actions, Status

LEMMA TransferFinishKeeps ==
    ASSUME Inv, NEW a \in Actions, TransferFinish(a), UNCHANGED direction
    PROVE  Inv' /\ (LedgerNext \/ UNCHANGED terminal)
<1>1. request = None /\ request' = a /\ UNCHANGED <<task, disk, worker, source, faults>>
    BY DEF TransferFinish
<1>2. Types'
    BY <1>1, Live, ActionNames, TypesKept DEF Inv, Types
<1>3. CASE /\ BeginStarts(terminal, a, HostInputs(a)) /\ Idle
           /\ terminal' = Begun(terminal, a, HostInputs(a), FreshId)
  <2>1. LedgerNext
    BY <1>3, LedgerBegins DEF Inv
  <2>2. Shape'
    BY <2>1, ShapeKept DEF Inv
  <2>3. Status("release") = "NONE"
    BY <1>3, Live, BeginsBeforeRelease
  <2>4. FreshId \in Ids \ UsedIds
    BY <2>3, Live, FreshIsFree DEF Inv
  <2>5. /\ terminal'.prepare = terminal.prepare /\ terminal'.publication = terminal.publication
        /\ Status(a)' = "IN_PROGRESS" /\ terminal'.ops[a].id = FreshId /\ OthersSame(a)
    BY <1>3, Live, BegunDoes
  <2>6. Requested'
    BY <1>1, <1>3, <2>5, ActionNames DEF Requested, Idle, Status
  <2>7. Employed'
    BY <1>1, <1>3, Live DEF Employed, Idle, At, Preparing, Committing, Releasing, Job
  <2>8. task.publish_intent # None => FreshId # task.publish_intent.id
    BY <2>4 DEF UsedIds
  <2>9. Intended'
    BY <1>1, <2>5, <2>8, ActionNames DEF Inv, Intended, OthersSame, Status
  <2>10. Placed'
    BY <1>1, <2>5, ActionNames DEF Inv, Placed, Published, OthersSame, Status, At
  <2>11. Status("release")' # "DONE"
    BY <2>3, <2>5, ActionNames DEF OthersSame, Status
  <2>12. Cleared'
    BY <1>1, <1>3, <2>11 DEF Cleared, Idle
  <2> QED BY <1>2, <2>1, <2>2, <2>6, <2>7, <2>9, <2>10, <2>12 DEF Inv
<1>4. CASE Status(a) = "IN_PROGRESS" /\ Relaunches(a) /\ UNCHANGED terminal
  <2>1. Shape'
    BY <1>4, ShapeKept DEF Inv
  <2>2. Idle \/ task.owner.job # a
    BY <1>4, Live DEF Relaunches, Employed
  <2>3. Requested'
    BY <1>1, <1>4, <2>2, ActionNames DEF Requested, Idle, Status
  <2>4. Employed' /\ Intended' /\ Placed'
    BY <1>1, <1>4 DEF Inv, Employed, Intended, Placed, Idle, At, Job, Status, Published
  <2>5. Cleared'
    BY <1>1, <1>4, Live, ReplayTargetsAreOpen DEF Inv, Cleared, Status
  <2> QED BY <1>2, <1>4, <2>1, <2>3, <2>4, <2>5 DEF Inv
<1> QED BY <1>3, <1>4 DEF TransferFinish, Status

(* Steps that leave the ledger, the intent and the tree in place alone     *)
(* while no worker of theirs runs.                                         *)
LEMMA Stays ==
    ASSUME Inv, UNCHANGED <<direction, terminal>>, Types', task'.publish_intent = task.publish_intent,
           Published' <=> Published, Requested', Employed',
           worker' = worker \/ worker'.pc \in {"dead", "start"}, task'.targets = task.targets,
           Status("release") = "DONE" =>
              /\ disk'.temps = {} /\ worker'.pc = "dead" /\ task'.owner.job = "release" /\ request' = None
              /\ task'.proof = task.proof /\ task'.owner.nonce = task.owner.nonce
    PROVE  Inv'
<1>1. Shape'
    BY ShapeKept DEF Inv
<1>2. Intended'
    BY DEF Inv, Intended, Status
<1>3. Placed'
  <2>1. worker'.pc \in Committing => worker' = worker
    BY DEF Committing
  <2>2. worker'.pc = "receipt" => worker' = worker
    OBVIOUS
  <2> QED BY <2>1, <2>2 DEF Inv, Placed, Status, At
<1>4. Cleared'
  <2>1. worker'.pc \in {"delete", "reverify", "conclude"} => worker' = worker
    OBVIOUS
  <2> QED BY <2>1 DEF Inv, Cleared, Status, Idle, Job
<1> QED BY <1>1, <1>2, <1>3, <1>4 DEF Inv

LEMMA ResumeKeeps == ASSUME Inv, Resume, UNCHANGED direction PROVE Inv'
<1>1. /\ Idle /\ terminal.phase = "READY" /\ request' = "verify_partial"
      /\ UNCHANGED <<terminal, task, disk, worker, source, faults>>
    BY DEF Resume
<1>2. Status("release") = "NONE"
    BY <1>1, Live DEF Facts
<1>3. Types'
    BY <1>1, ActionNames, TypesKept DEF Inv, Types
<1>4. Requested' /\ Employed'
    BY <1>1, <1>2, ActionNames DEF Inv, Requested, Employed, Idle, At, Job, Status
<1>5. Published' <=> Published
    BY <1>1 DEF Published
<1> QED BY <1>1, <1>2, <1>3, <1>4, <1>5, Stays

LEMMA LaunchKeeps == ASSUME Inv, Launch, UNCHANGED direction PROVE Inv'
<1>1. request # None /\ request' = None /\ UNCHANGED <<terminal, disk, source, faults>>
    BY DEF Launch
<1>2. Requested'
    BY <1>1, NoneIsAbsent DEF Requested, Jobs
<1>3. Published' <=> Published
    BY <1>1 DEF Published
<1>4. Status("release") # "DONE"
    BY <1>1 DEF Inv, Cleared
<1>5. CASE UNCHANGED <<task, worker>>
  <2>1. Types'
    BY <1>1, <1>5, TypesKept DEF Inv, Types
  <2>2. Employed'
    BY <1>1, <1>5 DEF Inv, Employed, Idle, At, Job, Status
  <2> QED BY <1>1, <1>2, <1>3, <1>4, <1>5, <2>1, <2>2, Stays
<1>6. CASE ~(Halted \/ ~Idle)
  <2>1. /\ Idle /\ task.owner.nonce < MaxWorkers /\ worker' = [pc |-> "start", code |-> None]
        /\ task' = [task EXCEPT
                 !.owner = [job |-> request, nonce |-> task.owner.nonce + 1, stopped |-> FALSE],
                 !.error = None,
                 !.proof = IF request = "release" /\ direction = "push" THEN None ELSE @]
    BY <1>6 DEF Launch
  <2>2. /\ task \in Tasks /\ request \in Jobs
    BY <1>1, Live
  <2>3. task.owner.nonce + 1 \in 0..MaxWorkers /\ task.owner.nonce + 1 >= 1
    BY <2>1, <2>2, BoundsAssumption DEF Tasks
  <2>4. task' \in Tasks /\ task'.publish_intent = task.publish_intent /\ task'.targets = task.targets
        /\ task'.owner = [job |-> request, nonce |-> task.owner.nonce + 1, stopped |-> FALSE]
    BY <2>1, <2>2, <2>3 DEF Tasks
  <2>5. worker' \in WorkerStates /\ worker'.pc = "start"
    BY <2>1 DEF WorkerStates, Pcs
  <2>6. Types'
    BY <1>1, <2>4, <2>5, TypesKept DEF Inv, Types
  <2>7. request \in Actions => Status(request) = "IN_PROGRESS"
    BY DEF Inv, Requested
  <2>8. Employed'
    BY <1>1, <2>2, <2>3, <2>4, <2>5, <2>7
       DEF Employed, Idle, At, Job, Status, Preparing, Committing, Releasing
  <2> QED BY <1>1, <1>2, <1>3, <1>4, <2>4, <2>5, <2>6, <2>8, Stays
<1> QED BY <1>5, <1>6 DEF Launch

LEMMA ServiceCrashKeeps == ASSUME Inv, ServiceCrash, UNCHANGED direction PROVE Inv'
<1>1. request # None /\ request' = None /\ UNCHANGED <<terminal, task, disk, worker, source>>
    BY DEF ServiceCrash
<1>2. faults' \in 0..MaxFaults
    BY Live, BoundsAssumption DEF ServiceCrash
<1>3. Types'
    BY <1>1, <1>2, TypesKept DEF Inv, Types
<1>4. Requested'
    BY <1>1, NoneIsAbsent DEF Requested, Jobs
<1>5. Employed'
    BY <1>1 DEF Inv, Employed, Idle, At, Job, Status
<1>6. Published' <=> Published
    BY <1>1 DEF Published
<1>7. Status("release") # "DONE"
    BY <1>1 DEF Inv, Cleared
<1> QED BY <1>1, <1>3, <1>4, <1>5, <1>6, <1>7, Stays

LEMMA ReconcileKeeps == ASSUME Inv, Reconcile, UNCHANGED direction PROVE Inv'
<1>1. Idle /\ request = None /\ UNCHANGED <<terminal, disk, worker, request, source, faults>>
    BY DEF Reconcile
<1>2. /\ task' \in Tasks /\ task'.publish_intent = task.publish_intent /\ task'.targets = task.targets
      /\ task'.proof = task.proof
    BY Live DEF Reconcile, Tasks, Errors
<1>3. task'.owner.job = task.owner.job /\ task'.owner.nonce = task.owner.nonce
    BY Live DEF Reconcile, Tasks
<1>4. Types'
    BY <1>1, <1>2, TypesKept DEF Inv, Types
<1>5. Requested'
    BY <1>1, ActionNames DEF Requested
<1>6. Employed'
    BY <1>1 DEF Employed, Idle, At, Preparing, Committing, Releasing
<1>7. Published' <=> Published
    BY <1>1 DEF Published
<1> QED BY <1>1, <1>2, <1>3, <1>4, <1>5, <1>6, <1>7, Stays DEF Inv, Cleared, Idle, Job

LEMMA FinalizeReleaseKeeps ==
    ASSUME Inv, FinalizeRelease, UNCHANGED direction PROVE Inv' /\ (LedgerNext \/ UNCHANGED terminal)
<1>1. Idle /\ request = None /\ Finalizable /\ UNCHANGED <<disk, worker, request, source, faults>>
    BY DEF FinalizeRelease, Finalizable
<1>2. Requested' /\ Employed'
    BY <1>1, ActionNames DEF Requested, Employed, Idle, At, Preparing, Committing, Releasing
<1>3. CASE task' = [task EXCEPT !.error = "verification_invalid"] /\ UNCHANGED terminal
  <2>1. /\ task' \in Tasks /\ task'.publish_intent = task.publish_intent /\ task'.targets = task.targets
        /\ task'.proof = task.proof /\ task'.owner = task.owner
    BY <1>3, Live DEF Tasks, Errors
  <2>2. Types'
    BY <1>1, <2>1, TypesKept DEF Inv, Types
  <2>3. Published' <=> Published
    BY <1>1 DEF Published
  <2>4. Inv'
    BY <1>1, <1>2, <1>3, <2>1, <2>2, <2>3, Stays DEF Inv, Cleared, Idle, Job
  <2> QED BY <1>3, <2>4
<1>4. CASE /\ ~(direction = "push" /\ task.proof # task.owner.nonce)
           /\ ReleaseCompletes(terminal, Operation("release").id)
           /\ terminal' = ReleaseDone(terminal) /\ UNCHANGED task
  <2>1. LedgerNext
    BY <1>4, LedgerSteps DEF Inv
  <2>2. Shape'
    BY <2>1, ShapeKept DEF Inv
  <2>3. Types'
    BY <1>1, <1>4, TypesKept DEF Inv, Types
  <2>4. /\ terminal'.prepare = terminal.prepare /\ terminal'.publication = terminal.publication
        /\ OthersSame("release")
    BY <1>4, Live, ReleaseDoneDoes
  <2>5. Status("commit")' = Status("commit") /\ Status("release")' = "DONE"
    BY <1>4, <2>4, Live, ReleaseDoneDoes, ActionNames DEF OthersSame, Status
  <2>6. terminal'.ops["release"].id = terminal.ops["release"].id
    BY <1>4, Live, Entries, ActionNames DEF ReleaseDone, Closed, Ledger, Entry
  <2>7. Intended'
    BY <1>4, <2>4, <2>5, <2>6, ActionNames DEF Inv, Intended, OthersSame
  <2>8. Placed'
    BY <1>1, <1>4, <2>4, <2>5 DEF Inv, Placed, Published, At
  <2>9. Cleared'
    BY <1>1, <1>4 DEF Cleared, Finalizable, Idle, Job
  <2> QED BY <1>2, <2>1, <2>2, <2>3, <2>7, <2>8, <2>9 DEF Inv
<1> QED BY <1>3, <1>4 DEF FinalizeRelease

LEMMA AbortKeeps == ASSUME Inv, Abort, UNCHANGED direction PROVE Inv'
<1>1. request = None /\ UNCHANGED <<terminal, disk, request, source, faults>>
    BY DEF Abort
<1>2. Requested'
    BY <1>1, ActionNames DEF Requested
<1>3. Published' <=> Published
    BY <1>1 DEF Published
<1>4. CASE /\ Go("dead")
           /\ task' = [task EXCEPT !.cancelled = TRUE, !.owner.stopped = TRUE, !.error = "transfer_cancelled"]
  <2>1. /\ task' \in Tasks /\ task'.publish_intent = task.publish_intent /\ task'.targets = task.targets
        /\ task'.proof = task.proof
    BY <1>4, Live DEF Tasks, Errors
  <2>2. task'.owner.job = task.owner.job /\ task'.owner.nonce = task.owner.nonce
    BY <1>4, Live DEF Tasks
  <2>3. worker' \in WorkerStates /\ worker'.pc = "dead"
    BY <1>4, Live DEF Go, WorkerStates, Pcs
  <2>4. Types'
    BY <1>1, <2>1, <2>3, TypesKept DEF Inv, Types
  <2>5. Employed'
    BY <2>3 DEF Employed, Idle, At, Preparing, Committing, Releasing
  <2> QED BY <1>1, <1>2, <1>3, <2>1, <2>2, <2>3, <2>4, <2>5, Stays DEF Inv, Cleared, Job
<1>5. CASE task' = [task EXCEPT !.cancelled = TRUE] /\ UNCHANGED worker
  <2>1. /\ task' \in Tasks /\ task'.publish_intent = task.publish_intent /\ task'.targets = task.targets
        /\ task'.proof = task.proof /\ task'.owner = task.owner
    BY <1>5, Live DEF Tasks
  <2>2. Types'
    BY <1>1, <1>5, <2>1, TypesKept DEF Inv, Types
  <2>3. Employed'
    BY <1>1, <1>5, <2>1 DEF Inv, Employed, Idle, At, Job, Status
  <2> QED BY <1>1, <1>2, <1>3, <1>5, <2>1, <2>2, <2>3, Stays DEF Inv, Cleared, Job, Idle
<1> QED BY <1>4, <1>5 DEF Abort

LEMMA ExpireKeeps == ASSUME Inv, Expire, UNCHANGED direction PROVE Inv'
<1>1. UNCHANGED <<terminal, disk, worker, request, source, faults>>
    BY DEF Expire
<1>2. /\ task' \in Tasks /\ task'.publish_intent = task.publish_intent /\ task'.targets = task.targets
      /\ task'.proof = task.proof /\ task'.owner = task.owner
    BY Live DEF Expire, Tasks
<1>3. Types'
    BY <1>1, <1>2, TypesKept DEF Inv, Types
<1>4. Requested' /\ Employed'
    BY <1>1, <1>2 DEF Inv, Requested, Employed, Idle, At, Job, Status
<1>5. Published' <=> Published
    BY <1>1 DEF Published
<1> QED BY <1>1, <1>2, <1>3, <1>4, <1>5, Stays DEF Inv, Cleared, Job, Idle

LEMMA OtherUsersKeeps == ASSUME Inv, OtherUsers, UNCHANGED direction PROVE Inv'
<1>1. UNCHANGED <<terminal, task, worker, request, faults>>
    BY DEF OtherUsers
<1>2. disk' \in Disks /\ disk'.temps = disk.temps /\ (Published' <=> Published)
      /\ source' \in {"same", "changed"}
    BY Live DEF OtherUsers, Disks, Published, Inv, Types
<1>3. Types'
    BY <1>1, <1>2, TypesKept DEF Inv, Types
<1>4. Requested' /\ Employed'
    BY <1>1 DEF Inv, Requested, Employed, Idle, At, Job, Status
<1> QED BY <1>1, <1>2, <1>3, <1>4, Stays DEF Inv, Cleared, Job, Idle

-----------------------------------------------------------------------------
LEMMA LedgerStarts ==
    ASSUME Init
    PROVE  LedgerInit /\ Shape
<1>1. terminal = FreshTerminal /\ direction \in {"push", "pull"}
    BY DEF Init
<1>2. CASE direction = "push"
  <2>1. FreshTerminal = PushLedger!FreshTerminal
    BY <1>2, PushLedgerRules
  <2>2. PushLedger!Init
    BY <1>1, <2>1 DEF PushLedger!Init
  <2>3. PushLedger!IInv
    BY <2>2, NoneIsAbsent, PushLedgerSets, PushLedger!InitGood
  <2> QED BY <1>2, <2>2, <2>3 DEF LedgerInit, Shape, PushLedger!IInv
<1>3. CASE direction = "pull"
  <2>1. FreshTerminal = PullLedger!FreshTerminal
    BY <1>3, PullLedgerRules
  <2>2. PullLedger!Init
    BY <1>1, <2>1 DEF PullLedger!Init
  <2>3. PullLedger!IInv
    BY <2>2, NoneIsAbsent, PullLedgerSets, PullLedger!InitGood
  <2> QED BY <1>3, <2>2, <2>3 DEF LedgerInit, Shape, PullLedger!IInv
<1> QED BY <1>1, <1>2, <1>3

LEMMA InitHolds ==
    ASSUME Init
    PROVE  Inv
<1>1. Shape
    BY LedgerStarts
<1>2. /\ worker.pc = "dead" /\ request = None /\ task.publish_intent = None /\ disk.dest = "none"
      /\ task.owner.stopped /\ direction \in {"push", "pull"}
    BY DEF Init
<1>3. /\ worker \in WorkerStates /\ disk \in Disks /\ source \in {"same", "changed"}
    BY DEF Init, WorkerStates, Pcs, Disks, Stages, Temporaries
<1>4. task \in Tasks
    BY BoundsAssumption DEF Init, Tasks
<1>5. faults \in 0..MaxFaults
    BY BoundsAssumption DEF Init
<1>6. Types
    BY <1>2, <1>3, <1>4, <1>5 DEF Types
<1>7. Status("release") = "NONE" /\ terminal.publication = None
    BY DEF Init, FreshTerminal, Ledger, NoOperation, Actions, Status
<1>8. Requested /\ Employed /\ Intended
    BY <1>2, ActionNames DEF Requested, Employed, Intended, Idle, At, Preparing, Committing, Releasing
<1>9. Placed /\ Cleared
    BY <1>2, <1>7 DEF Placed, Cleared, Published, At, Committing
<1> QED BY <1>1, <1>6, <1>8, <1>9 DEF Inv

LEMMA WorkerStepKeeps ==
    ASSUME Inv, WorkerStep, UNCHANGED direction
    PROVE  Inv' /\ (LedgerNext \/ UNCHANGED terminal)
<1>1. UNCHANGED <<request, source, faults, direction>>
    BY DEF WorkerStep
<1>2. CASE VerifyPartial
    BY <1>1, <1>2, VerifyPartialKeeps DEF VerifyPartial
<1>3. CASE PreparePull
    BY <1>1, <1>3, PreparePullKeeps DEF PreparePull
<1>4. CASE StageIntent
    BY <1>1, <1>4, StageIntentKeeps DEF StageIntent
<1>5. CASE ClearStage
    BY <1>1, <1>5, ClearStageKeeps DEF ClearStage
<1>6. CASE MakeStage
    BY <1>1, <1>6, MakeStageKeeps DEF MakeStage
<1>7. CASE RegisterStage
    BY <1>1, <1>7, RegisterStageKeeps DEF RegisterStage
<1>8. CASE Unpack
    BY <1>1, <1>8, UnpackKeeps DEF Unpack
<1>9. CASE ManifestSidecar
    BY <1>1, <1>9, ManifestSidecarKeeps DEF ManifestSidecar
<1>10. CASE PersistPrepare
    BY <1>1, <1>10, PersistPrepareKeeps
<1>11. CASE PublishIntent
    BY <1>1, <1>11, PublishIntentKeeps DEF PublishIntent
<1>12. CASE Publish
    BY <1>1, <1>12, PublishKeeps DEF Publish
<1>13. CASE PersistCommit
    BY <1>1, <1>13, PersistCommitKeeps
<1>14. CASE StartRelease
    BY <1>1, <1>14, StartReleaseKeeps DEF StartRelease
<1>15. CASE Authorize
    BY <1>1, <1>15, AuthorizeKeeps
<1>16. CASE Delete
    BY <1>1, <1>16, DeleteKeeps DEF Delete
<1>17. CASE Reverify
    BY <1>1, <1>17, ReverifyKeeps DEF Reverify
<1>18. CASE Conclude
    BY <1>1, <1>18, ConcludeKeeps DEF Conclude
<1>19. CASE Exit
    BY <1>1, <1>19, ExitKeeps DEF Exit
<1> QED BY <1>2, <1>3, <1>4, <1>5, <1>6, <1>7, <1>8, <1>9, <1>10, <1>11, <1>12, <1>13, <1>14, <1>15,
           <1>16, <1>17, <1>18, <1>19 DEF WorkerStep

LEMMA StepKeeps ==
    ASSUME Inv, Next
    PROVE  Inv' /\ UNCHANGED direction /\ (LedgerNext \/ UNCHANGED terminal)
<1>1. UNCHANGED direction
    BY DEF Next
<1>2. CASE \E a \in Actions : TransferFinish(a)
    BY <1>1, <1>2, TransferFinishKeeps
<1>3. CASE Launch
    BY <1>1, <1>3, LaunchKeeps DEF Launch
<1>4. CASE Reconcile
    BY <1>1, <1>4, ReconcileKeeps DEF Reconcile
<1>5. CASE FinalizeRelease
    BY <1>1, <1>5, FinalizeReleaseKeeps
<1>6. CASE Resume
    BY <1>1, <1>6, ResumeKeeps DEF Resume
<1>7. CASE ServiceCrash
    BY <1>1, <1>7, ServiceCrashKeeps DEF ServiceCrash
<1>8. CASE Abort
    BY <1>1, <1>8, AbortKeeps DEF Abort
<1>9. CASE Expire
    BY <1>1, <1>9, ExpireKeeps DEF Expire
<1>10. CASE WorkerStep
    BY <1>1, <1>10, WorkerStepKeeps
<1>11. CASE Raise
    BY <1>1, <1>11, RaiseKeeps DEF Raise
<1>12. CASE Fault
    BY <1>1, <1>12, FaultKeeps DEF Fault
<1>13. CASE Die
    BY <1>1, <1>13, DieKeeps DEF Die
<1>14. CASE RecordError
    BY <1>1, <1>14, RecordErrorKeeps
<1>15. CASE OtherUsers
    BY <1>1, <1>15, OtherUsersKeeps DEF OtherUsers
<1> QED BY <1>1, <1>2, <1>3, <1>4, <1>5, <1>6, <1>7, <1>8, <1>9, <1>10, <1>11, <1>12, <1>13, <1>14,
           <1>15 DEF Next, ServiceStep

LEMMA StutterKeeps ==
    ASSUME Inv, UNCHANGED vars
    PROVE  Inv'
<1>1. Types' /\ Shape'
    BY TypesKept, ShapeKept DEF Inv, Types, vars
<1>2. Requested' /\ Employed' /\ Intended'
    BY DEF Inv, vars, Requested, Employed, Intended, Idle, At, Job, Status
<1>3. Placed' /\ Cleared'
    BY DEF Inv, vars, Placed, Cleared, Published, Idle, At, Job, Status
<1> QED BY <1>1, <1>2, <1>3 DEF Inv

(* The inductive invariant of the task's jobs.                             *)
THEOREM TasksHold == Spec => []Inv
<1>1. Init => Inv
    BY InitHolds
<1>2. Inv /\ [Next]_vars => Inv'
    BY StepKeeps, StutterKeeps
<1> QED BY <1>1, <1>2, PTL DEF Spec

(* Every receipt of a task is true of the disk: a publication receipt is   *)
(* stored only for the tree renamed into place and is the one its intent   *)
(* fixed, once the tree is in place no failure fails the commit, and a     *)
(* RELEASED task has no temporary and no worker left and was verified by   *)
(* the worker that cleaned up.                                             *)
THEOREM ReceiptsTellTheTruth == Spec => []ReceiptsAreTrue
<1>1. ASSUME Inv PROVE ReceiptsAreTrue
  <2>1. ReceiptIsPublished
    BY <1>1 DEF Inv, Placed, Published, ReceiptIsPublished
  <2>2. PublishedNeverFails
    BY <1>1 DEF Inv, Placed, Published, Status, PublishedNeverFails
  <2>3. ASSUME Status("release") = "DONE", direction = "push" PROVE Published
    BY <1>1, <2>3, Live DEF Facts, Inv, Placed
  <2>4. ReleasedIsClean
    BY <1>1, <2>3 DEF Inv, Cleared, Status, Published, ReleasedIsClean
  <2> QED BY <2>1, <2>2, <2>4 DEF ReceiptsAreTrue
<1> QED BY <1>1, TasksHold, PTL

(* No temporary is deleted before the authorization of the release and the *)
(* identities of its targets are saved.                                    *)
THEOREM DeletionsAreAuthorized == Spec => DeletionIsAuthorized
<1>1. ASSUME Inv, [Next]_vars PROVE [disk'.temps # disk.temps => Authorized]_vars
  <2> SUFFICES ASSUME Next, disk'.temps # disk.temps PROVE Authorized
    BY <1>1
  <2>1. disk \in Disks
    BY <1>1, Live
  <2>2. At("delete")
    BY <2>1 DEF Next, ServiceStep, WorkerStep, TransferFinish, Launch, Reconcile, FinalizeRelease, Resume,
       ServiceCrash, Abort, Expire, VerifyPartial, PreparePull, StageIntent, ClearStage, MakeStage,
       RegisterStage, Unpack, ManifestSidecar, PersistPrepare, PublishIntent, Publish, PersistCommit,
       StartRelease, Authorize, Delete, Reverify, Conclude, Exit, Raise, Fault, Die, RecordError,
       OtherUsers, Disks
  <2>3. terminal.authorized # None /\ task.targets /\ Job("release") /\ Status("release") = "IN_PROGRESS"
    BY <1>1, <2>2, Live, ActionNames DEF Inv, Cleared, Employed, Releasing, At, Job, Idle
  <2> QED BY <1>1, <2>3, Live DEF Facts, Authorized
<1>2. Spec => [][disk'.temps # disk.temps => Authorized]_vars
    BY <1>1, TasksHold, PTL DEF Spec
<1> QED BY <1>2 DEF DeletionIsAuthorized

(* The jobs refine the ledger: every step of the task is a step of         *)
(* GuestTerminal, so what is proved of the ledger holds of the task.       *)
THEOREM JobsImplementTheLedger == Spec => ImplementsLedger
<1>1. Init => LedgerInit
    BY LedgerStarts
<1>2. Inv /\ [Next]_vars => [LedgerNext]_<<direction, terminal>>
    BY StepKeeps DEF vars
<1>3. Spec => LedgerInit /\ [][LedgerNext]_<<direction, terminal>>
    BY <1>1, <1>2, TasksHold, PTL DEF Spec
<1> QED BY <1>3 DEF ImplementsLedger

(* Type correctness.                                                       *)
THEOREM TypesHold == Spec => []TypeOK
<1>1. ASSUME Inv PROVE TypeOK
    BY <1>1, Live DEF TypeOK, Inv, Types, Tasks, Disks, Stages, WorkerStates, Facts
<1> QED BY <1>1, TasksHold, PTL
=============================================================================
