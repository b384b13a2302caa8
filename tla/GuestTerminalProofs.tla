------------------------ MODULE GuestTerminalProofs ------------------------
(***************************************************************************)
(* Proofs about the guest's terminal ledger, for every set of identifiers  *)
(* and error codes and for both directions.  The inductive invariant says  *)
(* exactly which snapshots the engine can save: what each ledger entry     *)
(* holds, which entries may exist together, and the phase they imply.      *)
(***************************************************************************)
EXTENDS GuestTerminal, TLAPS

(* What one ledger entry holds, whatever its action.                       *)
EntryShape(op) ==
    /\ op.status = "NONE" => op = NoOperation
    /\ op.status # "NONE" => op.id \in Ids
    /\ op.status = "IN_PROGRESS" => op.result = NoResult
    /\ op.status = "FAILED" =>
          /\ op.result.error \in Codes
          /\ op.result = Failure(op.result.error)

PrepareShape(t) ==
    LET op == t.ops["prepare"] IN
    /\ EntryShape(op)
    /\ op.inputs = NoInputs
    /\ t.prepare # None <=> op.status = "DONE"
    /\ op.status = "DONE" =>
          /\ ValidPrepare(t.prepare)
          /\ op.result = Receipt(t.prepare, None)

CommitShape(t) ==
    LET op == t.ops["commit"] IN
    /\ EntryShape(op)
    /\ op.status # "NONE" =>
          /\ Direction = "push"
          /\ t.ops["prepare"].status = "DONE"
          /\ InputsValid(t, "commit", op.inputs)
    /\ op.status = "DONE" =>
          /\ ValidPublication(t.publication, t.prepare)
          /\ op.result = Receipt(None, t.publication)
    /\ Direction = "push" => (t.publication # None <=> op.status = "DONE")

ReleaseShape(t) ==
    LET op == t.ops["release"] IN
    /\ EntryShape(op)
    /\ op.status # "NONE" =>
          /\ t.ops["prepare"].status = "DONE"
          /\ Direction = "push" => t.ops["commit"].status = "DONE"
          /\ InputsValid(t, "release", op.inputs)
    /\ op.status \in {"NONE", "FAILED"} => t.authorized = None
    /\ op.status = "DONE" =>
          /\ t.authorized # None
          /\ op.result = Receipt(None, t.publication)
    /\ t.authorized # None =>
          /\ t.authorized = [id |-> op.id, publication |-> op.inputs.publication]
          /\ t.publication = op.inputs.publication
    /\ Direction = "pull" => (t.publication # None <=> t.authorized # None)

(* The phase the entries imply.                                            *)
PhaseShape(t) ==
    LET p == t.ops["prepare"]  c == t.ops["commit"]  r == t.ops["release"] IN
    t.phase = IF r.status = "DONE" THEN "RELEASED"
              ELSE IF r.status = "FAILED" THEN FailedPhase(r.result.error)
              ELSE IF t.authorized # None THEN "RELEASING"
              ELSE IF c.status = "DONE" THEN "PUBLISHED"
              ELSE IF c.status = "FAILED" THEN FailedPhase(c.result.error)
              ELSE IF p.status = "DONE" THEN "PREPARED"
              ELSE IF p.status = "FAILED" THEN FailedPhase(p.result.error)
              ELSE "READY"

LedgerShape(t) ==
    /\ t \in Snapshots
    /\ PrepareShape(t)
    /\ CommitShape(t)
    /\ ReleaseShape(t)
    /\ PhaseShape(t)

(* The inductive invariant.                                                *)
IInv == /\ LedgerShape(terminal)
        /\ told \subseteq Disclosures
        /\ DisclosuresHold
-----------------------------------------------------------------------------
(* The intermediate ledgers of restore: t with only its prepare entry, and *)
(* t with its prepare and commit entries.                                  *)
AfterPrepare(t) ==
    LET p == t.ops["prepare"] IN
    Ledger(IF p.status = "DONE" THEN "PREPARED"
           ELSE IF p.status = "FAILED" THEN FailedPhase(p.result.error) ELSE "READY",
           t.prepare, None, None,
           [a \in Actions |-> IF a = "prepare" THEN p ELSE NoOperation])

AfterCommit(t) ==
    LET c == t.ops["commit"] IN
    Ledger(IF c.status = "DONE" THEN "PUBLISHED"
           ELSE IF c.status = "FAILED" THEN FailedPhase(c.result.error)
           ELSE AfterPrepare(t).phase,
           t.prepare, IF c.status = "DONE" THEN t.publication ELSE None, None,
           [a \in Actions |-> IF a = "release" THEN NoOperation ELSE t.ops[a]])

(* A snapshot and its entries are determined by their fields.              *)
LEMMA SnapshotFields ==
    ASSUME NEW t \in Snapshots
    PROVE  /\ t = Ledger(t.phase, t.prepare, t.publication, t.authorized, t.ops)
           /\ t.ops = [a \in Actions |-> t.ops[a]]
           /\ \A a \in Actions :
                 /\ t.ops[a] \in Operations
                 /\ t.ops[a].status \in Statuses
                 /\ t.ops[a] = Entry(t.ops[a].status, t.ops[a].id, t.ops[a].inputs, t.ops[a].result)
  BY DEF Snapshots, Operations, Ledger, Entry

(* Recording one entry changes that entry only.                            *)
LEMMA EntryUpdate ==
    ASSUME NEW D, NEW f, f = [a \in D |-> f[a]], NEW x \in D, NEW op
    PROVE  [f EXCEPT ![x] = op] = [a \in D |-> IF a = x THEN op ELSE f[a]]
  OBVIOUS

LEMMA ReplayPrepare ==
    ASSUME NEW t, LedgerShape(t)
    PROVE  Replay(FreshTerminal, t, "prepare") = AfterPrepare(t)
  <1> DEFINE p == t.ops["prepare"]
             b == Begun(FreshTerminal, "prepare", NoInputs, p.id)
  <1>1. t \in Snapshots /\ PrepareShape(t)
    BY DEF LedgerShape
  <1>2. FreshTerminal # None /\ FreshTerminal \in Snapshots
    BY ReceiptsAreNotNone DEF FreshTerminal, Ledger, Snapshots, Phases, Operations,
       NoOperation, Statuses, NoInputs, Inputs, NoResult, Results, Actions
  <1>3. CASE p.status = "NONE"
    BY <1>1, <1>2, <1>3 DEF Replay, AfterPrepare, PrepareShape, EntryShape, FreshTerminal,
       NoOperation
  <1>4. CASE p.status # "NONE"
    <2>1. p.inputs = NoInputs
      BY <1>1 DEF PrepareShape
    <2>2. BeginStarts(FreshTerminal, "prepare", NoInputs)
      BY DEF BeginStarts, InputsValid, ExpectedPhase, NoneInProgress, FreshTerminal, Ledger,
         NoOperation, Actions
    <2>3. Replay(FreshTerminal, t, "prepare") = ReplayFinish(b, "prepare", p, t.authorized)
      BY <1>2, <1>4, <2>1, <2>2 DEF Replay
    <2>4. b = Ledger("READY", None, None, None,
                     [a \in Actions |-> IF a = "prepare"
                        THEN Entry("IN_PROGRESS", p.id, NoInputs, NoResult) ELSE NoOperation])
      BY DEF Begun, FreshTerminal, Ledger, Actions
    <2> HIDE DEF b
    <2>5. Pending(b, "prepare", p.id)
      BY <2>4 DEF Pending, Ledger, Entry, Actions
    <2>6. CASE p.status = "IN_PROGRESS"
      BY <1>1, <2>1, <2>3, <2>4, <2>6, SnapshotFields
         DEF ReplayFinish, AfterPrepare, PrepareShape, EntryShape, Actions
    <2>7. CASE p.status = "DONE"
      <3>1. ValidPrepare(t.prepare) /\ p.result = Receipt(t.prepare, None)
        BY <1>1, <2>7 DEF PrepareShape
      <3>2. p.result.prepare = t.prepare
        BY <3>1 DEF Receipt
      <3>3. Replay(FreshTerminal, t, "prepare") = PrepareDone(b, t.prepare)
        BY <2>3, <2>5, <2>7, <3>1, <3>2 DEF ReplayFinish, PrepareCompletes
      <3>4. p = Entry("DONE", p.id, NoInputs, Receipt(t.prepare, None))
        BY <1>1, <2>1, <2>7, <3>1, SnapshotFields DEF Actions
      <3> QED
        BY <2>4, <2>7, <3>3, <3>4
           DEF PrepareDone, Closed, Ledger, Entry, AfterPrepare, Actions
    <2>8. CASE p.status = "FAILED"
      <3>1. /\ p.result = Failure(p.result.error)
            /\ t.prepare = None
        BY <1>1, <2>8 DEF PrepareShape, EntryShape
      <3>2. ActionFails(b, "prepare", p.id)
        BY <2>4, <2>5 DEF ActionFails, Ledger
      <3>3. Replay(FreshTerminal, t, "prepare") = ActionFailed(b, "prepare", p.result.error)
        BY <2>3, <2>8, <3>2 DEF ReplayFinish
      <3>4. p = Entry("FAILED", p.id, NoInputs, Failure(p.result.error))
        BY <1>1, <2>1, <2>8, <3>1, SnapshotFields DEF Actions
      <3> QED
        BY <2>4, <2>8, <3>1, <3>3, <3>4
           DEF ActionFailed, Closed, Ledger, Entry, AfterPrepare, Actions
    <2> QED BY <1>1, <1>4, <2>6, <2>7, <2>8, SnapshotFields DEF Statuses, Actions
  <1> QED BY <1>3, <1>4

LEMMA ReplayCommit ==
    ASSUME NEW t, LedgerShape(t)
    PROVE  Replay(AfterPrepare(t), t, "commit") = AfterCommit(t)
  <1> DEFINE p == t.ops["prepare"]
             c == t.ops["commit"]
             u == AfterPrepare(t)
             b == Begun(u, "commit", c.inputs, c.id)
  <1>1. t \in Snapshots /\ PrepareShape(t) /\ CommitShape(t)
    BY DEF LedgerShape
  <1>2. u \in Snapshots
    <2>1. u.phase \in Phases
      BY DEF AfterPrepare, Ledger, Phases, FailedPhase
    <2>2. u.ops \in [Actions -> Operations]
      BY <1>1, SnapshotFields DEF AfterPrepare, Ledger, Operations, NoOperation, Statuses,
         NoInputs, Inputs, NoResult, Results, Actions
    <2> QED BY <1>1, <2>1, <2>2 DEF AfterPrepare, Ledger, Snapshots
  <1>3. u # None
    BY <1>2, ReceiptsAreNotNone
  <1>4. CASE c.status = "NONE"
    <2>1. c = NoOperation
      BY <1>1, <1>4 DEF CommitShape, EntryShape
    <2>2. u.ops = [a \in Actions |-> IF a = "release" THEN NoOperation ELSE t.ops[a]]
      BY <2>1 DEF AfterPrepare, Ledger, Actions
    <2>3. AfterCommit(t) = u
      BY <1>4, <2>2 DEF AfterPrepare, AfterCommit, Ledger
    <2> QED BY <1>3, <1>4, <2>3 DEF Replay
  <1>5. CASE c.status # "NONE"
    <2>1. /\ Direction = "push"
          /\ p.status = "DONE"
          /\ InputsValid(t, "commit", c.inputs)
      BY <1>1, <1>5 DEF CommitShape
    <2>2. u = Ledger("PREPARED", t.prepare, None, None,
                     [a \in Actions |-> IF a = "prepare" THEN p ELSE NoOperation])
      BY <2>1 DEF AfterPrepare
    <2> HIDE DEF u
    <2>3. BeginStarts(u, "commit", c.inputs)
      BY <2>1, <2>2 DEF BeginStarts, InputsValid, ExpectedPhase, NoneInProgress, Ledger,
         NoOperation, Actions
    <2>4. Replay(u, t, "commit") = ReplayFinish(b, "commit", c, t.authorized)
      BY <1>3, <1>5, <2>3 DEF Replay
    <2>5. b = Ledger("PREPARED", t.prepare, None, None,
                     [a \in Actions |->
                        IF a = "commit" THEN Entry("IN_PROGRESS", c.id, c.inputs, NoResult)
                        ELSE IF a = "prepare" THEN p ELSE NoOperation])
      BY <2>2 DEF Begun, Ledger, Actions
    <2> HIDE DEF b
    <2>6. Pending(b, "commit", c.id)
      BY <2>5 DEF Pending, Ledger, Entry, Actions
    <2>7. CASE c.status = "IN_PROGRESS"
      <3>1. c = Entry("IN_PROGRESS", c.id, c.inputs, NoResult)
        BY <1>1, <2>7, SnapshotFields DEF CommitShape, EntryShape, Actions
      <3>2. b = Ledger("PREPARED", t.prepare, None, None,
                       [a \in Actions |-> IF a = "release" THEN NoOperation ELSE t.ops[a]])
        BY <2>5, <3>1 DEF Actions
      <3>3. AfterCommit(t) = b
        BY <2>1, <2>7, <3>2 DEF AfterCommit, AfterPrepare, Ledger
      <3> QED BY <2>4, <2>7, <3>3 DEF ReplayFinish, u
    <2>8. CASE c.status = "DONE"
      <3>1. /\ ValidPublication(t.publication, t.prepare)
            /\ c.result = Receipt(None, t.publication)
            /\ c.result.publication = t.publication
        BY <1>1, <2>8 DEF CommitShape, Receipt
      <3>2. CommitCompletes(b, c.id, t.publication)
        BY <2>1, <2>5, <2>6, <3>1 DEF CommitCompletes, Ledger
      <3>3. Replay(u, t, "commit") = CommitDone(b, t.publication)
        BY <2>4, <2>8, <3>1, <3>2 DEF ReplayFinish
      <3>4. c = Entry("DONE", c.id, c.inputs, Receipt(None, t.publication))
        BY <1>1, <2>8, <3>1, SnapshotFields DEF Actions
      <3> QED
        BY <2>5, <2>8, <3>3, <3>4 DEF CommitDone, Closed, Ledger, Entry, AfterCommit, Actions, u
    <2>9. CASE c.status = "FAILED"
      <3>1. c.result = Failure(c.result.error)
        BY <1>1, <2>9 DEF CommitShape, EntryShape
      <3>2. ActionFails(b, "commit", c.id)
        BY <2>5, <2>6 DEF ActionFails, Ledger
      <3>3. Replay(u, t, "commit") = ActionFailed(b, "commit", c.result.error)
        BY <2>4, <2>9, <3>2 DEF ReplayFinish
      <3>4. c = Entry("FAILED", c.id, c.inputs, Failure(c.result.error))
        BY <1>1, <2>9, <3>1, SnapshotFields DEF Actions
      <3> QED
        BY <2>5, <2>9, <3>3, <3>4 DEF ActionFailed, Closed, Ledger, Entry, AfterCommit, Actions, u
    <2> QED BY <1>1, <1>5, <2>7, <2>8, <2>9, SnapshotFields DEF Statuses, Actions
  <1> QED BY <1>4, <1>5

LEMMA ReplayRelease ==
    ASSUME NEW t, LedgerShape(t)
    PROVE  Replay(AfterCommit(t), t, "release") = t
  <1> DEFINE p == t.ops["prepare"]
             c == t.ops["commit"]
             r == t.ops["release"]
             u == AfterCommit(t)
             b == Begun(u, "release", r.inputs, r.id)
  <1>1. /\ t \in Snapshots /\ PrepareShape(t) /\ CommitShape(t)
        /\ ReleaseShape(t) /\ PhaseShape(t)
    BY DEF LedgerShape
  <1>2. t = Ledger(t.phase, t.prepare, t.publication, t.authorized,
                   [a \in Actions |-> t.ops[a]])
    BY <1>1, SnapshotFields
  <1>3. CASE r.status = "NONE"
    <2>1. r = NoOperation /\ t.authorized = None
      BY <1>1, <1>3 DEF ReleaseShape, EntryShape
    <2>2. u.ops = [a \in Actions |-> t.ops[a]]
      BY <2>1 DEF AfterCommit, Ledger, Actions
    <2>3. u.publication = t.publication
      BY <1>1, <2>1, DirectionAssumption DEF CommitShape, ReleaseShape, AfterCommit, Ledger
    <2>4. u.phase = t.phase
      BY <1>1, <1>3, <2>1 DEF PhaseShape, AfterCommit, AfterPrepare, Ledger
    <2>5. u = Ledger(u.phase, t.prepare, u.publication, None, u.ops)
      BY DEF AfterCommit, Ledger
    <2>6. u = t
      BY <1>2, <2>1, <2>2, <2>3, <2>4, <2>5 DEF Ledger
    <2> QED BY <1>3, <2>6 DEF Replay
  <1>4. CASE r.status # "NONE"
    <2>1. /\ p.status = "DONE"
          /\ Direction = "push" => c.status = "DONE"
          /\ Direction = "pull" => c = NoOperation
          /\ InputsValid(t, "release", r.inputs)
      BY <1>1, <1>4, DirectionAssumption DEF ReleaseShape, CommitShape, EntryShape
    <2>2. u = Ledger(ExpectedPhase("release"), t.prepare,
                     IF Direction = "push" THEN t.publication ELSE None, None,
                     [a \in Actions |-> IF a = "release" THEN NoOperation ELSE t.ops[a]])
      BY <2>1, DirectionAssumption
         DEF AfterCommit, AfterPrepare, Ledger, ExpectedPhase, NoOperation
    <2> HIDE DEF u
    <2>3. u # None
      BY <1>1, <2>2, SnapshotFields, ReceiptsAreNotNone
         DEF Ledger, Snapshots, Phases, ExpectedPhase, Operations, NoOperation, Statuses,
             NoInputs, Inputs, NoResult, Results, Actions
    <2>4. InputsValid(u, "release", r.inputs)
      BY <2>1, <2>2 DEF InputsValid, Ledger
    <2>5. NoneInProgress(u)
      BY <2>1, <2>2, DirectionAssumption DEF NoneInProgress, Ledger, NoOperation, Actions
    <2>6. BeginStarts(u, "release", r.inputs)
      BY <2>2, <2>4, <2>5 DEF BeginStarts, Ledger, NoOperation, Actions
    <2>7. Replay(u, t, "release") = ReplayFinish(b, "release", r, t.authorized)
      BY <1>4, <2>3, <2>6 DEF Replay
    <2>8. b = Ledger(ExpectedPhase("release"), t.prepare,
                     IF Direction = "push" THEN t.publication ELSE None, None,
                     [a \in Actions |->
                        IF a = "release" THEN Entry("IN_PROGRESS", r.id, r.inputs, NoResult)
                        ELSE t.ops[a]])
      BY <2>2 DEF Begun, Ledger, Actions
    <2> HIDE DEF b
    <2>9. Pending(b, "release", r.id)
      BY <2>8 DEF Pending, Ledger, Entry, Actions
    <2>10. ReleaseAuthorized(b) =
             Ledger("RELEASING", t.prepare, r.inputs.publication,
                    [id |-> r.id, publication |-> r.inputs.publication], b.ops)
      BY <2>8 DEF ReleaseAuthorized, Ledger, Entry, Actions
    <2>11. CASE r.status = "IN_PROGRESS"
      <3>1. r = Entry("IN_PROGRESS", r.id, r.inputs, NoResult)
        BY <1>1, <2>11, SnapshotFields DEF ReleaseShape, EntryShape, Actions
      <3>2. b.ops = [a \in Actions |-> t.ops[a]]
        BY <2>8, <3>1 DEF Ledger, Actions
      <3>3. CASE t.authorized = None
        <4>1. t.publication = IF Direction = "push" THEN t.publication ELSE None
          BY <1>1, <3>3, DirectionAssumption DEF ReleaseShape
        <4>2. t.phase = ExpectedPhase("release")
          BY <1>1, <2>1, <2>11, <3>3, DirectionAssumption
             DEF PhaseShape, ExpectedPhase, NoOperation
        <4>3. b = t
          BY <1>2, <2>8, <3>2, <3>3, <4>1, <4>2 DEF Ledger
        <4> QED BY <2>7, <2>11, <3>3, <4>3 DEF ReplayFinish, u
      <3>4. CASE t.authorized # None
        <4>1. /\ t.authorized = [id |-> r.id, publication |-> r.inputs.publication]
              /\ t.publication = r.inputs.publication
              /\ t.phase = "RELEASING"
          BY <1>1, <2>11, <3>4 DEF ReleaseShape, PhaseShape
        <4>2. ReleaseAuthorized(b) = t
          BY <1>2, <2>10, <3>2, <4>1
        <4> QED BY <2>7, <2>11, <3>4, <4>2 DEF ReplayFinish, u
      <3> QED BY <3>3, <3>4
    <2>12. CASE r.status = "DONE"
      <3> DEFINE v == ReleaseAuthorized(b)
      <3>1. /\ t.authorized = [id |-> r.id, publication |-> r.inputs.publication]
            /\ t.publication = r.inputs.publication
            /\ t.phase = "RELEASED"
            /\ r.result = Receipt(None, t.publication)
        BY <1>1, <2>12 DEF ReleaseShape, PhaseShape
      <3>2. [id |-> r.id, publication |-> r.inputs.publication] # None
        BY <1>1, <2>12, <3>1 DEF ReleaseShape
      <3>3. ReleaseCompletes(v, r.id)
        BY <2>9, <2>10, <3>2 DEF ReleaseCompletes, Pending, Ledger
      <3>4. Replay(u, t, "release") = ReleaseDone(v)
        BY <2>7, <2>12, <3>3 DEF ReplayFinish
      <3>5. r = Entry("DONE", r.id, r.inputs, Receipt(None, t.publication))
        BY <1>1, <2>12, <3>1, SnapshotFields DEF Actions
      <3>6. Closed(v, "release", "DONE", Receipt(None, t.publication)) = [a \in Actions |-> t.ops[a]]
        <4>1. v.ops = b.ops
          BY <2>10 DEF Ledger
        <4> HIDE DEF v
        <4> QED BY <2>8, <3>5, <4>1 DEF Closed, Ledger, Entry, Actions
      <3>7. ReleaseDone(v) = t
        BY <1>2, <2>10, <3>1, <3>6 DEF ReleaseDone, Ledger
      <3> QED BY <3>4, <3>7 DEF u
    <2>13. CASE r.status = "FAILED"
      <3>1. /\ r.result = Failure(r.result.error)
            /\ t.authorized = None
            /\ t.phase = FailedPhase(r.result.error)
        BY <1>1, <2>13 DEF ReleaseShape, EntryShape, PhaseShape
      <3>2. ActionFails(b, "release", r.id)
        BY <2>8, <2>9 DEF ActionFails, Ledger
      <3>3. Replay(u, t, "release") = ActionFailed(b, "release", r.result.error)
        BY <2>7, <2>13, <3>2 DEF ReplayFinish
      <3>4. r = Entry("FAILED", r.id, r.inputs, Failure(r.result.error))
        BY <1>1, <2>13, <3>1, SnapshotFields DEF Actions
      <3>5. Closed(b, "release", "FAILED", Failure(r.result.error)) = [a \in Actions |-> t.ops[a]]
        BY <2>8, <3>4 DEF Closed, Ledger, Entry, Actions
      <3>6. b.publication = t.publication
        BY <1>1, <2>8, <3>1, DirectionAssumption DEF ReleaseShape, Ledger
      <3>7. ActionFailed(b, "release", r.result.error) = t
        BY <1>2, <2>8, <3>1, <3>5, <3>6 DEF ActionFailed, Ledger
      <3> QED BY <3>3, <3>7 DEF u
    <2> QED BY <1>1, <1>4, <2>11, <2>12, <2>13, SnapshotFields DEF Statuses, Actions
  <1> QED BY <1>3, <1>4

(* The strict equality at the end of GuestTerminal.restore accepts every   *)
(* ledger of the shape the engine writes.                                  *)
LEMMA RestoreIdentity ==
    ASSUME NEW t, LedgerShape(t)
    PROVE  Restore(t) = t /\ t # None
  <1>1. t # None
    BY ReceiptsAreNotNone DEF LedgerShape
  <1> QED BY <1>1, ReplayPrepare, ReplayCommit, ReplayRelease DEF Restore

-----------------------------------------------------------------------------
(* Each method of the ledger keeps its shape and what was accepted.        *)
EntriesKept(t, u) ==
    \A a \in Actions : t.ops[a].status # "NONE" =>
        /\ u.ops[a].status # "NONE"
        /\ u.ops[a].id = t.ops[a].id
        /\ u.ops[a].inputs = t.ops[a].inputs

Good(t, u) == LedgerShape(u) /\ Kept(t, u) /\ EntriesKept(t, u)

LEMMA ActionInputsAreInputs ==
    ASSUME NEW a \in Actions
    PROVE  ActionInputs(a) \subseteq Inputs
  BY DEF ActionInputs, Inputs, NoInputs, Actions

LEMMA BegunGood ==
    ASSUME NEW t, LedgerShape(t), NEW a \in Actions, NEW in \in ActionInputs(a),
           NEW id \in Ids, BeginStarts(t, a, in)
    PROVE  Good(t, Begun(t, a, in, id))
  <1> DEFINE op == Entry("IN_PROGRESS", id, in, NoResult)
             u == Begun(t, a, in, id)
  <1>1. /\ t \in Snapshots /\ PrepareShape(t) /\ CommitShape(t)
        /\ ReleaseShape(t) /\ PhaseShape(t)
    BY DEF LedgerShape
  <1>2. op \in Operations
    BY ActionInputsAreInputs
       DEF Operations, Statuses, NoResult, Results, Entry
  <1>3. u = Ledger(t.phase, t.prepare, t.publication, t.authorized,
                   [x \in Actions |-> IF x = a THEN op ELSE t.ops[x]])
    BY <1>1, SnapshotFields DEF Begun
  <1>4. /\ u.phase = t.phase /\ u.prepare = t.prepare /\ u.publication = t.publication
        /\ u.authorized = t.authorized
        /\ u.ops[a] = op
        /\ \A x \in Actions \ {a} : u.ops[x] = t.ops[x]
    BY <1>3 DEF Ledger
  <1>5. /\ op.status = "IN_PROGRESS" /\ op.id = id /\ op.inputs = in /\ op.result = NoResult
    BY DEF Entry
  <1>6. u \in Snapshots
    BY <1>1, <1>2, <1>3, SnapshotFields DEF Ledger, Snapshots
  <1>7. /\ t.ops[a].status = "NONE"
        /\ t.phase = ExpectedPhase(a)
        /\ InputsValid(t, a, in)
        /\ \A x \in Actions : t.ops[x].status # "IN_PROGRESS"
    BY DEF BeginStarts, NoneInProgress
  <1>8. \A x, i : InputsValid(u, x, i) <=> InputsValid(t, x, i)
    BY <1>4 DEF InputsValid
  <1>9. EntryShape(op)
    BY <1>5 DEF EntryShape
  <1> HIDE DEF op, u
  <1>10. ASSUME a = "prepare" PROVE LedgerShape(u)
    <2>1. /\ u.ops["prepare"] = op /\ u.ops["commit"] = t.ops["commit"]
          /\ u.ops["release"] = t.ops["release"] /\ in = NoInputs
      BY <1>4, <1>10 DEF Actions, ActionInputs
    <2>2. PrepareShape(u)
      BY <1>1, <1>4, <1>5, <1>7, <1>9, <1>10, <2>1 DEF PrepareShape
    <2>3. t.ops["commit"].status = "NONE" /\ t.ops["release"].status = "NONE"
      BY <1>1, <1>7, <1>10 DEF CommitShape, ReleaseShape
    <2>4. CommitShape(u) /\ ReleaseShape(u)
      BY <1>1, <1>4, <2>1, <2>3 DEF CommitShape, ReleaseShape
    <2>5. PhaseShape(u)
      BY <1>1, <1>4, <1>5, <1>7, <1>10, <2>1, <2>3 DEF PhaseShape, ReleaseShape
    <2> QED BY <1>6, <2>2, <2>4, <2>5 DEF LedgerShape
  <1>11. ASSUME a = "commit" PROVE LedgerShape(u)
    <2>1. /\ u.ops["commit"] = op /\ u.ops["prepare"] = t.ops["prepare"]
          /\ u.ops["release"] = t.ops["release"]
      BY <1>4, <1>11 DEF Actions
    <2>2. Direction = "push" /\ t.prepare # None /\ t.ops["prepare"].status = "DONE"
      BY <1>1, <1>7, <1>11, ReceiptsAreNotNone DEF InputsValid, ValidPrepare, PrepareShape
    <2>3. t.ops["release"].status = "NONE"
      BY <1>1, <1>7, <1>11, <2>2 DEF ReleaseShape
    <2>4. PrepareShape(u)
      BY <1>1, <1>4, <2>1 DEF PrepareShape
    <2>5. CommitShape(u)
      BY <1>1, <1>4, <1>5, <1>7, <1>8, <1>9, <1>11, <2>1, <2>2 DEF CommitShape
    <2>6. ReleaseShape(u)
      BY <1>1, <1>4, <2>1, <2>2, <2>3 DEF ReleaseShape
    <2>7. PhaseShape(u)
      BY <1>1, <1>4, <1>5, <1>7, <1>11, <2>1, <2>3 DEF PhaseShape, ReleaseShape
    <2> QED BY <1>6, <2>4, <2>5, <2>6, <2>7 DEF LedgerShape
  <1>12. ASSUME a = "release" PROVE LedgerShape(u)
    <2>1. /\ u.ops["release"] = op /\ u.ops["prepare"] = t.ops["prepare"]
          /\ u.ops["commit"] = t.ops["commit"]
      BY <1>4, <1>12 DEF Actions
    <2>2. t.prepare # None /\ t.ops["prepare"].status = "DONE"
      BY <1>1, <1>7, <1>12, ReceiptsAreNotNone DEF InputsValid, ValidPrepare, PrepareShape
    <2>3. Direction = "push" => t.ops["commit"].status = "DONE"
      <3>1. Direction = "push" => t.publication # None
        BY <1>7, <1>12, ReceiptsAreNotNone DEF InputsValid, ValidPublication
      <3> QED BY <1>1, <3>1 DEF CommitShape
    <2>4. t.authorized = None
      BY <1>1, <1>7, <1>12 DEF ReleaseShape
    <2>5. PrepareShape(u) /\ CommitShape(u)
      BY <1>1, <1>4, <1>8, <2>1 DEF PrepareShape, CommitShape
    <2>6. ReleaseShape(u)
      BY <1>1, <1>4, <1>5, <1>7, <1>8, <1>9, <1>12, <2>1, <2>2, <2>3, <2>4 DEF ReleaseShape
    <2>7. PhaseShape(u)
      BY <1>1, <1>4, <1>5, <1>7, <1>12, <2>1, <2>4 DEF PhaseShape
    <2> QED BY <1>6, <2>5, <2>6, <2>7 DEF LedgerShape
  <1>13. LedgerShape(u)
    BY <1>10, <1>11, <1>12 DEF Actions
  <1>14. t.authorized # None => t.phase \in {"RELEASING", "RELEASED"}
    BY <1>1, <1>7 DEF ReleaseShape, PhaseShape
  <1>15. Kept(t, u)
    BY <1>4, <1>7, <1>14 DEF Kept
  <1>16. EntriesKept(t, u)
    BY <1>4, <1>7 DEF EntriesKept
  <1> QED BY <1>13, <1>15, <1>16 DEF Good, u

(* The fields of a ledger whose entry for action a has been closed.        *)
LEMMA ClosedFields ==
    ASSUME NEW t \in Snapshots, NEW a \in Actions, NEW status \in Statuses,
           NEW result \in Results
    PROVE  LET ops == Closed(t, a, status, result) IN
           /\ ops \in [Actions -> Operations]
           /\ ops[a].status = status /\ ops[a].id = t.ops[a].id
           /\ ops[a].inputs = t.ops[a].inputs /\ ops[a].result = result
           /\ \A x \in Actions \ {a} : ops[x] = t.ops[x]
  <1> DEFINE op == Entry(status, t.ops[a].id, t.ops[a].inputs, result)
  <1>1. op \in Operations
    BY SnapshotFields DEF Operations, Entry
  <1>2. Closed(t, a, status, result) = [x \in Actions |-> IF x = a THEN op ELSE t.ops[x]]
    BY SnapshotFields DEF Closed
  <1>3. op.status = status /\ op.id = t.ops[a].id /\ op.inputs = t.ops[a].inputs
        /\ op.result = result
    BY DEF Entry
  <1> HIDE DEF op
  <1> QED BY <1>1, <1>2, <1>3, SnapshotFields

LEMMA PrepareDoneGood ==
    ASSUME NEW t, LedgerShape(t), NEW id, NEW r, PrepareCompletes(t, id, r)
    PROVE  Good(t, PrepareDone(t, r))
  <1> DEFINE u == PrepareDone(t, r)
             result == Receipt(r, None)
  <1>1. /\ t \in Snapshots /\ PrepareShape(t) /\ CommitShape(t)
        /\ ReleaseShape(t) /\ PhaseShape(t)
    BY DEF LedgerShape
  <1>2. t.ops["prepare"].status = "IN_PROGRESS" /\ ValidPrepare(r) /\ r # None
    BY ReceiptsAreNotNone DEF PrepareCompletes, Pending, ValidPrepare
  <1>3. result \in Results
    BY <1>2 DEF Receipt, Results, ValidPrepare
  <1> HIDE DEF result
  <1>4. /\ u.phase = "PREPARED" /\ u.prepare = r /\ u.publication = t.publication
        /\ u.authorized = t.authorized
        /\ u.ops = Closed(t, "prepare", "DONE", result)
        /\ u = Ledger(u.phase, u.prepare, u.publication, u.authorized, u.ops)
    BY DEF PrepareDone, Ledger, result
  <1>5. /\ u.ops \in [Actions -> Operations]
        /\ u.ops["prepare"].status = "DONE" /\ u.ops["prepare"].id = t.ops["prepare"].id
        /\ u.ops["prepare"].inputs = t.ops["prepare"].inputs
        /\ u.ops["prepare"].result = result
        /\ \A x \in Actions \ {"prepare"} : u.ops[x] = t.ops[x]
    BY <1>1, <1>3, <1>4, ClosedFields DEF Actions, Statuses
  <1> HIDE DEF u
  <1>6. /\ t.ops["commit"] = NoOperation /\ t.ops["release"] = NoOperation
        /\ t.ops["commit"].status = "NONE" /\ t.ops["release"].status = "NONE"
        /\ u.ops["commit"] = NoOperation /\ u.ops["release"] = NoOperation
        /\ t.authorized = None /\ t.publication = None /\ t.prepare = None
    BY <1>1, <1>2, <1>5, DirectionAssumption
       DEF PrepareShape, CommitShape, ReleaseShape, EntryShape, NoOperation, Actions
  <1>7. u \in Snapshots
    BY <1>1, <1>2, <1>4, <1>5 DEF Snapshots, Ledger, Phases, ValidPrepare
  <1>8. PrepareShape(u)
    BY <1>1, <1>2, <1>4, <1>5 DEF PrepareShape, EntryShape, result
  <1>9. CommitShape(u) /\ ReleaseShape(u)
    BY <1>1, <1>4, <1>6 DEF CommitShape, ReleaseShape, EntryShape, NoOperation
  <1>10. PhaseShape(u)
    BY <1>4, <1>5, <1>6 DEF PhaseShape, NoOperation
  <1>11. Kept(t, u) /\ EntriesKept(t, u)
    BY <1>1, <1>2, <1>4, <1>5, <1>6 DEF Kept, EntriesKept
  <1> QED BY <1>7, <1>8, <1>9, <1>10, <1>11 DEF Good, LedgerShape, u

LEMMA CommitDoneGood ==
    ASSUME NEW t, LedgerShape(t), NEW id, NEW r, CommitCompletes(t, id, r)
    PROVE  Good(t, CommitDone(t, r))
  <1> DEFINE u == CommitDone(t, r)
             result == Receipt(None, r)
  <1>1. /\ t \in Snapshots /\ PrepareShape(t) /\ CommitShape(t)
        /\ ReleaseShape(t) /\ PhaseShape(t)
    BY DEF LedgerShape
  <1>2. /\ t.ops["commit"].status = "IN_PROGRESS" /\ Direction = "push"
        /\ ValidPublication(r, t.prepare) /\ r # None
    BY ReceiptsAreNotNone DEF CommitCompletes, Pending, ValidPublication
  <1>3. result \in Results
    BY <1>2 DEF Receipt, Results, ValidPublication
  <1> HIDE DEF result
  <1>4. /\ u.phase = "PUBLISHED" /\ u.prepare = t.prepare /\ u.publication = r
        /\ u.authorized = t.authorized
        /\ u.ops = Closed(t, "commit", "DONE", result)
        /\ u = Ledger(u.phase, u.prepare, u.publication, u.authorized, u.ops)
    BY DEF CommitDone, Ledger, result
  <1>5. /\ u.ops \in [Actions -> Operations]
        /\ u.ops["commit"].status = "DONE" /\ u.ops["commit"].id = t.ops["commit"].id
        /\ u.ops["commit"].inputs = t.ops["commit"].inputs
        /\ u.ops["commit"].result = result
        /\ \A x \in Actions \ {"commit"} : u.ops[x] = t.ops[x]
    BY <1>1, <1>3, <1>4, ClosedFields DEF Actions, Statuses
  <1> HIDE DEF u
  <1>6. /\ u.ops["prepare"] = t.ops["prepare"]
        /\ t.ops["release"] = NoOperation /\ t.ops["release"].status = "NONE"
        /\ u.ops["release"] = NoOperation
        /\ t.authorized = None /\ t.publication = None
    BY <1>1, <1>2, <1>5 DEF CommitShape, ReleaseShape, EntryShape, NoOperation, Actions
  <1>7. u \in Snapshots
    BY <1>1, <1>2, <1>4, <1>5 DEF Snapshots, Ledger, Phases, ValidPublication
  <1>8. PrepareShape(u)
    BY <1>1, <1>4, <1>6 DEF PrepareShape
  <1>9. InputsValid(u, "commit", t.ops["commit"].inputs)
    BY <1>1, <1>2, <1>4 DEF CommitShape, InputsValid
  <1>10. CommitShape(u)
    BY <1>1, <1>2, <1>4, <1>5, <1>6, <1>9 DEF CommitShape, EntryShape, result
  <1>11. ReleaseShape(u)
    BY <1>1, <1>2, <1>4, <1>6 DEF ReleaseShape, EntryShape, NoOperation
  <1>12. PhaseShape(u)
    BY <1>4, <1>5, <1>6 DEF PhaseShape, NoOperation
  <1>13. Kept(t, u) /\ EntriesKept(t, u)
    BY <1>1, <1>2, <1>4, <1>5, <1>6 DEF Kept, EntriesKept
  <1> QED BY <1>7, <1>8, <1>10, <1>11, <1>12, <1>13 DEF Good, LedgerShape, u

LEMMA AuthorizedGood ==
    ASSUME NEW t, LedgerShape(t), NEW id, Pending(t, "release", id)
    PROVE  Good(t, ReleaseAuthorized(t))
  <1> DEFINE u == ReleaseAuthorized(t)
             op == t.ops["release"]
             auth == [id |-> op.id, publication |-> op.inputs.publication]
  <1>1. /\ t \in Snapshots /\ PrepareShape(t) /\ CommitShape(t)
        /\ ReleaseShape(t) /\ PhaseShape(t)
    BY DEF LedgerShape
  <1>2. op.status = "IN_PROGRESS" /\ op.id \in Ids /\ InputsValid(t, "release", op.inputs)
    BY <1>1 DEF Pending, ReleaseShape, EntryShape
  <1>3. CASE t.authorized # None
    <2>1. u = t
      BY <1>3 DEF ReleaseAuthorized
    <2>2. t.phase = "RELEASING"
      BY <1>1, <1>2, <1>3 DEF PhaseShape
    <2> QED BY <2>1, <2>2 DEF Good, Kept, EntriesKept
  <1>4. CASE t.authorized = None
    <2>1. /\ u.phase = "RELEASING" /\ u.prepare = t.prepare
          /\ u.publication = op.inputs.publication
          /\ u.authorized = auth /\ u.ops = t.ops
          /\ u = Ledger(u.phase, u.prepare, u.publication, u.authorized, u.ops)
      BY <1>4 DEF ReleaseAuthorized, Ledger
    <2>2. ValidPublication(op.inputs.publication, t.prepare) /\ op.inputs.publication # None
      BY <1>2, ReceiptsAreNotNone DEF InputsValid, ValidPublication
    <2>3. auth \in Authorizations /\ auth # None
      BY <1>2, <2>2, ReceiptsAreNotNone DEF Authorizations, ValidPublication
    <2>4. Direction = "push" => op.inputs.publication = t.publication
      BY <1>2 DEF InputsValid
    <2>5. /\ t.publication # None => op.inputs.publication = t.publication
          /\ Direction = "pull" => t.ops["commit"].status = "NONE"
      BY <1>1, <1>4, <2>4, DirectionAssumption DEF ReleaseShape, CommitShape
    <2>6. auth.id = op.id /\ auth.publication = op.inputs.publication
      OBVIOUS
    <2> HIDE DEF u, auth
    <2>7. u \in Snapshots
      BY <1>1, <2>1, <2>2, <2>3 DEF Snapshots, Ledger, Phases, ValidPublication
    <2>8. PrepareShape(u)
      BY <1>1, <2>1 DEF PrepareShape
    <2>9. \A i : InputsValid(t, "commit", i) => InputsValid(u, "commit", i)
      BY <2>1 DEF InputsValid
    <2>10. CommitShape(u)
      BY <1>1, <2>1, <2>4, <2>5, <2>9, DirectionAssumption DEF CommitShape
    <2>11. InputsValid(u, "release", op.inputs)
      BY <1>2, <2>1 DEF InputsValid
    <2>12. ReleaseShape(u)
      BY <1>1, <1>2, <2>1, <2>2, <2>3, <2>11 DEF ReleaseShape, auth
    <2>13. PhaseShape(u)
      BY <1>2, <2>1, <2>3 DEF PhaseShape
    <2>14. Kept(t, u) /\ EntriesKept(t, u)
      BY <1>4, <2>1, <2>5 DEF Kept, EntriesKept
    <2> QED BY <2>7, <2>8, <2>10, <2>12, <2>13, <2>14 DEF Good, LedgerShape, u
  <1> QED BY <1>3, <1>4

LEMMA ReleaseDoneGood ==
    ASSUME NEW t, LedgerShape(t), NEW id, ReleaseCompletes(t, id)
    PROVE  Good(t, ReleaseDone(t))
  <1> DEFINE u == ReleaseDone(t)
             result == Receipt(None, t.publication)
  <1>1. /\ t \in Snapshots /\ PrepareShape(t) /\ CommitShape(t)
        /\ ReleaseShape(t) /\ PhaseShape(t)
    BY DEF LedgerShape
  <1>2. t.ops["release"].status = "IN_PROGRESS" /\ t.authorized # None
    BY DEF ReleaseCompletes, Pending
  <1>3. result \in Results
    BY <1>1 DEF Receipt, Results, Snapshots
  <1> HIDE DEF result
  <1>4. /\ u.phase = "RELEASED" /\ u.prepare = t.prepare /\ u.publication = t.publication
        /\ u.authorized = t.authorized
        /\ u.ops = Closed(t, "release", "DONE", result)
        /\ u = Ledger(u.phase, u.prepare, u.publication, u.authorized, u.ops)
    BY DEF ReleaseDone, Ledger, result
  <1>5. /\ u.ops \in [Actions -> Operations]
        /\ u.ops["release"].status = "DONE" /\ u.ops["release"].id = t.ops["release"].id
        /\ u.ops["release"].inputs = t.ops["release"].inputs
        /\ u.ops["release"].result = result
        /\ \A x \in Actions \ {"release"} : u.ops[x] = t.ops[x]
        /\ u.ops["prepare"] = t.ops["prepare"] /\ u.ops["commit"] = t.ops["commit"]
    BY <1>1, <1>3, <1>4, ClosedFields DEF Actions, Statuses
  <1> HIDE DEF u
  <1>6. u \in Snapshots
    BY <1>1, <1>4, <1>5 DEF Snapshots, Ledger, Phases
  <1>7. \A a, i : InputsValid(t, a, i) <=> InputsValid(u, a, i)
    BY <1>4 DEF InputsValid
  <1>8. PrepareShape(u) /\ CommitShape(u)
    BY <1>1, <1>4, <1>5, <1>7 DEF PrepareShape, CommitShape
  <1>9. ReleaseShape(u)
    BY <1>1, <1>2, <1>4, <1>5, <1>7 DEF ReleaseShape, EntryShape, result
  <1>10. PhaseShape(u)
    BY <1>4, <1>5 DEF PhaseShape
  <1>11. Kept(t, u) /\ EntriesKept(t, u)
    BY <1>2, <1>4, <1>5 DEF Kept, EntriesKept
  <1> QED BY <1>6, <1>8, <1>9, <1>10, <1>11 DEF Good, LedgerShape, u

LEMMA ActionFailedGood ==
    ASSUME NEW t, LedgerShape(t), NEW a \in Actions, NEW id, NEW code \in Codes,
           ActionFails(t, a, id)
    PROVE  Good(t, ActionFailed(t, a, code))
  <1> DEFINE u == ActionFailed(t, a, code)
             result == Failure(code)
  <1>1. /\ t \in Snapshots /\ PrepareShape(t) /\ CommitShape(t)
        /\ ReleaseShape(t) /\ PhaseShape(t)
    BY DEF LedgerShape
  <1>2. t.ops[a].status = "IN_PROGRESS" /\ t.authorized = None
    BY DEF ActionFails, Pending
  <1>3. result \in Results /\ result.error = code
    BY DEF Failure, Results
  <1> HIDE DEF result
  <1>4. /\ u.phase = FailedPhase(code) /\ u.prepare = t.prepare
        /\ u.publication = t.publication /\ u.authorized = t.authorized
        /\ u.ops = Closed(t, a, "FAILED", result)
        /\ u = Ledger(u.phase, u.prepare, u.publication, u.authorized, u.ops)
    BY DEF ActionFailed, Ledger, result
  <1>5. /\ u.ops \in [Actions -> Operations]
        /\ u.ops[a].status = "FAILED" /\ u.ops[a].id = t.ops[a].id
        /\ u.ops[a].inputs = t.ops[a].inputs
        /\ u.ops[a].result = result
        /\ \A x \in Actions \ {a} : u.ops[x] = t.ops[x]
    BY <1>1, <1>3, <1>4, ClosedFields DEF Statuses
  <1> HIDE DEF u
  <1>6. u \in Snapshots
    BY <1>1, <1>4, <1>5 DEF Snapshots, Ledger, Phases, FailedPhase
  <1>7. \A x, i : InputsValid(t, x, i) <=> InputsValid(u, x, i)
    BY <1>4 DEF InputsValid
  <1>8. EntryShape(u.ops[a])
    <2>1. t.ops[a].id \in Ids
      BY <1>1, <1>2 DEF PrepareShape, CommitShape, ReleaseShape, EntryShape, Actions
    <2> QED BY <1>3, <1>5, <2>1 DEF EntryShape, result
  <1>9. ASSUME a = "prepare" PROVE LedgerShape(u)
    <2>1. /\ u.ops["commit"] = NoOperation /\ u.ops["release"] = NoOperation
          /\ t.publication = None /\ t.prepare = None
      BY <1>1, <1>2, <1>5, <1>9, DirectionAssumption
         DEF PrepareShape, CommitShape, ReleaseShape, EntryShape, Actions
    <2>2. PrepareShape(u)
      BY <1>1, <1>2, <1>4, <1>5, <1>8, <1>9 DEF PrepareShape
    <2>3. CommitShape(u) /\ ReleaseShape(u)
      BY <1>2, <1>4, <2>1 DEF CommitShape, ReleaseShape, EntryShape, NoOperation
    <2>4. PhaseShape(u)
      BY <1>2, <1>3, <1>4, <1>5, <1>9, <2>1 DEF PhaseShape, NoOperation
    <2> QED BY <1>6, <2>2, <2>3, <2>4 DEF LedgerShape
  <1>10. ASSUME a = "commit" PROVE LedgerShape(u)
    <2>1. /\ u.ops["prepare"] = t.ops["prepare"] /\ u.ops["release"] = NoOperation
          /\ t.publication = None /\ t.ops["prepare"].status = "DONE"
          /\ Direction = "push"
      BY <1>1, <1>2, <1>5, <1>10 DEF CommitShape, ReleaseShape, EntryShape, Actions
    <2>2. PrepareShape(u)
      BY <1>1, <1>4, <2>1 DEF PrepareShape
    <2>3. CommitShape(u)
      BY <1>1, <1>2, <1>4, <1>5, <1>7, <1>8, <1>10, <2>1 DEF CommitShape
    <2>4. ReleaseShape(u)
      BY <1>2, <1>4, <2>1 DEF ReleaseShape, EntryShape, NoOperation
    <2>5. PhaseShape(u)
      BY <1>2, <1>3, <1>4, <1>5, <1>10, <2>1 DEF PhaseShape, NoOperation
    <2> QED BY <1>6, <2>2, <2>3, <2>4, <2>5 DEF LedgerShape
  <1>11. ASSUME a = "release" PROVE LedgerShape(u)
    <2>1. u.ops["prepare"] = t.ops["prepare"] /\ u.ops["commit"] = t.ops["commit"]
      BY <1>5, <1>11 DEF Actions
    <2>2. PrepareShape(u) /\ CommitShape(u)
      BY <1>1, <1>4, <1>7, <2>1 DEF PrepareShape, CommitShape
    <2>3. ReleaseShape(u)
      BY <1>1, <1>2, <1>4, <1>5, <1>7, <1>8, <1>11, <2>1 DEF ReleaseShape
    <2>4. PhaseShape(u)
      BY <1>2, <1>3, <1>4, <1>5, <1>11 DEF PhaseShape
    <2> QED BY <1>6, <2>2, <2>3, <2>4 DEF LedgerShape
  <1>12. LedgerShape(u)
    BY <1>9, <1>10, <1>11 DEF Actions
  <1>13. Kept(t, u) /\ EntriesKept(t, u)
    BY <1>2, <1>4, <1>5 DEF Kept, EntriesKept
  <1> QED BY <1>12, <1>13 DEF Good, u

-----------------------------------------------------------------------------
(* What a ledger shows is a well-formed disclosure, and a kept ledger      *)
(* still shows all of it.                                                  *)
LEMMA ShownGrows ==
    ASSUME NEW t, NEW u, LedgerShape(t), Kept(t, u), EntriesKept(t, u)
    PROVE  Shown(t) \subseteq Shown(u)
  <1>1. \A a \in Actions : t.ops[a].status # "NONE" => OperationView(u, a) = OperationView(t, a)
    BY DEF EntriesKept, OperationView
  <1> QED BY <1>1 DEF Shown, Kept, EntriesKept

LEMMA ViewsAreDisclosures ==
    ASSUME NEW t, LedgerShape(t)
    PROVE  /\ Shown(t) \subseteq Disclosures
           /\ \A a \in Actions : t.ops[a].status # "NONE" =>
                 OperationView(t, a) \in Shown(t) \cap Disclosures
  <1>1. ASSUME NEW a \in Actions, t.ops[a].status # "NONE"
        PROVE  OperationView(t, a) \in Shown(t) \cap Disclosures
    <2>1. t.ops[a].id \in Ids
      BY <1>1 DEF LedgerShape, PrepareShape, CommitShape, ReleaseShape, EntryShape, Actions
    <2>2. t.ops[a].inputs \in Inputs
      BY SnapshotFields DEF LedgerShape, Operations
    <2> QED BY <1>1, <2>1, <2>2 DEF OperationView, Shown, Disclosures
  <1>2. t.prepare # None => [kind |-> "prepare", receipt |-> t.prepare] \in Disclosures
    BY DEF LedgerShape, Snapshots, Disclosures
  <1>3. t.publication # None => [kind |-> "publication", receipt |-> t.publication] \in Disclosures
    BY DEF LedgerShape, Snapshots, Disclosures
  <1> QED BY <1>1, <1>2, <1>3 DEF Shown

(* One step of the guest, from a ledger of the right shape.                *)
LEMMA StepGood ==
    ASSUME IInv, Next
    PROVE  IInv' /\ Kept(terminal, terminal')
  <1> DEFINE t == terminal
  <1>1. LedgerShape(t) /\ Restore(t) = t /\ t # None
    BY RestoreIdentity DEF IInv
  <1>2. SUFFICES /\ Good(t, t')
                 /\ told' \subseteq told \cup (Shown(t') \cap Disclosures)
    BY <1>1, <1>2, ShownGrows DEF IInv, Good, DisclosuresHold
  <1>3. ASSUME UNCHANGED terminal
        PROVE  Good(t, t')
    <2>1. t.authorized # None => t.phase \in {"RELEASING", "RELEASED"}
      BY <1>1 DEF LedgerShape, ReleaseShape, PhaseShape
    <2> QED BY <1>1, <1>3, <2>1 DEF Good, Kept, EntriesKept
  <1>4. CASE \E a \in Actions : \E in \in ActionInputs(a) : TransferFinish(a, in)
    <2>0. PICK a \in Actions : \E in \in ActionInputs(a) : TransferFinish(a, in)
      BY <1>4
    <2>1. PICK in \in ActionInputs(a) : TransferFinish(a, in)
      BY <2>0
    <2>2. CASE BeginReplays(t, a, in) /\ UNCHANGED terminal
               /\ told' \in {told, told \cup {OperationView(t, a)}}
      <3>1. t.ops[a].status # "NONE"
        BY <2>2 DEF BeginReplays
      <3>2. OperationView(t, a) \in Shown(t) \cap Disclosures
        BY <1>1, <3>1, ViewsAreDisclosures
      <3> QED BY <1>3, <2>2, <3>2
    <2>3. CASE BeginStarts(t, a, in) /\ \E id \in Ids \ UsedIds :
                  /\ terminal' = Begun(t, a, in, id)
                  /\ told' \in {told, told \cup {OperationView(terminal', a)}}
      <3>1. PICK id \in Ids \ UsedIds :
                  /\ terminal' = Begun(t, a, in, id)
                  /\ told' \in {told, told \cup {OperationView(terminal', a)}}
        BY <2>3
      <3>2. Good(t, t')
        BY <1>1, <2>3, <3>1, BegunGood
      <3>3. t'.ops[a].status = "IN_PROGRESS"
        BY <1>1, <3>1, SnapshotFields DEF Begun, Ledger, Entry, LedgerShape
      <3>4. OperationView(t', a) \in Shown(t') \cap Disclosures
        BY <3>2, <3>3, ViewsAreDisclosures DEF Good
      <3> QED BY <3>1, <3>2, <3>4
    <2> QED BY <1>1, <2>1, <2>2, <2>3 DEF TransferFinish
  <1>5. CASE TransferStatus
    BY <1>1, <1>3, <1>5, ViewsAreDisclosures DEF TransferStatus
  <1>6. CASE \E id, receiptId \in Ids : PersistPrepare(id, receiptId)
    BY <1>1, <1>6, PrepareDoneGood DEF PersistPrepare
  <1>7. CASE \E id, receiptId \in Ids : PersistCommit(id, receiptId)
    BY <1>1, <1>7, CommitDoneGood DEF PersistCommit
  <1>8. CASE \E id \in Ids : PersistAuthorization(id)
    BY <1>1, <1>8, AuthorizedGood DEF PersistAuthorization
  <1>9. CASE \E id \in Ids : FinalizeRelease(id)
    BY <1>1, <1>9, ReleaseDoneGood DEF FinalizeRelease
  <1>10. CASE \E a \in Actions, id \in Ids, code \in Codes : RecordFailure(a, id, code)
    BY <1>1, <1>10, ActionFailedGood DEF RecordFailure
  <1> QED BY <1>4, <1>5, <1>6, <1>7, <1>8, <1>9, <1>10 DEF Next

LEMMA StutterGood ==
    ASSUME IInv, UNCHANGED vars
    PROVE  IInv'
  BY DEF IInv, vars, LedgerShape, PrepareShape, CommitShape, ReleaseShape, PhaseShape,
     DisclosuresHold, Shown, OperationView, InputsValid

LEMMA InitGood ==
    ASSUME Init
    PROVE  IInv
  <1>1. /\ terminal.phase = "READY" /\ terminal.prepare = None /\ terminal.publication = None
        /\ terminal.authorized = None
        /\ terminal.ops = [a \in Actions |-> NoOperation]
    BY DEF Init, FreshTerminal, Ledger
  <1>2. terminal \in Snapshots
    BY DEF Init, FreshTerminal, Ledger, Snapshots, Phases, Operations, NoOperation, Statuses,
       NoInputs, Inputs, NoResult, Results
  <1>3. \A a \in Actions : terminal.ops[a] = NoOperation
    BY <1>1
  <1>4. PrepareShape(terminal) /\ CommitShape(terminal) /\ ReleaseShape(terminal)
    BY <1>1, <1>3 DEF PrepareShape, CommitShape, ReleaseShape, EntryShape, NoOperation, Actions
  <1>5. PhaseShape(terminal)
    BY <1>1, <1>3 DEF PhaseShape, NoOperation, Actions
  <1> QED BY <1>2, <1>4, <1>5 DEF IInv, LedgerShape, DisclosuresHold, Init

(* The ledger always has the shape the engine writes.                      *)
THEOREM Invariance == Spec => []IInv
  <1>1. Init => IInv
    BY InitGood
  <1>2. IInv /\ [Next]_vars => IInv'
    BY StepGood, StutterGood
  <1> QED BY <1>1, <1>2, PTL DEF Spec

(* Type correctness of the saved ledger and of everything disclosed.       *)
THEOREM TypeCorrect == Spec => []TypeOK
  <1>1. IInv => TypeOK
    BY DEF IInv, LedgerShape, TypeOK
  <1> QED BY <1>1, Invariance, PTL

(* GuestTerminal.restore accepts every ledger the engine ever saves.       *)
THEOREM RestoreNeverRefuses == Spec => []RestoreAccepts
  <1>1. IInv => RestoreAccepts
    BY RestoreIdentity DEF IInv, RestoreAccepts
  <1> QED BY <1>1, Invariance, PTL

(* Whatever the guest has told the host stays true of its ledger.          *)
THEOREM NothingIsRegenerated == Spec => []DisclosuresHold
  <1>1. IInv => DisclosuresHold
    BY DEF IInv
  <1> QED BY <1>1, Invariance, PTL

(* A release always rests on the stored prepare and publication receipts.  *)
THEOREM ReleaseIsChained == Spec => []ReleaseChain
  <1>1. IInv => ReleaseChain
    BY DEF IInv, LedgerShape, PrepareShape, CommitShape, ReleaseShape, InputsValid,
       ValidPublication, Receipt, ReleaseChain
  <1> QED BY <1>1, Invariance, PTL

(* One action in progress at most, and the phase the entries imply.        *)
THEOREM PhaseIsImplied == Spec => []PhaseMatchesLedger
  <1>1. ASSUME IInv PROVE PhaseMatchesLedger
    <2> DEFINE t == terminal
               p == t.ops["prepare"]  c == t.ops["commit"]  r == t.ops["release"]
    <2>1. /\ c.status # "NONE" => p.status = "DONE"
          /\ r.status # "NONE" => p.status = "DONE"
          /\ r.status # "NONE" => c.status \in {"NONE", "DONE"}
          /\ r.status \in {"NONE", "FAILED"} => t.authorized = None
          /\ r.status = "DONE" => t.authorized # None
      BY <1>1, DirectionAssumption DEF IInv, LedgerShape, CommitShape, ReleaseShape
    <2>2. PhaseShape(t) /\ \A code : FailedPhase(code) \in {"FAILED", "CHANGED"}
      BY <1>1 DEF IInv, LedgerShape, FailedPhase
    <2>3. \A a \in Actions : t.ops[a].status \in Statuses
      BY <1>1, SnapshotFields DEF IInv, LedgerShape
    <2>4. \A a \in Actions : a = "prepare" \/ a = "commit" \/ a = "release"
      BY DEF Actions
    <2>5. p.status \in Statuses /\ c.status \in Statuses /\ r.status \in Statuses
      BY <2>3 DEF Actions
    <2>6. \A a, b \in Actions :
             t.ops[a].status = "IN_PROGRESS" /\ t.ops[b].status = "IN_PROGRESS" => a = b
      BY <2>1, <2>4
    <2>7. /\ t.phase = "RELEASED" <=> r.status = "DONE"
          /\ t.phase = "RELEASING" <=> t.authorized # None /\ r.status = "IN_PROGRESS"
      BY <2>1, <2>2, <2>5 DEF PhaseShape, Statuses
    <2>8. t.phase \in {"FAILED", "CHANGED"} <=>
             p.status = "FAILED" \/ c.status = "FAILED" \/ r.status = "FAILED"
      BY <2>1, <2>2, <2>5 DEF PhaseShape, Statuses
    <2>9. (\E a \in Actions : t.ops[a].status = "FAILED") <=>
             p.status = "FAILED" \/ c.status = "FAILED" \/ r.status = "FAILED"
      BY <2>4 DEF Actions
    <2> QED BY <2>6, <2>7, <2>8, <2>9 DEF PhaseMatchesLedger
  <1> QED BY <1>1, Invariance, PTL

(* Accepted outcomes, receipts and authorizations are never taken back.    *)
THEOREM AcceptedIsIrrevocable == Spec => Irrevocable
  <1>1. IInv /\ [Next]_vars => [Kept(terminal, terminal')]_vars
    BY StepGood
  <1> QED BY <1>1, Invariance, PTL DEF Spec, Irrevocable
=============================================================================
