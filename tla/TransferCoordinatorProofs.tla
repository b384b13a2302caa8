----------------------- MODULE TransferCoordinatorProofs -----------------------
(***************************************************************************)
(* Proofs about the host coordinator, for every set of identifiers and     *)
(* error codes and every number of runs, faults and late requests.         *)
(*                                                                         *)
(* The invariant relates values rather than variables: what a ledger, a    *)
(* guest task, a journal and the files may be, and how they agree.  A step *)
(* of the host computes a new journal from a status of the guest; the same *)
(* relations then hold of the values it passes through.                    *)
(***************************************************************************)
EXTENDS TransferCoordinator, TLAPS

Journals ==
    [phase : HostPhases, last : HostPhases \cup {None}, begun : BOOLEAN,
     operations : [Actions -> Identities \cup {None}],
     prepare : PrepareReceipts \cup {None}, validation : ValidationReceipts \cup {None},
     publication : PublicationReceipts \cup {None}, intent : PublicationReceipts \cup {None},
     published : BOOLEAN, unknown : BOOLEAN, stable : BOOLEAN,
     asked : [Actions -> Inputs \cup {None}], attempts : [Actions -> 0..RetryCap],
     destVerified : BOOLEAN \cup {None}, guestClean : BOOLEAN,
     hostClean : BOOLEAN, cleanIntent : BOOLEAN, adapterPending : BOOLEAN]
HostStates == [pc : Pcs, action : Actions, back : {"proceed", "send", "prepare"},
               sent : BOOLEAN, abort : BOOLEAN]
FileStates == [temp : {"none", "unregistered", "ready", "gone"},
               stage : {"none", "unregistered", "registered", "full"},
               dest : {"none", "ours", "altered", "pruned", "removed", "foreign"},
               source : {"same", "changed"}]
Guests == [made : BOOLEAN, terminal : Snapshots \cup {None},
           job : Actions \cup {"package", "verify_partial", None},
           alive : BOOLEAN, stopped : BOOLEAN, known : BOOLEAN,
           error : GuestErrors \cup {None}, proof : BOOLEAN, cleaned : BOOLEAN,
           intent : PublicationReceipts \cup {None}, cancelled : BOOLEAN]
Reports == [outcome : {"complete", "rejected", "incomplete", "conflict", "cleanup_pending"},
            code : HostErrors \cup {None}, phase : HostPhases, last : HostPhases,
            published : BOOLEAN \cup {None}, destVerified : BOOLEAN \cup {None},
            hostClean : BOOLEAN, guestClean : BOOLEAN, receipt : BOOLEAN, stable : BOOLEAN]

-----------------------------------------------------------------------------
(* The ledger: its receipts belong to its operations, and its phase is the *)
(* one its operations imply.                                               *)
Stat(t, a) == t.ops[a].status
Open(t, a) == Stat(t, a) \in {"NONE", "IN_PROGRESS"}

ReceiptsOK(t) ==
    /\ \A a \in Actions : IF Stat(t, a) = "NONE" THEN t.ops[a].id = None ELSE t.ops[a].id \in Ids
    /\ t.prepare # None <=> Stat(t, "prepare") = "DONE"
    /\ t.prepare # None => t.ops["prepare"].result.prepare = t.prepare
    /\ Stat(t, "commit") # "NONE" => direction = "push" /\ t.prepare # None
    /\ Stat(t, "commit") = "DONE" => t.publication # None /\ t.ops["commit"].result.publication = t.publication
    /\ Stat(t, "release") # "NONE" => t.prepare # None /\ t.ops["release"].inputs.publication # None
    /\ Stat(t, "release") = "DONE" => t.ops["release"].result.publication = t.publication
    /\ t.authorized # None =>
          /\ Stat(t, "release") \in {"IN_PROGRESS", "DONE"}
          /\ t.publication = t.ops["release"].inputs.publication
    /\ direction = "push" =>
          /\ t.publication # None => Stat(t, "commit") = "DONE"
          /\ Stat(t, "release") # "NONE" =>
                Stat(t, "commit") = "DONE" /\ t.ops["release"].inputs.publication = t.publication
    /\ direction = "pull" => (t.publication # None => t.authorized # None)

PhaseOK(t) ==
    LET p == Stat(t, "prepare") c == Stat(t, "commit") r == Stat(t, "release") IN
    /\ t.phase = "READY" => Open(t, "prepare") /\ c = "NONE" /\ r = "NONE"
    /\ t.phase = "PREPARED" => p = "DONE" /\ Open(t, "commit") /\ Open(t, "release")
    /\ t.phase = "PUBLISHED" => direction = "push" /\ c = "DONE" /\ Open(t, "release")
    /\ t.phase = "RELEASING" => r = "IN_PROGRESS"
    /\ t.phase = "RELEASED" <=> r = "DONE"
    /\ t.authorized # None <=> t.phase \in {"RELEASING", "RELEASED"}
    /\ t.phase \in {"FAILED", "CHANGED"} <=> \E a \in Actions : Stat(t, a) = "FAILED"
    /\ t.phase \in {"FAILED", "CHANGED"} => NoneInProgress(t)
    /\ t.phase = "CHANGED" => direction = "pull"

LedgerOK(t) == ReceiptsOK(t) /\ PhaseOK(t)

(* The guest task: the worker of an action runs while the action is in     *)
(* progress, the publish intent belongs to the commit, and an error about  *)
(* the sources is only recorded when they changed.                         *)
Causes(e, t, src) ==
    /\ e \in {None, "worker_failed", "source_changed", "worker_result_unknown", "transfer_cancelled"}
    /\ e = "source_changed" => src = "changed" /\ t # None /\ t.phase = "CHANGED"

WorkerOK(g) ==
    /\ ~g.made => g.terminal = None /\ ~g.alive
    /\ g.alive => ~g.stopped /\ g.job # None
    /\ g.alive /\ g.job \in Actions => g.terminal # None /\ Stat(g.terminal, g.job) = "IN_PROGRESS"
    /\ g.alive /\ g.job = "package" => g.terminal = None /\ direction = "pull"

IntentOK(g) ==
    /\ g.intent # None =>
          /\ direction = "push" /\ g.terminal # None
          /\ Stat(g.terminal, "commit") \in {"IN_PROGRESS", "DONE"}
          /\ g.intent.prepare = g.terminal.prepare
    /\ g.terminal # None => (Stat(g.terminal, "commit") = "DONE" => g.terminal.publication = g.intent)

ErrorsOK(g, src) ==
    /\ Causes(g.error, g.terminal, src)
    /\ g.terminal # None =>
          /\ \A a \in Actions : Stat(g.terminal, a) = "FAILED" =>
                /\ g.terminal.ops[a].result.error # None
                /\ Causes(g.terminal.ops[a].result.error, g.terminal, src)
          /\ g.terminal.phase \in {"FAILED", "CHANGED"} => g.error # None
          /\ g.terminal.phase = "RELEASED" => g.stopped /\ g.cleaned /\ ~g.alive

GuestOK(g, src) ==
    /\ g \in Guests
    /\ g.terminal # None => LedgerOK(g.terminal)
    /\ WorkerOK(g) /\ IntentOK(g) /\ ErrorsOK(g, src)

(* What a later ledger and a later guest have kept of an earlier one.      *)
Keeps(t, u) ==
    t # None =>
        /\ u # None
        /\ \A a \in Actions : Stat(t, a) # "NONE" =>
              /\ Stat(u, a) # "NONE" /\ u.ops[a].id = t.ops[a].id /\ u.ops[a].inputs = t.ops[a].inputs
        /\ Stat(t, "commit") = "FAILED" => Stat(u, "commit") = "FAILED"
        /\ t.prepare # None => u.prepare = t.prepare
        /\ t.publication # None => u.publication = t.publication
        /\ t.phase = "RELEASED" => u.phase = "RELEASED"
        /\ t.phase = "CHANGED" => u.phase = "CHANGED"

Follows(g, h) == Keeps(g.terminal, h.terminal) /\ (g.intent # None => h.intent = g.intent)

(* No operation is in the second ledger that is not in the first.          *)
NothingNew(g, h) ==
    h.terminal # None =>
        \A a \in Actions : Stat(h.terminal, a) # "NONE" =>
            g.terminal # None /\ Stat(g.terminal, a) # "NONE"

-----------------------------------------------------------------------------
(* The journal by itself.                                                  *)
JournalOK(j) ==
    /\ j \in Journals
    /\ ~j.begun => ~j.published /\ ~j.unknown /\ j.publication = None
    /\ j.publication # None => j.published /\ j.prepare # None
    /\ j.last = None => j.phase = "CREATED"
    /\ {j.phase, j.last} \cap {"PUBLISHED", "CLEANING", "COMPLETE"} # {} => j.published
    /\ j.validation # None =>
          /\ j.prepare # None
          /\ j.validation = [binding |-> "K", prepare |-> j.prepare, id |-> j.prepare.id]
    /\ j.asked["prepare"] \in {None, NoInputs}
    /\ j.asked["commit"] # None =>
          /\ j.prepare # None /\ j.validation # None
          /\ j.asked["commit"] = FinishInputs(j, "commit")
    /\ j.asked["release"] # None =>
          /\ j.prepare # None /\ j.publication # None
          /\ j.asked["release"] = FinishInputs(j, "release")
    /\ direction = "push" => j.intent = None /\ (j.published => j.publication # None)
    /\ direction = "pull" =>
          /\ j.published => j.intent # None
          /\ j.intent # None => j.prepare # None
          /\ j.publication # None => j.publication = j.intent

(* The journal and the guest.  Overdue: a commit the host had given up on  *)
(* was executed.                                                           *)
Uncommitted(g) == g.terminal # None => Stat(g.terminal, "commit") = "NONE"
Committed(g) == g.terminal # None /\ Stat(g.terminal, "commit") \notin {"NONE", "FAILED"}

Agree(j, g, overdue) ==
    /\ \A a \in Actions : j.operations[a] # None =>
          g.terminal # None /\ j.operations[a] = Identity(g.terminal, a)
    /\ j.prepare # None => g.terminal # None /\ j.prepare = g.terminal.prepare
    /\ g.terminal # None =>
          /\ \A a \in Actions : Stat(g.terminal, a) # "NONE" =>
                g.terminal.ops[a].inputs = j.asked[a] /\ j.asked[a] # None
          /\ g.terminal.publication # None /\ j.publication # None => j.publication = g.terminal.publication
    /\ direction = "push" =>
          /\ j.publication # None => g.terminal # None /\ j.publication = g.terminal.publication
          /\ Committed(g) /\ ~overdue => j.unknown \/ j.published
          /\ ~Uncommitted(g) /\ ~overdue => j.stable
    /\ direction = "pull" => (j.intent # None => j.stable \/ InPhase(g, "CHANGED"))

LateOK(j, l) ==
    /\ l \subseteq Requests
    /\ \A r \in l : r.call \in Actions => r.inputs = j.asked[r.call] /\ j.asked[r.call] # None

(* The destination of a pull: only the rename of a staged tree under an    *)
(* intent puts the tree there, and nothing stages it again.                *)
FilesOK(j, f) ==
    /\ f \in FileStates
    /\ direction = "push" => f.stage = "none" /\ f.dest = "none"
    /\ f.dest \in {"ours", "altered", "pruned", "removed"} => j.intent # None /\ f.stage = "none"
    /\ j.published /\ direction = "pull" => f.stage = "none" /\ f.dest # "none"

World(j, g, f, l, overdue) ==
    JournalOK(j) /\ GuestOK(g, f.source) /\ Agree(j, g, overdue) /\ LateOK(j, l) /\ FilesOK(j, f)

-----------------------------------------------------------------------------
(* The running process.                                                    *)
PullPcs == {"chunks", "stage", "register_stage", "publish", "rename", "mark", "receipt"}
PushPcs == {"register_package", "send", "verify_wait", "verify_call", "verify_ready", "validate"}
EarlyPcs == {"idle", "connect", "register_package", "begin_call"}

(* What a location of the process implies.                                 *)
RunningOK(h, j) ==
    /\ h.pc \notin EarlyPcs => j.begun
    /\ h.pc # "idle" => j.phase # "COMPLETE" /\ j.last # None /\ j.destVerified # FALSE
    /\ h.pc \in PullPcs => direction = "pull"
    /\ h.pc \in PushPcs => direction = "push"

FinishingOK(h, j, g, overdue) ==
    /\ h.pc = "request" => j.attempts[h.action] < RetryCap
    /\ h.pc \in {"poll", "request"} =>
          /\ j.asked[h.action] # None
          /\ h.action = "prepare" /\ direction = "push" /\ ~overdue => Uncommitted(g)
          /\ h.action = "commit" => direction = "push" /\ (j.stable \/ overdue)
          /\ h.action = "release" => j.phase = "CLEANING"
    /\ h.pc \in {"send", "verify_wait", "verify_call", "verify_ready", "validate"} /\ ~overdue => Uncommitted(g)
    /\ h.pc = "validate" => j.prepare # None

PublishingOK(h, j, f) ==
    /\ h.pc \in {"chunks", "stage", "register_stage"} => j.intent = None
    /\ h.pc = "publish" => j.prepare # None /\ (j.intent # None \/ j.stable)
    /\ h.pc \in {"rename", "mark"} => j.intent # None
    /\ h.pc = "mark" => f.stage = "none" /\ f.dest # "none"
    /\ h.pc = "receipt" => j.published

ReleasedAs(g, j) == /\ InPhase(g, "RELEASED") /\ g.stopped /\ g.cleaned
                    /\ j.publication # None /\ g.terminal.publication = j.publication

CleaningOK(h, j, g, f) ==
    /\ h.pc \in {"clean", "delete", "final"} =>
          /\ ReleasedAs(g, j) /\ j.phase = "CLEANING" /\ j.destVerified = TRUE /\ j.guestClean
    /\ h.pc = "clean" => ~j.hostClean
    /\ h.pc \in {"delete", "final"} => ~j.adapterPending /\ j.cleanIntent
    /\ h.pc = "final" => f.temp = "gone"

HostOK(h, j, g, f, overdue) ==
    /\ h \in HostStates
    /\ RunningOK(h, j) /\ FinishingOK(h, j, g, overdue) /\ PublishingOK(h, j, f) /\ CleaningOK(h, j, g, f)

(* The document of the last run.                                           *)
Calm(f) == f.source = "same" /\ f.dest \in {"none", "ours"}

ReportOK(r, j, g, f, overdue) ==
    /\ r \in Reports
    /\ Validates(r) \/ (overdue /\ Validates([r EXCEPT !.stable = TRUE]))
    /\ r.outcome = "complete" =>
          ReleasedAs(g, j) /\ f.temp = "gone" /\ f.stage # "full" /\ ~j.adapterPending
    /\ r.outcome = "conflict" => ~Calm(f)
    /\ r.published = FALSE => ~j.published /\ ~j.unknown

ResultOK(r, h, j, g, f, overdue) ==
    r # None => h.pc = "idle" /\ ReportOK(r, j, g, f, overdue)

Counters(b) == b \in [faults : 0..MaxFaults, runs : 0..MaxRuns, expired : BOOLEAN,
                      quiet : BOOLEAN, inherited : BOOLEAN, overdue : BOOLEAN]

(* The inductive invariant.                                                *)
Inv ==
    /\ direction \in {"push", "pull"} /\ Counters(bounds)
    /\ World(journal, guest, files, late, bounds.overdue)
    /\ HostOK(host, journal, guest, files, bounds.overdue)
    /\ ResultOK(result, host, journal, guest, files, bounds.overdue)

-----------------------------------------------------------------------------
(* The ledger's own steps keep it in order.                                *)
LEMMA ActionNames ==
    /\ \A a \in Actions : a = "prepare" \/ a = "commit" \/ a = "release"
    /\ "prepare" \in Actions /\ "commit" \in Actions /\ "release" \in Actions
BY DEF Actions

LEMMA EntryTypes ==
    ASSUME NEW s \in Statuses, NEW i \in Ids \cup {None}, NEW in \in Inputs, NEW r \in Results
    PROVE  /\ Entry(s, i, in, r) \in Operations
           /\ Entry(s, i, in, r).status = s /\ Entry(s, i, in, r).id = i
           /\ Entry(s, i, in, r).inputs = in /\ Entry(s, i, in, r).result = r
BY DEF Entry, Operations

LEMMA SnapshotFields ==
    ASSUME NEW t \in Snapshots
    PROVE  /\ t.phase \in Phases /\ t.prepare \in PrepareReceipts \cup {None}
           /\ t.publication \in PublicationReceipts \cup {None}
           /\ t.authorized \in Authorizations \cup {None} /\ t.ops \in [Actions -> Operations]
           /\ \A a \in Actions : /\ t.ops[a] \in Operations /\ t.ops[a].status \in Statuses
                                 /\ t.ops[a].id \in Ids \cup {None} /\ t.ops[a].inputs \in Inputs
                                 /\ t.ops[a].result \in Results
<1>1. /\ t.phase \in Phases /\ t.prepare \in PrepareReceipts \cup {None}
      /\ t.publication \in PublicationReceipts \cup {None}
      /\ t.authorized \in Authorizations \cup {None} /\ t.ops \in [Actions -> Operations]
    BY DEF Snapshots
<1>2. ASSUME NEW a \in Actions
      PROVE  /\ t.ops[a] \in Operations /\ t.ops[a].status \in Statuses
             /\ t.ops[a].id \in Ids \cup {None} /\ t.ops[a].inputs \in Inputs
             /\ t.ops[a].result \in Results
  <2>1. t.ops[a] \in Operations
      BY <1>1
  <2> QED BY <2>1 DEF Operations
<1> QED BY <1>1, <1>2

(* Replacing the entry of one action.                                      *)
LEMMA EntryUpdate ==
    ASSUME NEW t \in Snapshots, NEW a \in Actions, NEW e \in Operations
    PROVE  /\ [t.ops EXCEPT ![a] = e] \in [Actions -> Operations]
           /\ [t.ops EXCEPT ![a] = e][a] = e
           /\ \A b \in Actions : b # a => [t.ops EXCEPT ![a] = e][b] = t.ops[b]
BY SnapshotFields

(* A ledger u that differs from t in the entry of one action.              *)
Rewrites(t, u, a, status, id, inputs) ==
    /\ u \in Snapshots
    /\ u.ops[a].status = status /\ u.ops[a].id = id /\ u.ops[a].inputs = inputs
    /\ \A b \in Actions : b # a => u.ops[b] = t.ops[b]

LEMMA FreshOK ==
    /\ FreshTerminal \in Snapshots /\ LedgerOK(FreshTerminal)
    /\ \A a \in Actions : Stat(FreshTerminal, a) = "NONE"
    /\ FreshTerminal.phase = "READY" /\ FreshTerminal.publication = None /\ FreshTerminal.prepare = None
<1>1. NoInputs \in Inputs /\ NoResult \in Results
    BY DEF NoInputs, Inputs, NoResult, Results
<1>2. NoOperation \in Operations
    BY <1>1 DEF NoOperation, Operations, Statuses
<1>3. [a \in Actions |-> NoOperation] \in [Actions -> Operations]
    BY <1>2
<1>4. /\ FreshTerminal \in Snapshots /\ FreshTerminal.phase = "READY" /\ FreshTerminal.prepare = None
      /\ FreshTerminal.publication = None /\ FreshTerminal.authorized = None
      /\ FreshTerminal.ops = [a \in Actions |-> NoOperation]
    BY <1>3 DEF FreshTerminal, Ledger, Snapshots, Phases
<1>5. \A a \in Actions : Stat(FreshTerminal, a) = "NONE" /\ FreshTerminal.ops[a].id = None
    BY <1>4 DEF Stat, NoOperation
<1>6. ReceiptsOK(FreshTerminal)
    BY <1>4, <1>5, ActionNames DEF ReceiptsOK
<1>7. PhaseOK(FreshTerminal)
    BY <1>4, <1>5, ActionNames DEF PhaseOK, Open, NoneInProgress, Stat
<1> QED BY <1>4, <1>5, <1>6, <1>7 DEF LedgerOK

LEMMA BegunOK ==
    ASSUME direction \in {"push", "pull"}, NEW t \in Snapshots, LedgerOK(t), NEW a \in Actions,
           NEW in \in Inputs, NEW i \in Ids, BeginStarts(t, a, in)
    PROVE  LET u == Begun(t, a, in, i) IN
           /\ Rewrites(t, u, a, "IN_PROGRESS", i, in) /\ LedgerOK(u) /\ Keeps(t, u)
           /\ u.phase = t.phase /\ u.prepare = t.prepare /\ u.publication = t.publication
           /\ Stat(t, a) = "NONE"
<1> PICK u : u = Begun(t, a, in, i)
    OBVIOUS
<1>1. NoResult \in Results /\ "IN_PROGRESS" \in Statuses
    BY DEF NoResult, Results, Statuses
<1>2. Entry("IN_PROGRESS", i, in, NoResult) \in Operations
    BY <1>1, EntryTypes
<1>3. /\ u \in Snapshots /\ u.phase = t.phase /\ u.prepare = t.prepare /\ u.publication = t.publication
      /\ u.authorized = t.authorized /\ u.ops = [t.ops EXCEPT ![a] = Entry("IN_PROGRESS", i, in, NoResult)]
  <2> PICK ops : ops = [t.ops EXCEPT ![a] = Entry("IN_PROGRESS", i, in, NoResult)]
      OBVIOUS
  <2>1. ops \in [Actions -> Operations]
      BY <1>2, EntryUpdate
  <2>2. u = Ledger(t.phase, t.prepare, t.publication, t.authorized, ops)
      BY DEF Begun
  <2> QED BY <2>1, <2>2, SnapshotFields DEF Ledger, Snapshots
<1>4. /\ u.ops[a].status = "IN_PROGRESS" /\ u.ops[a].id = i /\ u.ops[a].inputs = in
      /\ \A b \in Actions : b # a => u.ops[b] = t.ops[b]
    BY <1>1, <1>3, EntryUpdate, EntryTypes, <1>2
<1>5. Stat(t, a) = "NONE" /\ NoneInProgress(t) /\ t.phase = ExpectedPhase(a) /\ InputsValid(t, a, in)
    BY DEF BeginStarts, Stat
<1>6. Keeps(t, u)
    BY <1>3, <1>4, <1>5, NoneIsAbsent DEF Keeps, Stat
<1>7. ReceiptsOK(u)
  <2>1. a = "commit" => direction = "push" /\ t.prepare # None
      BY <1>5, NoneIsAbsent DEF InputsValid, ValidPrepare
  <2>2. a = "release" =>
          /\ t.prepare # None /\ in.publication # None
          /\ direction = "push" => in.publication = t.publication /\ t.phase = "PUBLISHED"
      BY <1>5, NoneIsAbsent DEF InputsValid, ValidPrepare, ValidPublication, ExpectedPhase
  <2>3. a = "release" /\ direction = "push" => Stat(t, "commit") = "DONE"
      BY <2>2 DEF LedgerOK, PhaseOK
  <2> QED BY <1>3, <1>4, <1>5, <2>1, <2>2, <2>3, ActionNames DEF LedgerOK, ReceiptsOK, Stat
<1>8. PhaseOK(u)
  <2>1. \A b \in Actions : Stat(u, b) = IF b = a THEN "IN_PROGRESS" ELSE Stat(t, b)
      BY <1>4 DEF Stat
  <2>2. \/ t.phase = "READY" /\ a = "prepare"
        \/ t.phase = "PREPARED" /\ a = "commit"
        \/ t.phase = (IF direction = "push" THEN "PUBLISHED" ELSE "PREPARED") /\ a = "release"
      BY <1>5, ActionNames DEF ExpectedPhase
  <2>3. t.phase \notin {"FAILED", "CHANGED"}
      BY <2>2
  <2> QED BY <1>3, <1>5, <2>1, <2>2, <2>3, ActionNames DEF LedgerOK, PhaseOK, Open
<1> QED BY <1>3, <1>4, <1>5, <1>6, <1>7, <1>8 DEF Rewrites, LedgerOK

(* A ledger u that records the outcome of one action of t.                 *)
Closes(t, u, a, status, r) ==
    /\ u \in Snapshots
    /\ u.ops[a].status = status /\ u.ops[a].result = r
    /\ u.ops[a].id = t.ops[a].id /\ u.ops[a].inputs = t.ops[a].inputs
    /\ \A b \in Actions : b # a => u.ops[b] = t.ops[b]

LEMMA ClosedDoes ==
    ASSUME NEW t \in Snapshots, NEW a \in Actions, NEW s \in Statuses, NEW r \in Results,
           NEW phase \in Phases, NEW p \in PrepareReceipts \cup {None},
           NEW q \in PublicationReceipts \cup {None}, NEW au \in Authorizations \cup {None}
    PROVE  LET u == Ledger(phase, p, q, au, Closed(t, a, s, r)) IN
           /\ Closes(t, u, a, s, r)
           /\ u.phase = phase /\ u.prepare = p /\ u.publication = q /\ u.authorized = au
<1> PICK e : e = Entry(s, t.ops[a].id, t.ops[a].inputs, r)
    OBVIOUS
<1>1. /\ e \in Operations /\ e.status = s /\ e.result = r
      /\ e.id = t.ops[a].id /\ e.inputs = t.ops[a].inputs
    BY SnapshotFields DEF Entry, Operations
<1> PICK ops : ops = [t.ops EXCEPT ![a] = e]
    OBVIOUS
<1>2. ops \in [Actions -> Operations] /\ ops[a] = e /\ \A b \in Actions : b # a => ops[b] = t.ops[b]
    BY <1>1, EntryUpdate
<1> PICK u : u = Ledger(phase, p, q, au, Closed(t, a, s, r))
    OBVIOUS
<1>3. u = Ledger(phase, p, q, au, ops)
    BY DEF Closed
<1>4. /\ u \in Snapshots /\ u.phase = phase /\ u.prepare = p /\ u.publication = q /\ u.authorized = au
      /\ u.ops = ops
    BY <1>2, <1>3 DEF Ledger, Snapshots
<1> QED BY <1>1, <1>2, <1>4 DEF Closes

LEMMA PrepareDoneOK ==
    ASSUME direction \in {"push", "pull"}, NEW t \in Snapshots, LedgerOK(t),
           Stat(t, "prepare") = "IN_PROGRESS", NEW r \in PrepareReceipts
    PROVE  LET u == PrepareDone(t, r) IN
           /\ Closes(t, u, "prepare", "DONE", Receipt(r, None)) /\ LedgerOK(u) /\ Keeps(t, u)
           /\ u.phase = "PREPARED" /\ u.prepare = r /\ u.publication = t.publication
<1> PICK u : u = PrepareDone(t, r)
    OBVIOUS
<1>1. Receipt(r, None) \in Results /\ Receipt(r, None).prepare = r
    BY DEF Receipt, Results
<1>2. "DONE" \in Statuses /\ "PREPARED" \in Phases
    BY DEF Statuses, Phases
<1>3. /\ Closes(t, u, "prepare", "DONE", Receipt(r, None)) /\ u.phase = "PREPARED" /\ u.prepare = r
      /\ u.publication = t.publication /\ u.authorized = t.authorized
  <2>1. t.publication \in PublicationReceipts \cup {None} /\ t.authorized \in Authorizations \cup {None}
      BY SnapshotFields
  <2>2. r \in PrepareReceipts \cup {None} /\ "prepare" \in Actions
      BY ActionNames
  <2>3. u = Ledger("PREPARED", r, t.publication, t.authorized, Closed(t, "prepare", "DONE", Receipt(r, None)))
      BY DEF PrepareDone
  <2> QED BY <1>1, <1>2, <2>1, <2>2, <2>3, ClosedDoes
<1>4. Stat(u, "prepare") = "DONE" /\ Stat(u, "commit") = Stat(t, "commit") /\ Stat(u, "release") = Stat(t, "release")
    BY <1>3, ActionNames DEF Closes, Stat
<1>5. t.prepare = None /\ t.publication = None /\ t.authorized = None
      /\ Stat(t, "commit") = "NONE" /\ Stat(t, "release") = "NONE"
    BY DEF LedgerOK, ReceiptsOK
<1>6. t.phase \notin {"RELEASED", "CHANGED"}
    BY <1>5, ActionNames DEF LedgerOK, PhaseOK, NoneInProgress, Stat
<1>7. Keeps(t, u)
    BY <1>3, <1>4, <1>5, <1>6, ActionNames, NoneIsAbsent DEF Keeps, Closes, Stat
<1>8. ReceiptsOK(u)
    BY <1>1, <1>3, <1>4, <1>5, ActionNames, NoneIsAbsent DEF LedgerOK, ReceiptsOK, Closes, Stat
<1>9. PhaseOK(u)
    BY <1>3, <1>4, <1>5, ActionNames DEF PhaseOK, Open, NoneInProgress, Stat
<1> QED BY <1>3, <1>7, <1>8, <1>9 DEF LedgerOK

LEMMA CommitDoneOK ==
    ASSUME direction \in {"push", "pull"}, NEW t \in Snapshots, LedgerOK(t),
           Stat(t, "commit") = "IN_PROGRESS", NEW r \in PublicationReceipts
    PROVE  LET u == CommitDone(t, r) IN
           /\ Closes(t, u, "commit", "DONE", Receipt(None, r)) /\ LedgerOK(u) /\ Keeps(t, u)
           /\ u.phase = "PUBLISHED" /\ u.prepare = t.prepare /\ u.publication = r
<1> PICK u : u = CommitDone(t, r)
    OBVIOUS
<1>1. Receipt(None, r) \in Results /\ Receipt(None, r).publication = r
    BY DEF Receipt, Results
<1>2. "DONE" \in Statuses /\ "PUBLISHED" \in Phases
    BY DEF Statuses, Phases
<1>3. /\ Closes(t, u, "commit", "DONE", Receipt(None, r)) /\ u.phase = "PUBLISHED" /\ u.prepare = t.prepare
      /\ u.publication = r /\ u.authorized = t.authorized
  <2>1. /\ t.prepare \in PrepareReceipts \cup {None} /\ t.publication \in PublicationReceipts \cup {None}
        /\ t.authorized \in Authorizations \cup {None} /\ "commit" \in Actions
      BY SnapshotFields, ActionNames
  <2>2. u = Ledger("PUBLISHED", t.prepare, r, t.authorized, Closed(t, "commit", "DONE", Receipt(None, r)))
      BY DEF CommitDone
  <2> QED BY <1>1, <1>2, <2>1, <2>2, ClosedDoes
<1>4. Stat(u, "commit") = "DONE" /\ Stat(u, "prepare") = Stat(t, "prepare") /\ Stat(u, "release") = Stat(t, "release")
    BY <1>3, ActionNames DEF Closes, Stat
<1>5. direction = "push" /\ t.prepare # None /\ t.publication = None /\ t.authorized = None
      /\ Stat(t, "prepare") = "DONE" /\ Stat(t, "release") = "NONE"
    BY DEF LedgerOK, ReceiptsOK
<1>6. t.phase \notin {"RELEASED", "CHANGED"}
    BY <1>5, ActionNames DEF LedgerOK, PhaseOK, NoneInProgress, Stat
<1>7. Keeps(t, u)
    BY <1>3, <1>4, <1>5, <1>6, ActionNames, NoneIsAbsent DEF Keeps, Closes, Stat
<1>8. ReceiptsOK(u)
    BY <1>1, <1>3, <1>4, <1>5, ActionNames, NoneIsAbsent DEF LedgerOK, ReceiptsOK, Closes, Stat
<1>9. PhaseOK(u)
    BY <1>3, <1>4, <1>5, ActionNames DEF PhaseOK, Open, NoneInProgress, Stat
<1> QED BY <1>3, <1>7, <1>8, <1>9 DEF LedgerOK

LEMMA AuthorizedOK ==
    ASSUME direction \in {"push", "pull"}, NEW t \in Snapshots, LedgerOK(t),
           Stat(t, "release") = "IN_PROGRESS"
    PROVE  LET u == ReleaseAuthorized(t) IN
           /\ u \in Snapshots /\ LedgerOK(u) /\ Keeps(t, u) /\ u.ops = t.ops /\ u.prepare = t.prepare
           /\ u.phase = "RELEASING" /\ u.publication = t.ops["release"].inputs.publication
           /\ direction = "push" => u.publication = t.publication
<1> PICK u : u = ReleaseAuthorized(t)
    OBVIOUS
<1>1. CASE t.authorized # None
  <2>1. u = t
      BY <1>1 DEF ReleaseAuthorized
  <2>2. t.phase = "RELEASING"
      BY <1>1 DEF LedgerOK, PhaseOK
  <2>3. t.publication = t.ops["release"].inputs.publication
      BY <1>1 DEF LedgerOK, ReceiptsOK
  <2> QED BY <2>1, <2>2, <2>3 DEF Keeps
<1>2. CASE t.authorized = None
  <2> PICK q : q = t.ops["release"].inputs.publication
      OBVIOUS
  <2> PICK au : au = [id |-> t.ops["release"].id, publication |-> q]
      OBVIOUS
  <2>1. q \in PublicationReceipts /\ t.prepare # None /\ t.ops["release"].id \in Ids
        /\ Stat(t, "prepare") = "DONE"
      BY SnapshotFields, ActionNames DEF LedgerOK, ReceiptsOK, Inputs
  <2>2. au \in Authorizations
      BY <2>1 DEF Authorizations
  <2>3. u = Ledger("RELEASING", t.prepare, q, au, t.ops)
      BY <1>2 DEF ReleaseAuthorized
  <2>4. /\ u \in Snapshots /\ u.phase = "RELEASING" /\ u.prepare = t.prepare /\ u.publication = q
        /\ u.authorized = au /\ u.ops = t.ops
      BY <2>1, <2>2, <2>3, SnapshotFields DEF Ledger, Snapshots, Phases
  <2>5. direction = "push" => q = t.publication
      BY DEF LedgerOK, ReceiptsOK
  <2>6. direction = "pull" => t.publication = None
      BY <1>2 DEF LedgerOK, ReceiptsOK
  <2>7. t.phase \notin {"RELEASED", "FAILED", "CHANGED"}
      BY ActionNames DEF LedgerOK, PhaseOK, NoneInProgress, Stat
  <2>8. Keeps(t, u)
      BY <2>4, <2>5, <2>6, <2>7, NoneIsAbsent DEF Keeps, Stat
  <2>9. au # None
      BY <2>2, NoneIsAbsent
  <2>10. ReceiptsOK(u)
      BY <2>1, <2>4, <2>5, <2>9, NoneIsAbsent, ActionNames DEF LedgerOK, ReceiptsOK, Stat
  <2>11. PhaseOK(u)
      BY <2>1, <2>4, <2>7, <2>9, ActionNames DEF LedgerOK, PhaseOK, Stat, NoneInProgress
  <2> QED BY <2>4, <2>5, <2>8, <2>10, <2>11 DEF LedgerOK
<1> QED BY <1>1, <1>2

LEMMA ReleaseDoneOK ==
    ASSUME direction \in {"push", "pull"}, NEW t \in Snapshots, LedgerOK(t), t.phase = "RELEASING"
    PROVE  LET u == ReleaseDone(t) IN
           /\ Closes(t, u, "release", "DONE", Receipt(None, t.publication)) /\ LedgerOK(u) /\ Keeps(t, u)
           /\ u.phase = "RELEASED" /\ u.prepare = t.prepare /\ u.publication = t.publication
<1> PICK u : u = ReleaseDone(t)
    OBVIOUS
<1>1. Receipt(None, t.publication) \in Results /\ Receipt(None, t.publication).publication = t.publication
    BY SnapshotFields DEF Receipt, Results
<1>2. "DONE" \in Statuses /\ "RELEASED" \in Phases
    BY DEF Statuses, Phases
<1>3. /\ Closes(t, u, "release", "DONE", Receipt(None, t.publication)) /\ u.phase = "RELEASED"
      /\ u.prepare = t.prepare /\ u.publication = t.publication /\ u.authorized = t.authorized
  <2>1. /\ t.prepare \in PrepareReceipts \cup {None} /\ t.publication \in PublicationReceipts \cup {None}
        /\ t.authorized \in Authorizations \cup {None} /\ "release" \in Actions
      BY SnapshotFields, ActionNames
  <2>2. u = Ledger("RELEASED", t.prepare, t.publication, t.authorized, Closed(t, "release", "DONE", Receipt(None, t.publication)))
      BY DEF ReleaseDone
  <2> QED BY <1>1, <1>2, <2>1, <2>2, ClosedDoes, SMTT(40)
<1>4. Stat(u, "release") = "DONE" /\ Stat(u, "prepare") = Stat(t, "prepare") /\ Stat(u, "commit") = Stat(t, "commit")
    BY <1>3, ActionNames DEF Closes, Stat
<1>5. Stat(t, "release") = "IN_PROGRESS" /\ t.authorized # None
    BY DEF LedgerOK, PhaseOK
<1>6. \A a \in Actions : Stat(t, a) # "FAILED"
    BY DEF LedgerOK, PhaseOK
<1>7. Keeps(t, u)
    BY <1>3, <1>4, <1>5, <1>6, ActionNames, NoneIsAbsent DEF Keeps, Closes, Stat
<1>8. ReceiptsOK(u)
    BY <1>1, <1>3, <1>4, <1>5, ActionNames, NoneIsAbsent DEF LedgerOK, ReceiptsOK, Closes, Stat
<1>9. PhaseOK(u)
    BY <1>3, <1>4, <1>5, <1>6, ActionNames DEF PhaseOK, Open, NoneInProgress
<1> QED BY <1>3, <1>7, <1>8, <1>9 DEF LedgerOK

LEMMA ActionFailedOK ==
    ASSUME direction \in {"push", "pull"}, NEW t \in Snapshots, LedgerOK(t), NEW a \in Actions,
           Stat(t, a) = "IN_PROGRESS", t.authorized = None, NEW code \in Codes
    PROVE  LET u == ActionFailed(t, a, code) IN
           /\ Closes(t, u, a, "FAILED", Failure(code)) /\ LedgerOK(u) /\ Keeps(t, u)
           /\ u.phase = FailedPhase(code) /\ u.prepare = t.prepare /\ u.publication = t.publication
           /\ \A b \in Actions : Stat(t, b) # "FAILED"
<1> PICK u : u = ActionFailed(t, a, code)
    OBVIOUS
<1>1. Failure(code) \in Results
    BY DEF Failure, Results
<1>2. "FAILED" \in Statuses /\ FailedPhase(code) \in {"FAILED", "CHANGED"} /\ FailedPhase(code) \in Phases
      /\ (FailedPhase(code) = "CHANGED" => direction = "pull")
    BY DEF Statuses, Phases, FailedPhase
<1>3. /\ Closes(t, u, a, "FAILED", Failure(code)) /\ u.phase = FailedPhase(code)
      /\ u.prepare = t.prepare /\ u.publication = t.publication /\ u.authorized = None
  <2> PICK phase : phase = FailedPhase(code)
      OBVIOUS
  <2> PICK r : r = Failure(code)
      OBVIOUS
  <2>1. /\ t.prepare \in PrepareReceipts \cup {None} /\ t.publication \in PublicationReceipts \cup {None}
        /\ phase \in Phases /\ r \in Results /\ "FAILED" \in Statuses
      BY <1>1, <1>2, SnapshotFields
  <2>2. u = Ledger(phase, t.prepare, t.publication, None, Closed(t, a, "FAILED", r))
      BY DEF ActionFailed
  <2>3. None \in Authorizations \cup {None}
      OBVIOUS
  <2>4. Closes(t, u, a, "FAILED", r) /\ u.phase = phase /\ u.prepare = t.prepare
        /\ u.publication = t.publication /\ u.authorized = None
      BY <2>1, <2>2, <2>3, ClosedDoes
  <2> QED BY <2>4
<1>4. \A b \in Actions : Stat(u, b) = IF b = a THEN "FAILED" ELSE Stat(t, b)
    BY <1>3 DEF Closes, Stat
<1>5. t.phase \notin {"RELEASED", "FAILED", "CHANGED", "RELEASING"}
    BY DEF LedgerOK, PhaseOK, NoneInProgress, Stat
<1>6. \A b \in Actions : Stat(t, b) # "FAILED" /\ (b # a => Stat(t, b) # "IN_PROGRESS")
  <2>1. \A b \in Actions : Stat(t, b) # "FAILED"
      BY <1>5 DEF LedgerOK, PhaseOK
  <2>2. Stat(t, "commit") # "NONE" => Stat(t, "prepare") = "DONE"
      BY DEF LedgerOK, ReceiptsOK
  <2>3. Stat(t, "release") # "NONE" => Stat(t, "prepare") = "DONE" /\ Stat(t, "commit") # "IN_PROGRESS"
      BY DEF LedgerOK, ReceiptsOK
  <2> QED BY <2>1, <2>2, <2>3, ActionNames
<1>7. Keeps(t, u)
    BY <1>3, <1>4, <1>5, <1>6, ActionNames, NoneIsAbsent DEF Keeps, Closes, Stat
<1>8. ReceiptsOK(u)
    BY <1>3, <1>4, <1>6, ActionNames, NoneIsAbsent DEF LedgerOK, ReceiptsOK, Closes, Stat
<1>9. PhaseOK(u)
  <2>1. Stat(t, "release") # "DONE"
      BY <1>5 DEF LedgerOK, PhaseOK
  <2> QED BY <1>2, <1>3, <1>4, <1>6, <2>1, ActionNames DEF PhaseOK, NoneInProgress, Stat
<1> QED BY <1>3, <1>6, <1>7, <1>8, <1>9 DEF LedgerOK

-----------------------------------------------------------------------------
(* The guest.                                                              *)
Evolves(g, h, src) == GuestOK(h, src) /\ Follows(g, h) /\ NothingNew(g, h)

LEMMA GuestFields ==
    ASSUME NEW g \in Guests
    PROVE  /\ g.made \in BOOLEAN /\ g.terminal \in Snapshots \cup {None}
           /\ g.job \in Actions \cup {"package", "verify_partial", None}
           /\ g.alive \in BOOLEAN /\ g.stopped \in BOOLEAN /\ g.known \in BOOLEAN
           /\ g.error \in GuestErrors \cup {None} /\ g.proof \in BOOLEAN /\ g.cleaned \in BOOLEAN
           /\ g.intent \in PublicationReceipts \cup {None} /\ g.cancelled \in BOOLEAN
           /\ (g.terminal # None => g.terminal \in Snapshots)
BY DEF Guests

LEMMA GuestErrorNames ==
    /\ "worker_failed" \in GuestErrors /\ "source_changed" \in GuestErrors
    /\ "worker_result_unknown" \in GuestErrors /\ "transfer_cancelled" \in GuestErrors
    /\ None \notin GuestErrors /\ GuestErrors \subseteq HostErrors
    /\ \A e \in Codes : e \in GuestErrors
BY CodesAssumption, NoneIsAbsent DEF GuestErrors, HostErrors

(* A guest whose ledger and intent are those of g.                         *)
LEMMA SameLedger ==
    ASSUME NEW g, NEW h, h.terminal = g.terminal, h.intent = g.intent
    PROVE  Follows(g, h) /\ NothingNew(g, h)
BY DEF Follows, Keeps, NothingNew

LEMMA EvolvesTwice ==
    ASSUME NEW f, NEW g, NEW h, NEW src, Evolves(f, g, src), Evolves(g, h, src)
    PROVE  Evolves(f, h, src)
<1>1. GuestOK(h, src)
    BY DEF Evolves
<1>2. NothingNew(f, h)
    BY DEF Evolves, NothingNew
<1>3. Keeps(f.terminal, h.terminal)
  <2>1. Keeps(f.terminal, g.terminal) /\ Keeps(g.terminal, h.terminal)
      BY DEF Evolves, Follows
  <2>2. GuestOK(g, src)
      BY DEF Evolves
  <2> QED BY <2>1 DEF Keeps
<1>4. f.intent # None => h.intent = f.intent
    BY DEF Evolves, Follows
<1> QED BY <1>1, <1>2, <1>3, <1>4 DEF Evolves, Follows

(* A change of the task that leaves its worker's fields and its ledger.    *)
LEMMA LaunchedOK ==
    ASSUME direction \in {"push", "pull"}, NEW g, NEW src, GuestOK(g, src), ~g.alive, g.made,
           NEW job \in Actions \cup {"package", "verify_partial"},
           job \in Actions => g.terminal # None /\ Stat(g.terminal, job) = "IN_PROGRESS",
           job = "package" => g.terminal = None /\ direction = "pull",
           g.terminal # None => g.terminal.phase \notin {"FAILED", "CHANGED", "RELEASED"}
    PROVE  Evolves(g, Launched(g, job), src)
<1> PICK c \in BOOLEAN : c <=> (g.cleaned /\ ~(job = "release" /\ direction = "push"))
    OBVIOUS
<1> PICK h : h = [g EXCEPT !.job = job, !.alive = TRUE, !.stopped = FALSE, !.known = FALSE,
                           !.error = None, !.proof = FALSE, !.cleaned = c]
    OBVIOUS
<1>1. g \in Guests
    BY DEF GuestOK
<1>2. h = Launched(g, job)
    BY <1>1, GuestFields DEF Launched
<1>3. /\ h \in Guests /\ h.job = job /\ h.alive = TRUE /\ h.stopped = FALSE /\ h.error = None /\ h.made = g.made
      /\ h.terminal = g.terminal /\ h.intent = g.intent
  <2>1. /\ h.job = job /\ h.alive = TRUE /\ h.stopped = FALSE /\ h.error = None /\ h.made = g.made
        /\ h.terminal = g.terminal /\ h.intent = g.intent
      BY <1>1 DEF Guests
  <2>2. job \in Actions \cup {"package", "verify_partial", None}
      OBVIOUS
  <2>3. h \in Guests
      BY <1>1, <2>2, ZenonT(60) DEF Guests
  <2> QED BY <2>1, <2>3
<1>4. WorkerOK(h)
    BY <1>3, NoneIsAbsent, ActionNames DEF WorkerOK
<1>5. IntentOK(h)
    BY <1>3 DEF GuestOK, IntentOK
<1>6. ErrorsOK(h, src)
    BY <1>3, GuestErrorNames DEF GuestOK, ErrorsOK, Causes
<1>7. GuestOK(h, src)
    BY <1>3, <1>4, <1>5, <1>6 DEF GuestOK
<1>8. Follows(g, h) /\ NothingNew(g, h)
    BY <1>3, SameLedger
<1>9. Evolves(g, h, src)
    BY <1>7, <1>8 DEF Evolves
<1> QED BY <1>2, <1>9

(* At most four identifiers are in use until a push release is begun.      *)
LEMMA FreshIsFree ==
    ASSUME direction \in {"push", "pull"}, JournalOK(journal), GuestOK(guest, files.source),
           direction = "push" /\ guest.terminal # None => Stat(guest.terminal, "release") = "NONE"
    PROVE  FreshId \in Ids
<1> DEFINE t == guest.terminal
           intent == IF direction = "push" THEN guest.intent ELSE journal.intent
           third == IF direction = "push" THEN "commit" ELSE "release"
           other == IF direction = "push" THEN "release" ELSE "commit"
           i == IF t = None THEN None ELSE t.ops["prepare"].id
           j == IF t = None THEN None ELSE t.ops[third].id
           k == IF t = None THEN None ELSE IF t.prepare = None THEN None ELSE t.prepare.id
           l == IF intent = None THEN None ELSE intent.id
<1>1. t \in Snapshots \cup {None} /\ guest.intent \in PublicationReceipts \cup {None}
    BY GuestFields DEF GuestOK
<1>2. journal.intent \in PublicationReceipts \cup {None}
    BY DEF JournalOK, Journals
<1>3. \A r \in {journal.intent, guest.intent} \ {None} : r = intent
    BY DEF JournalOK, GuestOK, IntentOK
<1>4. l \in Ids \cup {None} /\ \A r \in {journal.intent, guest.intent} \ {None} : r.id = l
    BY <1>1, <1>2, <1>3 DEF PublicationReceipts
<1>5. i \in Ids \cup {None} /\ j \in Ids \cup {None} /\ k \in Ids \cup {None}
  <2>1. t # None => t.prepare \in PrepareReceipts \cup {None}
      BY <1>1, SnapshotFields
  <2>2. t # None => t.ops["prepare"].id \in Ids \cup {None} /\ t.ops[third].id \in Ids \cup {None}
      BY <1>1, SnapshotFields, ActionNames
  <2> QED BY <2>1, <2>2 DEF PrepareReceipts
<1>6. t # None => t.ops[other].id = None /\ \A a \in Actions : a = "prepare" \/ a = third \/ a = other
  <2>1. t # None => Stat(t, other) = "NONE"
      BY DEF GuestOK, LedgerOK, ReceiptsOK
  <2> QED BY <2>1, ActionNames DEF GuestOK, LedgerOK, ReceiptsOK
<1>7. UsedIds \subseteq {None, i, j, k, l}
  <2>1. t # None => \A a \in Actions : t.ops[a].id \in {None, i, j}
      BY <1>6
  <2>2. t # None => \A r \in {t.prepare} \ {None} : r.id = k
      OBVIOUS
  <2> HIDE DEF i, j, k, l
  <2> QED BY <1>4, <2>1, <2>2 DEF UsedIds
<1> HIDE DEF i, j, k, l
<1>8. PICK x \in Ids : x \notin {i, j, k, l}
  <2>1. Ids \ {i, j, k, l} # {}
      BY <1>4, <1>5, IdsSuffice
  <2> QED BY <2>1
<1> QED BY <1>7, <1>8, NoneIsAbsent DEF FreshId

(* What a change of single fields of the guest leaves.                     *)
LEMMA SettledOK ==
    ASSUME direction \in {"push", "pull"}, NEW g, NEW src, GuestOK(g, src)
    PROVE  /\ Evolves(g, Settled(g), src)
           /\ Settled(g).made = g.made /\ Settled(g).alive = g.alive
<1> PICK e : e = [g EXCEPT !.stopped = g.stopped \/ ~g.alive]
    OBVIOUS
<1>1. g \in Guests
    BY DEF GuestOK
<1>2. /\ e \in Guests /\ e.made = g.made /\ e.alive = g.alive /\ e.job = g.job /\ e.terminal = g.terminal
      /\ e.intent = g.intent /\ e.error = g.error /\ e.cleaned = g.cleaned
      /\ (e.stopped <=> (g.stopped \/ ~g.alive))
  <2> PICK c \in BOOLEAN : c <=> (g.stopped \/ ~g.alive)
      OBVIOUS
  <2>1. e = [g EXCEPT !.stopped = c]
      BY <1>1, GuestFields
  <2> QED BY <1>1, <2>1 DEF Guests
<1> DEFINE lost == /\ ~g.alive /\ ~g.stopped
                   /\ g.job = "verify_partial" /\ ~g.proof /\ g.error = None
<1> PICK s : s = IF lost THEN [e EXCEPT !.error = "worker_result_unknown"] ELSE e
    OBVIOUS
<1>3. /\ s \in Guests /\ s.made = g.made /\ s.alive = g.alive /\ s.job = g.job /\ s.terminal = g.terminal
      /\ s.intent = g.intent /\ s.cleaned = g.cleaned /\ s.stopped = e.stopped
      /\ s.error = g.error \/ s.error = "worker_result_unknown"
  <2>1. CASE lost
    <3>1. s = [e EXCEPT !.error = "worker_result_unknown"]
        BY <2>1
    <3> QED BY <1>2, <3>1, GuestErrorNames, ZenonT(60) DEF Guests
  <2>2. CASE ~lost
      BY <1>2, <2>2
  <2> QED BY <2>1, <2>2
<1>4. GuestOK(s, src)
  <2>1. WorkerOK(s)
      BY <1>2, <1>3 DEF GuestOK, WorkerOK
  <2>2. IntentOK(s)
      BY <1>3 DEF GuestOK, IntentOK
  <2>3. ErrorsOK(s, src)
      BY <1>2, <1>3, GuestErrorNames DEF GuestOK, ErrorsOK, Causes
  <2> QED BY <1>3, <2>1, <2>2, <2>3 DEF GuestOK
<1> DEFINE done == /\ InPhase(s, "RELEASING") /\ s.job = "release" /\ s.stopped /\ s.cleaned
                   /\ direction = "push" => s.error = None
<1>5. Settled(g) = IF done THEN [s EXCEPT !.terminal = ReleaseDone(@)] ELSE s
    BY DEF Settled
<1>6. CASE ~done
  <2>1. Follows(g, s) /\ NothingNew(g, s)
      BY <1>3, SameLedger
  <2> QED BY <1>3, <1>4, <1>5, <1>6, <2>1 DEF Evolves
<1>7. CASE done
  <2> PICK t : t = s.terminal
      OBVIOUS
  <2> PICK u : u = ReleaseDone(t)
      OBVIOUS
  <2>1. t \in Snapshots /\ t # None /\ LedgerOK(t) /\ t.phase = "RELEASING"
      BY <1>3, <1>4, <1>7 DEF InPhase, GuestOK, Guests
  <2>2. /\ Closes(t, u, "release", "DONE", Receipt(None, t.publication)) /\ LedgerOK(u) /\ Keeps(t, u)
        /\ u.phase = "RELEASED" /\ u.publication = t.publication /\ u.prepare = t.prepare
      BY <2>1, ReleaseDoneOK
  <2> PICK h : h = [s EXCEPT !.terminal = u]
      OBVIOUS
  <2>3. /\ h \in Guests /\ h.made = s.made /\ h.alive = s.alive /\ h.job = s.job /\ h.terminal = u
        /\ h.intent = s.intent /\ h.error = s.error /\ h.cleaned = s.cleaned /\ h.stopped = s.stopped
      BY <1>3, <2>2 DEF Guests, Closes
  <2>4. ~s.alive
      BY <1>3, <1>4, <1>7 DEF GuestOK, WorkerOK
  <2>5. WorkerOK(h)
      BY <1>4, <2>1, <2>3, <2>4 DEF GuestOK, WorkerOK
  <2>6. IntentOK(h)
      BY <1>4, <2>1, <2>2, <2>3, NoneIsAbsent, ActionNames DEF GuestOK, IntentOK, Closes, Stat
  <2>7. \A a \in Actions : Stat(t, a) # "FAILED" /\ Stat(u, a) # "FAILED"
      BY <2>1, <2>2 DEF LedgerOK, PhaseOK
  <2>8. ErrorsOK(h, src)
    <3>1. s.error # "source_changed"
        BY <1>4, <2>1 DEF GuestOK, ErrorsOK, Causes
    <3>2. Causes(h.error, h.terminal, src)
        BY <1>4, <2>3, <3>1 DEF GuestOK, ErrorsOK, Causes
    <3>3. h.stopped /\ h.cleaned /\ ~h.alive
        BY <1>7, <2>3, <2>4
    <3> QED BY <2>2, <2>3, <2>7, <3>2, <3>3 DEF ErrorsOK
  <2>9. GuestOK(h, src)
      BY <2>2, <2>3, <2>5, <2>6, <2>8 DEF GuestOK
  <2>10. Follows(g, h)
      BY <1>3, <2>2, <2>3 DEF Follows
  <2>11. NothingNew(g, h)
      BY <1>3, <2>1, <2>2, <2>3 DEF NothingNew, Closes, Stat, LedgerOK, PhaseOK
  <2> QED BY <1>3, <1>5, <1>7, <2>3, <2>9, <2>10, <2>11 DEF Evolves
<1> QED BY <1>6, <1>7

LEMMA ExitedOK ==
    ASSUME NEW g, NEW src, GuestOK(g, src)
    PROVE  /\ GuestOK(Exited(g), src) /\ Exited(g).terminal = g.terminal /\ Exited(g).intent = g.intent
           /\ Exited(g) = [g EXCEPT !.alive = FALSE] /\ ~Exited(g).alive
           /\ Exited(g).made = g.made /\ Exited(g).job = g.job /\ Exited(g).error = g.error
           /\ Exited(g).stopped = g.stopped /\ Exited(g).cleaned = g.cleaned
<1> PICK h : h = Exited(g)
    OBVIOUS
<1>1. g \in Guests /\ h = [g EXCEPT !.alive = FALSE]
    BY DEF GuestOK, Exited
<1>2. /\ h \in Guests /\ h.made = g.made /\ h.alive = FALSE /\ h.job = g.job /\ h.terminal = g.terminal
      /\ h.intent = g.intent /\ h.error = g.error /\ h.cleaned = g.cleaned /\ h.stopped = g.stopped
    BY <1>1 DEF Guests
<1>3. WorkerOK(h) /\ IntentOK(h) /\ ErrorsOK(h, src)
    BY <1>2 DEF GuestOK, WorkerOK, IntentOK, ErrorsOK
<1> QED BY <1>1, <1>2, <1>3 DEF GuestOK

(* A worker in an action: what the rest of its guest is.                   *)
LEMMA WorkingFacts ==
    ASSUME direction \in {"push", "pull"}, NEW g, NEW src, GuestOK(g, src), g.alive, g.job \in Actions
    PROVE  /\ g.terminal \in Snapshots /\ g.terminal # None /\ LedgerOK(g.terminal)
           /\ Stat(g.terminal, g.job) = "IN_PROGRESS"
           /\ g.terminal.phase \notin {"RELEASED", "FAILED", "CHANGED"}
           /\ \A a \in Actions : Stat(g.terminal, a) # "FAILED"
           /\ g.error # "source_changed"
<1>1. /\ g.terminal \in Snapshots /\ g.terminal # None /\ LedgerOK(g.terminal)
      /\ Stat(g.terminal, g.job) = "IN_PROGRESS"
    BY GuestFields DEF GuestOK, WorkerOK
<1>2. g.terminal.phase \notin {"RELEASED", "FAILED", "CHANGED"}
  <2>1. Stat(g.terminal, "release") = "DONE" => g.job # "release" /\ FALSE
    <3>1. Stat(g.terminal, "release") = "DONE" => Stat(g.terminal, "prepare") = "DONE"
        BY <1>1 DEF LedgerOK, ReceiptsOK
    <3>2. Stat(g.terminal, "release") = "DONE" /\ direction = "push" => Stat(g.terminal, "commit") = "DONE"
        BY <1>1 DEF LedgerOK, ReceiptsOK
    <3>3. direction = "pull" => Stat(g.terminal, "commit") = "NONE"
        BY <1>1 DEF LedgerOK, ReceiptsOK
    <3> QED BY <1>1, <3>1, <3>2, <3>3, ActionNames
  <2> QED BY <1>1, <2>1 DEF LedgerOK, PhaseOK, NoneInProgress, Stat
<1>3. \A a \in Actions : Stat(g.terminal, a) # "FAILED"
    BY <1>1, <1>2 DEF LedgerOK, PhaseOK
<1>4. g.error # "source_changed"
    BY <1>1, <1>2 DEF GuestOK, ErrorsOK, Causes
<1> QED BY <1>1, <1>2, <1>3, <1>4

(* An action's worker records a new ledger and may exit.                   *)
LEMMA RecordedOK ==
    ASSUME direction \in {"push", "pull"}, NEW g, NEW src, GuestOK(g, src), g.alive, g.job \in Actions,
           NEW u \in Snapshots, LedgerOK(u), Keeps(g.terminal, u),
           \A a \in Actions : Stat(u, a) = Stat(g.terminal, a) \/ (a = g.job /\ Stat(u, a) = "DONE"),
           u.phase # "RELEASED", Stat(u, "commit") = "DONE" => u.publication = g.intent,
           g.terminal.prepare # None => u.prepare = g.terminal.prepare,
           NEW h, h = [Exited(g) EXCEPT !.terminal = u]
                  \/ (h = [g EXCEPT !.terminal = u] /\ Stat(u, g.job) = "IN_PROGRESS")
    PROVE  Evolves(g, h, src)
<1>1. /\ g.terminal \in Snapshots /\ g.terminal # None /\ LedgerOK(g.terminal)
      /\ Stat(g.terminal, g.job) = "IN_PROGRESS" /\ g.error # "source_changed"
      /\ \A a \in Actions : Stat(g.terminal, a) # "FAILED"
    BY WorkingFacts
<1>2. g \in Guests /\ u # None
    BY NoneIsAbsent DEF GuestOK
<1>3. /\ h \in Guests /\ h.made = g.made /\ h.job = g.job /\ h.terminal = u /\ h.error = g.error
      /\ h.intent = g.intent /\ h.cleaned = g.cleaned /\ h.stopped = g.stopped
      /\ ~h.alive \/ (h.alive = g.alive /\ Stat(u, g.job) = "IN_PROGRESS")
  <2> PICK e : e = Exited(g)
      OBVIOUS
  <2>1. /\ e \in Guests /\ e.made = g.made /\ ~e.alive /\ e.job = g.job /\ e.error = g.error
        /\ e.intent = g.intent /\ e.cleaned = g.cleaned /\ e.stopped = g.stopped
      BY ExitedOK DEF GuestOK
  <2>2. CASE h = [e EXCEPT !.terminal = u]
      BY <2>1, <2>2 DEF Guests
  <2>3. CASE h = [g EXCEPT !.terminal = u] /\ Stat(u, g.job) = "IN_PROGRESS"
      BY <1>2, <2>3 DEF Guests
  <2> QED BY <2>2, <2>3
<1>4. \A a \in Actions : Stat(u, a) # "FAILED"
    BY <1>1
<1>5. u.phase \notin {"FAILED", "CHANGED"}
    BY <1>4 DEF LedgerOK, PhaseOK
<1>6. WorkerOK(h)
    BY <1>1, <1>2, <1>3 DEF GuestOK, WorkerOK
<1>7. IntentOK(h)
  <2>1. ASSUME h.intent # None
        PROVE  /\ direction = "push" /\ Stat(u, "commit") \in {"IN_PROGRESS", "DONE"}
               /\ h.intent.prepare = u.prepare
    <3>1. /\ direction = "push" /\ Stat(g.terminal, "commit") \in {"IN_PROGRESS", "DONE"}
          /\ g.intent.prepare = g.terminal.prepare
        BY <1>3, <2>1 DEF GuestOK, IntentOK
    <3>2. g.terminal.prepare # None
        BY <1>1, <3>1 DEF LedgerOK, ReceiptsOK
    <3> QED BY <1>3, <3>1, <3>2, ActionNames
  <2> QED BY <1>2, <1>3, <2>1 DEF IntentOK
<1>8. ErrorsOK(h, src)
    BY <1>1, <1>3, <1>4, <1>5 DEF GuestOK, ErrorsOK, Causes
<1>9. GuestOK(h, src)
    BY <1>3, <1>6, <1>7, <1>8 DEF GuestOK
<1>10. Follows(g, h)
    BY <1>3 DEF Follows
<1>11. NothingNew(g, h)
    BY <1>1, <1>3 DEF NothingNew
<1> QED BY <1>9, <1>10, <1>11 DEF Evolves

(* A change of other fields than the ledger, the intent and the worker.    *)
LEMMA WorkedOK ==
    ASSUME direction \in {"push", "pull"}, JournalOK(journal), GuestOK(guest, files.source), guest.alive
    PROVE  Evolves(guest, Worked(guest), files.source)
<1> PICK g : g = guest
    OBVIOUS
<1> PICK src : src = files.source
    OBVIOUS
<1> PICK h : h = Worked(g)
    OBVIOUS
<1> PICK e : e = Exited(g)
    OBVIOUS
<1> PICK t : t = g.terminal
    OBVIOUS
<1>1. /\ GuestOK(e, src) /\ e.terminal = t /\ e.intent = g.intent /\ ~e.alive /\ e.made = g.made
      /\ e.job = g.job /\ e.error = g.error /\ e.stopped = g.stopped /\ e.cleaned = g.cleaned
    BY ExitedOK
<1>2. g \in Guests /\ e \in Guests /\ GuestOK(g, src)
    BY <1>1 DEF GuestOK
<1>3. g.job \in Actions \cup {"package", "verify_partial"} /\ g.made /\ ~g.stopped
    BY <1>2, GuestFields DEF GuestOK, WorkerOK
<1>4. CASE g.job = "package"
  <2>1. h = [e EXCEPT !.terminal = FreshTerminal]
      BY <1>4 DEF Worked
  <2>2. t = None /\ direction = "pull" /\ g.intent = None
      BY <1>2, <1>4 DEF GuestOK, WorkerOK, IntentOK
  <2>3. /\ h \in Guests /\ h.terminal = FreshTerminal /\ h.intent = e.intent /\ h.made = e.made /\ ~h.alive
        /\ h.error = e.error
      BY <1>1, <1>2, <2>1, FreshOK DEF Guests
  <2>4. WorkerOK(h) /\ IntentOK(h)
      BY <1>1, <1>3, <2>2, <2>3, FreshOK, ActionNames DEF WorkerOK, IntentOK
  <2>5. ErrorsOK(h, src)
    <3>1. Causes(h.error, h.terminal, src)
        BY <1>2, <1>1, <2>2, <2>3 DEF GuestOK, ErrorsOK, Causes
    <3> QED BY <2>3, <3>1, FreshOK DEF ErrorsOK
  <2>6. GuestOK(h, src)
      BY <2>3, <2>4, <2>5, FreshOK DEF GuestOK
  <2>7. Follows(g, h) /\ NothingNew(g, h)
      BY <1>1, <2>2, <2>3, FreshOK DEF Follows, Keeps, NothingNew
  <2> QED BY <2>6, <2>7 DEF Evolves
<1>5. CASE g.job = "verify_partial"
  <2>1. h = [e EXCEPT !.proof = TRUE]
      BY <1>5 DEF Worked
  <2>2. /\ h \in Guests /\ h.terminal = e.terminal /\ h.intent = e.intent /\ h.made = e.made /\ ~h.alive
        /\ h.error = e.error /\ h.stopped = e.stopped /\ h.cleaned = e.cleaned
    <3>1. h \in Guests
        BY <1>2, <2>1, ZenonT(60) DEF Guests
    <3>2. /\ h.terminal = e.terminal /\ h.intent = e.intent /\ h.made = e.made /\ h.alive = e.alive
          /\ h.error = e.error /\ h.stopped = e.stopped /\ h.cleaned = e.cleaned
        BY <1>2, <2>1 DEF Guests
    <3> QED BY <1>1, <3>1, <3>2
  <2>3. WorkerOK(h) /\ IntentOK(h) /\ ErrorsOK(h, src)
      BY <1>1, <2>2 DEF GuestOK, WorkerOK, IntentOK, ErrorsOK
  <2>4. Follows(g, h) /\ NothingNew(g, h)
      BY <1>1, <2>2, SameLedger
  <2> QED BY <1>1, <2>2, <2>3, <2>4 DEF Evolves, GuestOK
<1>6. CASE g.job = "prepare"
  <2>1. /\ t \in Snapshots /\ LedgerOK(t) /\ Stat(t, "prepare") = "IN_PROGRESS" /\ t # None
      BY <1>2, <1>6, ActionNames, WorkingFacts
  <2>2. t.prepare = None /\ Stat(t, "commit") = "NONE" /\ Stat(t, "release") = "NONE"
      BY <2>1 DEF LedgerOK, ReceiptsOK
  <2> PICK r : r = [binding |-> "K", id |-> FreshId]
      OBVIOUS
  <2>3. FreshId \in Ids
      BY <2>2, FreshIsFree
  <2>4. r \in PrepareReceipts
      BY <2>3 DEF PrepareReceipts, Bindings
  <2> PICK u : u = PrepareDone(t, r)
      OBVIOUS
  <2>5. /\ Closes(t, u, "prepare", "DONE", Receipt(r, None)) /\ LedgerOK(u) /\ Keeps(t, u)
        /\ u.phase = "PREPARED"
      BY <2>1, <2>4, PrepareDoneOK
  <2>6. h = [e EXCEPT !.terminal = u]
      BY <1>6, <1>1 DEF Worked
  <2>7. \A a \in Actions : Stat(u, a) = Stat(t, a) \/ (a = "prepare" /\ Stat(u, a) = "DONE")
      BY <2>5 DEF Closes, Stat
  <2>8. u \in Snapshots /\ Stat(u, "commit") # "DONE" /\ u.phase # "RELEASED"
      BY <2>2, <2>5, <2>7, ActionNames DEF Closes
  <2> QED BY <1>2, <1>6, <2>2, <2>5, <2>6, <2>7, <2>8, ActionNames, RecordedOK
<1>7. CASE g.job = "commit" /\ g.intent = None
  <2>1. /\ t \in Snapshots /\ LedgerOK(t) /\ Stat(t, "commit") = "IN_PROGRESS" /\ t # None
      BY <1>2, <1>7, ActionNames, WorkingFacts
  <2>2. t.prepare \in PrepareReceipts /\ Stat(t, "release") = "NONE" /\ direction = "push"
      BY <2>1, SnapshotFields DEF LedgerOK, ReceiptsOK
  <2> PICK r : r = [binding |-> "K", prepare |-> t.prepare, id |-> FreshId]
      OBVIOUS
  <2>3. FreshId \in Ids
      BY <2>2, FreshIsFree
  <2>4. r \in PublicationReceipts /\ r.prepare = t.prepare
      BY <2>2, <2>3 DEF PublicationReceipts, Bindings
  <2>5. h = [g EXCEPT !.intent = r]
      BY <1>7 DEF Worked
  <2>6. /\ h \in Guests /\ h.terminal = t /\ h.intent = r /\ h.made = g.made /\ h.alive = g.alive
        /\ h.job = g.job /\ h.error = g.error /\ h.stopped = g.stopped /\ h.cleaned = g.cleaned
      BY <1>2, <2>4, <2>5 DEF Guests
  <2>7. WorkerOK(h) /\ ErrorsOK(h, src)
      BY <1>2, <2>6 DEF GuestOK, WorkerOK, ErrorsOK
  <2>8. IntentOK(h)
      BY <2>1, <2>2, <2>4, <2>6 DEF IntentOK
  <2>9. Follows(g, h) /\ NothingNew(g, h)
      BY <1>7, <2>6 DEF Follows, Keeps, NothingNew
  <2> QED BY <1>2, <2>6, <2>7, <2>8, <2>9 DEF Evolves, GuestOK
<1>8. CASE g.job = "commit" /\ g.intent # None
  <2>1. /\ t \in Snapshots /\ LedgerOK(t) /\ Stat(t, "commit") = "IN_PROGRESS" /\ t # None
      BY <1>2, <1>8, ActionNames, WorkingFacts
  <2>2. g.intent \in PublicationReceipts
      BY <1>2, <1>8, GuestFields
  <2> PICK u : u = CommitDone(t, g.intent)
      OBVIOUS
  <2>3. /\ Closes(t, u, "commit", "DONE", Receipt(None, g.intent)) /\ LedgerOK(u) /\ Keeps(t, u)
        /\ u.phase = "PUBLISHED" /\ u.prepare = t.prepare /\ u.publication = g.intent
      BY <2>1, <2>2, CommitDoneOK
  <2>4. h = [e EXCEPT !.terminal = u]
      BY <1>8, <1>1 DEF Worked
  <2>5. \A a \in Actions : Stat(u, a) = Stat(t, a) \/ (a = "commit" /\ Stat(u, a) = "DONE")
      BY <2>3 DEF Closes, Stat
  <2>6. u \in Snapshots
      BY <2>3 DEF Closes
  <2> QED BY <1>2, <1>8, <2>3, <2>4, <2>5, <2>6, ActionNames, RecordedOK
<1>9. CASE g.job = "release"
  <2>1. /\ t \in Snapshots /\ LedgerOK(t) /\ Stat(t, "release") = "IN_PROGRESS" /\ t # None
        /\ t.phase # "RELEASED"
      BY <1>2, <1>9, ActionNames, WorkingFacts
  <2>2. CASE t.authorized = None
    <3> PICK u : u = ReleaseAuthorized(t)
        OBVIOUS
    <3>1. /\ u \in Snapshots /\ LedgerOK(u) /\ Keeps(t, u) /\ u.ops = t.ops /\ u.prepare = t.prepare
          /\ u.phase = "RELEASING" /\ (direction = "push" => u.publication = t.publication)
        BY <2>1, AuthorizedOK
    <3>2. h = [g EXCEPT !.terminal = u]
        BY <1>9, <2>2 DEF Worked
    <3>3. \A a \in Actions : Stat(u, a) = Stat(t, a)
        BY <3>1 DEF Stat
    <3>4. Stat(u, "commit") = "DONE" => u.publication = g.intent
      <4>1. Stat(t, "commit") = "DONE" => direction = "push" /\ t.publication = g.intent
          BY <1>2, <2>1 DEF GuestOK, IntentOK, LedgerOK, ReceiptsOK
      <4> QED BY <3>1, <3>3, <4>1, ActionNames
    <3> QED BY <1>2, <1>9, <2>1, <3>1, <3>2, <3>3, <3>4, ActionNames, RecordedOK
  <2>3. CASE t.authorized # None
    <3>1. h = [g EXCEPT !.cleaned = TRUE] \/ h = [e EXCEPT !.cleaned = TRUE]
        BY <1>9, <2>3 DEF Worked
    <3>2. /\ h \in Guests /\ h.terminal = t /\ h.intent = g.intent /\ h.made = g.made /\ h.job = g.job
          /\ h.error = g.error /\ h.stopped = g.stopped /\ h.cleaned = TRUE
          /\ h.alive = g.alive \/ ~h.alive
      <4>1. CASE h = [g EXCEPT !.cleaned = TRUE]
          BY <1>2, <4>1, ZenonT(60) DEF Guests
      <4>2. CASE h = [e EXCEPT !.cleaned = TRUE]
        <5>1. h \in Guests
            BY <1>2, <4>2, ZenonT(60) DEF Guests
        <5>2. /\ h.terminal = e.terminal /\ h.intent = e.intent /\ h.made = e.made /\ h.job = e.job
              /\ h.error = e.error /\ h.stopped = e.stopped /\ h.cleaned = TRUE /\ h.alive = e.alive
            BY <1>2, <4>2 DEF Guests
        <5> QED BY <1>1, <5>1, <5>2
      <4> QED BY <3>1, <4>1, <4>2
    <3>3. WorkerOK(h) /\ IntentOK(h)
        BY <1>2, <3>2 DEF GuestOK, WorkerOK, IntentOK
    <3>4. ErrorsOK(h, src)
        BY <1>2, <2>1, <3>2 DEF GuestOK, ErrorsOK
    <3>5. Follows(g, h) /\ NothingNew(g, h)
        BY <3>2, SameLedger
    <3> QED BY <1>2, <3>2, <3>3, <3>4, <3>5 DEF Evolves, GuestOK
  <2> QED BY <2>2, <2>3
<1> QED BY <1>3, <1>4, <1>5, <1>6, <1>7, <1>8, <1>9, ActionNames

(* The except branch of the worker.                                        *)
LEMMA RaisedOK ==
    ASSUME direction \in {"push", "pull"}, NEW g, NEW src, GuestOK(g, src), g.alive,
           NEW staged \in BOOLEAN, NEW code \in {"worker_failed", "source_changed"},
           code = "source_changed" =>
               /\ src = "changed" /\ direction = "pull" /\ ~staged
               /\ g.job = "prepare" \/ (g.job = "release" /\ g.terminal.authorized = None)
    PROVE  Evolves(g, Raised(g, code, staged), src)
<1> PICK h : h = Raised(g, code, staged)
    OBVIOUS
<1> PICK t : t = g.terminal
    OBVIOUS
<1> PICK e : e = Exited(g)
    OBVIOUS
<1> PICK f : f = [e EXCEPT !.error = code]
    OBVIOUS
<1>1. /\ GuestOK(e, src) /\ e \in Guests /\ e.terminal = t /\ e.intent = g.intent /\ ~e.alive /\ e.made = g.made
      /\ e.job = g.job /\ e.stopped = g.stopped /\ e.cleaned = g.cleaned
    BY ExitedOK DEF GuestOK
<1>2. code \in GuestErrors /\ code # None /\ code \in Codes
    BY GuestErrorNames, CodesAssumption
<1>3. /\ f \in Guests /\ f.terminal = t /\ f.intent = g.intent /\ ~f.alive /\ f.made = g.made
      /\ f.job = g.job /\ f.stopped = g.stopped /\ f.cleaned = g.cleaned /\ f.error = code
  <2>1. f \in Guests
      BY <1>1, <1>2 DEF Guests
  <2>2. /\ f.terminal = e.terminal /\ f.intent = e.intent /\ f.alive = e.alive /\ f.made = e.made
        /\ f.job = e.job /\ f.stopped = e.stopped /\ f.cleaned = e.cleaned /\ f.error = code
      BY <1>1 DEF Guests
  <2> QED BY <1>1, <2>1, <2>2
<1>4. WorkerOK(f) /\ IntentOK(f)
    BY <1>1, <1>3 DEF GuestOK, WorkerOK, IntentOK
<1> DEFINE fails == /\ g.job \in Actions
                    /\ ActionFails(t, g.job, Op(g, g.job).id)
                    /\ ~(g.job = "commit" /\ g.intent # None) /\ ~(g.job = "prepare" /\ staged)
<1>5. h = IF fails THEN [f EXCEPT !.terminal = ActionFailed(@, g.job, code)] ELSE f
    BY DEF Raised
<1>6. CASE ~fails
  <2>1. code # "source_changed"
    <3> SUFFICES ASSUME code = "source_changed" PROVE FALSE
        OBVIOUS
    <3>1. g.job \in Actions /\ ~(g.job = "commit" /\ g.intent # None) /\ ~(g.job = "prepare" /\ staged)
        BY ActionNames
    <3>2. /\ t # None /\ LedgerOK(t) /\ Stat(t, g.job) = "IN_PROGRESS"
          /\ t.phase \notin {"RELEASED", "FAILED", "CHANGED"}
        BY <3>1, WorkingFacts
    <3>3. t.authorized = None
      <4>1. g.job = "prepare" => Stat(t, "release") = "NONE"
          BY <3>2 DEF LedgerOK, ReceiptsOK
      <4> QED BY <3>2, <4>1 DEF LedgerOK, ReceiptsOK
    <3>4. ActionFails(t, g.job, Op(g, g.job).id)
        BY <3>2, <3>3 DEF ActionFails, Pending, Op, Stat
    <3> QED BY <1>6, <3>1, <3>4
  <2>2. ErrorsOK(f, src)
      BY <1>1, <1>2, <1>3, <2>1, GuestErrorNames DEF GuestOK, ErrorsOK, Causes
  <2>3. Follows(g, f) /\ NothingNew(g, f)
      BY <1>3, SameLedger
  <2>4. h = f
      BY <1>5, <1>6
  <2>5. GuestOK(f, src)
      BY <1>1, <1>3, <1>4, <2>2 DEF GuestOK
  <2> QED BY <2>3, <2>4, <2>5 DEF Evolves
<1>7. CASE fails
  <2>1. /\ t \in Snapshots /\ t # None /\ LedgerOK(t) /\ Stat(t, g.job) = "IN_PROGRESS"
        /\ t.phase \notin {"RELEASED", "FAILED", "CHANGED"} /\ g.job \in Actions
      BY <1>7, WorkingFacts
  <2>2. t.authorized = None
      BY <1>7 DEF ActionFails
  <2> PICK u : u = ActionFailed(t, g.job, code)
      OBVIOUS
  <2>3. /\ Closes(t, u, g.job, "FAILED", Failure(code)) /\ LedgerOK(u) /\ Keeps(t, u)
        /\ u.phase = FailedPhase(code) /\ u.prepare = t.prepare /\ u.publication = t.publication
        /\ \A b \in Actions : Stat(t, b) # "FAILED"
      BY <1>2, <2>1, <2>2, ActionFailedOK
  <2>4. u \in Snapshots /\ u # None /\ \A b \in Actions : Stat(u, b) = IF b = g.job THEN "FAILED" ELSE Stat(t, b)
      BY <2>3, NoneIsAbsent DEF Closes, Stat
  <2>5. h = [f EXCEPT !.terminal = u]
    <3>1. ActionFailed(f.terminal, g.job, code) = u
        BY <1>3
    <3> QED BY <1>5, <1>7, <3>1
  <2>6. /\ h \in Guests /\ h.terminal = u /\ h.intent = f.intent /\ h.alive = f.alive /\ h.made = f.made
        /\ h.job = f.job /\ h.stopped = f.stopped /\ h.cleaned = f.cleaned /\ h.error = f.error
    <3> HIDE DEF fails
    <3>1. h \in Guests
      <4>1. f \in Guests /\ u \in Snapshots
          BY <1>3, <2>4
      <4> QED BY <4>1, <2>5, ZenonT(60) DEF Guests
    <3>2. /\ h.terminal = u /\ h.intent = f.intent /\ h.alive = f.alive /\ h.made = f.made
          /\ h.job = f.job /\ h.stopped = f.stopped /\ h.cleaned = f.cleaned /\ h.error = f.error
        BY <1>3, <2>5 DEF Guests
    <3> QED BY <3>1, <3>2
  <2>7. WorkerOK(h)
      BY <1>3, <1>4, <2>1, <2>6 DEF WorkerOK
  <2>8. IntentOK(h)
    <3>1. Stat(u, "commit") = "DONE" => Stat(t, "commit") = "DONE"
        BY <2>4, ActionNames
    <3>2. h.intent # None => g.job # "commit"
        BY <1>3, <1>7, <2>6
    <3>3. h.intent # None => Stat(u, "commit") = Stat(t, "commit")
        BY <2>4, <3>2, ActionNames
    <3> QED BY <1>3, <1>4, <2>1, <2>3, <2>4, <2>6, <3>1, <3>3 DEF IntentOK
  <2>9. Causes(code, u, src)
      BY <2>3, <2>4 DEF Causes, FailedPhase
  <2>10. u.phase \in {"FAILED", "CHANGED"} /\ Failure(code).error = code
      BY <2>3 DEF FailedPhase, Failure
  <2>11. \A a \in Actions : Stat(u, a) = "FAILED" => u.ops[a].result.error = code
      BY <2>3, <2>4, <2>10 DEF Closes
  <2>12. ErrorsOK(h, src)
      BY <1>2, <1>3, <2>4, <2>6, <2>9, <2>10, <2>11 DEF ErrorsOK
  <2>13. Follows(g, h)
      BY <1>3, <2>3, <2>6 DEF Follows
  <2>14. NothingNew(g, h)
      BY <2>1, <2>4, <2>6 DEF NothingNew
  <2> QED BY <2>3, <2>6, <2>7, <2>8, <2>12, <2>13, <2>14 DEF Evolves, GuestOK
<1> QED BY <1>6, <1>7

(* transfer_begin, transfer_chunks and transfer_abort.                     *)
LEMMA BeginOK ==
    ASSUME direction \in {"push", "pull"}, NEW g, NEW src, GuestOK(g, src)
    PROVE  Evolves(g, BeginAt(g), src) /\ BeginAt(g).made
<1> PICK e : e = [g EXCEPT !.made = TRUE]
    OBVIOUS
<1> PICK job : job = IF direction = "pull" THEN "package" ELSE "verify_partial"
    OBVIOUS
<1>1. g \in Guests
    BY DEF GuestOK
<1>2. /\ e \in Guests /\ e.made = TRUE /\ e.alive = g.alive /\ e.job = g.job /\ e.terminal = g.terminal
      /\ e.intent = g.intent /\ e.error = g.error /\ e.cleaned = g.cleaned /\ e.stopped = g.stopped
    BY <1>1 DEF Guests
<1>3. WorkerOK(e) /\ IntentOK(e) /\ ErrorsOK(e, src)
    BY <1>2 DEF GuestOK, WorkerOK, IntentOK, ErrorsOK
<1>4. GuestOK(e, src)
    BY <1>2, <1>3 DEF GuestOK
<1>5. Follows(g, e) /\ NothingNew(g, e)
    BY <1>2, SameLedger
<1>6. Evolves(g, e, src)
    BY <1>4, <1>5 DEF Evolves
<1>7. BeginAt(g) = IF BeginLaunches(g) /\ ~g.cancelled THEN Launched(e, job) ELSE e
    BY DEF BeginAt
<1>8. CASE ~(BeginLaunches(g) /\ ~g.cancelled)
    BY <1>2, <1>6, <1>7, <1>8
<1>9. CASE BeginLaunches(g) /\ ~g.cancelled
  <2>1. ~e.alive
      BY <1>2, <1>4, <1>9 DEF GuestOK, WorkerOK, BeginLaunches
  <2>2. direction = "pull" => e.terminal = None
      BY <1>2, <1>9 DEF GuestOK, WorkerOK, BeginLaunches
  <2>3. direction = "push" => e.terminal = None \/ e.terminal.phase = "READY"
      BY <1>2, <1>9 DEF BeginLaunches, InPhase
  <2>4. job \in {"package", "verify_partial"} /\ job \notin Actions /\ (job = "package" => direction = "pull")
      BY ActionNames
  <2>5. Evolves(e, Launched(e, job), src)
      BY <1>2, <1>4, <2>1, <2>2, <2>3, <2>4, LaunchedOK
  <2>6. Launched(e, job).made
      BY <1>2 DEF Launched, Guests
  <2> QED BY <1>6, <1>7, <1>9, <2>5, <2>6, EvolvesTwice
<1> QED BY <1>8, <1>9

LEMMA ChunksOK ==
    ASSUME direction \in {"push", "pull"}, NEW g, NEW src, GuestOK(g, src)
    PROVE  Evolves(g, ChunksAt(g), src)
<1> PICK h : h = ChunksAt(g)
    OBVIOUS
<1>1. g \in Guests
    BY DEF GuestOK
<1>2. CASE ~(ChunksAccepted(g) /\ g.terminal = None)
  <2>1. h = g
      BY <1>2 DEF ChunksAt
  <2> QED BY <2>1, SameLedger DEF Evolves
<1>3. CASE ChunksAccepted(g) /\ g.terminal = None
  <2>1. h = [g EXCEPT !.terminal = FreshTerminal, !.proof = FALSE]
      BY <1>3 DEF ChunksAt
  <2>2. /\ h \in Guests /\ h.terminal = FreshTerminal /\ h.intent = g.intent /\ h.made = g.made /\ h.alive = g.alive
        /\ h.error = g.error /\ h.job = g.job
      BY <1>1, <2>1, FreshOK DEF Guests
  <2>3. g.made /\ ~g.alive /\ g.intent = None
      BY <1>3 DEF ChunksAccepted, GuestOK, IntentOK
  <2>4. WorkerOK(h) /\ IntentOK(h)
      BY <2>2, <2>3, FreshOK, ActionNames DEF WorkerOK, IntentOK
  <2>5. Causes(h.error, h.terminal, src)
      BY <1>3, <2>2 DEF GuestOK, ErrorsOK, Causes
  <2>6. ErrorsOK(h, src)
      BY <2>2, <2>5, FreshOK DEF ErrorsOK
  <2>7. Follows(g, h) /\ NothingNew(g, h)
      BY <1>3, <2>2, FreshOK DEF Follows, Keeps, NothingNew
  <2> QED BY <2>2, <2>4, <2>6, <2>7, FreshOK DEF Evolves, GuestOK
<1> QED BY <1>2, <1>3

LEMMA AbortOK ==
    ASSUME direction \in {"push", "pull"}, NEW g, NEW src, GuestOK(g, src)
    PROVE  Evolves(g, AbortAt(g), src)
<1> PICK code : code = IF g.stopped THEN g.error ELSE "transfer_cancelled"
    OBVIOUS
<1> PICK e : e = [g EXCEPT !.cancelled = TRUE, !.alive = FALSE, !.stopped = TRUE, !.error = code]
    OBVIOUS
<1>1. g \in Guests /\ code \in GuestErrors \cup {None}
    BY GuestFields, GuestErrorNames DEF GuestOK
<1>2. /\ e \in Guests /\ e.made = g.made /\ e.alive = FALSE /\ e.job = g.job /\ e.terminal = g.terminal
      /\ e.intent = g.intent /\ e.error = code /\ e.cleaned = g.cleaned /\ e.stopped = TRUE
  <2>1. e \in Guests
      BY <1>1, ZenonT(60) DEF Guests
  <2>2. /\ e.made = g.made /\ e.alive = FALSE /\ e.job = g.job /\ e.terminal = g.terminal
        /\ e.intent = g.intent /\ e.error = code /\ e.cleaned = g.cleaned /\ e.stopped = TRUE
      BY <1>1 DEF Guests
  <2> QED BY <2>1, <2>2
<1>3. AbortAt(g) = Settled(e)
    BY <1>1 DEF AbortAt
<1>4. WorkerOK(e) /\ IntentOK(e)
    BY <1>2 DEF GuestOK, WorkerOK, IntentOK
<1>5. ErrorsOK(e, src)
  <2>1. Causes(code, e.terminal, src)
      BY <1>2 DEF GuestOK, ErrorsOK, Causes
  <2> QED BY <1>2, <2>1, GuestErrorNames DEF GuestOK, ErrorsOK
<1>6. GuestOK(e, src)
    BY <1>2, <1>4, <1>5 DEF GuestOK
<1>7. Follows(g, e) /\ NothingNew(g, e)
    BY <1>2, SameLedger
<1>8. Evolves(g, e, src)
    BY <1>6, <1>7 DEF Evolves
<1>9. Evolves(e, Settled(e), src)
    BY <1>6, SettledOK
<1> QED BY <1>3, <1>8, <1>9, EvolvesTwice

(* transfer_finish: at most the requested operation is new.                *)
Asked(g, h, r) ==
    h.terminal # None =>
        \A a \in Actions : Stat(h.terminal, a) # "NONE" =>
            \/ g.terminal # None /\ Stat(g.terminal, a) # "NONE"
            \/ a = r.call /\ h.terminal.ops[a].inputs = r.inputs

LEMMA NothingNewIsAsked == ASSUME NEW g, NEW h, NEW r, NothingNew(g, h) PROVE Asked(g, h, r)
BY DEF NothingNew, Asked

LEMMA FinishOK ==
    ASSUME direction \in {"push", "pull"}, JournalOK(journal), GuestOK(guest, files.source),
           NEW r \in Requests, r.call \in Actions, NEW h \in FinishAt(guest, r.call, r.inputs)
    PROVE  GuestOK(h, files.source) /\ Follows(guest, h) /\ Asked(guest, h, r)
<1> PICK g : g = guest
    OBVIOUS
<1> PICK src : src = files.source
    OBVIOUS
<1> PICK t : t = g.terminal
    OBVIOUS
<1> PICK a \in Actions : a = r.call
    OBVIOUS
<1> PICK in : in = r.inputs
    OBVIOUS
<1>1. g \in Guests /\ in \in Inputs /\ GuestOK(g, src)
    BY DEF GuestOK, Requests
<1>2. CASE h = g
    BY <1>1, <1>2, SameLedger, NothingNewIsAsked
<1>3. CASE FinishStarts(g, a, in)
  <2>1. /\ t # None /\ t \in Snapshots /\ LedgerOK(t) /\ BeginStarts(t, a, in) /\ ~g.alive /\ g.made
      BY <1>1, <1>3, GuestFields DEF FinishStarts, GuestOK, WorkerOK
  <2>2. direction = "push" => Stat(t, "release") = "NONE"
    <3>1. Stat(t, a) = "NONE" /\ NoneInProgress(t) /\ t.phase = ExpectedPhase(a)
        BY <2>1 DEF BeginStarts, Stat
    <3>2. a = "prepare" => t.phase = "READY"
        BY <3>1 DEF ExpectedPhase
    <3>3. a = "prepare" => Stat(t, "release") = "NONE"
        BY <2>1, <3>2 DEF LedgerOK, PhaseOK
    <3>4. a = "commit" /\ direction = "push" => Stat(t, "release") = "NONE"
        BY <2>1, <3>1 DEF LedgerOK, ReceiptsOK
    <3> QED BY <3>1, <3>3, <3>4, ActionNames
  <2>3. FreshId \in Ids
      BY <2>2, FreshIsFree
  <2> PICK u : u = Begun(t, a, in, FreshId)
      OBVIOUS
  <2>4. /\ Rewrites(t, u, a, "IN_PROGRESS", FreshId, in) /\ LedgerOK(u) /\ Keeps(t, u)
        /\ u.phase = t.phase /\ u.prepare = t.prepare /\ u.publication = t.publication
        /\ Stat(t, a) = "NONE"
      BY <1>1, <2>1, <2>3, BegunOK
  <2>5. /\ u \in Snapshots /\ u # None /\ Stat(u, a) = "IN_PROGRESS" /\ u.ops[a].inputs = in
        /\ \A b \in Actions : b # a => Stat(u, b) = Stat(t, b) /\ u.ops[b] = t.ops[b]
      BY <2>4, NoneIsAbsent DEF Rewrites, Stat
  <2> PICK e : e = [g EXCEPT !.terminal = u]
      OBVIOUS
  <2>6. /\ e \in Guests /\ e.terminal = u /\ e.intent = g.intent /\ e.alive = g.alive /\ e.made = g.made
        /\ e.job = g.job /\ e.stopped = g.stopped /\ e.cleaned = g.cleaned /\ e.error = g.error
      BY <1>1, <2>5 DEF Guests
  <2>7. WorkerOK(e)
      BY <2>1, <2>6 DEF WorkerOK
  <2>8. IntentOK(e)
    <3>1. Stat(u, "commit") = "DONE" => Stat(t, "commit") = "DONE"
        BY <2>5, ActionNames
    <3>2. e.intent # None => Stat(t, "commit") # "NONE" /\ Stat(u, "commit") = Stat(t, "commit")
        BY <1>1, <2>4, <2>5, <2>6, ActionNames DEF GuestOK, IntentOK
    <3> QED BY <1>1, <2>1, <2>4, <2>5, <2>6, <3>1, <3>2 DEF GuestOK, IntentOK
  <2>9. t.phase \notin {"RELEASED", "FAILED", "CHANGED"}
    <3>1. t.phase = ExpectedPhase(a)
        BY <2>1 DEF BeginStarts
    <3> QED BY <3>1 DEF ExpectedPhase
  <2>10. ErrorsOK(e, src)
    <3>1. g.error # "source_changed"
        BY <1>1, <2>9, <2>1 DEF GuestOK, ErrorsOK, Causes
    <3>2. Causes(e.error, u, src)
        BY <1>1, <2>6, <3>1 DEF GuestOK, ErrorsOK, Causes
    <3>3. \A b \in Actions : Stat(u, b) # "FAILED"
        BY <2>1, <2>5, <2>9 DEF LedgerOK, PhaseOK
    <3> QED BY <2>4, <2>6, <2>9, <3>2, <3>3 DEF ErrorsOK
  <2>11. GuestOK(e, src)
      BY <2>4, <2>6, <2>7, <2>8, <2>10 DEF GuestOK
  <2>12. Evolves(e, Launched(e, a), src)
    <3>1. a \in Actions \cup {"package", "verify_partial"} /\ a # "package"
        BY ActionNames
    <3>2. e.terminal # None /\ Stat(e.terminal, a) = "IN_PROGRESS" /\ ~e.alive /\ e.made
          /\ e.terminal.phase \notin {"FAILED", "CHANGED", "RELEASED"}
        BY <2>1, <2>4, <2>5, <2>6, <2>9
    <3> QED BY <2>11, <3>1, <3>2, LaunchedOK
  <2>13. h = Launched(e, a)
      BY <1>3 DEF FinishAt
  <2>14. Launched(e, a).terminal = u /\ Launched(e, a).intent = g.intent
      BY <2>6 DEF Launched, Guests
  <2>15. Follows(g, h)
      BY <2>4, <2>13, <2>14 DEF Follows
  <2>16. Asked(g, h, r)
      BY <2>1, <2>5, <2>13, <2>14 DEF Asked
  <2> QED BY <2>12, <2>13, <2>15, <2>16 DEF Evolves
<1>4. CASE /\ ~FinishStarts(g, a, in) /\ FinishRelaunches(g, a, in) /\ ~g.cancelled /\ ~g.alive
           /\ h = Launched(g, a)
  <2>1. /\ t # None /\ t \in Snapshots /\ LedgerOK(t) /\ Stat(t, a) = "IN_PROGRESS" /\ g.made
      BY <1>1, <1>4, GuestFields DEF FinishRelaunches, FinishReplays, Op, Stat, GuestOK, WorkerOK
  <2>2. t.phase \notin {"FAILED", "CHANGED"}
      BY <2>1 DEF LedgerOK, PhaseOK, NoneInProgress, Stat
  <2>3. t.phase # "RELEASED"
    <3>1. Stat(t, "release") = "DONE" => Stat(t, "prepare") = "DONE" /\ Stat(t, "commit") # "IN_PROGRESS"
        BY <2>1 DEF LedgerOK, ReceiptsOK
    <3> QED BY <2>1, <3>1, ActionNames DEF LedgerOK, PhaseOK
  <2>4. Evolves(g, h, src)
    <3>1. a \in Actions \cup {"package", "verify_partial"} /\ a # "package"
        BY ActionNames
    <3> QED BY <1>1, <1>4, <2>1, <2>2, <2>3, <3>1, LaunchedOK
  <2> QED BY <2>4, NothingNewIsAsked DEF Evolves
<1>5. \/ h = g \/ FinishStarts(g, a, in)
      \/ /\ ~FinishStarts(g, a, in) /\ FinishRelaunches(g, a, in) /\ ~g.cancelled /\ ~g.alive
         /\ h = Launched(g, a)
    BY DEF FinishAt
<1> QED BY <1>2, <1>3, <1>4, <1>5

LEMMA ExecutedOK ==
    ASSUME direction \in {"push", "pull"}, JournalOK(journal), GuestOK(guest, files.source),
           NEW r \in Requests, NEW h \in Executed(guest, r)
    PROVE  /\ GuestOK(h, files.source) /\ Follows(guest, h) /\ Asked(guest, h, r)
           /\ r.call \notin Actions => NothingNew(guest, h)
<1>1. r.call \in {"begin", "chunks", "abort"} \cup Actions
    BY DEF Requests
<1>2. CASE r.call = "begin"
  <2>1. h = BeginAt(guest) /\ r.call \notin Actions
      BY <1>2 DEF Executed, Actions
  <2>2. Evolves(guest, h, files.source)
      BY <2>1, BeginOK
  <2> QED BY <2>2, NothingNewIsAsked DEF Evolves
<1>3. CASE r.call = "chunks"
  <2>1. h = ChunksAt(guest) /\ r.call \notin Actions
      BY <1>3 DEF Executed, Actions
  <2>2. Evolves(guest, h, files.source)
      BY <2>1, ChunksOK
  <2> QED BY <2>2, NothingNewIsAsked DEF Evolves
<1>4. CASE r.call = "abort"
  <2>1. h = (IF guest.made THEN AbortAt(guest) ELSE guest) /\ r.call \notin Actions
      BY <1>4 DEF Executed, Actions
  <2>2. GuestOK(h, files.source) /\ Follows(guest, h) /\ NothingNew(guest, h)
      BY <2>1, AbortOK, SameLedger DEF Evolves
  <2> QED BY <2>2, NothingNewIsAsked
<1>5. CASE r.call \in Actions
  <2>1. h \in FinishAt(guest, r.call, r.inputs)
      BY <1>5 DEF Executed, Actions
  <2> QED BY <1>5, <2>1, FinishOK
<1> QED BY <1>1, <1>2, <1>3, <1>4, <1>5

-----------------------------------------------------------------------------
(* The world of a journal while the guest moves.                           *)

(* Operations that are new in h are what the journal j asked for.          *)
AsJournaled(j, g, h) ==
    h.terminal # None =>
        \A a \in Actions : Stat(h.terminal, a) # "NONE" =>
            \/ g.terminal # None /\ Stat(g.terminal, a) # "NONE"
            \/ h.terminal.ops[a].inputs = j.asked[a] /\ j.asked[a] # None

LEMMA AgreeKept ==
    ASSUME direction \in {"push", "pull"}, NEW j, NEW g, NEW h, NEW src, NEW before, NEW after,
           JournalOK(j), GuestOK(g, src), GuestOK(h, src), Agree(j, g, before),
           Follows(g, h), AsJournaled(j, g, h), before => after,
           direction = "push" /\ ~after /\ Uncommitted(g) /\ ~Uncommitted(h) => j.unknown /\ j.stable
    PROVE  Agree(j, h, after)
<1> PICK t : t = g.terminal
    OBVIOUS
<1> PICK u : u = h.terminal
    OBVIOUS
<1>1. /\ Keeps(t, u) /\ (t # None => u # None /\ t \in Snapshots /\ LedgerOK(t))
      /\ (u # None => u \in Snapshots /\ LedgerOK(u))
    BY GuestFields DEF Follows, Keeps, GuestOK
<1>2. \A a \in Actions : j.operations[a] # None => u # None /\ j.operations[a] = Identity(u, a)
  <2>1. ASSUME NEW a \in Actions, j.operations[a] # None
        PROVE  u # None /\ j.operations[a] = Identity(u, a)
    <3>1. t # None /\ j.operations[a] = Identity(t, a) /\ Stat(t, a) # "NONE"
        BY <2>1 DEF Agree, Identity, Stat
    <3>2. /\ Stat(u, a) # "NONE" /\ u.ops[a].id = t.ops[a].id /\ u.ops[a].inputs = t.ops[a].inputs
        BY <1>1, <3>1 DEF Keeps
    <3> QED BY <1>1, <3>1, <3>2 DEF Identity, Stat
  <2> QED BY <2>1
<1>3. j.prepare # None => u # None /\ j.prepare = u.prepare
    BY <1>1 DEF Agree, Keeps
<1>4. u # None => \A a \in Actions : Stat(u, a) # "NONE" => u.ops[a].inputs = j.asked[a] /\ j.asked[a] # None
  <2>1. ASSUME u # None, NEW a \in Actions, Stat(u, a) # "NONE"
        PROVE  u.ops[a].inputs = j.asked[a] /\ j.asked[a] # None
    <3>1. CASE t # None /\ Stat(t, a) # "NONE"
        BY <1>1, <3>1 DEF Agree, Keeps
    <3> QED BY <2>1, <3>1 DEF AsJournaled
  <2> QED BY <2>1
<1>5. direction = "push" => (j.publication # None => u # None /\ j.publication = u.publication)
    BY <1>1 DEF Agree, Keeps
<1>6. u # None => (u.publication # None /\ j.publication # None => j.publication = u.publication)
  <2>1. CASE direction = "push"
      BY <1>5, <2>1
  <2>2. ASSUME direction = "pull", u # None, u.publication # None
        PROVE  j.publication = u.publication
    <3>1. Stat(u, "release") # "NONE" /\ u.publication = u.ops["release"].inputs.publication
        BY <1>1, <2>2 DEF LedgerOK, ReceiptsOK
    <3>2. u.ops["release"].inputs = j.asked["release"] /\ j.asked["release"] # None
        BY <1>4, <2>2, <3>1, ActionNames
    <3> QED BY <3>1, <3>2 DEF JournalOK, FinishInputs
  <2> QED BY <2>1, <2>2
<1>7. direction = "push" /\ Committed(h) /\ ~after => j.unknown \/ j.published
  <2>1. Committed(h) /\ ~Uncommitted(g) => Committed(g)
      BY <1>1, ActionNames DEF Committed, Uncommitted, Keeps
  <2>2. Committed(h) => ~Uncommitted(h)
      BY DEF Committed, Uncommitted
  <2> QED BY <2>1, <2>2 DEF Agree
<1>8. direction = "push" /\ ~Uncommitted(h) /\ ~after => j.stable
    BY DEF Agree
<1>9. direction = "pull" => (j.intent # None => j.stable \/ InPhase(h, "CHANGED"))
    BY <1>1 DEF Agree, InPhase, Keeps
<1> QED BY <1>2, <1>3, <1>4, <1>5, <1>6, <1>7, <1>8, <1>9 DEF Agree

LEMMA NothingNewIsJournaled ==
    ASSUME NEW j, NEW g, NEW h, NothingNew(g, h)
    PROVE  AsJournaled(j, g, h) /\ (Uncommitted(g) => Uncommitted(h))
BY ActionNames DEF NothingNew, AsJournaled, Uncommitted

LEMMA ReleasedKept ==
    ASSUME NEW j, NEW g, NEW h, NEW src, GuestOK(h, src), Follows(g, h), ReleasedAs(g, j)
    PROVE  ReleasedAs(h, j)
<1>1. /\ h.terminal # None /\ h.terminal.phase = "RELEASED" /\ h.terminal.publication = j.publication
      /\ j.publication # None
    BY DEF ReleasedAs, InPhase, Follows, Keeps
<1>2. h.stopped /\ h.cleaned
    BY <1>1 DEF GuestOK, ErrorsOK
<1> QED BY <1>1, <1>2 DEF ReleasedAs, InPhase

(* Everything the invariant says, of a guest g.                            *)
Scene(h, j, g, f, l, r, overdue) ==
    World(j, g, f, l, overdue) /\ HostOK(h, j, g, f, overdue) /\ ResultOK(r, h, j, g, f, overdue)

LEMMA SceneKept ==
    ASSUME direction \in {"push", "pull"}, NEW h, NEW j, NEW g, NEW f, NEW l, NEW r, NEW before,
           NEW k, NEW after, NEW m,
           Scene(h, j, g, f, l, r, before), before \in BOOLEAN, after \in BOOLEAN, before => after,
           GuestOK(k, f.source), Follows(g, k), m \subseteq l,
           AsJournaled(j, g, k), ~after => (Uncommitted(g) => Uncommitted(k))
    PROVE  Scene(h, j, k, f, m, r, after)
<1>1. World(j, k, f, m, after)
  <2>1. Agree(j, k, after)
      BY AgreeKept DEF Scene, World
  <2>2. LateOK(j, m)
      BY DEF Scene, World, LateOK
  <2> QED BY <2>1, <2>2 DEF Scene, World
<1>2. HostOK(h, j, k, f, after)
  <2>1. FinishingOK(h, j, k, after)
      BY DEF Scene, HostOK, FinishingOK
  <2>2. CleaningOK(h, j, k, f)
      BY ReleasedKept DEF Scene, HostOK, CleaningOK
  <2> QED BY <2>1, <2>2 DEF Scene, HostOK
<1>3. ResultOK(r, h, j, k, f, after)
    BY ReleasedKept DEF Scene, ResultOK, ReportOK
<1> QED BY <1>1, <1>2, <1>3 DEF Scene

LEMMA GuestMoves ==
    ASSUME direction \in {"push", "pull"}, NEW h, NEW j, NEW g, NEW f, NEW l, NEW r, NEW overdue \in BOOLEAN,
           NEW k, Scene(h, j, g, f, l, r, overdue), Evolves(g, k, f.source)
    PROVE  Scene(h, j, k, f, l, r, overdue)
BY SceneKept, NothingNewIsJournaled DEF Evolves

-----------------------------------------------------------------------------
(* A status brings the journal up to date.                                 *)
Current(j, g) ==
    g.terminal # None =>
        /\ g.terminal.prepare # None => j.prepare = g.terminal.prepare
        /\ g.terminal.publication # None => j.publication = g.terminal.publication

(* A journal k that differs from j in what it ingested.                    *)
LEMMA IdentityTypes ==
    ASSUME NEW t \in Snapshots, LedgerOK(t), NEW a \in Actions
    PROVE  /\ Identity(t, a) \in Identities \cup {None}
           /\ Identity(t, a) = None <=> Stat(t, a) = "NONE"
<1>1. CASE Stat(t, a) = "NONE"
    BY <1>1 DEF Identity, Stat
<1>2. CASE Stat(t, a) # "NONE"
  <2>1. t.ops[a].id \in Ids /\ t.ops[a].inputs \in Inputs
      BY <1>2, SnapshotFields DEF LedgerOK, ReceiptsOK
  <2>2. Identity(t, a) = [id |-> t.ops[a].id, inputs |-> t.ops[a].inputs]
      BY <1>2 DEF Identity, Stat
  <2>3. Identity(t, a) \in Identities
      BY <2>1, <2>2 DEF Identities
  <2> QED BY <1>2, <2>3, NoneIsAbsent
<1> QED BY <1>1, <1>2

LEMMA PublicationKnown ==
    ASSUME direction = "pull", NEW j, NEW g, NEW src, NEW overdue,
           JournalOK(j), GuestOK(g, src), Agree(j, g, overdue), g.terminal # None, g.terminal.publication # None
    PROVE  j.publication = g.terminal.publication /\ j.published
<1> PICK t : t = g.terminal
    OBVIOUS
<1>1. t.authorized # None /\ Stat(t, "release") # "NONE" /\ t.publication = t.ops["release"].inputs.publication
    BY DEF GuestOK, LedgerOK, ReceiptsOK
<1>2. t.ops["release"].inputs = j.asked["release"] /\ j.asked["release"] # None
    BY <1>1, ActionNames DEF Agree
<1> QED BY <1>1, <1>2 DEF JournalOK, FinishInputs

LEMMA IngestAgrees ==
    ASSUME direction \in {"push", "pull"}, NEW j, NEW g, NEW src, NEW overdue,
           JournalOK(j), GuestOK(g, src), Agree(j, g, overdue)
    PROVE  IngestError(j, g) = None
<1> PICK t : t = g.terminal
    OBVIOUS
<1>1. CASE t = None
    BY <1>1 DEF IngestError
<1>2. CASE t # None
  <2>1. \A a \in Actions : ~Differs(j.operations[a], Identity(t, a))
      BY DEF Agree, Differs
  <2>2. ~Differs(j.prepare, t.prepare)
      BY DEF Agree, Differs
  <2>3. ~Differs(j.publication, t.publication)
      BY <1>2 DEF Agree, Differs
  <2> QED BY <2>1, <2>2, <2>3 DEF IngestError
<1> QED BY <1>1, <1>2

LEMMA JournalFields ==
    ASSUME NEW j \in Journals
    PROVE  /\ j.phase \in HostPhases /\ j.last \in HostPhases \cup {None} /\ j.begun \in BOOLEAN
           /\ j.operations \in [Actions -> Identities \cup {None}]
           /\ j.prepare \in PrepareReceipts \cup {None} /\ j.validation \in ValidationReceipts \cup {None}
           /\ j.publication \in PublicationReceipts \cup {None} /\ j.intent \in PublicationReceipts \cup {None}
           /\ j.published \in BOOLEAN /\ j.unknown \in BOOLEAN /\ j.stable \in BOOLEAN
           /\ j.asked \in [Actions -> Inputs \cup {None}] /\ j.attempts \in [Actions -> 0..RetryCap]
           /\ j.destVerified \in BOOLEAN \cup {None} /\ j.guestClean \in BOOLEAN
           /\ j.hostClean \in BOOLEAN /\ j.cleanIntent \in BOOLEAN /\ j.adapterPending \in BOOLEAN
BY DEF Journals

(* What k has taken from the status of g.                                  *)
Ingests(j, k, g) ==
    /\ k \in Journals
    /\ k.phase = j.phase /\ k.last = j.last /\ k.begun = j.begun /\ k.validation = j.validation
    /\ k.intent = j.intent /\ k.stable = j.stable /\ k.asked = j.asked /\ k.attempts = j.attempts
    /\ k.destVerified = j.destVerified /\ k.guestClean = j.guestClean /\ k.hostClean = j.hostClean
    /\ k.cleanIntent = j.cleanIntent
    /\ \A a \in Actions : k.operations[a] # None =>
          k.operations[a] = j.operations[a] \/ (g.terminal # None /\ k.operations[a] = Identity(g.terminal, a))
    /\ k.prepare = j.prepare \/ (g.terminal # None /\ k.prepare = g.terminal.prepare /\ k.prepare # None)
    /\ \/ k.publication = j.publication /\ k.published = j.published
       \/ (g.terminal # None /\ k.publication = g.terminal.publication /\ k.publication # None /\ k.published)
    /\ \/ k.unknown = j.unknown \/ k.published
       \/ (direction = "push" /\ ~k.unknown /\ Uncommitted(g))

LEMMA IngestedDoes ==
    ASSUME direction \in {"push", "pull"}, NEW j, NEW g, NEW src, JournalOK(j), GuestOK(g, src)
    PROVE  /\ Ingests(j, Ingested(j, g), g) /\ Current(Ingested(j, g), g)
           /\ Ingested(j, g).adapterPending = j.adapterPending
<1> PICK t : t = g.terminal
    OBVIOUS
<1>1. j \in Journals
    BY DEF JournalOK
<1>2. CASE t = None
  <2>1. Ingested(j, g) = j
      BY <1>2 DEF Ingested
  <2> QED BY <1>1, <1>2, <2>1 DEF Ingests, Current
<1>3. CASE t # None
  <2>1. t \in Snapshots /\ LedgerOK(t)
      BY <1>3, GuestFields DEF GuestOK
  <2>o. PICK ops : ops = [a \in Actions |-> First(Identity(t, a), j.operations[a])]
      OBVIOUS
  <2>p. PICK p : p = First(t.prepare, j.prepare)
      OBVIOUS
  <2>q. PICK q : q = First(t.publication, j.publication)
      OBVIOUS
  <2>b. PICK b \in BOOLEAN : b <=> (j.published \/ t.publication # None)
      OBVIOUS
  <2>c. PICK c \in BOOLEAN : c <=> /\ j.unknown /\ t.publication = None
                                 /\ ~(direction = "push" /\ t.ops["commit"].status = "NONE")
      OBVIOUS
  <2>k. PICK k : k = [j EXCEPT !.operations = ops, !.prepare = p, !.publication = q, !.published = b, !.unknown = c]
      OBVIOUS
  <2>2. ops \in [Actions -> Identities \cup {None}]
      BY <1>1, <2>1, <2>o, JournalFields, IdentityTypes DEF First
  <2>3. p \in PrepareReceipts \cup {None} /\ q \in PublicationReceipts \cup {None}
      BY <1>1, <2>1, <2>p, <2>q, JournalFields, SnapshotFields DEF First
  <2>4. Ingested(j, g) = k
      BY <1>1, <1>3, <2>o, <2>p, <2>q, <2>b, <2>c, <2>k, JournalFields DEF Ingested
  <2>5. k \in Journals
    <3>i. PICK i : i = [j EXCEPT !.operations = ops]
        OBVIOUS
    <3>1. i \in Journals
        BY <1>1, <2>2, <3>i DEF Journals
    <3>2. k = [i EXCEPT !.prepare = p, !.publication = q, !.published = b, !.unknown = c]
        BY <1>1, <2>k, <3>i DEF Journals
    <3>3. [i EXCEPT !.prepare = p, !.publication = q, !.published = b, !.unknown = c] \in Journals
        BY <2>3, <3>1 DEF Journals
    <3> QED BY <3>2, <3>3
  <2>6. /\ k.phase = j.phase /\ k.last = j.last /\ k.begun = j.begun /\ k.validation = j.validation
        /\ k.intent = j.intent /\ k.stable = j.stable /\ k.asked = j.asked /\ k.attempts = j.attempts
        /\ k.destVerified = j.destVerified /\ k.guestClean = j.guestClean /\ k.hostClean = j.hostClean
        /\ k.cleanIntent = j.cleanIntent /\ k.adapterPending = j.adapterPending
        /\ k.operations = ops /\ k.prepare = p /\ k.publication = q /\ k.published = b /\ k.unknown = c
      BY <1>1, <2>k DEF Journals
  <2>7. \A a \in Actions : ops[a] = j.operations[a] \/ ops[a] = Identity(t, a)
      BY <2>o DEF First
  <2>8. /\ p = j.prepare \/ (p = t.prepare /\ p # None)
        /\ (t.prepare # None => p = t.prepare) /\ (t.publication # None => q = t.publication)
        /\ (q = j.publication /\ t.publication = None) \/ (q = t.publication /\ q # None)
      BY <2>p, <2>q DEF First
  <2>9. \/ q = j.publication /\ b = j.published
        \/ q = t.publication /\ q # None /\ b
      BY <1>1, <2>8, <2>b, JournalFields
  <2>10. c = j.unknown \/ b \/ (direction = "push" /\ ~c /\ Uncommitted(g))
      BY <1>1, <1>3, <2>b, <2>c, JournalFields DEF Uncommitted, Stat
  <2>11. Ingests(j, k, g)
      BY <1>3, <2>5, <2>6, <2>7, <2>8, <2>9, <2>10 DEF Ingests
  <2>12. Current(k, g)
      BY <2>6, <2>8 DEF Current
  <2> QED BY <2>4, <2>6, <2>11, <2>12
<1> QED BY <1>2, <1>3

LEMMA IngestsOK ==
    ASSUME direction \in {"push", "pull"}, NEW j, NEW g, NEW f, NEW l, NEW overdue, NEW k,
           World(j, g, f, l, overdue), j.begun, Ingests(j, k, g),
           Current(k, g) \/ (k.publication # None => k.prepare # None)
    PROVE  World(k, g, f, l, overdue)
<1> PICK t : t = g.terminal
    OBVIOUS
<1>1. /\ JournalOK(j) /\ GuestOK(g, f.source) /\ Agree(j, g, overdue) /\ LateOK(j, l) /\ FilesOK(j, f)
      /\ j \in Journals /\ k \in Journals
    BY DEF World, JournalOK, Ingests
<1>2. t # None => t \in Snapshots /\ LedgerOK(t)
    BY <1>1, GuestFields DEF GuestOK
<1>3. k.prepare = j.prepare \/ (j.prepare = None /\ t # None /\ k.prepare = t.prepare /\ k.prepare # None)
    BY <1>1 DEF Ingests, Agree
<1>4. \/ k.publication = j.publication /\ k.published = j.published
      \/ t # None /\ k.publication = t.publication /\ k.publication # None /\ k.published
    BY DEF Ingests
<1>5. direction = "pull" => k.publication = j.publication /\ k.published = j.published
  <2>1. CASE direction = "pull" /\ t # None /\ k.publication = t.publication /\ k.publication # None /\ k.published
    <3>1. j.publication = t.publication /\ j.published
        BY <1>1, <2>1, PublicationKnown
    <3> QED BY <1>1, <2>1, <3>1, JournalFields
  <2> QED BY <1>4, <2>1
<1>6. k.publication # None => k.published /\ k.prepare # None
  <2>1. CASE k.publication = j.publication /\ k.published = j.published
      BY <1>1, <1>3, <2>1 DEF JournalOK
  <2>2. CASE t # None /\ k.publication = t.publication /\ k.publication # None /\ k.published
    <3>1. t.prepare # None
      <4>1. direction = "pull" => Stat(t, "release") # "NONE"
          BY <1>2, <2>2 DEF LedgerOK, ReceiptsOK
      <4>2. direction = "push" => Stat(t, "commit") # "NONE"
          BY <1>2, <2>2 DEF LedgerOK, ReceiptsOK
      <4> QED BY <1>2, <2>2, <4>1, <4>2 DEF LedgerOK, ReceiptsOK
    <3> QED BY <2>2, <3>1 DEF Current
  <2> QED BY <1>4, <2>1, <2>2
<1>7. k.publication = j.publication \/ j.publication = None
    BY <1>1, <1>4 DEF Agree
<1>8. (j.published => k.published) /\ (direction = "push" /\ k.published => k.publication # None)
    BY <1>1, <1>4 DEF JournalOK
<1>9. JournalOK(k)
  <2>1. /\ k.begun = j.begun /\ k.phase = j.phase /\ k.last = j.last /\ k.validation = j.validation
        /\ k.intent = j.intent /\ k.stable = j.stable /\ k.asked = j.asked
      BY DEF Ingests
  <2>2. {k.phase, k.last} \cap {"PUBLISHED", "CLEANING", "COMPLETE"} # {} => k.published
      BY <1>1, <1>8, <2>1 DEF JournalOK
  <2>3. k.validation # None =>
          /\ k.prepare # None
          /\ k.validation = [binding |-> "K", prepare |-> k.prepare, id |-> k.prepare.id]
      BY <1>1, <1>3, <2>1 DEF JournalOK
  <2>4. k.asked["commit"] # None =>
          /\ k.prepare # None /\ k.validation # None /\ k.asked["commit"] = FinishInputs(k, "commit")
      BY <1>1, <1>3, <2>1 DEF JournalOK, FinishInputs
  <2>5. k.asked["release"] # None =>
          /\ k.prepare # None /\ k.publication # None /\ k.asked["release"] = FinishInputs(k, "release")
      BY <1>1, <1>3, <1>7, <2>1 DEF JournalOK, FinishInputs
  <2>6. direction = "pull" =>
          /\ k.published => k.intent # None
          /\ k.intent # None => k.prepare # None
          /\ k.publication # None => k.publication = k.intent
      BY <1>1, <1>3, <1>5, <2>1 DEF JournalOK
  <2> QED BY <1>1, <1>6, <1>8, <2>1, <2>2, <2>3, <2>4, <2>5, <2>6 DEF JournalOK
<1>10. Agree(k, g, overdue)
  <2>1. k.asked = j.asked /\ k.intent = j.intent /\ k.stable = j.stable
      BY DEF Ingests
  <2>2. \A a \in Actions : k.operations[a] # None => t # None /\ k.operations[a] = Identity(t, a)
      BY <1>1 DEF Ingests, Agree
  <2>3. k.prepare # None => t # None /\ k.prepare = t.prepare
      BY <1>1, <1>3 DEF Agree
  <2>4. t # None => (t.publication # None /\ k.publication # None => k.publication = t.publication)
      BY <1>1, <1>4 DEF Agree
  <2>5. direction = "push" => (k.publication # None => t # None /\ k.publication = t.publication)
      BY <1>1, <1>4 DEF Agree
  <2>6. direction = "push" /\ Committed(g) /\ ~overdue => k.unknown \/ k.published
    <3>1. Committed(g) => ~Uncommitted(g)
        BY DEF Committed, Uncommitted
    <3>2. k.unknown = j.unknown \/ k.published \/ (direction = "push" /\ ~k.unknown /\ Uncommitted(g))
        BY DEF Ingests
    <3> QED BY <1>1, <1>8, <3>1, <3>2 DEF Agree
  <2> QED BY <1>1, <2>1, <2>2, <2>3, <2>4, <2>5, <2>6 DEF Agree
<1>11. LateOK(k, l)
    BY <1>1 DEF LateOK, Ingests
<1>12. FilesOK(k, f)
    BY <1>1, <1>5 DEF FilesOK, Ingests
<1> QED BY <1>1, <1>9, <1>10, <1>11, <1>12 DEF World

-----------------------------------------------------------------------------
(* The host between the answer of a call and its next location: a journal  *)
(* j it has not saved yet, the guest g it knows of, the late requests l.   *)
Running(j, g, l) ==
    /\ World(j, g, files, l, bounds.overdue) /\ bounds.overdue \in BOOLEAN
    /\ host \in HostStates /\ result = None
    /\ j.phase # "COMPLETE" /\ j.last # None /\ j.destVerified # FALSE

Following(j, g, l) == Running(j, g, l) /\ j.begun /\ Current(j, g)

Lands(g, l) == Scene(host', journal', g, files', l, result', bounds.overdue)

(* A journal whose facts are those of j; only the mark that the sources    *)
(* were seen stable may be lost, where nothing rests on it.                *)
Unstable(j, g, overdue) ==
    IF direction = "push" THEN overdue \/ Uncommitted(g) ELSE j.intent = None \/ InPhase(g, "CHANGED")

Restates(j, k, g, overdue) ==
    /\ k \in Journals
    /\ k.begun = j.begun /\ k.operations = j.operations /\ k.prepare = j.prepare
    /\ k.validation = j.validation /\ k.publication = j.publication /\ k.intent = j.intent
    /\ k.published = j.published /\ k.unknown = j.unknown /\ k.asked = j.asked
    /\ k.last = None => k.phase = "CREATED"
    /\ {k.phase, k.last} \cap {"PUBLISHED", "CLEANING", "COMPLETE"} # {} => k.published
    /\ k.stable = j.stable \/ k.stable \/ Unstable(j, g, overdue)

LEMMA RestatesOK ==
    ASSUME direction \in {"push", "pull"}, NEW j, NEW k, NEW g, NEW f, NEW l, NEW overdue,
           World(j, g, f, l, overdue), Restates(j, k, g, overdue)
    PROVE  World(k, g, f, l, overdue)
<1>1. \A a \in Actions : FinishInputs(k, a) = FinishInputs(j, a)
    BY DEF Restates, FinishInputs
<1>2. JournalOK(k)
    BY <1>1, ActionNames DEF World, JournalOK, Restates
<1>3. Agree(k, g, overdue)
    BY DEF World, Agree, Restates, Unstable
<1>4. LateOK(k, l) /\ FilesOK(k, f)
    BY DEF World, LateOK, FilesOK, Restates
<1> QED BY <1>2, <1>3, <1>4 DEF World

(* A journal that differs from j in its phase alone.                       *)
OnlyPhase(j, k) ==
    /\ k \in Journals
    /\ k.begun = j.begun /\ k.operations = j.operations /\ k.prepare = j.prepare
    /\ k.validation = j.validation /\ k.publication = j.publication /\ k.intent = j.intent
    /\ k.published = j.published /\ k.unknown = j.unknown /\ k.asked = j.asked
    /\ k.stable = j.stable /\ k.attempts = j.attempts /\ k.destVerified = j.destVerified
    /\ k.guestClean = j.guestClean /\ k.hostClean = j.hostClean /\ k.cleanIntent = j.cleanIntent
    /\ k.adapterPending = j.adapterPending

LEMMA SetPhaseDoes ==
    ASSUME NEW j, JournalOK(j), NEW p \in HostPhases,
           p \in {"PUBLISHED", "CLEANING", "COMPLETE"} => j.published
    PROVE  /\ OnlyPhase(j, SetPhase(j, p)) /\ SetPhase(j, p).phase = p
           /\ (j.last # None => SetPhase(j, p).last # None)
           /\ (SetPhase(j, p).last = None => SetPhase(j, p).phase = "CREATED")
           /\ ({SetPhase(j, p).phase, SetPhase(j, p).last} \cap {"PUBLISHED", "CLEANING", "COMPLETE"} # {}
                  => j.published)
<1>1. j \in Journals
    BY DEF JournalOK
<1>2. CASE j.phase = p
    BY <1>1, <1>2 DEF SetPhase, OnlyPhase, JournalOK
<1>3. CASE j.phase # p
  <2> PICK k : k = SetPhase(j, p)
      OBVIOUS
  <2>1. k = [j EXCEPT !.phase = p, !.last = j.phase]
      BY <1>3 DEF SetPhase
  <2>2. k \in Journals
    <3>1. j.phase \in HostPhases \cup {None}
        BY <1>1, JournalFields
    <3> QED BY <1>1, <2>1, <3>1 DEF Journals
  <2>3. k.phase = p /\ k.last = j.phase /\ OnlyPhase(j, k)
      BY <1>1, <2>1, <2>2 DEF OnlyPhase, Journals
  <2>4. k.last # None
      BY <1>1, <2>3, JournalFields, NoneIsAbsent
  <2> QED BY <2>3, <2>4 DEF JournalOK
<1> QED BY <1>2, <1>3

LEMMA PhaseNames ==
    /\ "CREATED" \in HostPhases /\ "PREPARING" \in HostPhases /\ "READY" \in HostPhases
    /\ "TRANSFERRING" \in HostPhases /\ "VERIFYING" \in HostPhases /\ "PUBLISHED" \in HostPhases
    /\ "CLEANING" \in HostPhases /\ "COMPLETE" \in HostPhases /\ "FAILED" \in HostPhases
    /\ "CONFLICT" \in HostPhases /\ "CANCELLED" \in HostPhases
BY DEF HostPhases

LEMMA SetPhaseOK ==
    ASSUME direction \in {"push", "pull"}, NEW j, NEW g, NEW f, NEW l, NEW overdue,
           World(j, g, f, l, overdue), NEW p \in HostPhases,
           p \in {"PUBLISHED", "CLEANING", "COMPLETE"} => j.published
    PROVE  /\ World(SetPhase(j, p), g, f, l, overdue) /\ OnlyPhase(j, SetPhase(j, p))
           /\ SetPhase(j, p).phase = p /\ (j.last # None => SetPhase(j, p).last # None)
<1> PICK k : k = SetPhase(j, p)
    OBVIOUS
<1>1. JournalOK(j)
    BY DEF World
<1>2. OnlyPhase(j, k) /\ k.phase = p /\ (j.last # None => k.last # None) /\ (k.last = None => k.phase = "CREATED") /\ ({k.phase, k.last} \cap {"PUBLISHED", "CLEANING", "COMPLETE"} # {} => j.published)
    BY <1>1, SetPhaseDoes
<1>3. Restates(j, k, g, overdue)
    BY <1>2 DEF OnlyPhase, Restates
<1>4. World(k, g, f, l, overdue)
    BY <1>3, RestatesOK
<1> QED BY <1>2, <1>4

(* The end of a run with a document other than complete.                   *)
LEMMA ReportTypes ==
    ASSUME NEW j \in Journals, j.last # None, NEW code \in HostErrors \cup {None},
           NEW outcome \in {"complete", "rejected", "incomplete", "conflict", "cleanup_pending"}
    PROVE  Report(j, outcome, code) \in Reports
<1>1. /\ j.phase \in HostPhases /\ j.last \in HostPhases /\ j.stable \in BOOLEAN
      /\ j.destVerified \in BOOLEAN \cup {None} /\ j.guestClean \in BOOLEAN /\ j.hostClean \in BOOLEAN
    BY JournalFields
<1> PICK p : p = IF j.published THEN TRUE ELSE IF j.unknown THEN None ELSE FALSE
    OBVIOUS
<1>2. p \in BOOLEAN \cup {None}
    OBVIOUS
<1> PICK receipt \in BOOLEAN : receipt <=> j.publication # None
    OBVIOUS
<1>3. (j.publication # None) = receipt
    OBVIOUS
<1> QED BY <1>1, <1>2, <1>3, PhaseNames DEF Report, Reports

LEMMA EndLands ==
    ASSUME direction \in {"push", "pull"}, NEW j, NEW g, NEW l, NEW code \in HostErrors \cup {None},
           NEW outcome \in {"rejected", "incomplete", "conflict", "cleanup_pending"},
           World(j, g, files, l, bounds.overdue), host \in HostStates, j.last # None,
           Validates(Report(j, outcome, code)), outcome = "conflict" => ~Calm(files),
           End(j, outcome, code), files' = files
    PROVE  Lands(g, l)
<1> PICK r : r = Report(j, outcome, code)
    OBVIOUS
<1>1. journal' = j /\ result' = r /\ host' = [host EXCEPT !.pc = "idle"]
    BY DEF End
<1>2. host' \in HostStates /\ host'.pc = "idle"
    BY <1>1 DEF HostStates, Pcs
<1>3. r \in Reports /\ r.outcome = outcome
  <2>1. j \in Journals
      BY DEF World, JournalOK
  <2> QED BY <2>1, ReportTypes, ZenonT(60) DEF Report
<1>4. r.published = FALSE => ~j.published /\ ~j.unknown
    BY NoneIsAbsent DEF Report
<1>5. ReportOK(r, j, g, files, bounds.overdue)
    BY <1>3, <1>4 DEF ReportOK
<1>6. HostOK(host', j, g, files, bounds.overdue)
    BY <1>2 DEF HostOK, RunningOK, FinishingOK, PublishingOK, CleaningOK, EarlyPcs, PullPcs, PushPcs
<1>7. ResultOK(r, host', j, g, files, bounds.overdue)
    BY <1>2, <1>5 DEF ResultOK
<1> QED BY <1>1, <1>6, <1>7 DEF Lands, Scene

LEMMA ReportValid ==
    ASSUME direction \in {"push", "pull"}, NEW j, JournalOK(j), j.phase # "COMPLETE", NEW code,
           NEW outcome \in {"rejected", "incomplete", "conflict", "cleanup_pending"},
           outcome = "rejected" => j.phase = "FAILED" /\ ~j.begun,
           outcome = "conflict" => j.phase = "CONFLICT",
           outcome = "cleanup_pending" =>
              /\ j.phase \in {"PUBLISHED", "CLEANING"} /\ j.publication # None
              /\ ~(j.hostClean /\ j.guestClean) /\ j.destVerified # FALSE
    PROVE  Validates(Report(j, outcome, code))
<1> PICK r : r = Report(j, outcome, code)
    OBVIOUS
<1>1. /\ r.outcome = outcome /\ r.phase = j.phase /\ r.last = j.last
      /\ r.destVerified = j.destVerified /\ r.hostClean = j.hostClean /\ r.guestClean = j.guestClean
      /\ r.receipt <=> j.publication # None
    BY DEF Report
<1>2. /\ j.published => r.published = TRUE
      /\ ~j.published /\ ~j.unknown => r.published = FALSE
    BY DEF Report
<1>3. r.receipt => j.published
    BY <1>1 DEF JournalOK
<1>4. {r.phase, r.last} \cap {"PUBLISHED", "CLEANING", "COMPLETE"} # {} => j.published
    BY <1>1 DEF JournalOK
<1>5. outcome = "rejected" => r.published = FALSE /\ ~r.receipt
    BY <1>1, <1>2 DEF JournalOK
<1> QED BY <1>1, <1>2, <1>3, <1>4, <1>5 DEF Validates

(* An error ends the run.  A conflict needs a change of somebody else.     *)
Just(j, g, code) ==
    /\ code \in HostErrors
    /\ code \in ConflictCodes \/ (j.published /\ code \in DestinationCodes) => ~Calm(files)
    /\ code = "source_changed" => Unstable(j, g, bounds.overdue)

LEMMA FailLands ==
    ASSUME direction \in {"push", "pull"}, NEW j, NEW g, NEW l, NEW code,
           Running(j, g, l), Just(j, g, code), Fail(j, code), files' = files
    PROVE  Lands(g, l)
<1>j. j \in Journals /\ JournalOK(j) /\ j.destVerified \in BOOLEAN \cup {None}
    BY JournalFields DEF Running, World, JournalOK
<1>d. PICK d \in BOOLEAN \cup {None} : d = IF j.published /\ code \in DestinationCodes THEN FALSE ELSE j.destVerified
    BY <1>j
<1>s. PICK s \in BOOLEAN : s <=> (j.stable /\ code # "source_changed")
    OBVIOUS
<1>k. PICK k : k = [j EXCEPT !.destVerified = d, !.stable = s]
    OBVIOUS
<1>1. /\ k \in Journals /\ k.destVerified = d /\ k.stable = s /\ k.phase = j.phase /\ k.last = j.last
      /\ k.begun = j.begun /\ k.operations = j.operations /\ k.prepare = j.prepare
      /\ k.validation = j.validation /\ k.publication = j.publication /\ k.intent = j.intent
      /\ k.published = j.published /\ k.unknown = j.unknown /\ k.asked = j.asked
      /\ k.hostClean = j.hostClean /\ k.guestClean = j.guestClean
    BY <1>j, <1>k, ZenonT(60) DEF Journals
<1>2. Restates(j, k, g, bounds.overdue)
  <2>1. k.stable = j.stable \/ Unstable(j, g, bounds.overdue)
    <3>1. code # "source_changed" => s = j.stable
        BY <1>s, <1>j, JournalFields
    <3> QED BY <1>1, <3>1 DEF Just
  <2> QED BY <1>1, <1>j, <2>1 DEF Restates, JournalOK
<1>3. World(k, g, files, l, bounds.overdue) /\ JournalOK(k)
  <2>1. World(k, g, files, l, bounds.overdue)
      BY <1>2, RestatesOK DEF Running
  <2> QED BY <2>1 DEF World
<1>4. host \in HostStates /\ code \in HostErrors \cup {None} /\ k.last # None /\ k.phase # "COMPLETE"
    BY <1>1 DEF Running, Just
<1>5. k.destVerified = FALSE => j.published /\ code \in DestinationCodes
    BY <1>1, <1>d DEF Running
<1>6. k = [j EXCEPT !.destVerified = IF j.published /\ code \in DestinationCodes THEN FALSE ELSE j.destVerified,
                    !.stable = j.stable /\ code # "source_changed"]
    BY <1>k, <1>d, <1>s, <1>j, JournalFields
<1>7. IF code \in ConflictCodes \/ k.destVerified = FALSE
      THEN End(SetPhase(k, "CONFLICT"), "conflict", code)
      ELSE IF k.publication # None THEN
           IF k.hostClean /\ k.guestClean THEN End(SetPhase(k, "FAILED"), "incomplete", code)
           ELSE End(SetPhase(k, "CLEANING"), "cleanup_pending", code)
      ELSE IF ~k.begun THEN End(SetPhase(k, "FAILED"), "rejected", code)
      ELSE End(k, "incomplete", code)
    BY <1>6 DEF Fail
<1>8. ASSUME NEW p \in {"CONFLICT", "FAILED", "CLEANING"}, p = "CLEANING" => k.published,
             NEW outcome \in {"rejected", "incomplete", "conflict", "cleanup_pending"},
             End(SetPhase(k, p), outcome, code),
             outcome = "rejected" => p = "FAILED" /\ ~k.begun,
             outcome = "conflict" => p = "CONFLICT" /\ ~Calm(files),
             outcome = "cleanup_pending" =>
                p = "CLEANING" /\ k.publication # None /\ ~(k.hostClean /\ k.guestClean) /\ k.destVerified # FALSE
      PROVE  Lands(g, l)
  <2> PICK m : m = SetPhase(k, p)
      OBVIOUS
  <2>1. p \in HostPhases /\ (p \in {"PUBLISHED", "CLEANING", "COMPLETE"} => k.published)
      BY <1>8, PhaseNames
  <2>2. World(m, g, files, l, bounds.overdue) /\ OnlyPhase(k, m) /\ m.phase = p /\ m.last # None
      BY <1>3, <1>4, <2>1, SetPhaseOK
  <2>3. Validates(Report(m, outcome, code))
    <3>1. JournalOK(m) /\ m.phase # "COMPLETE"
        BY <2>2 DEF World
    <3>2. outcome = "rejected" => m.phase = "FAILED" /\ ~m.begun
        BY <1>8, <2>2 DEF OnlyPhase
    <3>3. outcome = "conflict" => m.phase = "CONFLICT"
        BY <1>8, <2>2
    <3>4. outcome = "cleanup_pending" =>
              /\ m.phase \in {"PUBLISHED", "CLEANING"} /\ m.publication # None
              /\ ~(m.hostClean /\ m.guestClean) /\ m.destVerified # FALSE
        BY <1>8, <2>2 DEF OnlyPhase
    <3> QED BY <3>1, <3>2, <3>3, <3>4, ReportValid
  <2> QED BY <1>4, <1>8, <2>2, <2>3, EndLands
<1>9. CASE code \in ConflictCodes \/ k.destVerified = FALSE
  <2>1. ~Calm(files)
      BY <1>5, <1>9 DEF Just
  <2> QED BY <1>7, <1>8, <1>9, <2>1
<1>10. CASE ~(code \in ConflictCodes \/ k.destVerified = FALSE) /\ k.publication # None
  <2>1. k.published
      BY <1>3, <1>10 DEF JournalOK
  <2> QED BY <1>7, <1>8, <1>10, <2>1
<1>11. CASE ~(code \in ConflictCodes \/ k.destVerified = FALSE) /\ k.publication = None /\ ~k.begun
    BY <1>7, <1>8, <1>11
<1>12. CASE ~(code \in ConflictCodes \/ k.destVerified = FALSE) /\ k.publication = None /\ k.begun
  <2>1. End(k, "incomplete", code)
      BY <1>7, <1>12
  <2>2. Validates(Report(k, "incomplete", code))
      BY <1>3, <1>4, ReportValid
  <2> QED BY <1>3, <1>4, <2>1, <2>2, EndLands
<1> QED BY <1>9, <1>10, <1>11, <1>12

LEMMA RaiseLands ==
    ASSUME direction \in {"push", "pull"}, NEW j, NEW g, NEW l, NEW code,
           Running(j, g, l), Just(j, g, code), Raise(j, code)
    PROVE  Lands(g, l)
BY FailLands DEF Raise

(* An error that blames nobody.                                            *)
Plain == {"outcome_unknown", "cleanup_failed", "connection_failed", "task_not_found",
          "deadline_exceeded", "host_package_reconcile_required", "stage_reconcile_required",
          "chunk_outcome_unresolved", "guest_terminal_missing", "action_retry_exhausted",
          "guest_cleanup_unproven", "source_validation_missing", "publication_outcome_unknown",
          "source_unavailable", "missing_tree_member", "worker_failed", "worker_result_unknown",
          "transfer_cancelled"}

LEMMA PlainIsJust == ASSUME NEW j, NEW g, NEW code \in Plain PROVE Just(j, g, code)
<1>1. code \in HostErrors
    BY CodesAssumption DEF Plain, HostErrors, GuestErrors
<1>2. code \notin ConflictCodes /\ code \notin DestinationCodes /\ code # "source_changed"
    BY DEF Plain, ConflictCodes, DestinationCodes
<1> QED BY <1>1, <1>2 DEF Just

LEMMA PlainLands ==
    ASSUME direction \in {"push", "pull"}, NEW j, NEW g, NEW l, NEW code \in Plain,
           Running(j, g, l), Raise(j, code)
    PROVE  Lands(g, l)
BY PlainIsJust, RaiseLands

(* The process moves on with the journal j.                                *)
LEMMA MoveLands ==
    ASSUME NEW j, NEW g, NEW l, NEW f, NEW h, World(j, g, f, l, bounds.overdue),
           HostOK(h, j, g, f, bounds.overdue), result = None,
           journal' = j, host' = h, files' = f, result' = result
    PROVE  Lands(g, l)
BY DEF Lands, Scene, ResultOK

LEMMA GoDoes ==
    ASSUME host \in HostStates, NEW j, NEW pc \in Pcs, Go(j, pc)
    PROVE  /\ host' \in HostStates /\ host'.pc = pc /\ host'.action = host.action
           /\ journal' = j /\ files' = files /\ result' = result
BY DEF Go, HostStates

LEMMA GoLands ==
    ASSUME NEW j, NEW g, NEW l, NEW pc, Running(j, g, l), Go(j, pc),
           HostOK(host', j, g, files, bounds.overdue)
    PROVE  Lands(g, l)
BY MoveLands DEF Running, Go

(* Locations that only ask for a begun transfer of the right direction.    *)
LEMMA GoEasilyLands ==
    ASSUME NEW j, NEW g, NEW l, NEW pc \in {"connect", "begin", "begin_call", "ready", "receipt",
                                            "abort_status", "abort_call", "abort_done"},
           Running(j, g, l), Go(j, pc), pc \notin EarlyPcs => j.begun,
           pc = "receipt" => direction = "pull" /\ j.published
    PROVE  Lands(g, l)
<1>1. pc \in Pcs
    BY DEF Pcs
<1>2. host' \in HostStates /\ host'.pc = pc
    BY <1>1, GoDoes DEF Running
<1>3. RunningOK(host', j)
    BY <1>2 DEF Running, RunningOK, PullPcs, PushPcs
<1>4. FinishingOK(host', j, g, bounds.overdue) /\ PublishingOK(host', j, files) /\ CleaningOK(host', j, g, files)
    BY <1>2 DEF FinishingOK, PublishingOK, CleaningOK
<1>5. HostOK(host', j, g, files, bounds.overdue)
    BY <1>2, <1>3, <1>4 DEF HostOK
<1> QED BY <1>5, GoLands

(* Locations of a push before its commit.                                  *)
LEMMA GoPushingLands ==
    ASSUME NEW j, NEW g, NEW l, NEW pc \in {"verify_wait", "verify_call", "verify_ready", "validate"},
           Running(j, g, l), Go(j, pc), j.begun, direction = "push",
           ~bounds.overdue => Uncommitted(g), pc = "validate" => j.prepare # None
    PROVE  Lands(g, l)
<1>1. pc \in Pcs
    BY DEF Pcs
<1>2. host' \in HostStates /\ host'.pc = pc
    BY <1>1, GoDoes DEF Running
<1>3. RunningOK(host', j)
    BY <1>2 DEF Running, RunningOK, PullPcs
<1>4. FinishingOK(host', j, g, bounds.overdue) /\ PublishingOK(host', j, files) /\ CleaningOK(host', j, g, files)
    BY <1>2 DEF FinishingOK, PublishingOK, CleaningOK
<1>5. HostOK(host', j, g, files, bounds.overdue)
    BY <1>2, <1>3, <1>4 DEF HostOK
<1> QED BY <1>5, GoLands

(* Locations of a pull on its way to the destination.                      *)
LEMMA GoPublishingLands ==
    ASSUME NEW j, NEW g, NEW l, NEW pc \in {"chunks", "stage", "register_stage", "publish", "rename"},
           Running(j, g, l), Go(j, pc), j.begun, direction = "pull",
           pc \in {"chunks", "stage", "register_stage"} => j.intent = None,
           pc = "publish" => j.prepare # None /\ (j.intent # None \/ j.stable),
           pc = "rename" => j.intent # None
    PROVE  Lands(g, l)
<1>1. pc \in Pcs
    BY DEF Pcs
<1>2. host' \in HostStates /\ host'.pc = pc
    BY <1>1, GoDoes DEF Running
<1>3. RunningOK(host', j)
    BY <1>2 DEF Running, RunningOK, PushPcs
<1>4. FinishingOK(host', j, g, bounds.overdue) /\ PublishingOK(host', j, files) /\ CleaningOK(host', j, g, files)
    BY <1>2 DEF FinishingOK, PublishingOK, CleaningOK
<1>5. HostOK(host', j, g, files, bounds.overdue)
    BY <1>2, <1>3, <1>4 DEF HostOK
<1> QED BY <1>5, GoLands

(* What the loop of _finish rests on.                                      *)
Finishing(action, j, g) ==
    /\ j.begun /\ j.asked[action] # None
    /\ action = "prepare" /\ direction = "push" /\ ~bounds.overdue => Uncommitted(g)
    /\ action = "commit" => direction = "push" /\ (j.stable \/ bounds.overdue)
    /\ action = "release" => j.phase = "CLEANING"

LEMMA FinishingLands ==
    ASSUME NEW j, NEW g, NEW l, NEW pc \in {"poll", "request"}, Running(j, g, l), journal' = j,
           host' \in HostStates, host'.pc = pc, files' = files, result' = result,
           Finishing(host'.action, j, g), pc = "request" => j.attempts[host'.action] < RetryCap
    PROVE  Lands(g, l)
<1>3. RunningOK(host', j)
    BY DEF Finishing, Running, RunningOK, PullPcs, PushPcs
<1>4. FinishingOK(host', j, g, bounds.overdue) /\ PublishingOK(host', j, files) /\ CleaningOK(host', j, g, files)
    BY DEF Finishing, FinishingOK, PublishingOK, CleaningOK
<1>5. HostOK(host', j, g, files, bounds.overdue)
    BY <1>3, <1>4 DEF HostOK
<1> QED BY <1>5, MoveLands DEF Running

LEMMA GoFinishingLands ==
    ASSUME NEW j, NEW g, NEW l, NEW pc \in {"poll", "request"}, Running(j, g, l), Go(j, pc),
           Finishing(host.action, j, g), pc = "request" => j.attempts[host.action] < RetryCap
    PROVE  Lands(g, l)
<1>1. pc \in Pcs
    BY DEF Pcs
<1>2. host' \in HostStates /\ host'.pc = pc /\ host'.action = host.action
      /\ journal' = j /\ files' = files /\ result' = result
    BY <1>1, GoDoes DEF Running
<1> QED BY <1>2, FinishingLands

-----------------------------------------------------------------------------
(* The inputs of an action are saved, once.                                *)
LEMMA InputsFixed ==
    ASSUME NEW j, JournalOK(j), NEW action \in Actions
    PROVE  j.asked[action] \in {None, FinishInputs(j, action)}
BY DEF JournalOK, FinishInputs, Actions

LEMMA FinishInputsTypes ==
    ASSUME NEW j \in Journals, NEW action \in Actions
    PROVE  FinishInputs(j, action) \in Inputs
<1>1. /\ j.prepare \in PrepareReceipts \cup {None} /\ j.validation \in ValidationReceipts \cup {None}
      /\ j.publication \in PublicationReceipts \cup {None}
    BY JournalFields
<1> QED BY <1>1 DEF FinishInputs, Inputs, NoInputs

Asking(j, action) == [j EXCEPT !.asked[action] = FinishInputs(j, action)]

LEMMA AskedOK ==
    ASSUME direction \in {"push", "pull"}, NEW j, NEW g, NEW f, NEW l, NEW overdue,
           World(j, g, f, l, overdue), NEW action \in Actions, NEW k, k = Asking(j, action),
           action = "commit" => j.prepare # None /\ j.validation # None,
           action = "release" => j.prepare # None /\ j.publication # None
    PROVE  /\ World(k, g, f, l, overdue) /\ k.asked[action] # None
           /\ k.phase = j.phase /\ k.begun = j.begun /\ k.stable = j.stable
           /\ k.destVerified = j.destVerified /\ k.last = j.last
<1> PICK in : in = FinishInputs(j, action)
    OBVIOUS
<1>1. j \in Journals /\ JournalOK(j) /\ in \in Inputs /\ in # None
    BY FinishInputsTypes, NoneIsAbsent DEF World, JournalOK
<1>2. /\ k.phase = j.phase /\ k.last = j.last /\ k.begun = j.begun /\ k.operations = j.operations
      /\ k.prepare = j.prepare /\ k.validation = j.validation /\ k.publication = j.publication
      /\ k.intent = j.intent /\ k.published = j.published /\ k.unknown = j.unknown
      /\ k.stable = j.stable /\ k.destVerified = j.destVerified
      /\ k.asked = [j.asked EXCEPT ![action] = in]
    BY <1>1 DEF Journals, Asking
<1>3. k \in Journals
    BY <1>1 DEF Journals, Asking
<1>4. k.asked[action] = in /\ \A a \in Actions : a # action => k.asked[a] = j.asked[a]
    BY <1>1, <1>2, JournalFields
<1>5. \A a \in Actions : FinishInputs(k, a) = FinishInputs(j, a)
    BY <1>2 DEF FinishInputs
<1>6. \A a \in Actions : j.asked[a] # None => k.asked[a] = j.asked[a] /\ k.asked[a] # None
    BY <1>1, <1>4, InputsFixed
<1>7. JournalOK(k)
  <2>1. k.asked["prepare"] \in {None, NoInputs}
      BY <1>1, <1>4, ActionNames DEF JournalOK, FinishInputs
  <2>2. k.asked["commit"] # None =>
          /\ k.prepare # None /\ k.validation # None /\ k.asked["commit"] = FinishInputs(k, "commit")
      BY <1>1, <1>2, <1>4, <1>5, ActionNames DEF JournalOK
  <2>3. k.asked["release"] # None =>
          /\ k.prepare # None /\ k.publication # None /\ k.asked["release"] = FinishInputs(k, "release")
      BY <1>1, <1>2, <1>4, <1>5, ActionNames DEF JournalOK
  <2> QED BY <1>1, <1>2, <1>3, <2>1, <2>2, <2>3 DEF JournalOK
<1>8. Agree(k, g, overdue)
    BY <1>2, <1>6 DEF World, Agree
<1>9. LateOK(k, l) /\ FilesOK(k, f)
    BY <1>2, <1>6 DEF World, LateOK, FilesOK
<1> QED BY <1>1, <1>2, <1>4, <1>7, <1>8, <1>9 DEF World

LEMMA EnterFinishLands ==
    ASSUME direction \in {"push", "pull"}, NEW j, NEW g, NEW l, NEW action \in Actions,
           Running(j, g, l), j.begun, EnterFinish(j, action),
           action = "prepare" /\ direction = "push" /\ ~bounds.overdue => Uncommitted(g),
           action = "commit" => /\ direction = "push" /\ (j.stable \/ bounds.overdue)
                                /\ j.prepare # None /\ j.validation # None,
           action = "release" => j.phase = "CLEANING" /\ j.prepare # None /\ j.publication # None
    PROVE  Lands(g, l)
<1> PICK k : k = Asking(j, action)
    OBVIOUS
<1>1. j.asked[action] \in {None, FinishInputs(j, action)}
    BY InputsFixed DEF Running, World
<1>2. journal' = k /\ host' = [host EXCEPT !.pc = "poll", !.action = action] /\ files' = files /\ result' = result
    BY <1>1 DEF EnterFinish, Asking
<1>3. World(j, g, files, l, bounds.overdue)
    BY DEF Running
<1>9. /\ action = "commit" => j.prepare # None /\ j.validation # None
      /\ action = "release" => j.prepare # None /\ j.publication # None
    OBVIOUS
<1>4. /\ World(k, g, files, l, bounds.overdue) /\ k.asked[action] # None
      /\ k.phase = j.phase /\ k.begun = j.begun /\ k.stable = j.stable
      /\ k.destVerified = j.destVerified /\ k.last = j.last
  <2>1. World(k, g, files, l, bounds.overdue)
      BY <1>3, <1>9, AskedOK
  <2>2. k.asked[action] # None
      BY <1>3, <1>9, AskedOK
  <2>3. k.phase = j.phase /\ k.begun = j.begun
      BY <1>3, <1>9, AskedOK
  <2>4. k.stable = j.stable /\ k.destVerified = j.destVerified
      BY <1>3, <1>9, AskedOK
  <2>5. k.last = j.last
      BY <1>3, <1>9, AskedOK
  <2> QED BY <2>1, <2>2, <2>3, <2>4, <2>5
<1>5. host' \in HostStates /\ host'.pc = "poll" /\ host'.action = action
    BY <1>2 DEF Running, HostStates, Pcs
<1>6. Running(k, g, l)
    BY <1>4 DEF Running
<1>7. Finishing(action, k, g)
    BY <1>4 DEF Finishing
<1> QED BY <1>2, <1>5, <1>6, <1>7, FinishingLands

-----------------------------------------------------------------------------
(* Where the host goes from a status it has ingested.                      *)
LEMMA PhasedRuns ==
    ASSUME direction \in {"push", "pull"}, NEW j, NEW g, NEW l, Running(j, g, l),
           NEW p \in HostPhases, p # "COMPLETE", p \in {"PUBLISHED", "CLEANING"} => j.published
    PROVE  /\ Running(SetPhase(j, p), g, l) /\ OnlyPhase(j, SetPhase(j, p))
           /\ SetPhase(j, p).phase = p /\ (Current(j, g) => Current(SetPhase(j, p), g))
<1> PICK k : k = SetPhase(j, p)
    OBVIOUS
<1>1. World(j, g, files, l, bounds.overdue)
    BY DEF Running
<1>2. p \in {"PUBLISHED", "CLEANING", "COMPLETE"} => j.published
    OBVIOUS
<1>3. World(k, g, files, l, bounds.overdue) /\ OnlyPhase(j, k) /\ k.phase = p /\ (j.last # None => k.last # None)
    BY <1>1, <1>2, SetPhaseOK
<1>4. Running(k, g, l)
    BY <1>3 DEF Running, OnlyPhase
<1>5. Current(j, g) => Current(k, g)
    BY <1>3 DEF Current, OnlyPhase
<1> QED BY <1>3, <1>4, <1>5

LEMMA EnterReleaseLands ==
    ASSUME direction \in {"push", "pull"}, NEW j, NEW g, NEW l, Running(j, g, l), j.begun,
           j.published, j.prepare # None, j.publication # None, EnterRelease(j)
    PROVE  Lands(g, l)
<1> PICK i : i = SetPhase(j, "PUBLISHED")
    OBVIOUS
<1> PICK k : k = SetPhase(i, "CLEANING")
    OBVIOUS
<1>1. Running(i, g, l) /\ OnlyPhase(j, i)
    BY PhasedRuns, PhaseNames
<1>2. i.published
    BY <1>1 DEF OnlyPhase
<1>3. Running(k, g, l) /\ OnlyPhase(i, k) /\ k.phase = "CLEANING"
    BY <1>1, <1>2, PhasedRuns, PhaseNames
<1>4. k.begun /\ k.prepare # None /\ k.publication # None
    BY <1>1, <1>3 DEF OnlyPhase
<1>5. EnterFinish(k, "release")
    BY DEF EnterRelease
<1> QED BY <1>3, <1>4, <1>5, EnterFinishLands, ActionNames

LEMMA SendLands ==
    ASSUME direction = "push", NEW j, NEW g, NEW l, Running(j, g, l), j.begun,
           ~bounds.overdue => Uncommitted(g), NEW sent \in BOOLEAN,
           journal' = j, host' = [host EXCEPT !.pc = "send", !.sent = sent], files' = files, result' = result
    PROVE  Lands(g, l)
<1>2. host' \in HostStates /\ host'.pc = "send"
    BY DEF Running, HostStates, Pcs
<1>3. RunningOK(host', j)
    BY <1>2 DEF Running, RunningOK, PullPcs
<1>4. FinishingOK(host', j, g, bounds.overdue) /\ PublishingOK(host', j, files) /\ CleaningOK(host', j, g, files)
    BY <1>2 DEF FinishingOK, PublishingOK, CleaningOK
<1>5. HostOK(host', j, g, files, bounds.overdue)
    BY <1>2, <1>3, <1>4 DEF HostOK
<1> QED BY <1>5, MoveLands DEF Running

LEMMA VerifyingLands ==
    ASSUME direction = "push", NEW j, NEW g, NEW l, Running(j, g, l), j.begun,
           ~bounds.overdue => Uncommitted(g), EnterFinish(SetPhase(j, "VERIFYING"), "prepare")
    PROVE  Lands(g, l)
<1> PICK k : k = SetPhase(j, "VERIFYING")
    OBVIOUS
<1>1. Running(k, g, l) /\ OnlyPhase(j, k)
    BY PhasedRuns, PhaseNames
<1>2. k.begun /\ EnterFinish(k, "prepare")
    BY <1>1 DEF OnlyPhase
<1> QED BY <1>1, <1>2, EnterFinishLands, ActionNames

LEMMA PushLands ==
    ASSUME direction = "push", NEW j, NEW g, NEW l, Following(j, g, l), Push(j, g)
    PROVE  Lands(g, l)
<1> PICK t : t = g.terminal
    OBVIOUS
<1>1. /\ Running(j, g, l) /\ j.begun /\ Current(j, g) /\ JournalOK(j) /\ Agree(j, g, bounds.overdue)
      /\ GuestOK(g, files.source) /\ (t # None => LedgerOK(t))
    BY DEF Following, Running, World, GuestOK
<1>2. CASE j.publication # None
  <2>1. j.published /\ j.prepare # None /\ EnterRelease(j)
      BY <1>1, <1>2 DEF JournalOK, Push
  <2> QED BY <1>1, <1>2, <2>1, EnterReleaseLands
<1>3. CASE j.publication = None /\ ~Uncommitted(g)
  <2>1. t # None /\ Stat(t, "commit") # "NONE"
      BY <1>3 DEF Uncommitted
  <2>2. CASE j.validation = None
    <3>1. Raise(j, "source_validation_missing")
        BY <1>3, <2>1, <2>2 DEF Push, Op, Stat
    <3> QED BY <1>1, <3>1, PlainLands DEF Plain
  <2>3. CASE j.validation # None
    <3>1. EnterFinish(j, "commit")
        BY <1>3, <2>1, <2>3 DEF Push, Op, Stat
    <3>2. j.prepare # None
        BY <1>1, <2>3 DEF JournalOK
    <3>3. j.stable \/ bounds.overdue
        BY <1>1, <1>3 DEF Agree
    <3> QED BY <1>1, <2>3, <3>1, <3>2, <3>3, EnterFinishLands, ActionNames
  <2> QED BY <2>2, <2>3
<1>4. CASE j.publication = None /\ Uncommitted(g) /\ files.source = "changed"
  <2>1. Raise(j, "source_changed")
      BY <1>4 DEF Push, Uncommitted, Op, Stat
  <2>2. Just(j, g, "source_changed")
    <3>1. "source_changed" \in HostErrors
        BY DEF HostErrors
    <3> QED BY <1>4, <3>1 DEF Just, Calm, Unstable
  <2> QED BY <1>1, <2>1, <2>2, RaiseLands
<1>5. CASE j.publication = None /\ Uncommitted(g) /\ files.source # "changed" /\ (t = None \/ InPhase(g, "READY"))
  <2> PICK k : k = SetPhase(j, "TRANSFERRING")
      OBVIOUS
  <2> PICK sent \in BOOLEAN : sent = (t # None)
      OBVIOUS
  <2>1. journal' = k /\ host' = [host EXCEPT !.pc = "send", !.sent = sent] /\ files' = files /\ result' = result
      BY <1>5 DEF Push, Uncommitted, Op, Stat
  <2>2. Running(k, g, l) /\ OnlyPhase(j, k)
      BY <1>1, PhasedRuns, PhaseNames
  <2>3. k.begun
      BY <1>1, <2>2 DEF OnlyPhase
  <2> QED BY <1>5, <2>1, <2>2, <2>3, SendLands, Zenon
<1>6. CASE j.publication = None /\ Uncommitted(g) /\ files.source # "changed" /\ ~(t = None \/ InPhase(g, "READY"))
  <2>1. EnterFinish(SetPhase(j, "VERIFYING"), "prepare")
      BY <1>6 DEF Push, Uncommitted, Op, Stat
  <2> QED BY <1>1, <1>6, <2>1, VerifyingLands
<1> QED BY <1>2, <1>3, <1>4, <1>5, <1>6

LEMMA PullLands ==
    ASSUME direction = "pull", NEW j, NEW g, NEW l, Following(j, g, l), Pull(j, g),
           g.error = None, g.terminal # None
    PROVE  Lands(g, l)
<1> PICK t : t = g.terminal
    OBVIOUS
<1>1. /\ Running(j, g, l) /\ j.begun /\ Current(j, g) /\ JournalOK(j) /\ Agree(j, g, bounds.overdue)
      /\ GuestOK(g, files.source) /\ LedgerOK(t) /\ t \in Snapshots /\ t # None
    BY GuestFields DEF Following, Running, World, GuestOK
<1>2. CASE j.intent # None \/ j.published
  <2>1. Go(j, "publish")
      BY <1>2 DEF Pull
  <2>2. j.prepare # None /\ j.intent # None
      BY <1>1, <1>2 DEF JournalOK
  <2> QED BY <1>1, <2>1, <2>2, GoPublishingLands
<1>3. CASE ~(j.intent # None \/ j.published) /\ (InPhase(g, "READY") \/ InPhase(g, "PREPARED"))
  <2> PICK k : k = SetPhase(j, "TRANSFERRING")
      OBVIOUS
  <2>1. Running(k, g, l) /\ OnlyPhase(j, k)
      BY <1>1, PhasedRuns, PhaseNames
  <2>2. k.begun /\ k.intent = None /\ Go(k, "chunks")
      BY <1>1, <1>3, <2>1 DEF OnlyPhase, Pull
  <2> QED BY <2>1, <2>2, GoPublishingLands
<1>4. CASE ~(j.intent # None \/ j.published) /\ ~(InPhase(g, "READY") \/ InPhase(g, "PREPARED"))
  <2>1. t.phase \notin {"READY", "PREPARED"} /\ t.phase \in Phases
      BY <1>1, <1>4, SnapshotFields DEF InPhase
  <2>2. t.phase \notin {"FAILED", "CHANGED"}
      BY <1>1 DEF GuestOK, ErrorsOK
  <2>3. t.phase # "PUBLISHED"
      BY <1>1 DEF LedgerOK, PhaseOK
  <2>4. t.authorized # None
      BY <1>1, <2>1, <2>2, <2>3 DEF LedgerOK, PhaseOK, Phases
  <2>5. Stat(t, "release") # "NONE"
      BY <1>1, <2>4 DEF LedgerOK, ReceiptsOK
  <2>6. j.asked["release"] # None
      BY <1>1, <2>5, ActionNames DEF Agree
  <2>7. j.published
      BY <1>1, <2>6 DEF JournalOK
  <2> QED BY <1>4, <2>7
<1> QED BY <1>2, <1>3, <1>4

LEMMA ProceedLands ==
    ASSUME direction \in {"push", "pull"}, NEW j, NEW g, NEW l, Following(j, g, l), Proceed(j, g),
           direction = "pull" => g.error = None /\ g.terminal # None
    PROVE  Lands(g, l)
<1> PICK k : k = SetPhase(j, "READY")
    OBVIOUS
<1>1. Running(k, g, l) /\ OnlyPhase(j, k) /\ Current(k, g)
    BY PhasedRuns, PhaseNames DEF Following
<1>2. Following(k, g, l)
    BY <1>1 DEF Following, OnlyPhase
<1>3. IF direction = "push" THEN Push(k, g) ELSE Pull(k, g)
    BY DEF Proceed
<1> QED BY <1>2, <1>3, PushLands, PullLands

(* An error that the guest reports.                                        *)
LEMMA GuestErrorIsJust ==
    ASSUME NEW j, NEW g, NEW l, Running(j, g, l), NEW e, e # None, Causes(e, g.terminal, files.source)
    PROVE  Just(j, g, e)
<1>1. e \in {"worker_failed", "source_changed", "worker_result_unknown", "transfer_cancelled"}
    BY DEF Causes
<1>2. CASE e # "source_changed"
    BY <1>1, <1>2, PlainIsJust DEF Plain
<1>3. CASE e = "source_changed"
  <2>1. files.source = "changed" /\ InPhase(g, "CHANGED")
      BY <1>3 DEF Causes, InPhase
  <2>2. direction = "pull"
      BY <2>1 DEF Running, World, GuestOK, LedgerOK, PhaseOK, InPhase
  <2>3. e \in HostErrors
      BY <1>3 DEF HostErrors
  <2> QED BY <1>3, <2>1, <2>2, <2>3 DEF Just, Calm, Unstable
<1> QED BY <1>2, <1>3

LEMMA GuestErrorLands ==
    ASSUME direction \in {"push", "pull"}, NEW j, NEW g, NEW l, Running(j, g, l), g.error # None, Raise(j, g.error)
    PROVE  Lands(g, l)
<1>1. Causes(g.error, g.terminal, files.source)
    BY DEF Running, World, GuestOK, ErrorsOK
<1> QED BY <1>1, GuestErrorIsJust, RaiseLands

LEMMA ReadyLands ==
    ASSUME direction \in {"push", "pull"}, NEW j, NEW g, NEW l, Following(j, g, l), Ready(j, g)
    PROVE  Lands(g, l)
<1>1. Running(j, g, l) /\ j.begun
    BY DEF Following
<1>2. CASE g.error # None
    BY <1>1, <1>2, GuestErrorLands DEF Ready
<1>3. CASE g.error = None /\ (~g.stopped \/ (direction = "pull" /\ g.terminal = None))
  <2>1. Go(j, "ready")
      BY <1>3 DEF Ready
  <2> QED BY <1>1, <2>1, GoEasilyLands
<1>4. CASE g.error = None /\ ~(~g.stopped \/ (direction = "pull" /\ g.terminal = None))
  <2>1. Proceed(j, g)
      BY <1>4 DEF Ready
  <2> QED BY <1>4, <2>1, ProceedLands
<1> QED BY <1>2, <1>3, <1>4

LEMMA VerifyWaitLands ==
    ASSUME direction = "push", NEW j, NEW g, NEW l, Following(j, g, l),
           ~bounds.overdue => Uncommitted(g), VerifyWait(j, g)
    PROVE  Lands(g, l)
<1>1. Running(j, g, l) /\ j.begun
    BY DEF Following
<1>2. CASE ~g.stopped
  <2>1. Go(j, "verify_wait")
      BY <1>2 DEF VerifyWait
  <2> QED BY <1>1, <2>1, GoPushingLands
<1>3. CASE g.stopped /\ g.error \notin RecoverableErrors
  <2>1. Raise(j, "chunk_outcome_unresolved")
      BY <1>3 DEF VerifyWait
  <2> QED BY <1>1, <2>1, PlainLands DEF Plain
<1>4. CASE g.stopped /\ g.error \in RecoverableErrors
  <2>1. Go(j, "verify_call")
      BY <1>4 DEF VerifyWait
  <2> QED BY <1>1, <2>1, GoPushingLands
<1> QED BY <1>2, <1>3, <1>4

LEMMA VerifyReadyLands ==
    ASSUME direction = "push", NEW j, NEW g, NEW l, Following(j, g, l),
           ~bounds.overdue => Uncommitted(g), VerifyReady(j, g)
    PROVE  Lands(g, l)
<1>1. Running(j, g, l) /\ j.begun
    BY DEF Following
<1>2. CASE Raise(j, "chunk_outcome_unresolved")
    BY <1>1, <1>2, PlainLands DEF Plain
<1>3. CASE Go(j, "verify_ready")
    BY <1>1, <1>3, GoPushingLands
<1>4. CASE Proceed(j, g)
    BY <1>4, ProceedLands
<1>5. CASE EnterFinish(SetPhase(j, "VERIFYING"), "prepare")
    BY <1>1, <1>5, VerifyingLands
<1>6. CASE /\ journal' = j
           /\ host' = [host EXCEPT !.pc = "send", !.sent = g.terminal # None]
           /\ UNCHANGED <<files, result>>
  <2> PICK sent \in BOOLEAN : sent = (g.terminal # None)
      OBVIOUS
  <2>1. journal' = j /\ host' = [host EXCEPT !.pc = "send", !.sent = sent] /\ files' = files /\ result' = result
      BY <1>6
  <2> QED BY <1>1, <2>1, SendLands, Zenon
<1> QED BY <1>2, <1>3, <1>4, <1>5, <1>6 DEF VerifyReady

LEMMA ResumedLands ==
    ASSUME direction \in {"push", "pull"}, NEW j, NEW g, NEW l, Following(j, g, l), Resumed(j, g)
    PROVE  Lands(g, l)
<1>1. Running(j, g, l) /\ j.begun
    BY DEF Following
<1> PICK resumable \in BOOLEAN : resumable <=> (g.terminal = None \/ (direction = "push" /\ InPhase(g, "READY")))
    OBVIOUS
<1>2. CASE g.error # None /\ Raise(j, g.error)
    BY <1>1, <1>2, GuestErrorLands
<1>3. CASE Ready(j, g)
    BY <1>3, ReadyLands
<1>4. CASE resumable /\ direction = "push" /\ VerifyWait(j, g)
  <2>1. GuestOK(g, files.source)
      BY <1>1 DEF Running, World
  <2>2. g.terminal # None => Stat(g.terminal, "commit") = "NONE"
      BY <1>4, <2>1 DEF InPhase, GuestOK, LedgerOK, PhaseOK
  <2> QED BY <1>4, <2>2, VerifyWaitLands DEF Uncommitted
<1>5. CASE Go(j, "begin_call")
    BY <1>1, <1>5, GoEasilyLands
<1> QED BY <1>2, <1>3, <1>4, <1>5 DEF Resumed

LEMMA DestinationErrorIsJust ==
    ASSUME NEW j, NEW g, FilesOK(j, files), DestinationError # None
    PROVE  Just(j, g, DestinationError)
<1> PICK e : e = DestinationError
    OBVIOUS
<1>1. e \in {"tree_content_mismatch", "missing_tree_member", "publication_recovery_conflict", "source_unavailable"}
    BY DEF DestinationError
<1>2. e \in HostErrors /\ e # "source_changed"
    BY <1>1 DEF HostErrors
<1>3. e \in ConflictCodes \cup DestinationCodes => e \in {"tree_content_mismatch", "publication_recovery_conflict"}
    BY <1>1 DEF ConflictCodes, DestinationCodes
<1>4. e \in {"tree_content_mismatch", "publication_recovery_conflict"} => files.dest \in {"altered", "foreign"}
    BY DEF DestinationError
<1> QED BY <1>2, <1>3, <1>4 DEF Just, Calm

LEMMA DestinationErrorLands ==
    ASSUME direction \in {"push", "pull"}, NEW j, NEW g, NEW l, Running(j, g, l), DestinationError # None,
           Raise(j, DestinationError)
    PROVE  Lands(g, l)
<1>1. FilesOK(j, files)
    BY DEF Running, World
<1> QED BY <1>1, DestinationErrorIsJust, RaiseLands

LEMMA ReleasedLands ==
    ASSUME direction \in {"push", "pull"}, NEW j, NEW g, NEW l, Following(j, g, l), Released(j, g),
           j.phase = "CLEANING"
    PROVE  Lands(g, l)
<1>1. Running(j, g, l) /\ j.begun /\ World(j, g, files, l, bounds.overdue) /\ j \in Journals
    BY DEF Following, Running, World, JournalOK
<1>2. CASE ~ReleaseProved(j, g)
  <2>1. Raise(j, "guest_cleanup_unproven")
      BY <1>2 DEF Released
  <2> QED BY <1>1, <2>1, PlainLands DEF Plain
<1>3. CASE ReleaseProved(j, g) /\ direction = "pull" /\ DestinationError # None
  <2>1. Raise(j, DestinationError)
      BY <1>3 DEF Released
  <2> QED BY <1>1, <1>3, <2>1, DestinationErrorLands
<1>4. CASE ReleaseProved(j, g) /\ ~(direction = "pull" /\ DestinationError # None)
  <2> PICK k : k = [j EXCEPT !.destVerified = TRUE, !.guestClean = TRUE, !.hostClean = FALSE]
      OBVIOUS
  <2>1. Go(k, "clean")
      BY <1>4 DEF Released
  <2>2. /\ k \in Journals /\ k.begun = j.begun /\ k.operations = j.operations /\ k.prepare = j.prepare
        /\ k.validation = j.validation /\ k.publication = j.publication /\ k.intent = j.intent
        /\ k.published = j.published /\ k.unknown = j.unknown /\ k.asked = j.asked
        /\ k.phase = j.phase /\ k.last = j.last /\ k.stable = j.stable
      BY <1>1 DEF Journals
  <2>3. k.destVerified = TRUE /\ k.guestClean = TRUE /\ k.hostClean = FALSE
      BY <1>1 DEF Journals
  <2>4. Restates(j, k, g, bounds.overdue)
      BY <1>1, <2>2 DEF Restates, World, JournalOK
  <2>5. Running(k, g, l)
      BY <1>1, <2>2, <2>3, <2>4, RestatesOK DEF Running
  <2>6. ReleasedAs(g, k)
    <3>1. InPhase(g, "RELEASED") /\ g.stopped /\ g.cleaned /\ g.terminal.publication = j.publication
        BY <1>4 DEF ReleaseProved
    <3>2. GuestOK(g, files.source) /\ g.terminal # None /\ LedgerOK(g.terminal)
        BY <1>1, <3>1 DEF World, GuestOK, InPhase
    <3>3. Stat(g.terminal, "release") = "DONE" /\ g.terminal.authorized # None
        BY <3>1, <3>2 DEF LedgerOK, PhaseOK, InPhase
    <3>4. g.terminal.publication # None
        BY <3>2, <3>3 DEF LedgerOK, ReceiptsOK
    <3> QED BY <2>2, <3>1, <3>4 DEF ReleasedAs
  <2>7. host' \in HostStates /\ host'.pc = "clean"
    <3>1. "clean" \in Pcs
        BY DEF Pcs
    <3> QED BY <2>1, <2>5, <3>1, GoDoes DEF Running
  <2>8. RunningOK(host', k)
      BY <1>1, <2>2, <2>5, <2>7 DEF Running, RunningOK, PullPcs, PushPcs
  <2>9. FinishingOK(host', k, g, bounds.overdue) /\ PublishingOK(host', k, files)
      BY <2>7 DEF FinishingOK, PublishingOK
  <2>10. CleaningOK(host', k, g, files)
      BY <2>2, <2>3, <2>6, <2>7 DEF CleaningOK
  <2>11. HostOK(host', k, g, files, bounds.overdue)
      BY <2>7, <2>8, <2>9, <2>10 DEF HostOK
  <2> QED BY <2>1, <2>5, <2>11, GoLands
<1> QED BY <1>2, <1>3, <1>4

LEMMA FinishedLands ==
    ASSUME direction \in {"push", "pull"}, NEW j, NEW g, NEW l, Following(j, g, l), Finished(j, g),
           Finishing(host.action, j, g), g.terminal # None, Stat(g.terminal, host.action) = "DONE"
    PROVE  Lands(g, l)
<1> PICK t : t = g.terminal
    OBVIOUS
<1>1. /\ Running(j, g, l) /\ j.begun /\ Current(j, g) /\ JournalOK(j) /\ j \in Journals
      /\ World(j, g, files, l, bounds.overdue)
      /\ GuestOK(g, files.source) /\ LedgerOK(t) /\ t # None /\ host.action \in Actions
    BY DEF Following, Running, World, GuestOK, JournalOK, HostStates
<1>2. t.prepare # None => j.prepare = t.prepare
    BY <1>1 DEF Current
<1>3. CASE host.action = "prepare" /\ direction = "push" /\ Go(j, "validate")
  <2>1. j.prepare # None
      BY <1>1, <1>2, <1>3 DEF LedgerOK, ReceiptsOK
  <2>2. ~bounds.overdue => Uncommitted(g)
      BY <1>3 DEF Finishing
  <2> QED BY <1>1, <1>3, <2>1, <2>2, GoPushingLands
<1>4. CASE host.action = "prepare" /\ direction = "pull" /\ Go([j EXCEPT !.stable = TRUE], "publish")
  <2> PICK k : k = [j EXCEPT !.stable = TRUE]
      OBVIOUS
  <2>1. /\ k \in Journals /\ k.begun = j.begun /\ k.operations = j.operations /\ k.prepare = j.prepare
        /\ k.validation = j.validation /\ k.publication = j.publication /\ k.intent = j.intent
        /\ k.published = j.published /\ k.unknown = j.unknown /\ k.asked = j.asked
        /\ k.phase = j.phase /\ k.last = j.last /\ k.stable = TRUE /\ k.destVerified = j.destVerified
      BY <1>1 DEF Journals
  <2>2. Restates(j, k, g, bounds.overdue)
      BY <1>1, <2>1 DEF Restates, JournalOK
  <2>3. Running(k, g, l)
      BY <1>1, <2>1, <2>2, RestatesOK DEF Running
  <2>4. k.prepare # None
      BY <1>1, <1>2, <1>4, <2>1 DEF LedgerOK, ReceiptsOK
  <2> QED BY <1>1, <1>4, <2>1, <2>3, <2>4, GoPublishingLands
<1>5. CASE host.action = "commit" /\ EnterRelease(j)
  <2>1. direction = "push" /\ Stat(t, "commit") = "DONE"
      BY <1>5 DEF Finishing
  <2>2. t.publication # None /\ t.prepare # None
      BY <1>1, <2>1 DEF LedgerOK, ReceiptsOK
  <2>3. j.publication # None /\ j.prepare # None /\ j.published
      BY <1>1, <2>2 DEF Current, JournalOK
  <2> QED BY <1>1, <1>5, <2>3, EnterReleaseLands
<1>6. CASE host.action = "release" /\ Released(j, g)
    BY <1>6, ReleasedLands DEF Finishing
<1> QED BY <1>3, <1>4, <1>5, <1>6 DEF Finished

LEMMA PolledLands ==
    ASSUME direction \in {"push", "pull"}, NEW j, NEW g, NEW l, Following(j, g, l), Polled(j, g),
           Finishing(host.action, j, g)
    PROVE  Lands(g, l)
<1> PICK t : t = g.terminal
    OBVIOUS
<1> PICK a : a = host.action
    OBVIOUS
<1>1. /\ Running(j, g, l) /\ j.begun /\ GuestOK(g, files.source) /\ Agree(j, g, bounds.overdue) /\ a \in Actions
    BY DEF Following, Running, World, HostStates
<1>2. CASE t = None
  <2>1. Raise(j, "guest_terminal_missing")
      BY <1>2 DEF Polled
  <2> QED BY <1>1, <2>1, PlainLands DEF Plain
<1>3. CASE t # None /\ Stat(t, a) = "FAILED"
  <2>1. t.ops[a].inputs = j.asked[a]
      BY <1>1, <1>3 DEF Agree
  <2>2. Raise(j, t.ops[a].result.error)
      BY <1>3, <2>1 DEF Polled, Op, Stat
  <2>3. t.ops[a].result.error # None /\ Causes(t.ops[a].result.error, t, files.source)
      BY <1>1, <1>3 DEF GuestOK, ErrorsOK
  <2>4. Just(j, g, t.ops[a].result.error)
      BY <1>1, <2>3, GuestErrorIsJust
  <2> QED BY <1>1, <2>2, <2>4, RaiseLands
<1>4. CASE t # None /\ Stat(t, a) # "FAILED"
  <2>1. Stat(t, a) # "NONE" => t.ops[a].inputs = j.asked[a]
      BY <1>1, <1>4 DEF Agree
  <2>2. \/ Stat(t, a) = "DONE" /\ Finished(j, g)
        \/ Go(j, "poll")
        \/ j.attempts[a] < RetryCap /\ Go(j, "request")
        \/ Raise(j, "action_retry_exhausted")
        \/ g.error # None /\ Raise(j, g.error)
      BY <1>4, <2>1 DEF Polled, Op, Stat
  <2>3. CASE Stat(t, a) = "DONE" /\ Finished(j, g)
      BY <1>4, <2>3, FinishedLands
  <2>4. CASE Go(j, "poll")
      BY <1>1, <2>4, GoFinishingLands
  <2>5. CASE j.attempts[a] < RetryCap /\ Go(j, "request")
      BY <1>1, <2>5, GoFinishingLands
  <2>6. CASE Raise(j, "action_retry_exhausted")
      BY <1>1, <2>6, PlainLands DEF Plain
  <2>7. CASE g.error # None /\ Raise(j, g.error)
      BY <1>1, <2>7, GuestErrorLands
  <2> QED BY <2>2, <2>3, <2>4, <2>5, <2>6, <2>7
<1> QED BY <1>2, <1>3, <1>4

-----------------------------------------------------------------------------
(* Calls.                                                                  *)
Tame == Counters(bounds') /\ bounds'.overdue = bounds.overdue

LEMMA FaultyIsTame == ASSUME Counters(bounds), Faulty PROVE Tame
<1>1. bounds.faults \in 0..MaxFaults /\ bounds.faults < MaxFaults
    BY DEF Counters, Faulty
<1> PICK n : n = bounds.faults + 1
    OBVIOUS
<1>2. n \in 0..MaxFaults
    BY <1>1, HostBoundsAssumption
<1>3. bounds' = [bounds EXCEPT !.faults = n, !.quiet = FALSE]
    BY DEF Faulty
<1>4. Counters(bounds')
    BY <1>2, <1>3 DEF Counters
<1>5. bounds'.overdue = bounds.overdue
    BY <1>3 DEF Counters
<1> QED BY <1>4, <1>5 DEF Tame

LEMMA QuietIsTame == ASSUME Counters(bounds), bounds' = bounds PROVE Tame
BY DEF Counters, Tame

(* What the invariant says of a running process.                           *)
LEMMA ProcessRuns ==
    ASSUME Scene(host, journal, guest, files, late, result, bounds.overdue), bounds.overdue \in BOOLEAN,
           host.pc # "idle"
    PROVE  Running(journal, guest, late)
BY DEF Scene, ResultOK, HostOK, RunningOK, Running

LEMMA RunningMoves ==
    ASSUME direction \in {"push", "pull"}, NEW j, NEW g, NEW l, NEW k,
           Running(j, g, l), Evolves(g, k, files.source)
    PROVE  Running(j, k, l) /\ (Uncommitted(g) => Uncommitted(k)) /\ GuestOK(k, files.source)
<1>1. JournalOK(j) /\ GuestOK(g, files.source) /\ Agree(j, g, bounds.overdue) /\ LateOK(j, l) /\ FilesOK(j, files)
    BY DEF Running, World
<1>2. GuestOK(k, files.source) /\ Follows(g, k) /\ AsJournaled(j, g, k) /\ (Uncommitted(g) => Uncommitted(k))
    BY NothingNewIsJournaled DEF Evolves
<1>3. Agree(j, k, bounds.overdue)
    BY <1>1, <1>2, AgreeKept
<1> QED BY <1>1, <1>2, <1>3 DEF Running, World

LEMMA StatusFollows ==
    ASSUME direction \in {"push", "pull"}, NEW j, NEW g, NEW l, Running(j, g, l), j.begun
    PROVE  /\ IngestError(j, g) = None /\ Following(Ingested(j, g), g, l)
           /\ Ingests(j, Ingested(j, g), g)
<1> PICK k : k = Ingested(j, g)
    OBVIOUS
<1>1. World(j, g, files, l, bounds.overdue) /\ JournalOK(j) /\ GuestOK(g, files.source) /\ Agree(j, g, bounds.overdue)
    BY DEF Running, World
<1>2. IngestError(j, g) = None
    BY <1>1, IngestAgrees
<1>3. Ingests(j, k, g) /\ Current(k, g)
    BY <1>1, IngestedDoes
<1>4. World(k, g, files, l, bounds.overdue)
    BY <1>1, <1>3, IngestsOK
<1>5. k.phase = j.phase /\ k.last = j.last /\ k.destVerified = j.destVerified /\ k.begun = j.begun
    BY <1>3 DEF Ingests
<1>6. Following(k, g, l)
    BY <1>3, <1>4, <1>5 DEF Following, Running
<1> QED BY <1>2, <1>3, <1>6

LEMMA KnownEvolves ==
    ASSUME NEW g, NEW src, GuestOK(g, src), NEW mark \in BOOLEAN,
           NEW h, h = [g EXCEPT !.known = g.known \/ mark]
    PROVE  Evolves(g, h, src)
<1>1. g \in Guests /\ g.known \in BOOLEAN
    BY GuestFields DEF GuestOK
<1> PICK known \in BOOLEAN : known = (g.known \/ mark)
    BY <1>1
<1>2. h = [g EXCEPT !.known = known]
    OBVIOUS
<1>3. /\ h \in Guests /\ h.made = g.made /\ h.terminal = g.terminal /\ h.job = g.job /\ h.alive = g.alive
      /\ h.stopped = g.stopped /\ h.error = g.error /\ h.cleaned = g.cleaned /\ h.intent = g.intent
    BY <1>1, <1>2 DEF Guests
<1>4. GuestOK(h, src)
    BY <1>3 DEF GuestOK, WorkerOK, IntentOK, ErrorsOK
<1>5. Follows(g, h) /\ NothingNew(g, h)
    BY <1>3, SameLedger
<1> QED BY <1>4, <1>5 DEF Evolves

(* The guest answers the status: what follows is about the settled guest,  *)
(* and then it also knows what the host has seen.                          *)
LEMMA SettledRuns ==
    ASSUME direction \in {"push", "pull"}, NEW j, NEW l, Running(j, guest, l)
    PROVE  Running(j, Settled(guest), l) /\ (Uncommitted(guest) => Uncommitted(Settled(guest)))
<1>1. GuestOK(guest, files.source)
    BY DEF Running, World
<1>2. Evolves(guest, Settled(guest), files.source)
    BY <1>1, SettledOK
<1> QED BY <1>2, RunningMoves

LEMMA StatusAnsweredLands ==
    ASSUME direction \in {"push", "pull"}, Counters(bounds), Running(journal, guest, late),
           NEW mark \in BOOLEAN, StatusAnswered(mark), Lands(Settled(guest), late)
    PROVE  Lands(guest', late') /\ Tame
<1> PICK g : g = Settled(guest)
    OBVIOUS
<1>1. guest' = [g EXCEPT !.known = g.known \/ mark] /\ late' = late /\ bounds' = bounds
    BY DEF StatusAnswered
<1>2. GuestOK(g, files'.source)
    BY DEF Lands, Scene, World
<1>3. Evolves(g, guest', files'.source)
    BY <1>1, <1>2, KnownEvolves
<1>4. bounds.overdue \in BOOLEAN
    BY DEF Running
<1>5. Lands(guest', late)
    BY <1>3, <1>4, GuestMoves DEF Lands
<1> QED BY <1>1, <1>5, QuietIsTame

LEMMA StatusFailsLands ==
    ASSUME direction \in {"push", "pull"}, Counters(bounds), Running(journal, guest, late), journal.begun, StatusFails
    PROVE  Lands(guest', late') /\ Tame
<1> PICK g : g = Settled(guest)
    OBVIOUS
<1>1. Running(journal, g, late)
    BY SettledRuns
<1>2. CASE Faulty /\ guest' \in {guest, g} /\ Raise(journal, "outcome_unknown")
  <2>1. Running(journal, guest', late)
      BY <1>1, <1>2
  <2>2. late' = late
      BY DEF StatusFails
  <2>3. Lands(guest', late)
      BY <1>2, <2>1, PlainLands DEF Plain
  <2> QED BY <1>2, <2>2, <2>3, FaultyIsTame
<1>3. CASE /\ Faulty /\ guest' = g
           /\ Raise([Ingested(journal, g) EXCEPT !.adapterPending = TRUE], "cleanup_failed")
  <2> PICK i : i = Ingested(journal, g)
      OBVIOUS
  <2> PICK k : k = [i EXCEPT !.adapterPending = TRUE]
      OBVIOUS
  <2>1. Following(i, g, late)
      BY <1>1, StatusFollows
  <2>2. Running(i, g, late) /\ i \in Journals /\ JournalOK(i) /\ World(i, g, files, late, bounds.overdue)
      BY <2>1 DEF Following, Running, World, JournalOK
  <2>3. /\ k \in Journals /\ k.begun = i.begun /\ k.operations = i.operations /\ k.prepare = i.prepare
        /\ k.validation = i.validation /\ k.publication = i.publication /\ k.intent = i.intent
        /\ k.published = i.published /\ k.unknown = i.unknown /\ k.asked = i.asked
        /\ k.phase = i.phase /\ k.last = i.last /\ k.stable = i.stable /\ k.destVerified = i.destVerified
      BY <2>2, ZenonT(60) DEF Journals
  <2>4. Restates(i, k, g, bounds.overdue)
      BY <2>2, <2>3 DEF Restates, JournalOK
  <2>5. Running(k, g, late)
      BY <2>2, <2>3, <2>4, RestatesOK DEF Running
  <2>6. Lands(g, late)
      BY <1>3, <2>5, PlainLands DEF Plain
  <2>7. late' = late
      BY DEF StatusFails
  <2> QED BY <1>3, <2>6, <2>7, FaultyIsTame
<1> QED BY <1>2, <1>3 DEF StatusFails

-----------------------------------------------------------------------------
(* A mutation is sent: its intent is in the journal already.               *)
Intended(j, r) ==
    /\ r \in Requests
    /\ r.call \in Actions => r.inputs = j.asked[r.call] /\ j.asked[r.call] # None
    /\ r.call = "commit" => j.unknown /\ (j.stable \/ bounds.overdue)

LEMMA ExecutedRuns ==
    ASSUME direction \in {"push", "pull"}, JournalOK(journal), NEW j, NEW l, Running(j, guest, l), NEW r, Intended(j, r),
           NEW h \in Executed(guest, r)
    PROVE  Running(j, h, l) /\ (r.call # "commit" /\ Uncommitted(guest) => Uncommitted(h))
<1>1. JournalOK(j) /\ GuestOK(guest, files.source) /\ Agree(j, guest, bounds.overdue) /\ LateOK(j, l) /\ FilesOK(j, files)
    BY DEF Running, World
<1>2. GuestOK(h, files.source) /\ Follows(guest, h) /\ Asked(guest, h, r)
    BY <1>1, ExecutedOK DEF Intended
<1>3. AsJournaled(j, guest, h)
    BY <1>2 DEF Asked, AsJournaled, Intended
<1>4. r.call # "commit" /\ Uncommitted(guest) => Uncommitted(h)
    BY <1>2, ActionNames DEF Asked, Uncommitted
<1>5. Agree(j, h, bounds.overdue)
    BY <1>1, <1>2, <1>3, <1>4, AgreeKept DEF Intended
<1> QED BY <1>1, <1>2, <1>4, <1>5 DEF Running, World

LEMMA UnansweredRuns ==
    ASSUME direction \in {"push", "pull"}, Counters(bounds), JournalOK(journal), NEW j, Running(j, guest, late),
           NEW r, Intended(j, r), Unanswered(r)
    PROVE  Running(j, guest', late') /\ Tame /\ (r.call # "commit" /\ Uncommitted(guest) => Uncommitted(guest'))
<1>1. CASE guest' \in Executed(guest, r) /\ Faulty /\ late' = late
    BY <1>1, ExecutedRuns, FaultyIsTame
<1>2. CASE guest' = guest /\ late' = late /\ (Faulty \/ bounds' = bounds)
    BY <1>2, FaultyIsTame, QuietIsTame
<1>3. CASE guest' = guest /\ late' = late \cup {r} /\ Faulty
  <2>1. LateOK(j, late')
      BY <1>3 DEF Running, World, LateOK, Intended
  <2> QED BY <1>3, <2>1, FaultyIsTame DEF Running, World
<1> QED BY <1>1, <1>2, <1>3 DEF Unanswered

LEMMA CallIsIntended ==
    ASSUME NEW j, NEW call \in {"begin", "chunks", "abort"}
    PROVE  Intended(j, Call(call)) /\ Call(call).call = call
<1>1. NoInputs \in Inputs
    BY DEF NoInputs, Inputs
<1> QED BY <1>1 DEF Intended, Call, Requests, Actions

-----------------------------------------------------------------------------
(* The steps of the host.                                                  *)
Now == /\ direction \in {"push", "pull"} /\ Counters(bounds)
       /\ Scene(host, journal, guest, files, late, result, bounds.overdue)

Holds == Lands(guest', late') /\ Tame

LEMMA NowRuns ==
    ASSUME Now, host.pc # "idle"
    PROVE  /\ direction \in {"push", "pull"} /\ Counters(bounds) /\ bounds.overdue \in BOOLEAN
           /\ Running(journal, guest, late) /\ JournalOK(journal) /\ journal \in Journals
           /\ World(journal, guest, files, late, bounds.overdue)
           /\ GuestOK(guest, files.source) /\ FilesOK(journal, files) /\ Agree(journal, guest, bounds.overdue)
           /\ RunningOK(host, journal) /\ FinishingOK(host, journal, guest, bounds.overdue)
           /\ PublishingOK(host, journal, files) /\ CleaningOK(host, journal, guest, files)
           /\ (host.pc \notin EarlyPcs => journal.begun)
<1>1. bounds.overdue \in BOOLEAN
    BY DEF Now, Counters
<1>2. Running(journal, guest, late)
    BY <1>1, ProcessRuns DEF Now
<1>3. World(journal, guest, files, late, bounds.overdue) /\ HostOK(host, journal, guest, files, bounds.overdue)
    BY DEF Now, Scene
<1>4. RunningOK(host, journal) /\ FinishingOK(host, journal, guest, bounds.overdue)
      /\ PublishingOK(host, journal, files) /\ CleaningOK(host, journal, guest, files)
    BY <1>3 DEF HostOK
<1>5. host.pc \notin EarlyPcs => journal.begun
    BY <1>4 DEF RunningOK
<1>6. JournalOK(journal) /\ journal \in Journals
      /\ GuestOK(guest, files.source) /\ FilesOK(journal, files) /\ Agree(journal, guest, bounds.overdue)
    BY <1>3 DEF World, JournalOK
<1> QED BY <1>1, <1>2, <1>3, <1>4, <1>5, <1>6 DEF Now

(* A step that leaves the guest alone.                                     *)
LEMMA LocalHolds == ASSUME Now, Local, Lands(guest, late) PROVE Holds
BY QuietIsTame DEF Now, Local, Holds

LEMMA FaultHolds == ASSUME Now, Faulty, guest' = guest, late' = late, Lands(guest, late) PROVE Holds
BY FaultyIsTame DEF Now, Holds

LEMMA CancelLands ==
    ASSUME direction \in {"push", "pull"}, NEW j, NEW g, NEW l, Running(j, g, l),
           End(SetPhase(j, "CANCELLED"), "incomplete", "transfer_cancelled"), files' = files
    PROVE  Lands(g, l)
<1> PICK k : k = SetPhase(j, "CANCELLED")
    OBVIOUS
<1>1. Running(k, g, l) /\ k.phase = "CANCELLED"
    BY PhasedRuns, PhaseNames
<1>2. World(k, g, files, l, bounds.overdue) /\ JournalOK(k) /\ host \in HostStates /\ k.last # None
    BY <1>1 DEF Running, World
<1>3. Validates(Report(k, "incomplete", "transfer_cancelled"))
    BY <1>1, <1>2, ReportValid
<1>4. "transfer_cancelled" \in HostErrors \cup {None}
    BY DEF HostErrors, GuestErrors
<1> QED BY <1>2, <1>3, <1>4, EndLands

(* A step of the files alone.                                              *)
LEMMA FilesLand ==
    ASSUME NEW j, NEW g, NEW l, Running(j, g, l), NEW f, FilesOK(j, f), f.source = files.source,
           HostOK(host', j, g, f, bounds.overdue), journal' = j, files' = f, result' = result
    PROVE  Lands(g, l)
<1>1. World(j, g, f, l, bounds.overdue)
    BY DEF Running, World
<1> QED BY <1>1, MoveLands DEF Running

LEMMA TempOK ==
    ASSUME NEW j, FilesOK(j, files), NEW temp \in {"none", "unregistered", "ready", "gone"},
           NEW f, f = [files EXCEPT !.temp = temp]
    PROVE  /\ FilesOK(j, f) /\ f.source = files.source /\ f.temp = temp
           /\ f.stage = files.stage /\ f.dest = files.dest
BY DEF FilesOK, FileStates

LEMMA ConnectHolds == ASSUME Now, Connect PROVE Holds
<1>1. host.pc = "connect"
    BY DEF Connect, At
<1>2. direction \in {"push", "pull"} /\ Running(journal, guest, late) /\ FilesOK(journal, files)
    BY <1>1, NowRuns
<1>3. CASE Faulty /\ Raise(journal, "connection_failed") /\ UNCHANGED <<guest, late>>
  <2>1. Lands(guest, late)
      BY <1>2, <1>3, PlainLands DEF Plain
  <2> QED BY <1>3, <2>1, FaultHolds
<1>4. CASE journal.begun /\ Go(journal, "abort_status") /\ Local
  <2>1. Lands(guest, late)
      BY <1>2, <1>4, GoEasilyLands
  <2> QED BY <1>4, <2>1, LocalHolds
<1>5. CASE /\ End(SetPhase(journal, "CANCELLED"), "incomplete", "transfer_cancelled") /\ UNCHANGED files
           /\ Local
  <2>1. Lands(guest, late)
      BY <1>2, <1>5, CancelLands
  <2> QED BY <1>5, <2>1, LocalHolds
<1>6. CASE /\ direction = "push" /\ files' = [files EXCEPT !.temp = "unregistered"]
           /\ host' = [host EXCEPT !.pc = "register_package"]
           /\ UNCHANGED <<journal, result>> /\ Local
  <2> PICK f : f = [files EXCEPT !.temp = "unregistered"]
      OBVIOUS
  <2>1. FilesOK(journal, f) /\ f.source = files.source
      BY <1>2, TempOK
  <2>2. host' \in HostStates /\ host'.pc = "register_package"
      BY <1>2, <1>6 DEF Running, HostStates, Pcs
  <2>3. HostOK(host', journal, guest, f, bounds.overdue)
      BY <1>2, <1>6, <2>2
         DEF Running, HostOK, RunningOK, FinishingOK, PublishingOK, CleaningOK, EarlyPcs, PullPcs, PushPcs
  <2>4. Lands(guest, late)
      BY <1>2, <1>6, <2>1, <2>3, FilesLand
  <2> QED BY <1>6, <2>4, LocalHolds
<1>7. CASE Raise(journal, "host_package_reconcile_required") /\ Local
  <2>1. Lands(guest, late)
      BY <1>2, <1>7, PlainLands DEF Plain
  <2> QED BY <1>7, <2>1, LocalHolds
<1>8. CASE Go(journal, IF journal.begun THEN "begin" ELSE "begin_call") /\ Local
  <2>1. CASE journal.begun
    <3>1. Lands(guest, late)
        BY <1>2, <1>8, <2>1, GoEasilyLands
    <3> QED BY <1>8, <3>1, LocalHolds
  <2>2. CASE ~journal.begun
    <3>1. Go(journal, "begin_call")
        BY <1>8, <2>2
    <3>2. Lands(guest, late)
        BY <1>2, <3>1, GoEasilyLands DEF EarlyPcs
    <3> QED BY <1>8, <3>2, LocalHolds
  <2> QED BY <2>1, <2>2
<1> QED BY <1>3, <1>4, <1>5, <1>6, <1>7, <1>8 DEF Connect

LEMMA RegisterPackageHolds == ASSUME Now, RegisterPackage PROVE Holds
<1>1. host.pc = "register_package"
    BY DEF RegisterPackage, At
<1>2. direction \in {"push", "pull"} /\ Running(journal, guest, late) /\ FilesOK(journal, files)
    BY <1>1, NowRuns
<1> PICK f : f = [files EXCEPT !.temp = "ready"]
    OBVIOUS
<1>3. FilesOK(journal, f) /\ f.source = files.source
    BY <1>2, TempOK
<1>4. host' \in HostStates /\ host'.pc = "begin_call"
    BY <1>2 DEF RegisterPackage, Running, HostStates, Pcs
<1>5. HostOK(host', journal, guest, f, bounds.overdue)
    BY <1>2, <1>4
       DEF Running, HostOK, RunningOK, FinishingOK, PublishingOK, CleaningOK, EarlyPcs, PullPcs, PushPcs
<1>6. journal' = journal /\ files' = f /\ result' = result /\ Local
    BY DEF RegisterPackage
<1>7. Lands(guest, late)
    BY <1>2, <1>3, <1>5, <1>6, FilesLand
<1> QED BY <1>6, <1>7, LocalHolds

(* The steps that ask for a status.                                        *)
LEMMA StatusPrepares ==
    ASSUME Now, host.pc # "idle", journal.begun
    PROVE  /\ IngestError(journal, Settled(guest)) = None
           /\ Following(Ingested(journal, Settled(guest)), Settled(guest), late)
           /\ Running(Ingested(journal, Settled(guest)), Settled(guest), late)
           /\ Ingests(journal, Ingested(journal, Settled(guest)), Settled(guest))
           /\ Ingested(journal, Settled(guest)).begun
           /\ (Uncommitted(guest) => Uncommitted(Settled(guest)))
<1>1. direction \in {"push", "pull"} /\ Running(journal, guest, late)
    BY NowRuns
<1>2. Running(journal, Settled(guest), late) /\ (Uncommitted(guest) => Uncommitted(Settled(guest)))
    BY <1>1, SettledRuns
<1>3. /\ IngestError(journal, Settled(guest)) = None
      /\ Following(Ingested(journal, Settled(guest)), Settled(guest), late)
      /\ Ingests(journal, Ingested(journal, Settled(guest)), Settled(guest))
    BY <1>1, <1>2, StatusFollows
<1> QED BY <1>2, <1>3 DEF Following

LEMMA AnsweredHolds ==
    ASSUME Now, host.pc # "idle", NEW mark \in BOOLEAN, StatusAnswered(mark), Lands(Settled(guest), late)
    PROVE  Holds
BY NowRuns, StatusAnsweredLands DEF Holds

LEMMA StatusFailsHolds == ASSUME Now, host.pc # "idle", journal.begun, StatusFails PROVE Holds
BY NowRuns, StatusFailsLands DEF Holds

LEMMA BeginHolds == ASSUME Now, Begin PROVE Holds
<1>1. host.pc = "begin"
    BY DEF Begin, At
<1>2. direction \in {"push", "pull"} /\ Running(journal, guest, late) /\ journal.begun
    BY <1>1, NowRuns DEF EarlyPcs
<1>3. CASE Status(Resumed, TRUE)
  <2>1. CASE StatusAnswered(TRUE) /\ Resumed(Ingested(journal, Settled(guest)), Settled(guest))
    <3>1. Lands(Settled(guest), late)
        BY <1>1, <1>2, <2>1, StatusPrepares, ResumedLands
    <3> QED BY <1>1, <2>1, <3>1, AnsweredHolds
  <2>2. CASE StatusFails
      BY <1>1, <1>2, <2>2, StatusFailsHolds
  <2> QED BY <1>1, <1>2, <1>3, <2>1, <2>2, StatusPrepares DEF Status
<1>4. CASE Go(journal, "begin_call") /\ Local
  <2>1. Lands(guest, late)
      BY <1>2, <1>4, GoEasilyLands
  <2> QED BY <1>4, <2>1, LocalHolds
<1> QED BY <1>3, <1>4 DEF Begin

LEMMA AwaitReadyHolds == ASSUME Now, AwaitReady PROVE Holds
<1>1. host.pc = "ready"
    BY DEF AwaitReady, At
<1>2. direction \in {"push", "pull"} /\ Running(journal, guest, late) /\ journal.begun
    BY <1>1, NowRuns DEF EarlyPcs
<1>3. CASE Status(Ready, FALSE)
  <2>1. CASE StatusAnswered(FALSE) /\ Ready(Ingested(journal, Settled(guest)), Settled(guest))
    <3>1. Lands(Settled(guest), late)
        BY <1>1, <1>2, <2>1, StatusPrepares, ReadyLands
    <3> QED BY <1>1, <2>1, <3>1, AnsweredHolds
  <2>2. CASE StatusFails
      BY <1>1, <1>2, <2>2, StatusFailsHolds
  <2> QED BY <1>1, <1>2, <1>3, <2>1, <2>2, StatusPrepares DEF Status
<1>4. CASE Raise(journal, "task_not_found") /\ Local
  <2>1. Lands(guest, late)
      BY <1>2, <1>4, PlainLands DEF Plain
  <2> QED BY <1>4, <2>1, LocalHolds
<1> QED BY <1>3, <1>4 DEF AwaitReady

LEMMA AwaitIdleHolds == ASSUME Now, AwaitIdle PROVE Holds
<1>1. host.pc = "verify_wait"
    BY DEF AwaitIdle, At
<1>2. direction = "push" /\ journal.begun /\ (~bounds.overdue => Uncommitted(guest))
    BY <1>1, NowRuns DEF EarlyPcs, RunningOK, FinishingOK, PushPcs
<1>3. CASE StatusAnswered(TRUE) /\ VerifyWait(Ingested(journal, Settled(guest)), Settled(guest))
  <2>1. Lands(Settled(guest), late)
      BY <1>1, <1>2, <1>3, StatusPrepares, VerifyWaitLands
  <2> QED BY <1>1, <1>3, <2>1, AnsweredHolds
<1>4. CASE StatusFails
    BY <1>1, <1>2, <1>4, StatusFailsHolds
<1> QED BY <1>1, <1>2, <1>3, <1>4, StatusPrepares DEF AwaitIdle, Status

LEMMA AwaitProofHolds == ASSUME Now, AwaitProof PROVE Holds
<1>1. host.pc = "verify_ready"
    BY DEF AwaitProof, At
<1>2. direction = "push" /\ journal.begun /\ (~bounds.overdue => Uncommitted(guest))
    BY <1>1, NowRuns DEF EarlyPcs, RunningOK, FinishingOK, PushPcs
<1>3. CASE StatusAnswered(FALSE) /\ VerifyReady(Ingested(journal, Settled(guest)), Settled(guest))
  <2>1. Lands(Settled(guest), late)
      BY <1>1, <1>2, <1>3, StatusPrepares, VerifyReadyLands
  <2> QED BY <1>1, <1>3, <2>1, AnsweredHolds
<1>4. CASE StatusFails
    BY <1>1, <1>2, <1>4, StatusFailsHolds
<1> QED BY <1>1, <1>2, <1>3, <1>4, StatusPrepares DEF AwaitProof, Status

LEMMA PollHolds == ASSUME Now, Poll PROVE Holds
<1>1. host.pc = "poll"
    BY DEF Poll, At
<1>2. direction \in {"push", "pull"} /\ journal.begun /\ FinishingOK(host, journal, guest, bounds.overdue)
    BY <1>1, NowRuns DEF EarlyPcs
<1>3. CASE StatusAnswered(FALSE) /\ Polled(Ingested(journal, Settled(guest)), Settled(guest))
  <2> PICK k : k = Ingested(journal, Settled(guest))
      OBVIOUS
  <2>1. Ingests(journal, k, Settled(guest)) /\ (Uncommitted(guest) => Uncommitted(Settled(guest)))
        /\ Following(k, Settled(guest), late) /\ k.begun
      BY <1>1, <1>2, StatusPrepares
  <2>2. k.asked = journal.asked /\ k.stable = journal.stable /\ k.phase = journal.phase
      BY <2>1 DEF Ingests
  <2>3. Finishing(host.action, k, Settled(guest))
      BY <1>1, <1>2, <2>1, <2>2 DEF Finishing, FinishingOK
  <2>4. Lands(Settled(guest), late)
      BY <1>2, <1>3, <2>1, <2>3, PolledLands
  <2> QED BY <1>1, <1>3, <2>4, AnsweredHolds
<1>4. CASE StatusFails
    BY <1>1, <1>2, <1>4, StatusFailsHolds
<1> QED BY <1>1, <1>2, <1>3, <1>4, StatusPrepares DEF Poll, Status

LEMMA AbortHolds == ASSUME Now, Abort PROVE Holds
<1>1. host.pc \in {"abort_status", "abort_call", "abort_done"}
    BY DEF Abort, At
<1>2. direction \in {"push", "pull"} /\ Running(journal, guest, late) /\ journal.begun /\ JournalOK(journal)
      /\ Counters(bounds)
    BY <1>1, NowRuns DEF EarlyPcs
<1>3. CASE Raise(journal, "task_not_found") /\ Local
  <2>1. Lands(guest, late)
      BY <1>2, <1>3, PlainLands DEF Plain
  <2> QED BY <1>3, <2>1, LocalHolds
<1>4. CASE Status(AbortSeen, FALSE)
  <2>1. CASE StatusAnswered(FALSE) /\ AbortSeen(Ingested(journal, Settled(guest)), Settled(guest))
    <3>1. Go(Ingested(journal, Settled(guest)), "abort_call")
        BY <2>1 DEF AbortSeen
    <3>2. Lands(Settled(guest), late)
        BY <1>1, <1>2, <3>1, StatusPrepares, GoEasilyLands
    <3> QED BY <1>1, <2>1, <3>2, AnsweredHolds
  <2>2. CASE StatusFails
      BY <1>1, <1>2, <2>2, StatusFailsHolds
  <2> QED BY <1>1, <1>2, <1>4, <2>1, <2>2, StatusPrepares DEF Status
<1>5. CASE Status(AbortDone, FALSE)
  <2>1. CASE StatusAnswered(FALSE) /\ AbortDone(Ingested(journal, Settled(guest)), Settled(guest))
    <3>1. /\ End(SetPhase(Ingested(journal, Settled(guest)), "CANCELLED"), "incomplete", "transfer_cancelled")
          /\ files' = files
        BY <2>1 DEF AbortDone
    <3>2. Lands(Settled(guest), late)
        BY <1>1, <1>2, <3>1, StatusPrepares, CancelLands
    <3> QED BY <1>1, <2>1, <3>2, AnsweredHolds
  <2>2. CASE StatusFails
      BY <1>1, <1>2, <2>2, StatusFailsHolds
  <2> QED BY <1>1, <1>2, <1>5, <2>1, <2>2, StatusPrepares DEF Status
<1>i. Intended(journal, Call("abort")) /\ Call("abort").call = "abort"
    BY CallIsIntended
<1>6. CASE Answered(Call("abort")) /\ UNCHANGED bounds /\ Go(journal, "abort_done")
  <2>1. Running(journal, guest', late) /\ late' = late
      BY <1>2, <1>6, <1>i, ExecutedRuns DEF Answered
  <2>2. Lands(guest', late')
      BY <1>2, <1>6, <2>1, GoEasilyLands
  <2> QED BY <1>2, <1>6, <2>2, QuietIsTame DEF Holds
<1>7. CASE Unanswered(Call("abort")) /\ Raise(journal, "outcome_unknown")
  <2>1. Running(journal, guest', late') /\ Tame
      BY <1>2, <1>7, <1>i, UnansweredRuns
  <2>2. Lands(guest', late')
      BY <1>2, <1>7, <2>1, PlainLands DEF Plain
  <2> QED BY <2>1, <2>2 DEF Holds
<1> QED BY <1>3, <1>4, <1>5, <1>6, <1>7 DEF Abort, At

(* The steps that send a mutation.                                         *)
BegunNow == [journal EXCEPT !.begun = TRUE]

LEMMA BegunRuns ==
    ASSUME NEW g, NEW l, Running(journal, g, l)
    PROVE  Running(BegunNow, g, l) /\ BegunNow.begun
<1> PICK k : k = BegunNow
    OBVIOUS
<1>1. World(journal, g, files, l, bounds.overdue) /\ JournalOK(journal) /\ journal \in Journals
    BY DEF Running, World, JournalOK
<1>2. /\ k \in Journals /\ k.begun = TRUE /\ k.operations = journal.operations /\ k.prepare = journal.prepare
      /\ k.validation = journal.validation /\ k.publication = journal.publication /\ k.intent = journal.intent
      /\ k.published = journal.published /\ k.unknown = journal.unknown /\ k.asked = journal.asked
      /\ k.phase = journal.phase /\ k.last = journal.last /\ k.stable = journal.stable
      /\ k.destVerified = journal.destVerified
    BY <1>1 DEF Journals, BegunNow
<1>3. \A a \in Actions : FinishInputs(k, a) = FinishInputs(journal, a)
    BY <1>2 DEF FinishInputs
<1>4. JournalOK(k)
    BY <1>1, <1>2, <1>3, ActionNames DEF JournalOK
<1>5. Agree(k, g, bounds.overdue)
    BY <1>1, <1>2 DEF World, Agree
<1>6. LateOK(k, l) /\ FilesOK(k, files)
    BY <1>1, <1>2 DEF World, LateOK, FilesOK
<1> QED BY <1>1, <1>2, <1>4, <1>5, <1>6 DEF Running, World

LEMMA BegunAtRuns ==
    ASSUME direction \in {"push", "pull"}, NEW j, NEW l, Running(j, guest, l)
    PROVE  /\ Running(j, Settled(BeginAt(guest)), l)
           /\ (Uncommitted(guest) => Uncommitted(Settled(BeginAt(guest))))
<1> PICK g : g = BeginAt(guest)
    OBVIOUS
<1>1. GuestOK(guest, files.source)
    BY DEF Running, World
<1>2. Evolves(guest, g, files.source) /\ GuestOK(g, files.source)
    BY <1>1, BeginOK DEF Evolves
<1>3. Evolves(g, Settled(g), files.source)
    BY <1>2, SettledOK
<1>4. Evolves(guest, Settled(g), files.source)
    BY <1>2, <1>3, EvolvesTwice
<1> QED BY <1>4, RunningMoves

LEMMA BeginCallHolds == ASSUME Now, BeginCall PROVE Holds
<1> PICK j : j = BegunNow
    OBVIOUS
<1>1. host.pc = "begin_call"
    BY DEF BeginCall, At
<1>2. direction \in {"push", "pull"} /\ Running(journal, guest, late) /\ JournalOK(journal) /\ Counters(bounds)
    BY <1>1, NowRuns
<1>3. Running(j, guest, late) /\ j.begun
    BY <1>2, BegunRuns
<1>i. Intended(j, Call("begin")) /\ Call("begin").call = "begin"
    BY CallIsIntended
<1>4. ASSUME NEW g, g = Settled(BeginAt(guest)), guest' = g, Ready(Ingested(j, g), g), UNCHANGED <<late, bounds>>
      PROVE  Holds
  <2>1. Running(j, g, late)
      BY <1>2, <1>3, <1>4, BegunAtRuns
  <2>2. Following(Ingested(j, g), g, late)
      BY <1>2, <1>3, <2>1, StatusFollows
  <2>3. Lands(g, late)
      BY <1>2, <1>4, <2>2, ReadyLands
  <2> QED BY <1>2, <1>4, <2>3, QuietIsTame DEF Holds
<1>5. CASE Unanswered(Call("begin")) /\ Go(j, "ready")
  <2>1. Running(j, guest', late') /\ Tame
      BY <1>2, <1>3, <1>5, <1>i, UnansweredRuns
  <2>2. Lands(guest', late')
      BY <1>3, <1>5, <2>1, GoEasilyLands
  <2> QED BY <2>1, <2>2 DEF Holds
<1>6. CASE Raise(j, "deadline_exceeded") /\ Local
  <2>1. Lands(guest, late)
      BY <1>2, <1>3, <1>6, PlainLands DEF Plain
  <2> QED BY <1>6, <2>1, LocalHolds
<1> QED BY <1>4, <1>5, <1>6 DEF BeginCall, BegunNow

LEMMA VerifyCallHolds == ASSUME Now, VerifyCall PROVE Holds
<1>1. host.pc = "verify_call"
    BY DEF VerifyCall, At
<1>2. direction \in {"push", "pull"} /\ Running(journal, guest, late) /\ JournalOK(journal) /\ Counters(bounds)
      /\ direction = "push" /\ journal.begun /\ (~bounds.overdue => Uncommitted(guest))
    BY <1>1, NowRuns DEF EarlyPcs, RunningOK, FinishingOK, PushPcs
<1>i. Intended(journal, Call("begin")) /\ Call("begin").call = "begin"
    BY CallIsIntended
<1>4. ASSUME NEW g, g = Settled(BeginAt(guest)), guest' = g, VerifyReady(Ingested(journal, g), g),
             UNCHANGED <<late, bounds>>
      PROVE  Holds
  <2>1. Running(journal, g, late) /\ (~bounds.overdue => Uncommitted(g))
      BY <1>2, <1>4, BegunAtRuns
  <2>2. Following(Ingested(journal, g), g, late)
      BY <1>2, <2>1, StatusFollows
  <2>3. Lands(g, late)
      BY <1>2, <1>4, <2>1, <2>2, VerifyReadyLands
  <2> QED BY <1>2, <1>4, <2>3, QuietIsTame DEF Holds
<1>5. CASE Unanswered(Call("begin")) /\ Go(journal, "verify_ready")
  <2>1. Running(journal, guest', late') /\ Tame /\ (~bounds.overdue => Uncommitted(guest'))
      BY <1>2, <1>5, <1>i, UnansweredRuns
  <2>2. Lands(guest', late')
      BY <1>2, <1>5, <2>1, GoPushingLands
  <2> QED BY <2>1, <2>2 DEF Holds
<1> QED BY <1>4, <1>5 DEF VerifyCall

LEMMA SendHolds == ASSUME Now, Send PROVE Holds
<1>1. host.pc = "send"
    BY DEF Send, At
<1>2. direction \in {"push", "pull"} /\ Running(journal, guest, late) /\ JournalOK(journal) /\ Counters(bounds)
      /\ direction = "push" /\ journal.begun /\ (~bounds.overdue => Uncommitted(guest))
    BY <1>1, NowRuns DEF EarlyPcs, RunningOK, FinishingOK, PushPcs
<1>3. journal' = journal /\ files' = files /\ result' = result
    BY DEF Send
<1>i. Intended(journal, Call("chunks")) /\ Call("chunks").call = "chunks"
    BY CallIsIntended
<1>4. ASSUME NEW g, NEW l, Running(journal, g, l), ~bounds.overdue => Uncommitted(g),
             host' \in HostStates, host'.pc \in {"send", "verify_wait"}
      PROVE  Lands(g, l)
  <2>1. RunningOK(host', journal)
      BY <1>2, <1>4 DEF Running, RunningOK, PullPcs
  <2>2. FinishingOK(host', journal, g, bounds.overdue) /\ PublishingOK(host', journal, files) /\ CleaningOK(host', journal, g, files)
      BY <1>4 DEF FinishingOK, PublishingOK, CleaningOK
  <2>3. HostOK(host', journal, g, files, bounds.overdue)
      BY <1>4, <2>1, <2>2 DEF HostOK
  <2> QED BY <1>3, <1>4, <2>3, MoveLands DEF Running
<1>h. host \in HostStates
    BY <1>2 DEF Running
<1>5. CASE Local /\ host' = [host EXCEPT !.pc = "verify_wait", !.back = "prepare"]
  <2>1. host' \in HostStates /\ host'.pc = "verify_wait"
      BY <1>h, <1>5 DEF HostStates, Pcs
  <2>2. Lands(guest, late)
      BY <1>2, <1>4, <2>1
  <2> QED BY <1>5, <2>2, LocalHolds
<1>6. CASE Answered(Call("chunks")) /\ UNCHANGED bounds /\ host' = [host EXCEPT !.sent = TRUE]
  <2>1. Running(journal, guest', late) /\ late' = late /\ (~bounds.overdue => Uncommitted(guest'))
      BY <1>2, <1>6, <1>i, ExecutedRuns DEF Answered
  <2>2. host' \in HostStates /\ host'.pc = "send"
      BY <1>1, <1>h, <1>6 DEF HostStates
  <2>3. Lands(guest', late')
      BY <1>4, <2>1, <2>2
  <2> QED BY <1>2, <1>6, <2>3, QuietIsTame DEF Holds
<1>7. CASE Unanswered(Call("chunks")) /\ host' = [host EXCEPT !.pc = "verify_wait", !.back = "send"]
  <2>1. Running(journal, guest', late') /\ Tame /\ (~bounds.overdue => Uncommitted(guest'))
      BY <1>2, <1>7, <1>i, UnansweredRuns
  <2>2. host' \in HostStates /\ host'.pc = "verify_wait"
      BY <1>h, <1>7 DEF HostStates, Pcs
  <2>3. Lands(guest', late')
      BY <1>4, <2>1, <2>2
  <2> QED BY <2>1, <2>3 DEF Holds
<1> QED BY <1>5, <1>6, <1>7 DEF Send

(* The attempt, counted and made uncertain before the request.             *)
Attempted(action) ==
    [journal EXCEPT !.attempts[action] = journal.attempts[action] + 1,
                    !.unknown = journal.unknown \/ action = "commit"]

LEMMA AttemptedRuns ==
    ASSUME NEW g, NEW l, Running(journal, g, l), journal.begun, NEW action \in Actions,
           journal.attempts[action] < RetryCap, NEW j, j = Attempted(action)
    PROVE  /\ Running(j, g, l) /\ j.begun /\ j.asked = journal.asked /\ j.stable = journal.stable
           /\ j.phase = journal.phase /\ (action = "commit" => j.unknown)
<1>1. World(journal, g, files, l, bounds.overdue) /\ JournalOK(journal) /\ journal \in Journals
    BY DEF Running, World, JournalOK
<1>2. PICK n : n = journal.attempts[action] + 1
    OBVIOUS
<1>3. n \in 0..RetryCap
  <2>1. journal.attempts[action] \in 0..RetryCap
      BY <1>1, JournalFields
  <2> QED BY <1>2, <2>1 DEF RetryCap
<1>4. PICK u \in BOOLEAN : u = (journal.unknown \/ action = "commit")
    BY <1>1, JournalFields
<1>5. j = [journal EXCEPT !.attempts[action] = n, !.unknown = u]
    BY <1>2, <1>4 DEF Attempted
<1>6. j \in Journals
  <2>1. PICK attempts : attempts = [journal.attempts EXCEPT ![action] = n]
      OBVIOUS
  <2>2. attempts \in [Actions -> 0..RetryCap]
      BY <1>1, <1>3, <2>1, JournalFields
  <2>3. j = [journal EXCEPT !.attempts = attempts, !.unknown = u]
      BY <1>1, <1>5, <2>1 DEF Journals
  <2>4. [journal EXCEPT !.attempts = attempts, !.unknown = u] \in Journals
      BY <1>1, <2>2 DEF Journals
  <2> QED BY <2>3, <2>4
<1>7. /\ j.begun = journal.begun /\ j.operations = journal.operations /\ j.prepare = journal.prepare
      /\ j.validation = journal.validation /\ j.publication = journal.publication /\ j.intent = journal.intent
      /\ j.published = journal.published /\ j.unknown = u /\ j.asked = journal.asked
      /\ j.phase = journal.phase /\ j.last = journal.last /\ j.stable = journal.stable
      /\ j.destVerified = journal.destVerified
    BY <1>1, <1>5 DEF Journals
<1>8. \A a \in Actions : FinishInputs(j, a) = FinishInputs(journal, a)
    BY <1>7 DEF FinishInputs
<1>9. JournalOK(j)
    BY <1>1, <1>6, <1>7, <1>8, ActionNames DEF JournalOK
<1>10. Agree(j, g, bounds.overdue)
  <2>1. Agree(journal, g, bounds.overdue)
      BY <1>1 DEF World
  <2>2. direction = "push" => /\ j.publication # None => g.terminal # None /\ j.publication = g.terminal.publication
                              /\ Committed(g) /\ ~bounds.overdue => j.unknown \/ j.published
                              /\ ~Uncommitted(g) /\ ~bounds.overdue => j.stable
      BY <1>4, <1>7, <2>1 DEF Agree
  <2>3. direction = "pull" => (j.intent # None => j.stable \/ InPhase(g, "CHANGED"))
      BY <1>7, <2>1 DEF Agree
  <2> QED BY <1>7, <2>1, <2>2, <2>3 DEF Agree
<1>11. LateOK(j, l) /\ FilesOK(j, files)
    BY <1>1, <1>7 DEF World, LateOK, FilesOK
<1> QED BY <1>1, <1>4, <1>7, <1>9, <1>10, <1>11 DEF Running, World

(* The operation that the answer of transfer_finish carries.               *)
LEMMA AcceptedIngests ==
    ASSUME direction \in {"push", "pull"}, NEW j, NEW g, NEW l, Running(j, g, l),
           NEW action \in Actions, j.asked[action] # None, g.terminal # None, NEW k, k = Accepted(j, g, action)
    PROVE  /\ AcceptError(j, g, action) = None
           /\ Ingests(j, k, g) /\ (k.publication # None => k.prepare # None)
           /\ k.adapterPending = j.adapterPending
<1> PICK t : t = g.terminal
    OBVIOUS
<1>1. /\ World(j, g, files, l, bounds.overdue) /\ JournalOK(j) /\ j \in Journals /\ GuestOK(g, files.source)
      /\ Agree(j, g, bounds.overdue) /\ t \in Snapshots /\ LedgerOK(t)
    BY GuestFields DEF Running, World, JournalOK, GuestOK
<1>i. PICK i : i = Identity(t, action)
    OBVIOUS
<1>2. i \in Identities \cup {None}
    BY <1>1, <1>i, IdentityTypes
<1>3. AcceptError(j, g, action) = None
    BY <1>1 DEF AcceptError, Differs, Agree
<1>o. PICK ops : ops = [j.operations EXCEPT ![action] = i]
    OBVIOUS
<1>4. ops \in [Actions -> Identities \cup {None}]
    BY <1>1, <1>2, <1>o, JournalFields
<1>5. \A a \in Actions : ops[a] = j.operations[a] \/ ops[a] = Identity(t, a)
    BY <1>1, <1>i, <1>o, JournalFields
<1>m. PICK m : m = [j EXCEPT !.operations = ops]
    OBVIOUS
<1>6. /\ m \in Journals /\ m.operations = ops
      /\ m.phase = j.phase /\ m.last = j.last /\ m.begun = j.begun /\ m.validation = j.validation
      /\ m.intent = j.intent /\ m.stable = j.stable /\ m.asked = j.asked /\ m.attempts = j.attempts
      /\ m.destVerified = j.destVerified /\ m.guestClean = j.guestClean /\ m.hostClean = j.hostClean
      /\ m.cleanIntent = j.cleanIntent /\ m.prepare = j.prepare /\ m.publication = j.publication
      /\ m.published = j.published /\ m.unknown = j.unknown /\ m.adapterPending = j.adapterPending
    BY <1>1, <1>4, <1>m DEF Journals
<1>7. m = [j EXCEPT !.operations[action] = Identity(g.terminal, action)]
    BY <1>1, <1>i, <1>o, <1>m DEF Journals
<1>8. CASE Stat(t, action) # "DONE"
  <2>1. k = m
      BY <1>7, <1>8 DEF Accepted, Op, Stat
  <2>2. Ingests(j, m, g)
      BY <1>5, <1>6 DEF Ingests
  <2> QED BY <1>1, <1>3, <1>6, <2>1, <2>2 DEF JournalOK
<1>9. CASE Stat(t, action) = "DONE" /\ action = "prepare"
  <2> PICK p : p = t.prepare
      OBVIOUS
  <2>1. t.prepare # None /\ t.ops[action].result.prepare = t.prepare /\ p \in PrepareReceipts
      BY <1>1, <1>9, SnapshotFields DEF LedgerOK, ReceiptsOK
  <2>k. k = [m EXCEPT !.prepare = p]
      BY <1>7, <1>9, <2>1 DEF Accepted, Op, Stat
  <2>2. /\ k \in Journals /\ k.operations = ops
        /\ k.phase = j.phase /\ k.last = j.last /\ k.begun = j.begun /\ k.validation = j.validation
        /\ k.intent = j.intent /\ k.stable = j.stable /\ k.asked = j.asked /\ k.attempts = j.attempts
        /\ k.destVerified = j.destVerified /\ k.guestClean = j.guestClean /\ k.hostClean = j.hostClean
        /\ k.cleanIntent = j.cleanIntent /\ k.prepare = p /\ k.publication = j.publication
        /\ k.published = j.published /\ k.unknown = j.unknown /\ k.adapterPending = j.adapterPending
      BY <1>6, <2>1, <2>k DEF Journals
  <2>3. Ingests(j, k, g)
      BY <1>5, <2>1, <2>2 DEF Ingests
  <2> QED BY <1>3, <2>1, <2>2, <2>3
<1>10. CASE Stat(t, action) = "DONE" /\ action # "prepare"
  <2> PICK q : q = t.publication
      OBVIOUS
  <2>1. t.ops[action].result.publication = q /\ q # None
    <3>1. CASE action = "commit"
        BY <1>1, <1>10, <3>1 DEF LedgerOK, ReceiptsOK
    <3>2. CASE action = "release"
      <4>1. t.authorized # None
          BY <1>1, <1>10, <3>2 DEF LedgerOK, PhaseOK
      <4> QED BY <1>1, <1>10, <3>2, <4>1 DEF LedgerOK, ReceiptsOK
    <3> QED BY <1>10, <3>1, <3>2 DEF Actions
  <2>2. q \in PublicationReceipts
      BY <1>1, <2>1, SnapshotFields
  <2>k. k = [m EXCEPT !.publication = q, !.published = TRUE, !.unknown = FALSE]
      BY <1>7, <1>10, <2>1 DEF Accepted, Op, Stat
  <2>3. /\ k \in Journals /\ k.operations = ops
        /\ k.phase = j.phase /\ k.last = j.last /\ k.begun = j.begun /\ k.validation = j.validation
        /\ k.intent = j.intent /\ k.stable = j.stable /\ k.asked = j.asked /\ k.attempts = j.attempts
        /\ k.destVerified = j.destVerified /\ k.guestClean = j.guestClean /\ k.hostClean = j.hostClean
        /\ k.cleanIntent = j.cleanIntent /\ k.prepare = j.prepare /\ k.publication = q
        /\ k.published = TRUE /\ k.unknown = FALSE /\ k.adapterPending = j.adapterPending
    <3>1. k \in Journals
        BY <1>6, <2>2, <2>k, ZenonT(60) DEF Journals
    <3>2. /\ k.operations = m.operations /\ k.phase = m.phase /\ k.last = m.last /\ k.begun = m.begun
          /\ k.validation = m.validation /\ k.intent = m.intent /\ k.stable = m.stable /\ k.asked = m.asked
          /\ k.attempts = m.attempts /\ k.destVerified = m.destVerified /\ k.guestClean = m.guestClean
          /\ k.hostClean = m.hostClean /\ k.cleanIntent = m.cleanIntent /\ k.prepare = m.prepare
          /\ k.publication = q /\ k.published = TRUE /\ k.unknown = FALSE
          /\ k.adapterPending = m.adapterPending
        BY <1>6, <2>k DEF Journals
    <3> QED BY <1>6, <3>1, <3>2
  <2>4. Ingests(j, k, g)
      BY <1>5, <2>1, <2>3 DEF Ingests
  <2>5. j.prepare # None
      BY <1>1, <1>10, ActionNames DEF JournalOK, Actions
  <2> QED BY <1>3, <2>3, <2>4, <2>5
<1> QED BY <1>8, <1>9, <1>10

LEMMA AcceptedRuns ==
    ASSUME direction \in {"push", "pull"}, NEW j, NEW g, NEW l, Running(j, g, l), j.begun,
           NEW k, Ingests(j, k, g), k.publication # None => k.prepare # None
    PROVE  Running(k, g, l) /\ k.begun /\ k.asked = j.asked /\ k.stable = j.stable /\ k.phase = j.phase
<1>1. World(j, g, files, l, bounds.overdue)
    BY DEF Running
<1>2. World(k, g, files, l, bounds.overdue)
    BY <1>1, IngestsOK
<1> QED BY <1>2 DEF Running, Ingests

LEMMA PendingRuns ==
    ASSUME direction \in {"push", "pull"}, NEW j, NEW g, NEW l, Running(j, g, l), j.begun,
           NEW k, k = [j EXCEPT !.adapterPending = TRUE]
    PROVE  Running(k, g, l) /\ k.begun /\ k.asked = j.asked /\ k.stable = j.stable /\ k.phase = j.phase
<1>1. World(j, g, files, l, bounds.overdue) /\ JournalOK(j) /\ j \in Journals
    BY DEF Running, World, JournalOK
<1>2. /\ k \in Journals /\ k.begun = j.begun /\ k.operations = j.operations /\ k.prepare = j.prepare
      /\ k.validation = j.validation /\ k.publication = j.publication /\ k.intent = j.intent
      /\ k.published = j.published /\ k.unknown = j.unknown /\ k.asked = j.asked
      /\ k.phase = j.phase /\ k.last = j.last /\ k.stable = j.stable /\ k.destVerified = j.destVerified
    BY <1>1 DEF Journals
<1>3. Restates(j, k, g, bounds.overdue)
    BY <1>1, <1>2 DEF Restates, JournalOK
<1> QED BY <1>1, <1>2, <1>3, RestatesOK DEF Running

(* A request that is about to be sent, and what its answer is taken for.   *)
RequestNow == [call |-> host.action, inputs |-> journal.asked[host.action]]

LEMMA RequestPrepares ==
    ASSUME Now, host.pc = "request", NEW a, a = host.action, NEW j, j = Attempted(a)
    PROVE  /\ a \in Actions /\ journal.begun /\ journal.attempts[a] < RetryCap /\ journal.asked[a] # None
           /\ Running(j, guest, late) /\ j.begun /\ j.asked = journal.asked /\ j.stable = journal.stable
           /\ j.phase = journal.phase /\ Intended(j, RequestNow) /\ RequestNow.call = a
           /\ j = [journal EXCEPT !.attempts[a] = @ + 1, !.unknown = @ \/ a = "commit"]
<1> PICK r : r = RequestNow
    OBVIOUS
<1>1. /\ Running(journal, guest, late) /\ journal \in Journals
      /\ journal.begun /\ FinishingOK(host, journal, guest, bounds.overdue) /\ a \in Actions
    BY NowRuns DEF EarlyPcs, Running, HostStates
<1>2. /\ journal.attempts[a] < RetryCap /\ journal.asked[a] # None
      /\ a = "commit" => journal.stable \/ bounds.overdue
    BY <1>1 DEF FinishingOK
<1>3. /\ Running(j, guest, late) /\ j.begun /\ j.asked = journal.asked /\ j.stable = journal.stable
      /\ j.phase = journal.phase /\ (a = "commit" => j.unknown)
    BY <1>1, <1>2, AttemptedRuns
<1>4. Intended(j, r) /\ r.call = a
  <2>1. journal.asked[a] \in Inputs
      BY <1>1, <1>2, JournalFields
  <2>2. r \in Requests /\ r.call = a /\ r.inputs = journal.asked[a]
      BY <1>1, <2>1 DEF Requests, RequestNow
  <2> QED BY <1>2, <1>3, <2>2 DEF Intended
<1>5. j = [journal EXCEPT !.attempts[a] = @ + 1, !.unknown = @ \/ a = "commit"]
    BY <1>1, JournalFields DEF Attempted, Journals
<1> QED BY <1>1, <1>2, <1>3, <1>4, <1>5

LEMMA AnswerPrepares ==
    ASSUME Now, host.pc = "request", NEW a, a = host.action, NEW j, j = Attempted(a), Answered(RequestNow)
    PROVE  /\ Running(j, guest', late) /\ late' = late /\ guest' \in FinishAt(guest, a, journal.asked[a])
           /\ (a # "commit" /\ Uncommitted(guest) => Uncommitted(guest'))
           /\ guest.terminal # None /\ guest'.terminal # None /\ AcceptError(j, guest', a) = None
           /\ Ingests(j, Accepted(j, guest', a), guest') /\ Running(Accepted(j, guest', a), guest', late)
           /\ Accepted(j, guest', a).adapterPending = j.adapterPending
<1> PICK r : r = RequestNow
    OBVIOUS
<1> PICK g : g = guest'
    OBVIOUS
<1> PICK k : k = Accepted(j, g, a)
    OBVIOUS
<1>1. /\ direction \in {"push", "pull"} /\ JournalOK(journal) /\ GuestOK(guest, files.source)
    BY NowRuns
<1>2. /\ a \in Actions /\ journal.asked[a] # None /\ Running(j, guest, late) /\ j.begun
      /\ j.asked = journal.asked /\ Intended(j, r) /\ r.call = a /\ r.inputs = journal.asked[a]
    BY RequestPrepares, Zenon DEF RequestNow
<1>3. Running(j, g, late) /\ late' = late /\ (a # "commit" /\ Uncommitted(guest) => Uncommitted(g))
    BY <1>1, <1>2, ExecutedRuns DEF Answered
<1>4. g \in FinishAt(guest, a, journal.asked[a])
    BY <1>2 DEF Answered, Executed, Actions
<1>5. guest.terminal # None
    BY <1>2 DEF Answered, Answers, FinishStarts, FinishReplays, Actions
<1>6. Follows(guest, g)
    BY <1>1, <1>2, ExecutedOK DEF Answered, Intended
<1>7. g.terminal # None
    BY <1>5, <1>6 DEF Follows, Keeps
<1>8. /\ AcceptError(j, g, a) = None /\ Ingests(j, k, g) /\ (k.publication # None => k.prepare # None)
      /\ k.adapterPending = j.adapterPending
    BY <1>1, <1>2, <1>3, <1>7, AcceptedIngests
<1>9. Running(k, g, late)
    BY <1>1, <1>2, <1>3, <1>8, AcceptedRuns
<1> QED BY <1>3, <1>4, <1>5, <1>7, <1>8, <1>9

LEMMA RequestHolds == ASSUME Now, Request PROVE Holds
<1> PICK a : a = host.action
    OBVIOUS
<1> PICK j : j = Attempted(a)
    OBVIOUS
<1> PICK r : r = RequestNow
    OBVIOUS
<1>1. host.pc = "request"
    BY DEF Request, At
<1>2. /\ direction \in {"push", "pull"} /\ JournalOK(journal) /\ Counters(bounds)
      /\ FinishingOK(host, journal, guest, bounds.overdue)
    BY <1>1, NowRuns
<1>3. /\ a = "prepare" /\ direction = "push" /\ ~bounds.overdue => Uncommitted(guest)
      /\ a = "commit" => direction = "push" /\ (journal.stable \/ bounds.overdue)
      /\ a = "release" => journal.phase = "CLEANING"
    BY <1>1, <1>2 DEF FinishingOK
<1>4. /\ a \in Actions /\ journal.asked[a] # None /\ Running(j, guest, late) /\ j.begun
      /\ j.asked = journal.asked /\ j.stable = journal.stable /\ j.phase = journal.phase
      /\ Intended(j, r) /\ r.call = a /\ j = [journal EXCEPT !.attempts[a] = @ + 1, !.unknown = @ \/ a = "commit"]
    BY <1>1, RequestPrepares, Zenon
<1>5. ASSUME NEW k, NEW g, NEW l, Running(k, g, l), k.begun, k.asked = j.asked, k.stable = j.stable, k.phase = j.phase,
             a # "commit" /\ Uncommitted(guest) => Uncommitted(g), Go(k, "poll")
      PROVE  Lands(g, l)
  <2>1. Finishing(a, k, g)
      BY <1>3, <1>4, <1>5 DEF Finishing
  <2> QED BY <1>5, <2>1, GoFinishingLands
<1>6. CASE \/ Answered(r) /\ UNCHANGED bounds
              /\ IF AcceptError(j, guest', a) # None THEN Raise(j, AcceptError(j, guest', a))
                 ELSE Go(Accepted(j, guest', a), "poll")
           \/ /\ Answered(r) /\ Faulty
              /\ Go([Accepted(j, guest', a) EXCEPT !.adapterPending = TRUE], "poll")
  <2> PICK g : g = guest'
      OBVIOUS
  <2> PICK k : k = Accepted(j, g, a)
      OBVIOUS
  <2>1. /\ late' = late /\ (a # "commit" /\ Uncommitted(guest) => Uncommitted(g))
        /\ AcceptError(j, g, a) = None /\ Ingests(j, k, g) /\ Running(k, g, late)
      BY <1>1, <1>6, AnswerPrepares
  <2>2. k.begun /\ k.asked = j.asked /\ k.stable = j.stable /\ k.phase = j.phase
      BY <1>4, <2>1, Zenon DEF Ingests
  <2>3. CASE UNCHANGED bounds /\ Go(k, "poll")
    <3>1. Lands(g, late)
        BY <1>5, <2>1, <2>2, <2>3
    <3> QED BY <1>2, <2>1, <2>3, <3>1, QuietIsTame DEF Holds
  <2>4. CASE Faulty /\ Go([k EXCEPT !.adapterPending = TRUE], "poll")
    <3> PICK m : m = [k EXCEPT !.adapterPending = TRUE]
        OBVIOUS
    <3>1. Running(m, g, late) /\ m.begun /\ m.asked = k.asked /\ m.stable = k.stable /\ m.phase = k.phase
        BY <1>2, <2>1, <2>2, PendingRuns
    <3>2. m.asked = j.asked /\ m.stable = j.stable /\ m.phase = j.phase /\ Go(m, "poll")
        BY <2>2, <2>4, <3>1
    <3>3. Lands(g, late)
        BY <1>5, <2>1, <3>1, <3>2
    <3> QED BY <1>2, <2>1, <2>4, <3>3, FaultyIsTame DEF Holds
  <2> QED BY <1>6, <2>1, <2>3, <2>4
<1>7. CASE Unanswered(r) /\ Go(j, "poll")
  <2>1. Running(j, guest', late') /\ Tame /\ (a # "commit" /\ Uncommitted(guest) => Uncommitted(guest'))
      BY <1>2, <1>4, <1>7, UnansweredRuns
  <2>2. Lands(guest', late')
      BY <1>4, <1>5, <1>7, <2>1
  <2> QED BY <2>1, <2>2 DEF Holds
<1>8. CASE Raise(j, "deadline_exceeded") /\ Local
  <2>1. Lands(guest, late)
      BY <1>2, <1>4, <1>8, PlainLands DEF Plain
  <2> QED BY <1>8, <2>1, LocalHolds
<1> QED BY <1>4, <1>6, <1>7, <1>8 DEF Request, RequestNow

(* The source check of a push.                                             *)
LEMMA ValidatedRuns ==
    ASSUME direction = "push", NEW g, NEW l, Running(journal, g, l), journal.begun, journal.prepare # None,
           NEW r, r = [binding |-> "K", prepare |-> journal.prepare, id |-> journal.prepare.id],
           NEW k, k = [journal EXCEPT !.validation = r, !.stable = TRUE]
    PROVE  /\ journal.validation \in {None, r} /\ Running(k, g, l) /\ k.begun /\ k.stable
           /\ k.prepare # None /\ k.validation # None
<1>1. World(journal, g, files, l, bounds.overdue) /\ JournalOK(journal) /\ journal \in Journals
    BY DEF Running, World, JournalOK
<1>2. journal.validation \in {None, r}
    BY <1>1 DEF JournalOK
<1>3. r \in ValidationReceipts /\ r # None
  <2>1. journal.prepare \in PrepareReceipts
      BY <1>1, JournalFields
  <2>2. journal.prepare.id \in Ids
      BY <2>1 DEF PrepareReceipts
  <2>3. r \in ValidationReceipts
      BY <2>1, <2>2 DEF ValidationReceipts, Bindings
  <2> QED BY <2>3, NoneIsAbsent
<1>4. /\ k \in Journals /\ k.begun = journal.begun /\ k.operations = journal.operations
      /\ k.prepare = journal.prepare /\ k.validation = r /\ k.publication = journal.publication
      /\ k.intent = journal.intent /\ k.published = journal.published /\ k.unknown = journal.unknown
      /\ k.asked = journal.asked /\ k.phase = journal.phase /\ k.last = journal.last /\ k.stable = TRUE
      /\ k.destVerified = journal.destVerified
    BY <1>1, <1>3 DEF Journals
<1>5. k.asked["commit"] # None => k.asked["commit"] = FinishInputs(k, "commit")
    BY <1>1, <1>2, <1>4 DEF JournalOK, FinishInputs
<1>6. k.asked["release"] # None => k.asked["release"] = FinishInputs(k, "release")
    BY <1>1, <1>4 DEF JournalOK, FinishInputs
<1>7. JournalOK(k)
    BY <1>1, <1>3, <1>4, <1>5, <1>6 DEF JournalOK
<1>8. Agree(k, g, bounds.overdue)
    BY <1>1, <1>4 DEF World, Agree
<1>9. LateOK(k, l) /\ FilesOK(k, files)
    BY <1>1, <1>4 DEF World, LateOK, FilesOK
<1> QED BY <1>1, <1>2, <1>3, <1>4, <1>7, <1>8, <1>9 DEF Running, World

LEMMA ValidateHolds == ASSUME Now, Validate PROVE Holds
<1> PICK r : r = [binding |-> "K", prepare |-> journal.prepare, id |-> journal.prepare.id]
    OBVIOUS
<1> PICK k : k = [journal EXCEPT !.validation = r, !.stable = TRUE]
    OBVIOUS
<1>1. host.pc = "validate" /\ Local
    BY DEF Validate, At
<1>2. direction = "push" /\ Running(journal, guest, late) /\ journal.begun /\ journal.prepare # None
      /\ (~bounds.overdue => Uncommitted(guest))
    BY <1>1, NowRuns DEF EarlyPcs, RunningOK, FinishingOK, PushPcs
<1>3. /\ journal.validation \in {None, r} /\ Running(k, guest, late) /\ k.begun /\ k.stable
      /\ k.prepare # None /\ k.validation # None
    BY <1>2, ValidatedRuns, Zenon
<1>4. CASE files.source = "changed"
  <2>1. Raise(journal, "source_changed")
      BY <1>4 DEF Validate
  <2>2. "source_changed" \in HostErrors
      BY DEF HostErrors
  <2>3. Just(journal, guest, "source_changed")
      BY <1>2, <1>4, <2>2 DEF Just, Calm, Unstable
  <2>4. Lands(guest, late)
      BY <1>2, <2>1, <2>3, RaiseLands
  <2> QED BY <1>1, <2>4, LocalHolds
<1>5. CASE files.source # "changed"
  <2>1. EnterFinish(k, "commit")
      BY <1>3, <1>5 DEF Validate
  <2>2. Lands(guest, late)
      BY <1>2, <1>3, <2>1, EnterFinishLands, ActionNames
  <2> QED BY <1>1, <2>2, LocalHolds
<1> QED BY <1>4, <1>5

(* A pull on its way to the destination: the file steps.                   *)
LEMMA PullFilesLand ==
    ASSUME direction = "pull", NEW j, NEW g, NEW l, Running(j, g, l), j.begun, NEW f,
           FilesOK(j, f), f.source = files.source,
           NEW pc \in {"stage", "register_stage", "mark"}, host' = [host EXCEPT !.pc = pc],
           journal' = j, files' = f, result' = result,
           pc \in {"stage", "register_stage"} => j.intent = None,
           pc = "mark" => j.intent # None /\ f.stage = "none" /\ f.dest # "none"
    PROVE  Lands(g, l)
<1>1. host' \in HostStates /\ host'.pc = pc
    BY DEF Running, HostStates, Pcs
<1>2. RunningOK(host', j)
    BY <1>1 DEF Running, RunningOK, PushPcs
<1>3. FinishingOK(host', j, g, bounds.overdue) /\ PublishingOK(host', j, f) /\ CleaningOK(host', j, g, f)
    BY <1>1 DEF FinishingOK, PublishingOK, CleaningOK
<1>4. HostOK(host', j, g, f, bounds.overdue)
    BY <1>1, <1>2, <1>3 DEF HostOK
<1> QED BY <1>4, FilesLand

LEMMA ChunksHolds == ASSUME Now, Chunks PROVE Holds
<1>1. host.pc = "chunks"
    BY DEF Chunks, At
<1>2. direction = "pull" /\ Running(journal, guest, late) /\ journal.begun /\ journal.intent = None
    BY <1>1, NowRuns DEF EarlyPcs, RunningOK, PublishingOK, PullPcs
<1>3. CASE /\ files' = [files EXCEPT !.temp = "ready"]
           /\ journal' = SetPhase(journal, "VERIFYING")
           /\ host' = [host EXCEPT !.pc = "stage"]
           /\ UNCHANGED result /\ Local
  <2> PICK k : k = SetPhase(journal, "VERIFYING")
      OBVIOUS
  <2> PICK f : f = [files EXCEPT !.temp = "ready"]
      OBVIOUS
  <2>1. Running(k, guest, late) /\ OnlyPhase(journal, k)
      BY <1>2, PhasedRuns, PhaseNames
  <2>2. k.begun /\ k.intent = None
      BY <1>2, <2>1 DEF OnlyPhase
  <2>3. FilesOK(k, files)
      BY <2>1 DEF Running, World
  <2>4. FilesOK(k, f) /\ f.source = files.source
      BY <2>3, TempOK
  <2>5. Lands(guest, late)
      BY <1>2, <1>3, <2>1, <2>2, <2>4, PullFilesLand
  <2> QED BY <1>3, <2>5, LocalHolds
<1>4. CASE Raise(journal, "transfer_cancelled") /\ Local
  <2>1. Lands(guest, late)
      BY <1>2, <1>4, PlainLands DEF Plain
  <2> QED BY <1>4, <2>1, LocalHolds
<1>5. CASE Faulty /\ Raise(journal, "outcome_unknown") /\ UNCHANGED <<guest, late>>
  <2>1. Lands(guest, late)
      BY <1>2, <1>5, PlainLands DEF Plain
  <2> QED BY <1>5, <2>1, FaultHolds
<1> QED BY <1>3, <1>4, <1>5 DEF Chunks

(* Before an intent the destination is somebody else's, if it is taken.    *)
LEMMA TakenByOthers ==
    ASSUME NEW j, NEW g, FilesOK(j, files), j.intent = None, ~Vacant
    PROVE  Just(j, g, "destination_exists")
<1>1. files.dest = "foreign"
    BY DEF FilesOK, FileStates, Vacant
<1>2. "destination_exists" \in HostErrors
    BY DEF HostErrors
<1> QED BY <1>1, <1>2 DEF Just, Calm

LEMMA StageOK ==
    ASSUME direction = "pull", NEW j, JournalOK(j), j.intent = None, FilesOK(j, files),
           NEW stage \in {"unregistered", "registered", "full"}, NEW f, f = [files EXCEPT !.stage = stage]
    PROVE  FilesOK(j, f) /\ f.source = files.source
BY DEF FilesOK, FileStates, JournalOK

LEMMA StageHolds == ASSUME Now, Stage PROVE Holds
<1>1. host.pc = "stage" /\ Local
    BY DEF Stage, At
<1>2. direction = "pull" /\ Running(journal, guest, late) /\ journal.begun /\ journal.intent = None
      /\ FilesOK(journal, files) /\ JournalOK(journal)
    BY <1>1, NowRuns DEF EarlyPcs, RunningOK, PublishingOK, PullPcs
<1>3. CASE ~Vacant /\ Raise(journal, "destination_exists")
  <2>1. Lands(guest, late)
      BY <1>2, <1>3, TakenByOthers, RaiseLands
  <2> QED BY <1>1, <2>1, LocalHolds
<1>4. CASE Raise(journal, "stage_reconcile_required")
  <2>1. Lands(guest, late)
      BY <1>2, <1>4, PlainLands DEF Plain
  <2> QED BY <1>1, <2>1, LocalHolds
<1>5. CASE /\ files' = [files EXCEPT !.stage = IF @ = "none" THEN "unregistered" ELSE "full"]
           /\ host' = [host EXCEPT !.pc = IF files.stage = "none" THEN "register_stage" ELSE "stage"]
           /\ UNCHANGED <<journal, result>>
  <2> PICK stage : stage = IF files.stage = "none" THEN "unregistered" ELSE "full"
      OBVIOUS
  <2> PICK pc : pc = IF files.stage = "none" THEN "register_stage" ELSE "stage"
      OBVIOUS
  <2> PICK f : f = [files EXCEPT !.stage = stage]
      OBVIOUS
  <2>1. stage \in {"unregistered", "registered", "full"} /\ pc \in {"stage", "register_stage", "mark"} /\ pc # "mark"
      OBVIOUS
  <2>2. files' = f
      BY <1>2, <1>5 DEF FilesOK, FileStates
  <2>3. FilesOK(journal, f) /\ f.source = files.source
      BY <1>2, <2>1, StageOK
  <2>4. Lands(guest, late)
      BY <1>2, <1>5, <2>1, <2>2, <2>3, PullFilesLand
  <2> QED BY <1>1, <2>4, LocalHolds
<1>6. CASE EnterFinish(journal, "prepare")
  <2>1. Lands(guest, late)
      BY <1>2, <1>6, EnterFinishLands, ActionNames
  <2> QED BY <1>1, <2>1, LocalHolds
<1> QED BY <1>3, <1>4, <1>5, <1>6 DEF Stage

LEMMA RegisterStageHolds == ASSUME Now, RegisterStage PROVE Holds
<1>1. host.pc = "register_stage" /\ Local
    BY DEF RegisterStage, At
<1>2. direction = "pull" /\ Running(journal, guest, late) /\ journal.begun /\ journal.intent = None
      /\ FilesOK(journal, files) /\ JournalOK(journal)
    BY <1>1, NowRuns DEF EarlyPcs, RunningOK, PublishingOK, PullPcs
<1> PICK f : f = [files EXCEPT !.stage = "registered"]
    OBVIOUS
<1>3. FilesOK(journal, f) /\ f.source = files.source
    BY <1>2, StageOK
<1>4. journal' = journal /\ files' = f /\ result' = result /\ host' = [host EXCEPT !.pc = "stage"]
    BY DEF RegisterStage
<1>5. Lands(guest, late)
    BY <1>2, <1>3, <1>4, PullFilesLand
<1> QED BY <1>1, <1>5, LocalHolds

LEMMA IntendedRuns ==
    ASSUME direction = "pull", NEW g, NEW l, Running(journal, g, l), journal.begun, journal.prepare # None,
           journal.intent = None, journal.stable, NEW i \in Ids,
           NEW r, r = [binding |-> "K", prepare |-> journal.prepare, id |-> i],
           NEW k, k = [journal EXCEPT !.intent = r]
    PROVE  Running(k, g, l) /\ k.begun /\ k.intent # None
<1>1. World(journal, g, files, l, bounds.overdue) /\ JournalOK(journal) /\ journal \in Journals
    BY DEF Running, World, JournalOK
<1>2. r \in PublicationReceipts /\ r # None
  <2>1. journal.prepare \in PrepareReceipts
      BY <1>1, JournalFields
  <2>2. r \in PublicationReceipts
      BY <2>1 DEF PublicationReceipts, Bindings
  <2> QED BY <2>2, NoneIsAbsent
<1>3. /\ k \in Journals /\ k.begun = journal.begun /\ k.operations = journal.operations
      /\ k.prepare = journal.prepare /\ k.validation = journal.validation /\ k.publication = journal.publication
      /\ k.intent = r /\ k.published = journal.published /\ k.unknown = journal.unknown
      /\ k.asked = journal.asked /\ k.phase = journal.phase /\ k.last = journal.last /\ k.stable = journal.stable
      /\ k.destVerified = journal.destVerified
  <2>1. k \in Journals
      BY <1>1, <1>2 DEF Journals
  <2>2. /\ k.begun = journal.begun /\ k.operations = journal.operations
        /\ k.prepare = journal.prepare /\ k.validation = journal.validation
        /\ k.publication = journal.publication /\ k.intent = r /\ k.published = journal.published
        /\ k.unknown = journal.unknown
      BY <1>1 DEF Journals
  <2>3. /\ k.asked = journal.asked /\ k.phase = journal.phase /\ k.last = journal.last
        /\ k.stable = journal.stable /\ k.destVerified = journal.destVerified
      BY <1>1 DEF Journals
  <2> QED BY <2>1, <2>2, <2>3
<1>4. journal.publication = None
    BY <1>1 DEF JournalOK
<1>5. \A a \in Actions : FinishInputs(k, a) = FinishInputs(journal, a)
    BY <1>3 DEF FinishInputs
<1>6. JournalOK(k)
    BY <1>1, <1>2, <1>3, <1>4, <1>5, ActionNames DEF JournalOK
<1>7. Agree(k, g, bounds.overdue)
    BY <1>1, <1>3 DEF World, Agree
<1>8. LateOK(k, l) /\ FilesOK(k, files)
    BY <1>1, <1>2, <1>3 DEF World, LateOK, FilesOK
<1> QED BY <1>1, <1>2, <1>3, <1>6, <1>7, <1>8 DEF Running, World

LEMMA PublishHolds == ASSUME Now, Publish PROVE Holds
<1>1. host.pc = "publish" /\ Local
    BY DEF Publish, At
<1>2. direction = "pull" /\ Running(journal, guest, late) /\ journal.begun /\ JournalOK(journal)
      /\ journal.prepare # None /\ (journal.intent # None \/ journal.stable)
      /\ FilesOK(journal, files) /\ GuestOK(guest, files.source)
    BY <1>1, NowRuns DEF EarlyPcs, RunningOK, PublishingOK, PullPcs
<1>3. CASE journal.intent # None
  <2>1. Go(journal, "rename")
      BY <1>3 DEF Publish
  <2>2. Lands(guest, late)
      BY <1>2, <1>3, <2>1, GoPublishingLands
  <2> QED BY <1>1, <2>2, LocalHolds
<1>4. CASE journal.intent = None /\ ~Vacant
  <2>1. Raise(journal, "destination_exists")
      BY <1>4 DEF Publish
  <2>2. Just(journal, guest, "destination_exists")
      BY <1>2, <1>4, TakenByOthers
  <2>3. Lands(guest, late)
      BY <1>2, <2>1, <2>2, RaiseLands
  <2> QED BY <1>1, <2>3, LocalHolds
<1>5. CASE journal.intent = None /\ Vacant
  <2> PICK i : i = FreshId
      OBVIOUS
  <2> PICK r : r = [binding |-> "K", prepare |-> journal.prepare, id |-> i]
      OBVIOUS
  <2> PICK k : k = [journal EXCEPT !.intent = r]
      OBVIOUS
  <2>1. i \in Ids
      BY <1>2, FreshIsFree
  <2>2. Running(k, guest, late) /\ k.begun /\ k.intent # None
      BY <1>2, <1>5, <2>1, IntendedRuns
  <2>3. Go(k, "rename")
      BY <1>5 DEF Publish
  <2>4. Lands(guest, late)
      BY <1>2, <2>2, <2>3, GoPublishingLands
  <2> QED BY <1>1, <2>4, LocalHolds
<1> QED BY <1>3, <1>4, <1>5

(* The rename is recorded: there is an intent and the tree was there.      *)
MarkedNow == [journal EXCEPT !.published = TRUE]

LEMMA MarkedRuns ==
    ASSUME direction = "pull", NEW g, NEW l, Running(journal, g, l), journal.begun, journal.intent # None,
           files.stage = "none" /\ files.dest # "none"
    PROVE  Running(MarkedNow, g, l) /\ MarkedNow.begun /\ MarkedNow.published
<1> PICK k : k = MarkedNow
    OBVIOUS
<1>1. World(journal, g, files, l, bounds.overdue) /\ JournalOK(journal) /\ journal \in Journals
    BY DEF Running, World, JournalOK
<1>3. /\ k \in Journals /\ k.begun = journal.begun /\ k.operations = journal.operations
      /\ k.prepare = journal.prepare /\ k.validation = journal.validation /\ k.publication = journal.publication
      /\ k.intent = journal.intent /\ k.published = TRUE /\ k.unknown = journal.unknown
      /\ k.asked = journal.asked /\ k.phase = journal.phase /\ k.last = journal.last /\ k.stable = journal.stable
      /\ k.destVerified = journal.destVerified
    BY <1>1 DEF Journals, MarkedNow
<1>5. \A a \in Actions : FinishInputs(k, a) = FinishInputs(journal, a)
    BY <1>3 DEF FinishInputs
<1>6. JournalOK(k)
    BY <1>1, <1>3, <1>5, ActionNames DEF JournalOK
<1>7. Agree(k, g, bounds.overdue)
    BY <1>1, <1>3 DEF World, Agree
<1>8. LateOK(k, l) /\ FilesOK(k, files)
    BY <1>1, <1>3 DEF World, LateOK, FilesOK
<1> QED BY <1>1, <1>3, <1>6, <1>7, <1>8 DEF Running, World

LEMMA RenameHolds == ASSUME Now, Rename PROVE Holds
<1>1. host.pc = "rename" /\ Local
    BY DEF Rename, At
<1>2. direction = "pull" /\ Running(journal, guest, late) /\ journal.begun /\ JournalOK(journal)
      /\ journal.intent # None /\ FilesOK(journal, files) /\ journal \in Journals
    BY <1>1, NowRuns DEF EarlyPcs, RunningOK, PublishingOK, PullPcs
<1>3. CASE files.dest = "ours" /\ Go(MarkedNow, "receipt")
  <2>1. files.stage = "none"
      BY <1>2, <1>3 DEF FilesOK
  <2>2. Running(MarkedNow, guest, late) /\ MarkedNow.begun /\ MarkedNow.published
      BY <1>2, <1>3, <2>1, MarkedRuns
  <2>3. Lands(guest, late)
      BY <1>2, <1>3, <2>2, GoEasilyLands
  <2> QED BY <1>1, <2>3, LocalHolds
<1>4. CASE files.dest \in {"altered", "pruned"} /\ Raise(MarkedNow, DestinationError)
  <2>1. files.stage = "none"
      BY <1>2, <1>4 DEF FilesOK
  <2>2. Running(MarkedNow, guest, late)
      BY <1>2, <1>4, <2>1, MarkedRuns
  <2>3. DestinationError # None
    <3>1. DestinationError \in HostErrors
        BY <1>4 DEF DestinationError, HostErrors
    <3> QED BY <3>1, NoneIsAbsent
  <2>4. Lands(guest, late)
      BY <1>2, <1>4, <2>2, <2>3, DestinationErrorLands
  <2> QED BY <1>1, <2>4, LocalHolds
<1>5. CASE files.dest = "foreign" /\ Raise(journal, DestinationError)
  <2>3. DestinationError # None
    <3>1. DestinationError \in HostErrors
        BY <1>5 DEF DestinationError, HostErrors
    <3> QED BY <3>1, NoneIsAbsent
  <2>4. Lands(guest, late)
      BY <1>2, <1>5, <2>3, DestinationErrorLands
  <2> QED BY <1>1, <2>4, LocalHolds
<1>6. CASE Vacant /\ journal.published /\ Raise(journal, "published_destination_missing")
  <2>1. files.dest = "removed"
      BY <1>2, <1>6 DEF FilesOK, Vacant
  <2>2. "published_destination_missing" \in HostErrors
      BY DEF HostErrors
  <2>3. Just(journal, guest, "published_destination_missing")
      BY <2>1, <2>2 DEF Just, Calm
  <2>4. Lands(guest, late)
      BY <1>2, <1>6, <2>3, RaiseLands
  <2> QED BY <1>1, <2>4, LocalHolds
<1>7. CASE Raise([journal EXCEPT !.unknown = TRUE], "publication_outcome_unknown")
  <2> PICK k : k = [journal EXCEPT !.unknown = TRUE]
      OBVIOUS
  <2>1. World(journal, guest, files, late, bounds.overdue)
      BY <1>2 DEF Running
  <2>2. /\ k \in Journals /\ k.begun = journal.begun /\ k.operations = journal.operations
        /\ k.prepare = journal.prepare /\ k.validation = journal.validation /\ k.publication = journal.publication
        /\ k.intent = journal.intent /\ k.published = journal.published /\ k.unknown = TRUE
        /\ k.asked = journal.asked /\ k.phase = journal.phase /\ k.last = journal.last /\ k.stable = journal.stable
        /\ k.destVerified = journal.destVerified
      BY <1>2 DEF Journals
  <2>3. \A a \in Actions : FinishInputs(k, a) = FinishInputs(journal, a)
      BY <2>2 DEF FinishInputs
  <2>4. JournalOK(k)
      BY <1>2, <2>2, <2>3, ActionNames DEF JournalOK
  <2>5. Agree(k, guest, bounds.overdue)
      BY <2>1, <2>2 DEF World, Agree
  <2>6. LateOK(k, late) /\ FilesOK(k, files)
      BY <2>1, <2>2 DEF World, LateOK, FilesOK
  <2>7. Running(k, guest, late)
      BY <1>2, <2>1, <2>2, <2>4, <2>5, <2>6 DEF Running, World
  <2>8. Lands(guest, late)
      BY <1>2, <1>7, <2>7, PlainLands DEF Plain
  <2> QED BY <1>1, <2>8, LocalHolds
<1>8. CASE /\ Vacant /\ ~journal.published
           /\ files' = [files EXCEPT !.dest = "ours", !.stage = "none"]
           /\ host' = [host EXCEPT !.pc = "mark"]
           /\ UNCHANGED <<journal, result>>
  <2> PICK f : f = [files EXCEPT !.dest = "ours", !.stage = "none"]
      OBVIOUS
  <2>1. f \in FileStates /\ f.source = files.source /\ f.dest = "ours" /\ f.stage = "none"
      BY <1>2 DEF FilesOK, FileStates
  <2>2. FilesOK(journal, f)
      BY <1>2, <2>1 DEF FilesOK
  <2>3. Lands(guest, late)
      BY <1>2, <1>8, <2>1, <2>2, PullFilesLand
  <2> QED BY <1>1, <2>3, LocalHolds
<1> QED BY <1>3, <1>4, <1>5, <1>6, <1>7, <1>8 DEF Rename, MarkedNow

LEMMA MarkPublishedHolds == ASSUME Now, MarkPublished PROVE Holds
<1>1. host.pc = "mark" /\ Local
    BY DEF MarkPublished, At
<1>2. direction = "pull" /\ Running(journal, guest, late) /\ journal.begun
      /\ journal.intent # None /\ files.stage = "none" /\ files.dest # "none"
    BY <1>1, NowRuns DEF EarlyPcs, RunningOK, PublishingOK, PullPcs
<1>3. Running(MarkedNow, guest, late) /\ MarkedNow.begun /\ MarkedNow.published
    BY <1>2, MarkedRuns
<1>4. CASE DestinationError # None
  <2>1. Raise(MarkedNow, DestinationError)
      BY <1>4 DEF MarkPublished, MarkedNow
  <2>2. Lands(guest, late)
      BY <1>2, <1>3, <1>4, <2>1, DestinationErrorLands
  <2> QED BY <1>1, <2>2, LocalHolds
<1>5. CASE DestinationError = None
  <2>1. Go(MarkedNow, "receipt")
      BY <1>5 DEF MarkPublished, MarkedNow
  <2>2. Lands(guest, late)
      BY <1>2, <1>3, <2>1, GoEasilyLands
  <2> QED BY <1>1, <2>2, LocalHolds
<1> QED BY <1>4, <1>5

(* What a step of the host leaves of the journal as it was.                *)
Same(j, k) ==
    /\ k.attempts = j.attempts /\ k.adapterPending = j.adapterPending /\ k.begun = j.begun
    /\ k.intent = j.intent /\ k.published = j.published

LEMMA ReceiptRuns ==
    ASSUME Now, host.pc = "receipt",
           NEW k, k = [journal EXCEPT !.publication = journal.intent, !.phase = "PUBLISHED"]
    PROVE  /\ direction = "pull" /\ journal.begun /\ journal.prepare # None /\ journal.intent # None
           /\ Running(k, guest, late) /\ Same(journal, k) /\ k.published
           /\ k.prepare = journal.prepare /\ k.publication = journal.intent
<1>2. /\ direction = "pull" /\ Running(journal, guest, late) /\ journal.begun /\ journal.published
      /\ World(journal, guest, files, late, bounds.overdue) /\ JournalOK(journal) /\ journal \in Journals
      /\ Agree(journal, guest, bounds.overdue) /\ GuestOK(guest, files.source)
    BY NowRuns DEF EarlyPcs, RunningOK, PublishingOK, PullPcs
<1>3. journal.intent # None /\ journal.prepare # None
    BY <1>2 DEF JournalOK
<1>4. /\ k \in Journals /\ k.begun = journal.begun /\ k.operations = journal.operations
      /\ k.prepare = journal.prepare /\ k.validation = journal.validation /\ k.publication = journal.intent
      /\ k.intent = journal.intent /\ k.published = journal.published /\ k.unknown = journal.unknown
      /\ k.asked = journal.asked /\ k.phase = "PUBLISHED" /\ k.last = journal.last /\ k.stable = journal.stable
      /\ k.destVerified = journal.destVerified /\ k.attempts = journal.attempts
      /\ k.adapterPending = journal.adapterPending
  <2>1. journal.intent \in PublicationReceipts /\ "PUBLISHED" \in HostPhases
      BY <1>2, <1>3, JournalFields, PhaseNames
  <2> QED BY <1>2, <2>1 DEF Journals
<1>5. journal.publication # None => journal.publication = k.publication
    BY <1>2, <1>4 DEF JournalOK
<1>6. k.asked["commit"] # None => k.asked["commit"] = FinishInputs(k, "commit")
    BY <1>2, <1>4 DEF JournalOK, FinishInputs
<1>7. k.asked["release"] # None => k.asked["release"] = FinishInputs(k, "release")
    BY <1>2, <1>4, <1>5 DEF JournalOK, FinishInputs
<1>8. JournalOK(k)
    BY <1>2, <1>3, <1>4, <1>6, <1>7, NoneIsAbsent, PhaseNames DEF Running, JournalOK
<1>9. Agree(k, guest, bounds.overdue)
  <2>1. guest.terminal # None /\ guest.terminal.publication # None => k.publication = guest.terminal.publication
    <3>1. guest.terminal # None /\ guest.terminal.publication # None => journal.publication = guest.terminal.publication
        BY <1>2, PublicationKnown
    <3> QED BY <1>5, <3>1
  <2> QED BY <1>2, <1>4, <2>1 DEF Agree
<1>10. LateOK(k, late) /\ FilesOK(k, files)
    BY <1>2, <1>4 DEF World, LateOK, FilesOK
<1>11. Running(k, guest, late)
    BY <1>2, <1>4, <1>8, <1>9, <1>10 DEF Running, World
<1> QED BY <1>2, <1>3, <1>4, <1>11 DEF Same

LEMMA StoreReceiptHolds == ASSUME Now, StoreReceipt PROVE Holds
<1> PICK k : k = [journal EXCEPT !.publication = journal.intent, !.phase = "PUBLISHED"]
    OBVIOUS
<1>1. host.pc = "receipt" /\ Local /\ EnterRelease(k)
    BY DEF StoreReceipt, At
<1>2. /\ direction = "pull" /\ journal.begun /\ journal.prepare # None /\ journal.intent # None
      /\ Running(k, guest, late) /\ Same(journal, k) /\ k.published
      /\ k.prepare = journal.prepare /\ k.publication = journal.intent
    BY <1>1, ReceiptRuns
<1>3. Lands(guest, late)
    BY <1>1, <1>2, EnterReleaseLands DEF Same
<1> QED BY <1>1, <1>3, LocalHolds

(* Cleanup, authorized by the release of the guest.                        *)
LEMMA CleanHolds == ASSUME Now, Clean PROVE Holds
<1>1. host.pc = "clean" /\ Local
    BY DEF Clean, At
<1>2. /\ direction \in {"push", "pull"} /\ Running(journal, guest, late) /\ journal.begun /\ JournalOK(journal)
      /\ World(journal, guest, files, late, bounds.overdue) /\ journal \in Journals /\ host \in HostStates
      /\ ReleasedAs(guest, journal) /\ journal.phase = "CLEANING" /\ journal.destVerified = TRUE
      /\ journal.guestClean /\ ~journal.hostClean /\ journal.last # None
    BY <1>1, NowRuns DEF EarlyPcs, RunningOK, CleaningOK, Running
<1>3. ASSUME NEW code \in HostErrors \cup {None}, End(journal, "cleanup_pending", code), files' = files
      PROVE  Lands(guest, late)
  <2>1. journal.publication # None
      BY <1>2 DEF ReleasedAs
  <2>2. Validates(Report(journal, "cleanup_pending", code))
      BY <1>2, <2>1, ReportValid
  <2> QED BY <1>2, <1>3, <2>2, EndLands
<1>4. CASE journal.adapterPending
  <2>1. End(journal, "cleanup_pending", "adapter_cleanup_pending") /\ files' = files
      BY <1>4 DEF Clean
  <2>2. "adapter_cleanup_pending" \in HostErrors
      BY DEF HostErrors
  <2> QED BY <1>1, <1>3, <2>1, <2>2, LocalHolds
<1>5. CASE ~journal.adapterPending /\ direction = "pull" /\ DestinationError # None
  <2>1. End(journal, "cleanup_pending", DestinationError) /\ files' = files
      BY <1>5 DEF Clean
  <2>2. DestinationError \in HostErrors
      BY <1>5 DEF DestinationError, HostErrors
  <2> QED BY <1>1, <1>3, <2>1, <2>2, LocalHolds
<1>6. CASE ~journal.adapterPending /\ ~(direction = "pull" /\ DestinationError # None)
  <2> PICK k : k = [journal EXCEPT !.cleanIntent = TRUE]
      OBVIOUS
  <2>1. Go(k, "delete")
      BY <1>6 DEF Clean
  <2>2. /\ k \in Journals /\ k.begun = journal.begun /\ k.operations = journal.operations
        /\ k.prepare = journal.prepare /\ k.validation = journal.validation /\ k.publication = journal.publication
        /\ k.intent = journal.intent /\ k.published = journal.published /\ k.unknown = journal.unknown
        /\ k.asked = journal.asked /\ k.phase = journal.phase /\ k.last = journal.last /\ k.stable = journal.stable
      BY <1>2 DEF Journals
  <2>3. k.destVerified = TRUE /\ k.guestClean = journal.guestClean /\ k.cleanIntent = TRUE
        /\ k.adapterPending = journal.adapterPending
      BY <1>2 DEF Journals
  <2>4. Restates(journal, k, guest, bounds.overdue)
      BY <1>2, <2>2 DEF Restates, JournalOK
  <2>5. Running(k, guest, late)
      BY <1>2, <2>2, <2>3, <2>4, RestatesOK DEF Running
  <2>6. host' \in HostStates /\ host'.pc = "delete"
    <3>1. "delete" \in Pcs
        BY DEF Pcs
    <3> QED BY <1>2, <2>1, <3>1, GoDoes
  <2>7. RunningOK(host', k)
      BY <1>2, <2>2, <2>5, <2>6 DEF Running, RunningOK, PullPcs, PushPcs
  <2>8. FinishingOK(host', k, guest, bounds.overdue) /\ PublishingOK(host', k, files)
      BY <2>6 DEF FinishingOK, PublishingOK
  <2>9. CleaningOK(host', k, guest, files)
      BY <1>2, <1>6, <2>2, <2>3, <2>6 DEF CleaningOK, ReleasedAs
  <2>10. HostOK(host', k, guest, files, bounds.overdue)
      BY <2>6, <2>7, <2>8, <2>9 DEF HostOK
  <2>11. Lands(guest, late)
      BY <2>1, <2>5, <2>10, GoLands
  <2> QED BY <1>1, <2>11, LocalHolds
<1> QED BY <1>4, <1>5, <1>6

LEMMA DeleteHolds == ASSUME Now, Delete PROVE Holds
<1>1. host.pc = "delete" /\ Local
    BY DEF Delete, At
<1>2. /\ Running(journal, guest, late) /\ journal.begun /\ FilesOK(journal, files) /\ host \in HostStates
      /\ RunningOK(host, journal) /\ CleaningOK(host, journal, guest, files)
    BY <1>1, NowRuns DEF EarlyPcs, Running
<1> PICK f : f = [files EXCEPT !.temp = "gone"]
    OBVIOUS
<1>3. FilesOK(journal, f) /\ f.source = files.source /\ f.temp = "gone"
    BY <1>2, TempOK
<1>4. journal' = journal /\ files' = f /\ result' = result /\ host' = [host EXCEPT !.pc = "final"]
    BY DEF Delete
<1>5. host' \in HostStates /\ host'.pc = "final"
    BY <1>2, <1>4 DEF HostStates, Pcs
<1>6. RunningOK(host', journal)
    BY <1>1, <1>2, <1>5 DEF RunningOK, PullPcs, PushPcs
<1>7. FinishingOK(host', journal, guest, bounds.overdue) /\ PublishingOK(host', journal, f)
    BY <1>5 DEF FinishingOK, PublishingOK
<1>8. CleaningOK(host', journal, guest, f)
    BY <1>1, <1>2, <1>3, <1>5 DEF CleaningOK
<1>9. HostOK(host', journal, guest, f, bounds.overdue)
    BY <1>5, <1>6, <1>7, <1>8 DEF HostOK
<1>10. Lands(guest, late)
    BY <1>2, <1>3, <1>4, <1>9, FilesLand
<1> QED BY <1>1, <1>10, LocalHolds

(* A completed transfer: the tree of a pull is published, the commit of a  *)
(* push is done, and both were seen with stable sources.                   *)
LEMMA ReleasedIsStable ==
    ASSUME direction \in {"push", "pull"}, NEW j, NEW g, NEW l, Running(j, g, l), ReleasedAs(g, j)
    PROVE  j.published /\ (j.stable \/ bounds.overdue) /\ files.stage # "full"
<1> PICK t : t = g.terminal
    OBVIOUS
<1>1. /\ JournalOK(j) /\ GuestOK(g, files.source) /\ Agree(j, g, bounds.overdue) /\ FilesOK(j, files)
      /\ t # None /\ LedgerOK(t) /\ t.phase = "RELEASED" /\ j.publication # None
    BY DEF Running, World, ReleasedAs, InPhase, GuestOK
<1>2. j.published
    BY <1>1 DEF JournalOK
<1>3. CASE direction = "push"
  <2>1. Stat(t, "commit") = "DONE"
      BY <1>1, <1>3 DEF LedgerOK, ReceiptsOK, PhaseOK
  <2>2. ~Uncommitted(g)
      BY <1>1, <2>1 DEF Uncommitted
  <2> QED BY <1>1, <1>2, <1>3, <2>2 DEF Agree, FilesOK
<1>4. CASE direction = "pull"
  <2>1. j.intent # None
      BY <1>1, <1>2, <1>4 DEF JournalOK
  <2>2. ~InPhase(g, "CHANGED")
      BY <1>1 DEF InPhase
  <2> QED BY <1>1, <1>2, <1>4, <2>1, <2>2 DEF Agree, FilesOK
<1> QED BY <1>3, <1>4

LEMMA CompleteLands ==
    ASSUME direction \in {"push", "pull"}, NEW j, NEW g, NEW l, Running(j, g, l), ReleasedAs(g, j),
           j.destVerified = TRUE, j.guestClean, j.hostClean, ~j.adapterPending, files.temp = "gone",
           End(j, "complete", None), files' = files
    PROVE  Lands(g, l)
<1> PICK k : k = [j EXCEPT !.phase = "COMPLETE", !.last = "CLEANING"]
    OBVIOUS
<1> PICK r : r = Report(j, "complete", None)
    OBVIOUS
<1>1. journal' = k /\ result' = r /\ host' = [host EXCEPT !.pc = "idle"]
    BY DEF End, Proven
<1>2. World(j, g, files, l, bounds.overdue) /\ JournalOK(j) /\ j \in Journals /\ host \in HostStates /\ j.last # None
    BY DEF Running, World, JournalOK
<1>3. j.published /\ (j.stable \/ bounds.overdue) /\ files.stage # "full" /\ j.publication # None
    BY ReleasedIsStable DEF ReleasedAs
<1>4. /\ k \in Journals /\ k.begun = j.begun /\ k.operations = j.operations
      /\ k.prepare = j.prepare /\ k.validation = j.validation /\ k.publication = j.publication
      /\ k.intent = j.intent /\ k.published = j.published /\ k.unknown = j.unknown
      /\ k.asked = j.asked /\ k.phase = "COMPLETE" /\ k.last = "CLEANING" /\ k.stable = j.stable
      /\ k.adapterPending = j.adapterPending
    BY <1>2, PhaseNames DEF Journals
<1>5. World(k, g, files, l, bounds.overdue)
  <2>1. Restates(j, k, g, bounds.overdue)
      BY <1>2, <1>3, <1>4, NoneIsAbsent, PhaseNames DEF Restates
  <2> QED BY <1>2, <2>1, RestatesOK
<1>6. r \in Reports
    BY <1>2, ReportTypes
<1>7. /\ r.outcome = "complete" /\ r.phase = "COMPLETE" /\ r.last = "CLEANING" /\ r.published = TRUE
      /\ r.destVerified = TRUE /\ r.hostClean /\ r.guestClean /\ r.receipt /\ (r.stable <=> j.stable)
    BY <1>3 DEF Report
<1>8. Validates(r) \/ (bounds.overdue /\ Validates([r EXCEPT !.stable = TRUE]))
  <2>1. CASE j.stable
      BY <1>7, <2>1 DEF Validates
  <2>2. CASE bounds.overdue
    <3> PICK s : s = [r EXCEPT !.stable = TRUE]
        OBVIOUS
    <3>1. /\ s.outcome = "complete" /\ s.phase = "COMPLETE" /\ s.last = "CLEANING" /\ s.published = TRUE
          /\ s.destVerified = TRUE /\ s.hostClean /\ s.guestClean /\ s.receipt /\ s.stable
        BY <1>6, <1>7 DEF Reports
    <3>2. Validates(s)
        BY <3>1 DEF Validates
    <3> QED BY <2>2, <3>2
  <2> QED BY <1>3, <2>1, <2>2
<1>9. ReleasedAs(g, k)
    BY <1>4 DEF ReleasedAs
<1>10. ReportOK(r, k, g, files, bounds.overdue)
    BY <1>3, <1>4, <1>6, <1>7, <1>8, <1>9 DEF ReportOK
<1>11. host' \in HostStates /\ host'.pc = "idle"
    BY <1>1, <1>2 DEF HostStates, Pcs
<1>12. HostOK(host', k, g, files, bounds.overdue)
    BY <1>11 DEF HostOK, RunningOK, FinishingOK, PublishingOK, CleaningOK, EarlyPcs, PullPcs, PushPcs
<1>13. ResultOK(r, host', k, g, files, bounds.overdue)
    BY <1>10, <1>11 DEF ResultOK
<1> QED BY <1>1, <1>5, <1>12, <1>13 DEF Lands, Scene

LEMMA FinalizeHolds == ASSUME Now, Finalize PROVE Holds
<1>1. host.pc = "final" /\ Local
    BY DEF Finalize, At
<1>2. /\ direction \in {"push", "pull"} /\ Running(journal, guest, late) /\ JournalOK(journal)
      /\ World(journal, guest, files, late, bounds.overdue) /\ journal \in Journals
      /\ ReleasedAs(guest, journal) /\ journal.destVerified = TRUE
      /\ journal.guestClean /\ ~journal.adapterPending /\ files.temp = "gone"
    BY <1>1, NowRuns DEF CleaningOK
<1> PICK j : j = [journal EXCEPT !.hostClean = TRUE]
    OBVIOUS
<1>3. /\ j \in Journals /\ j.begun = journal.begun /\ j.operations = journal.operations
      /\ j.prepare = journal.prepare /\ j.validation = journal.validation /\ j.publication = journal.publication
      /\ j.intent = journal.intent /\ j.published = journal.published /\ j.unknown = journal.unknown
      /\ j.asked = journal.asked /\ j.phase = journal.phase /\ j.last = journal.last /\ j.stable = journal.stable
    BY <1>2 DEF Journals
<1>4. j.destVerified = TRUE /\ j.guestClean = journal.guestClean /\ j.hostClean = TRUE
      /\ j.adapterPending = journal.adapterPending
    BY <1>2 DEF Journals
<1>5. Restates(journal, j, guest, bounds.overdue)
    BY <1>2, <1>3 DEF Restates, JournalOK
<1>6. Running(j, guest, late)
    BY <1>2, <1>3, <1>4, <1>5, RestatesOK DEF Running
<1>7. ReleasedAs(guest, j)
    BY <1>2, <1>3 DEF ReleasedAs
<1>8. CASE DestinationError # None /\ Raise(j, DestinationError)
  <2>1. Lands(guest, late)
      BY <1>2, <1>6, <1>8, DestinationErrorLands
  <2> QED BY <1>1, <2>1, LocalHolds
<1>9. CASE Raise(j, "deadline_exceeded")
  <2>1. Lands(guest, late)
      BY <1>2, <1>6, <1>9, PlainLands DEF Plain
  <2> QED BY <1>1, <2>1, LocalHolds
<1>10. CASE End(j, "complete", None) /\ UNCHANGED files
  <2>1. Lands(guest, late)
      BY <1>2, <1>4, <1>6, <1>7, <1>10, CompleteLands
  <2> QED BY <1>1, <2>1, LocalHolds
<1> QED BY <1>8, <1>9, <1>10 DEF Finalize

LEMMA DeadlineEndsHolds == ASSUME Now, DeadlineEnds PROVE Holds
<1>1. host.pc # "idle" /\ Raise(journal, "deadline_exceeded") /\ Local
    BY DEF DeadlineEnds
<1>2. direction \in {"push", "pull"} /\ Running(journal, guest, late)
    BY <1>1, NowRuns
<1>3. Lands(guest, late)
    BY <1>1, <1>2, PlainLands DEF Plain
<1> QED BY <1>1, <1>3, LocalHolds

LEMMA HostStepHolds == ASSUME Now, HostStep PROVE Holds
BY ConnectHolds, RegisterPackageHolds, BeginHolds, BeginCallHolds, AwaitReadyHolds, SendHolds, AwaitIdleHolds,
   VerifyCallHolds, AwaitProofHolds, PollHolds, RequestHolds, ValidateHolds, ChunksHolds, StageHolds,
   RegisterStageHolds, PublishHolds, RenameHolds, MarkPublishedHolds, StoreReceiptHolds, CleanHolds,
   DeleteHolds, FinalizeHolds, AbortHolds, DeadlineEndsHolds
   DEF HostStep

-----------------------------------------------------------------------------
(* The steps of everyone else.                                             *)
After == Scene(host', journal', guest', files', late', result', bounds'.overdue) /\ Counters(bounds')

LEMMA HoldsAfter == ASSUME Holds PROVE After
BY DEF Holds, Lands, Tame, After

LEMMA NowFacts ==
    ASSUME Now
    PROVE  /\ direction \in {"push", "pull"} /\ Counters(bounds) /\ bounds.overdue \in BOOLEAN
           /\ Scene(host, journal, guest, files, late, result, bounds.overdue)
           /\ World(journal, guest, files, late, bounds.overdue)
           /\ HostOK(host, journal, guest, files, bounds.overdue)
           /\ ResultOK(result, host, journal, guest, files, bounds.overdue)
           /\ JournalOK(journal) /\ journal \in Journals /\ GuestOK(guest, files.source)
           /\ LateOK(journal, late) /\ FilesOK(journal, files) /\ host \in HostStates
BY DEF Now, Counters, Scene, World, HostOK, JournalOK

(* A new run starts on the journal of the last one.                        *)
LEMMA StartAfter == ASSUME Now, Start PROVE After
<1>1. /\ direction \in {"push", "pull"} /\ Counters(bounds)
      /\ World(journal, guest, files, late, bounds.overdue) /\ JournalOK(journal) /\ journal \in Journals
    BY NowFacts
<1> PICK m : m = SetPhase(journal, "PREPARING")
    OBVIOUS
<1> PICK k : k = [m EXCEPT !.destVerified = None]
    OBVIOUS
<1>2. World(m, guest, files, late, bounds.overdue) /\ OnlyPhase(journal, m) /\ m.phase = "PREPARING"
  <2>1. "PREPARING" \in HostPhases
      BY PhaseNames
  <2> QED BY <1>1, <2>1, SetPhaseOK
<1>3. m.last # None
  <2>1. CASE journal.phase = "PREPARING"
      BY <1>1, <2>1 DEF SetPhase, JournalOK
  <2>2. CASE journal.phase # "PREPARING"
    <3>1. journal.phase \in HostPhases /\ m.last = journal.phase
        BY <1>1, <2>2 DEF SetPhase, Journals
    <3> QED BY <3>1, NoneIsAbsent
  <2> QED BY <2>1, <2>2
<1>4. m \in Journals /\ JournalOK(m)
    BY <1>2 DEF World, JournalOK
<1>5. /\ k \in Journals /\ k.begun = m.begun /\ k.operations = m.operations /\ k.prepare = m.prepare
      /\ k.validation = m.validation /\ k.publication = m.publication /\ k.intent = m.intent
      /\ k.published = m.published /\ k.unknown = m.unknown /\ k.asked = m.asked
      /\ k.phase = m.phase /\ k.last = m.last /\ k.stable = m.stable /\ k.destVerified = None
    BY <1>4 DEF Journals
<1>6. World(k, guest, files, late, bounds.overdue)
  <2>1. Restates(m, k, guest, bounds.overdue)
      BY <1>3, <1>4, <1>5 DEF Restates, JournalOK
  <2> QED BY <1>1, <1>2, <2>1, RestatesOK
<1>7. /\ journal' = k /\ result' = None /\ files' = files /\ guest' = guest /\ late' = late
      /\ host' \in HostStates /\ host'.pc = "connect"
  <2>1. PICK abort \in BOOLEAN : host' = [pc |-> "connect", action |-> "prepare", back |-> "proceed",
                                         sent |-> FALSE, abort |-> abort]
      BY DEF Start
  <2>2. host' \in HostStates /\ host'.pc = "connect"
      BY <2>1 DEF HostStates, Pcs, Actions
  <2> QED BY <2>2 DEF Start
<1>8. Counters(bounds') /\ bounds'.overdue = bounds.overdue
  <2>1. bounds' = [bounds EXCEPT !.runs = bounds.runs + 1, !.quiet = TRUE, !.inherited = Leftover]
        /\ bounds.runs < MaxRuns
      BY DEF Start
  <2>2. Leftover \in BOOLEAN
      BY DEF Leftover
  <2>3. bounds.runs + 1 \in 0..MaxRuns
      BY <1>1, <2>1, HostBoundsAssumption DEF Counters
  <2> QED BY <1>1, <2>1, <2>2, <2>3 DEF Counters
<1>9. RunningOK(host', k)
    BY <1>2, <1>3, <1>5, <1>7, NoneIsAbsent DEF RunningOK, EarlyPcs, PullPcs, PushPcs
<1>10. HostOK(host', k, guest, files, bounds.overdue)
    BY <1>7, <1>9 DEF HostOK, FinishingOK, PublishingOK, CleaningOK
<1>11. Scene(host', k, guest, files, late, None, bounds.overdue)
    BY <1>6, <1>10 DEF Scene, ResultOK
<1> QED BY <1>7, <1>8, <1>11 DEF After

LEMMA CrashAfter == ASSUME Now, Crash PROVE After
<1>1. /\ host.pc # "idle" /\ host' = [host EXCEPT !.pc = "idle"] /\ journal' = journal /\ files' = files
      /\ guest' = guest /\ late' = late /\ result' = result /\ bounds' = bounds
    BY DEF Crash, At
<1>2. /\ World(journal, guest, files, late, bounds.overdue) /\ host \in HostStates /\ Counters(bounds)
      /\ ResultOK(result, host, journal, guest, files, bounds.overdue)
    BY NowFacts
<1>3. result = None
    BY <1>1, <1>2 DEF ResultOK
<1>4. host' \in HostStates /\ host'.pc = "idle"
    BY <1>1, <1>2 DEF HostStates, Pcs
<1>5. HostOK(host', journal, guest, files, bounds.overdue)
    BY <1>4 DEF HostOK, RunningOK, FinishingOK, PublishingOK, CleaningOK, EarlyPcs, PullPcs, PushPcs
<1>6. Scene(host', journal, guest, files, late, result, bounds.overdue)
    BY <1>2, <1>3, <1>5 DEF Scene, ResultOK
<1> QED BY <1>1, <1>2, <1>6 DEF After

LEMMA ExpireAfter == ASSUME Now, Expire PROVE After
<1>1. /\ Counters(bounds) /\ Scene(host, journal, guest, files, late, result, bounds.overdue)
    BY NowFacts
<1>2. bounds' = [bounds EXCEPT !.expired = TRUE, !.quiet = FALSE]
    BY DEF Expire
<1>3. Counters(bounds') /\ bounds'.overdue = bounds.overdue
    BY <1>1, <1>2 DEF Counters
<1>4. /\ host' = host /\ journal' = journal /\ guest' = guest /\ files' = files /\ late' = late
      /\ result' = result
    BY DEF Expire
<1> QED BY <1>1, <1>3, <1>4 DEF After

LEMMA GuestStepAfter ==
    ASSUME Now, Evolves(guest, guest', files.source), Tame,
           UNCHANGED <<journal, host, files, late, result>>
    PROVE  After
<1>1. /\ direction \in {"push", "pull"} /\ bounds.overdue \in BOOLEAN
      /\ Scene(host, journal, guest, files, late, result, bounds.overdue)
    BY NowFacts
<1> PICK k : k = guest'
    OBVIOUS
<1>2. Scene(host, journal, k, files, late, result, bounds.overdue)
    BY <1>1, GuestMoves
<1> QED BY <1>2 DEF Tame, After

LEMMA GuestWorkAfter == ASSUME Now, GuestWork PROVE After
<1>1. /\ direction \in {"push", "pull"} /\ JournalOK(journal) /\ GuestOK(guest, files.source) /\ Counters(bounds)
    BY NowFacts
<1>2. Evolves(guest, guest', files.source)
    BY <1>1, WorkedOK DEF GuestWork
<1>3. Tame
    BY <1>1, QuietIsTame DEF GuestWork
<1> QED BY <1>2, <1>3, GuestStepAfter DEF GuestWork

LEMMA GuestRaisesAfter == ASSUME Now, GuestRaises PROVE After
<1>1. /\ direction \in {"push", "pull"} /\ GuestOK(guest, files.source) /\ Counters(bounds) /\ guest.alive
    BY NowFacts DEF GuestRaises
<1>2. CASE Faulty /\ \E staged \in (IF direction = "push" THEN BOOLEAN ELSE {FALSE}) :
                        guest' = Raised(guest, "worker_failed", staged)
  <2> PICK staged \in BOOLEAN : guest' = Raised(guest, "worker_failed", staged)
      BY <1>2
  <2>1. Evolves(guest, guest', files.source)
      BY <1>1, RaisedOK
  <2>2. Tame
      BY <1>1, <1>2, FaultyIsTame
  <2> QED BY <2>1, <2>2, GuestStepAfter DEF GuestRaises
<1>3. CASE SourceRefused /\ ReadsSource /\ guest' = Raised(guest, "source_changed", FALSE) /\ bounds' = bounds
  <2>1. Evolves(guest, guest', files.source)
      BY <1>1, <1>3, RaisedOK DEF SourceRefused, ReadsSource
  <2>2. Tame
      BY <1>1, <1>3, QuietIsTame
  <2> QED BY <2>1, <2>2, GuestStepAfter DEF GuestRaises
<1> QED BY <1>2, <1>3 DEF GuestRaises

LEMMA GuestKilledAfter == ASSUME Now, GuestKilled PROVE After
<1>1. GuestOK(guest, files.source) /\ Counters(bounds) /\ Faulty /\ guest' = Exited(guest)
    BY NowFacts DEF GuestKilled
<1>2. Evolves(guest, guest', files.source)
    BY <1>1, ExitedOK, SameLedger DEF Evolves
<1>3. Tame
    BY <1>1, FaultyIsTame
<1> QED BY <1>2, <1>3, GuestStepAfter DEF GuestKilled

(* What the guest executes late, the host had asked for.                   *)
LEMMA LateRequestAfter == ASSUME Now, LateRequest PROVE After
<1>1. /\ direction \in {"push", "pull"} /\ Counters(bounds) /\ bounds.overdue \in BOOLEAN
      /\ Scene(host, journal, guest, files, late, result, bounds.overdue)
      /\ JournalOK(journal) /\ GuestOK(guest, files.source) /\ LateOK(journal, late)
    BY NowFacts
<1>2. PICK r \in late : /\ guest' \in Executed(guest, r) /\ late' = late \ {r}
                        /\ bounds' = [bounds EXCEPT !.quiet = FALSE, !.overdue = @ \/ r.call = "commit"]
    BY DEF LateRequest
<1>3. r \in Requests /\ (r.call \in Actions => r.inputs = journal.asked[r.call] /\ journal.asked[r.call] # None)
    BY <1>1 DEF LateOK
<1> PICK k : k = guest'
    OBVIOUS
<1>4. GuestOK(k, files.source) /\ Follows(guest, k) /\ Asked(guest, k, r)
    BY <1>1, <1>2, <1>3, ExecutedOK
<1>5. AsJournaled(journal, guest, k)
    BY <1>3, <1>4 DEF Asked, AsJournaled
<1>6. PICK after \in BOOLEAN : after = bounds'.overdue
  <2>1. bounds'.overdue = (bounds.overdue \/ r.call = "commit")
      BY <1>1, <1>2 DEF Counters
  <2> QED BY <1>1, <2>1
<1>7. Counters(bounds') /\ (bounds.overdue => after) /\ (~after => r.call # "commit")
    BY <1>1, <1>2, <1>6 DEF Counters
<1>8. ~after => (Uncommitted(guest) => Uncommitted(k))
    BY <1>4, <1>7, ActionNames DEF Asked, Uncommitted
<1>9. Scene(host, journal, k, files, late \ {r}, result, after)
    BY <1>1, <1>4, <1>5, <1>6, <1>7, <1>8, SceneKept
<1>10. host' = host /\ journal' = journal /\ files' = files /\ result' = result
    BY DEF LateRequest
<1> QED BY <1>2, <1>6, <1>7, <1>9, <1>10 DEF After

(* Everyone else only makes the files worse.                               *)
Disturbs(f, h) ==
    /\ h \in FileStates /\ h.temp = f.temp /\ h.stage = f.stage
    /\ f.source = "changed" => h.source = "changed"
    /\ \/ h.dest = f.dest
       \/ direction = "pull" /\ f.dest \in {"none", "removed"} /\ h.dest = "foreign"
       \/ f.dest = "ours" /\ h.dest \in {"altered", "pruned", "removed"}

LEMMA SceneDisturbed ==
    ASSUME direction \in {"push", "pull"}, NEW h, NEW j, NEW g, NEW f, NEW l, NEW r, NEW overdue \in BOOLEAN,
           NEW k, Scene(h, j, g, f, l, r, overdue), Disturbs(f, k)
    PROVE  Scene(h, j, g, k, l, r, overdue)
<1>1. World(j, g, f, l, overdue) /\ HostOK(h, j, g, f, overdue) /\ ResultOK(r, h, j, g, f, overdue)
    BY DEF Scene
<1>2. GuestOK(g, k.source)
    BY <1>1 DEF World, GuestOK, ErrorsOK, Causes, Disturbs
<1>3. FilesOK(j, k)
    BY <1>1 DEF World, FilesOK, Disturbs
<1>4. World(j, g, k, l, overdue)
    BY <1>1, <1>2, <1>3 DEF World
<1>5. PublishingOK(h, j, k)
    BY <1>1 DEF HostOK, PublishingOK, Disturbs
<1>6. CleaningOK(h, j, g, k)
    BY <1>1 DEF HostOK, CleaningOK, Disturbs
<1>7. HostOK(h, j, g, k, overdue)
    BY <1>1, <1>5, <1>6 DEF HostOK
<1>8. ~Calm(f) => ~Calm(k)
    BY <1>1 DEF World, FilesOK, FileStates, Calm, Disturbs
<1>9. ResultOK(r, h, j, g, k, overdue)
    BY <1>1, <1>8 DEF ResultOK, ReportOK, Disturbs
<1> QED BY <1>4, <1>7, <1>9 DEF Scene

LEMMA OtherUsersAfter == ASSUME Now, OtherUsers PROVE After
<1>1. /\ direction \in {"push", "pull"} /\ Counters(bounds) /\ bounds.overdue \in BOOLEAN
      /\ Scene(host, journal, guest, files, late, result, bounds.overdue) /\ files \in FileStates
    BY NowFacts DEF FilesOK
<1> PICK k : k = files'
    OBVIOUS
<1>2. Disturbs(files, k)
  <2>1. CASE k = [files EXCEPT !.source = "changed"]
      BY <1>1, <2>1 DEF Disturbs, FileStates
  <2>2. CASE direction = "pull" /\ Vacant /\ k = [files EXCEPT !.dest = "foreign"]
      BY <1>1, <2>2 DEF Disturbs, FileStates, Vacant
  <2>3. CASE files.dest = "ours" /\ \E damage \in {"altered", "pruned", "removed"} : k = [files EXCEPT !.dest = damage]
      BY <1>1, <2>3 DEF Disturbs, FileStates
  <2> QED BY <2>1, <2>2, <2>3 DEF OtherUsers
<1>3. Scene(host, journal, guest, k, late, result, bounds.overdue)
    BY <1>1, <1>2, SceneDisturbed
<1>4. Counters(bounds') /\ bounds'.overdue = bounds.overdue
  <2>1. bounds' = [bounds EXCEPT !.quiet = FALSE]
      BY DEF OtherUsers
  <2> QED BY <1>1, <2>1 DEF Counters
<1>5. host' = host /\ journal' = journal /\ guest' = guest /\ late' = late /\ result' = result
    BY DEF OtherUsers
<1> QED BY <1>3, <1>4, <1>5 DEF After

-----------------------------------------------------------------------------
(* The direction of a transfer never changes.                              *)
LEMMA LedgersNext == ASSUME direction' = direction, NEW t, LedgerOK(t) PROVE LedgerOK(t)'
BY DEF LedgerOK, ReceiptsOK, PhaseOK

LEMMA GuestNext == ASSUME direction' = direction, GuestOK(guest', files'.source) PROVE GuestOK(guest, files.source)'
<1>1. guest' \in Guests /\ (guest'.terminal # None => LedgerOK(guest'.terminal))
    BY DEF GuestOK
<1>2. guest'.terminal # None => LedgerOK(guest.terminal)'
    BY <1>1 DEF LedgerOK, ReceiptsOK, PhaseOK
<1>3. WorkerOK(guest)' /\ IntentOK(guest)'
    BY DEF GuestOK, WorkerOK, IntentOK
<1>4. ErrorsOK(guest, files.source)'
    BY DEF GuestOK, ErrorsOK, Causes
<1> QED BY <1>1, <1>2, <1>3, <1>4 DEF GuestOK

LEMMA JournalNext == ASSUME direction' = direction, JournalOK(journal') PROVE JournalOK(journal)'
BY DEF JournalOK, FinishInputs

LEMMA WorldNext ==
    ASSUME direction' = direction, World(journal', guest', files', late', bounds'.overdue)
    PROVE  World(journal, guest, files, late, bounds.overdue)'
<1>1. JournalOK(journal)' /\ GuestOK(guest, files.source)'
    BY JournalNext, GuestNext DEF World
<1>2. Agree(journal, guest, bounds.overdue)'
    BY DEF World, Agree, Committed, Uncommitted, InPhase
<1>3. LateOK(journal, late)' /\ FilesOK(journal, files)'
    BY DEF World, LateOK, FilesOK
<1> QED BY <1>1, <1>2, <1>3 DEF World

LEMMA HostNext ==
    ASSUME direction' = direction, HostOK(host', journal', guest', files', bounds'.overdue)
    PROVE  HostOK(host, journal, guest, files, bounds.overdue)'
<1>1. RunningOK(host, journal)'
    BY DEF HostOK, RunningOK
<1>2. FinishingOK(host, journal, guest, bounds.overdue)'
    BY DEF HostOK, FinishingOK, Uncommitted
<1>3. PublishingOK(host, journal, files)' /\ CleaningOK(host, journal, guest, files)'
    BY DEF HostOK, PublishingOK, CleaningOK, ReleasedAs, InPhase
<1> QED BY <1>1, <1>2, <1>3 DEF HostOK

LEMMA AfterIsInv == ASSUME Now, After, direction' = direction PROVE Inv'
<1>1. direction' \in {"push", "pull"} /\ Counters(bounds)'
    BY NowFacts DEF After, Counters
<1>2. World(journal, guest, files, late, bounds.overdue)' /\ HostOK(host, journal, guest, files, bounds.overdue)'
    BY WorldNext, HostNext DEF After, Scene
<1>3. ResultOK(result, host, journal, guest, files, bounds.overdue)'
    BY DEF After, Scene, ResultOK, ReportOK, ReleasedAs, InPhase, Calm
<1> QED BY <1>1, <1>2, <1>3 DEF Inv

LEMMA InvIsNow == Inv <=> Now
BY DEF Inv, Now, Scene

LEMMA StepAfter ==
    ASSUME Now, Start \/ HostStep \/ Crash \/ Expire \/ GuestStep \/ GuestKilled \/ LateRequest \/ OtherUsers
    PROVE  After
BY StartAfter, HostStepHolds, HoldsAfter, CrashAfter, ExpireAfter, GuestWorkAfter, GuestRaisesAfter,
   GuestKilledAfter, LateRequestAfter, OtherUsersAfter DEF GuestStep

LEMMA InvKept == ASSUME Inv, [Next]_vars PROVE Inv'
<1>1. CASE Next
    BY <1>1, InvIsNow, StepAfter, AfterIsInv DEF Next
<1>2. CASE UNCHANGED vars
  <2>1. Now /\ Scene(host, journal, guest, files, late, result, bounds.overdue) /\ Counters(bounds)
      BY InvIsNow, NowFacts
  <2>2. /\ host' = host /\ journal' = journal /\ guest' = guest /\ files' = files /\ late' = late
        /\ result' = result /\ bounds' = bounds /\ direction' = direction
      BY <1>2 DEF vars
  <2>3. After
      BY <2>1, <2>2 DEF After
  <2> QED BY <2>1, <2>2, <2>3, AfterIsInv
<1> QED BY <1>1, <1>2

(* Nothing has happened: no guest, no receipts, no files.                  *)
LEMMA InvInit == ASSUME Init PROVE Inv
<1>1. direction \in {"push", "pull"} /\ Counters(bounds) /\ bounds.overdue = FALSE
    BY HostBoundsAssumption DEF Init, Counters
<1>2. /\ journal.phase = "CREATED" /\ journal.last = None /\ ~journal.begun
      /\ journal.prepare = None /\ journal.validation = None /\ journal.publication = None
      /\ journal.intent = None /\ ~journal.published /\ ~journal.unknown
      /\ \A a \in Actions : journal.operations[a] = None /\ journal.asked[a] = None
    BY DEF Init, Each
<1>3. journal \in Journals
    BY PhaseNames DEF Init, Each, Journals, RetryCap
<1>4. JournalOK(journal)
    BY <1>2, <1>3, ActionNames, NoneIsAbsent, PhaseNames DEF JournalOK
<1>5. guest.terminal = None /\ guest.intent = None /\ ~guest.made /\ ~guest.alive /\ guest.error = None
    BY DEF Init
<1>6. guest \in Guests
    BY DEF Init, Guests
<1>7. GuestOK(guest, files.source)
    BY <1>5, <1>6, GuestErrorNames DEF GuestOK, WorkerOK, IntentOK, ErrorsOK, Causes
<1>8. files \in FileStates /\ files.dest = "none" /\ files.stage = "none"
    BY DEF Init, FileStates
<1>9. Agree(journal, guest, bounds.overdue)
    BY <1>2, <1>5 DEF Agree, Committed, Uncommitted
<1>10. LateOK(journal, late) /\ FilesOK(journal, files)
    BY <1>2, <1>8 DEF Init, LateOK, FilesOK
<1>11. host \in HostStates /\ host.pc = "idle"
    BY DEF Init, HostStates, Pcs, Actions
<1>12. HostOK(host, journal, guest, files, bounds.overdue)
    BY <1>11 DEF HostOK, RunningOK, FinishingOK, PublishingOK, CleaningOK, EarlyPcs, PullPcs, PushPcs
<1>13. ResultOK(result, host, journal, guest, files, bounds.overdue)
    BY DEF Init, ResultOK
<1> QED BY <1>1, <1>4, <1>7, <1>9, <1>10, <1>12, <1>13 DEF Inv, World

(* After any loss of answers, crashes, restarts and late requests, the     *)
(* journal, the guest's ledger, the files and the last document agree.     *)
THEOREM Invariance == Spec => []Inv
<1>1. Init => Inv
    BY InvInit
<1>2. Inv /\ [Next]_vars => Inv'
    BY InvKept
<1> QED BY <1>1, <1>2, PTL DEF Spec

-----------------------------------------------------------------------------
(* What the runs check, for every size of the system.                      *)

(* The state is always one the program can be in.                          *)
THEOREM TypesHold == Spec => []TypeOK
<1>1. Inv => TypeOK
    BY DEF Inv, World, JournalOK, Journals, HostOK, HostStates, FilesOK, FileStates, GuestOK, Guests,
           LateOK, ResultOK, ReportOK, Reports, Counters, TypeOK
<1> QED BY <1>1, Invariance, PTL

(* The receipt of a push the host counts as published is the one of the    *)
(* intent the guest saved before it moved the tree.                        *)
LEMMA PushIsIntended ==
    ASSUME direction = "push", NEW j, NEW g, NEW f, NEW l, NEW overdue, World(j, g, f, l, overdue), j.published
    PROVE  g.intent # None /\ j.publication = g.intent
<1> PICK t : t = g.terminal
    OBVIOUS
<1>1. /\ JournalOK(j) /\ GuestOK(g, f.source) /\ Agree(j, g, overdue)
      /\ j.publication # None /\ t # None /\ j.publication = t.publication /\ LedgerOK(t)
    BY DEF World, JournalOK, Agree, GuestOK
<1>2. Stat(t, "commit") = "DONE"
    BY <1>1 DEF LedgerOK, ReceiptsOK
<1> QED BY <1>1, <1>2 DEF GuestOK, IntentOK

(* What the journal pins is what the guest recorded.                       *)
THEOREM HostMatches == Spec => []HostMatchesGuest
<1>1. ASSUME Inv PROVE HostMatchesGuest
  <2>1. World(journal, guest, files, late, bounds.overdue) /\ direction \in {"push", "pull"}
        /\ JournalOK(journal) /\ Agree(journal, guest, bounds.overdue) /\ FilesOK(journal, files)
      BY <1>1 DEF Inv, World
  <2>2. journal.published /\ direction = "push" => guest.intent # None /\ journal.publication = guest.intent
      BY <2>1, PushIsIntended
  <2>3. journal.published /\ direction = "pull" => journal.intent # None /\ files.stage = "none"
      BY <2>1 DEF JournalOK, FilesOK
  <2>4. guest.terminal # None => ~Differs(journal.publication, guest.terminal.publication)
      BY <2>1 DEF Agree, Differs
  <2> QED BY <2>1, <2>2, <2>3, <2>4 DEF HostMatchesGuest, Agree
<1> QED BY <1>1, Invariance, PTL

(* A conflict blames the sources or the destination only when somebody     *)
(* changed them.                                                           *)
THEOREM ConflictsAreTrue == Spec => []NoFalseConflict
<1>1. Inv => NoFalseConflict
    BY DEF Inv, ResultOK, ReportOK, Calm, NoFalseConflict, Told, Undisturbed
<1> QED BY <1>1, Invariance, PTL

(* The document of a run is one its schema admits, and a complete one was  *)
(* proved by the guest's receipts.                                         *)
THEOREM ResultsAreTrue == Spec => []ResultIsTrue
<1>1. Inv => ResultIsTrue
    BY DEF Inv, ResultOK, ReportOK, ReleasedAs, ResultIsTrue, ResultIsValid, CompleteIsProved, Told
<1> QED BY <1>1, Invariance, PTL

-----------------------------------------------------------------------------
(* The host never claims ahead of what it knows.                           *)
NothingGoing(g) == g.terminal # None => g.terminal.ops["commit"].status \in {"NONE", "FAILED"}

CleanupStep ==
    files.temp # "gone" /\ files'.temp = "gone" =>
        /\ InPhase(guest, "RELEASED") /\ guest.terminal.publication = journal.publication
        /\ journal.published /\ journal.destVerified = TRUE /\ journal.cleanIntent

(* While no commit the host gave up on is executed, a document that denies *)
(* the publication is right, and stays right.                              *)
LEMMA DenialIsTrue ==
    ASSUME direction = "push", NEW h, NEW j, NEW g, NEW f, NEW l, NEW r, NEW overdue \in BOOLEAN,
           Scene(h, j, g, f, l, r, overdue), overdue = FALSE, r # None, r.published = FALSE
    PROVE  g.intent = None /\ NothingGoing(g)
<1>1. ~j.published /\ ~j.unknown
    BY DEF Scene, ResultOK, ReportOK
<1>2. Agree(j, g, overdue) /\ GuestOK(g, f.source)
    BY DEF Scene, World
<1>3. ~Committed(g)
    BY <1>1, <1>2 DEF Agree
<1>4. NothingGoing(g)
    BY <1>3 DEF Committed, NothingGoing, Stat
<1>5. g.intent = None
    BY <1>2, <1>3 DEF GuestOK, IntentOK, Committed
<1> QED BY <1>4, <1>5

LEMMA DenialsAreTrue == ASSUME Inv PROVE FalseIsKnown
<1> SUFFICES ASSUME direction = "push", result # None, result.published = FALSE, ~bounds.overdue
             PROVE  guest.intent = None /\ NothingGoing(guest)
    BY DEF FalseIsKnown, Told, Published, NothingGoing
<1>1. Now
    BY InvIsNow
<1>2. Scene(host, journal, guest, files, late, result, bounds.overdue) /\ bounds.overdue \in BOOLEAN
    BY <1>1, NowFacts
<1> QED BY <1>2, DenialIsTrue

-----------------------------------------------------------------------------
(* Only the deletion of the temporaries removes them.                      *)
Keeping == files'.temp = files.temp \/ files'.temp # "gone"

LEMMA CallersKeep ==
    ASSUME NEW j, NEW g
    PROVE  /\ \A action : EnterFinish(j, action) => files' = files
           /\ (EnterRelease(j) \/ Proceed(j, g) \/ Ready(j, g) \/ VerifyWait(j, g) \/ VerifyReady(j, g)
                 \/ Resumed(j, g) \/ Released(j, g) \/ Finished(j, g) \/ Polled(j, g)
                 \/ AbortSeen(j, g) \/ AbortDone(j, g)) => files' = files
<1>1. ASSUME NEW k PROVE \A action : EnterFinish(k, action) => files' = files
    BY DEF EnterFinish, Raise
<1>2. ASSUME NEW k, EnterRelease(k) PROVE files' = files
    BY <1>1, <1>2 DEF EnterRelease
<1>3. ASSUME NEW k, Push(k, g) PROVE files' = files
    BY <1>1, <1>2, <1>3 DEF Push, Raise
<1>4. ASSUME NEW k, Pull(k, g) PROVE files' = files
    BY <1>4 DEF Pull, Raise, Go
<1>5. Proceed(j, g) => files' = files
    BY <1>3, <1>4 DEF Proceed
<1>6. Ready(j, g) => files' = files
    BY <1>5 DEF Ready, Raise, Go
<1>7. VerifyWait(j, g) => files' = files
    BY DEF VerifyWait, Raise, Go
<1>8. VerifyReady(j, g) => files' = files
    BY <1>1, <1>5 DEF VerifyReady, Raise, Go
<1>9. Resumed(j, g) => files' = files
    BY <1>6, <1>7 DEF Resumed, Raise, Go
<1>10. Released(j, g) => files' = files
    BY DEF Released, Raise, Go
<1>11. Finished(j, g) => files' = files
    BY <1>2, <1>10 DEF Finished, Go
<1>12. Polled(j, g) => files' = files
    BY <1>11 DEF Polled, Raise, Go
<1>13. AbortSeen(j, g) \/ AbortDone(j, g) => files' = files
    BY DEF AbortSeen, AbortDone, Go
<1> QED BY <1>1, <1>2, <1>5, <1>6, <1>7, <1>8, <1>9, <1>10, <1>11, <1>12, <1>13

LEMMA OthersKeep == ASSUME Now, Next, ~Delete PROVE Keeping
<1>1. files \in FileStates
    BY NowFacts DEF FilesOK
<1>2. StatusFails => files' = files
    BY DEF StatusFails, Raise
<1>3. Connect => Keeping
    BY <1>1 DEF Connect, Raise, Go, Keeping, FileStates
<1>4. RegisterPackage \/ Chunks \/ Stage \/ RegisterStage => Keeping
    BY <1>1, CallersKeep DEF RegisterPackage, Chunks, Stage, RegisterStage, Raise, Keeping, FileStates
<1>5. Begin \/ AwaitReady \/ AwaitIdle \/ AwaitProof \/ Poll \/ Abort => files' = files
    BY <1>2, CallersKeep DEF Begin, AwaitReady, AwaitIdle, AwaitProof, Poll, Abort, Status, Raise, Go
<1>6. BeginCall \/ VerifyCall \/ Send \/ Request => files' = files
    BY CallersKeep DEF BeginCall, VerifyCall, Send, Request, Raise, Go
<1>7. Validate \/ Publish \/ MarkPublished \/ StoreReceipt \/ Clean \/ Finalize \/ DeadlineEnds => files' = files
    BY CallersKeep DEF Validate, Publish, MarkPublished, StoreReceipt, Clean, Finalize, DeadlineEnds, Raise, Go
<1>8. Rename => Keeping
    BY <1>1 DEF Rename, Raise, Go, Keeping, FileStates
<1>9. HostStep => Keeping
    BY <1>3, <1>4, <1>5, <1>6, <1>7, <1>8 DEF HostStep, Keeping
<1>10. OtherUsers => Keeping
    BY <1>1 DEF OtherUsers, Keeping, FileStates
<1>11. Start \/ Crash \/ Expire \/ GuestStep \/ GuestKilled \/ LateRequest => files' = files
    BY DEF Start, Crash, Expire, GuestStep, GuestWork, GuestRaises, GuestKilled, LateRequest
<1> QED BY <1>9, <1>10, <1>11 DEF Next, Keeping

LEMMA CleanupSteps == ASSUME Inv, [Next]_vars PROVE CleanupStep
<1> SUFFICES ASSUME files.temp # "gone", files'.temp = "gone"
             PROVE  /\ InPhase(guest, "RELEASED") /\ guest.terminal.publication = journal.publication
                    /\ journal.published /\ journal.destVerified = TRUE /\ journal.cleanIntent
    BY DEF CleanupStep
<1>1. Now /\ Next
    BY InvIsNow DEF vars
<1>2. host.pc = "delete"
    BY <1>1, OthersKeep DEF Keeping, Delete, At
<1>3. ReleasedAs(guest, journal) /\ journal.destVerified = TRUE /\ journal.cleanIntent /\ JournalOK(journal)
    BY <1>1, <1>2, NowRuns DEF CleaningOK
<1> QED BY <1>3 DEF ReleasedAs, JournalOK

(* A publication the last result denies comes about only by a commit whose *)
(* answer the host gave up on, and only what the guest authorized is       *)
(* cleaned.                                                                *)
THEOREM ClaimsHold == Spec => ClaimsAreBacked
<1>1. Inv => FalseIsKnown
    BY DenialsAreTrue
<1>2. Inv /\ [Next]_vars => CleanupStep
    BY CleanupSteps
<1>3. Spec => []FalseIsKnown /\ [][CleanupStep]_vars
    BY <1>1, <1>2, Invariance, PTL DEF Spec
<1> QED BY <1>3 DEF ClaimsAreBacked, CleanupIsAuthorized, CleanupStep

-----------------------------------------------------------------------------
(* A run without faults.  What every run keeps in order: a request is only *)
(* sent once the journal says begun, a package is there before it, and a   *)
(* pull publishes what it has staged.  A worker that verifies a prefix, or *)
(* that has released, is the one the ledger's phase implies.               *)
TaskOK(g) ==
    /\ ~g.made => g.error = None /\ g.stopped
    /\ g.job = "verify_partial" => direction = "push" /\ (g.terminal = None \/ g.terminal.phase = "READY")
    /\ g.terminal # None => (g.terminal.phase = "RELEASED" => g.job = "release")

AbortPcs == {"abort_status", "abort_call", "abort_done"}

SentOK(h, j, g, f, l) ==
    /\ g.made \/ l # {} => j.begun
    /\ direction = "push" /\ f.temp = "none" => ~j.begun /\ h.pc # "begin_call"
    /\ h.pc = "register_package" => ~j.begun
    /\ h.pc \in AbortPcs => h.abort

StagedOK(h, j, f) ==
    direction = "pull" =>
        /\ j.intent # None /\ ~j.published => f.stage = "full" \/ f.dest # "none"
        /\ h.pc \in {"poll", "request"} /\ h.action = "prepare" => f.stage = "full"
        /\ h.pc = "publish" => j.intent # None \/ f.stage = "full"

OrderOK(h, j, g, f, l) == TaskOK(g) /\ SentOK(h, j, g, f, l) /\ StagedOK(h, j, f)

(* Nothing so far keeps the run from completing.                           *)
Smooth(b, h, j, g, f) ==
    /\ b.quiet /\ ~b.inherited /\ ~b.expired /\ Calm(f) /\ ~h.abort /\ ~g.cancelled
    /\ ~j.adapterPending /\ \A a \in Actions : j.attempts[a] # RetryCap

(* Where a smooth run is, nothing it meets at the guest makes it raise.    *)
Unprepared(g) == g.terminal = None \/ g.terminal.phase = "READY"

StartEases(h, g) ==
    /\ h.pc \in {"connect", "register_package", "begin"} =>
          h.back = "proceed" /\ g.error = None /\ ~(direction = "push" /\ g.alive /\ g.job = "prepare")
    /\ h.pc = "begin_call" => g.error = None /\ (direction = "push" => ~g.made)
    /\ h.pc = "ready" => g.made /\ g.error = None /\ g.job # "verify_partial"

VerifyEases(h, g) ==
    /\ h.pc = "send" =>
          g.made /\ g.stopped /\ g.error = None /\ Unprepared(g) /\ (h.sent => g.terminal # None)
    /\ h.pc \in {"verify_wait", "verify_call", "verify_ready"} =>
          /\ g.made /\ Unprepared(g) /\ (h.back = "prepare" => g.terminal # None)
          /\ g.alive => g.job = "verify_partial"
          /\ g.error \in {None, "worker_result_unknown"}
    /\ h.pc = "verify_call" => g.stopped
    /\ h.pc = "verify_ready" => g.error = None /\ ~g.known /\ g.job = "verify_partial" /\ (g.alive \/ g.proof)

FinishEases(h, g) ==
    h.pc \in {"poll", "request", "validate"} \cup PullPcs =>
        g.terminal # None /\ g.error = None /\ (g.job = "verify_partial" => g.stopped)

EaseOK(h, g) == StartEases(h, g) /\ VerifyEases(h, g) /\ FinishEases(h, g)

EndOK(r, f) == r # None => r.outcome = "complete" \/ f.temp = "unregistered" \/ f.stage = "unregistered"

QuietOK(b, h, j, g, f, l, r) ==
    /\ OrderOK(h, j, g, f, l)
    /\ Smooth(b, h, j, g, f) => EaseOK(h, g) /\ EndOK(r, f)

(* The inductive invariant of a quiet run.                                 *)
QuietInv == Inv /\ QuietOK(bounds, host, journal, guest, files, late, result)

-----------------------------------------------------------------------------
(* What the guest's steps do to the fields the facts above are about.      *)
LEMMA LaunchedDoes ==
    ASSUME NEW g \in Guests, NEW job
    PROVE  LET h == Launched(g, job) IN
           /\ h.made = g.made /\ h.terminal = g.terminal /\ h.cancelled = g.cancelled /\ h.job = job
           /\ h.alive /\ ~h.stopped /\ ~h.known /\ h.error = None /\ ~h.proof
<1> PICK c : c = (g.cleaned /\ ~(job = "release" /\ direction = "push"))
    OBVIOUS
<1>1. Launched(g, job) =
        [g EXCEPT !.job = job, !.alive = TRUE, !.stopped = FALSE, !.known = FALSE, !.error = None,
                  !.proof = FALSE, !.cleaned = c]
    BY DEF Launched
<1> QED BY <1>1 DEF Guests

LEMMA ExitedDoes ==
    ASSUME NEW g \in Guests
    PROVE  LET h == Exited(g) IN
           /\ h.made = g.made /\ h.terminal = g.terminal /\ h.cancelled = g.cancelled /\ h.job = g.job
           /\ h.alive = FALSE /\ h.stopped = g.stopped /\ h.known = g.known /\ h.error = g.error
           /\ h.proof = g.proof /\ h.cleaned = g.cleaned /\ h.intent = g.intent
BY DEF Exited, Guests

Lost(g) == ~g.alive /\ ~g.stopped /\ g.job = "verify_partial" /\ ~g.proof /\ g.error = None

LEMMA SettledDoes ==
    ASSUME direction \in {"push", "pull"}, NEW g, NEW src, GuestOK(g, src)
    PROVE  LET h == Settled(g) IN
           /\ h.made = g.made /\ h.job = g.job /\ h.alive = g.alive /\ h.known = g.known
           /\ h.proof = g.proof /\ h.cancelled = g.cancelled /\ (h.stopped <=> g.stopped \/ ~g.alive)
           /\ (h.error = IF Lost(g) THEN "worker_result_unknown" ELSE g.error)
           /\ \/ h.terminal = g.terminal
              \/ g.job = "release" /\ g.terminal # None /\ g.terminal.phase = "RELEASING"
           /\ (TaskOK(g) => TaskOK(h))
<1> PICK h : h = Settled(g)
    OBVIOUS
<1> PICK e : e = [g EXCEPT !.stopped = g.stopped \/ ~g.alive]
    OBVIOUS
<1>1. g \in Guests
    BY DEF GuestOK
<1>2. /\ e \in Guests /\ e.made = g.made /\ e.alive = g.alive /\ e.job = g.job /\ e.terminal = g.terminal
      /\ e.error = g.error /\ e.known = g.known /\ e.proof = g.proof /\ e.cancelled = g.cancelled
      /\ e.cleaned = g.cleaned /\ (e.stopped <=> (g.stopped \/ ~g.alive))
  <2> PICK c \in BOOLEAN : c <=> (g.stopped \/ ~g.alive)
      OBVIOUS
  <2>1. e = [g EXCEPT !.stopped = c]
      BY <1>1, GuestFields
  <2> QED BY <1>1, <2>1 DEF Guests
<1> PICK s : s = IF Lost(g) THEN [e EXCEPT !.error = "worker_result_unknown"] ELSE e
    OBVIOUS
<1>3. /\ s \in Guests /\ s.made = g.made /\ s.alive = g.alive /\ s.job = g.job /\ s.terminal = g.terminal
      /\ s.known = g.known /\ s.proof = g.proof /\ s.cancelled = g.cancelled /\ s.stopped = e.stopped
      /\ (s.error = IF Lost(g) THEN "worker_result_unknown" ELSE g.error)
  <2>1. CASE Lost(g)
    <3>1. s = [e EXCEPT !.error = "worker_result_unknown"]
        BY <2>1
    <3>2. s \in Guests
        BY <1>2, <3>1, GuestErrorNames, ZenonT(60) DEF Guests
    <3>3. /\ s.made = e.made /\ s.alive = e.alive /\ s.job = e.job /\ s.terminal = e.terminal
          /\ s.known = e.known /\ s.proof = e.proof /\ s.cancelled = e.cancelled
          /\ s.stopped = e.stopped /\ s.error = "worker_result_unknown"
        BY <1>2, <3>1 DEF Guests
    <3> QED BY <1>2, <2>1, <3>2, <3>3
  <2>2. CASE ~Lost(g)
      BY <1>2, <2>2
  <2> QED BY <2>1, <2>2
<1> DEFINE done == /\ InPhase(s, "RELEASING") /\ s.job = "release" /\ s.stopped /\ s.cleaned
                   /\ direction = "push" => s.error = None
<1>4. h = IF done THEN [s EXCEPT !.terminal = ReleaseDone(@)] ELSE s
    BY DEF Settled, Lost
<1>5. /\ h.made = s.made /\ h.job = s.job /\ h.alive = s.alive /\ h.known = s.known /\ h.proof = s.proof
      /\ h.cancelled = s.cancelled /\ h.stopped = s.stopped /\ h.error = s.error
      /\ h.terminal = s.terminal \/ done
  <2>1. CASE done
    <3> PICK u : u = ReleaseDone(s.terminal)
        OBVIOUS
    <3>1. h = [s EXCEPT !.terminal = u]
        BY <1>4, <2>1
    <3> QED BY <1>3, <2>1, <3>1 DEF Guests
  <2>2. CASE ~done
      BY <1>4, <2>2
  <2> QED BY <2>1, <2>2
<1>6. done => g.job = "release" /\ g.terminal # None /\ g.terminal.phase = "RELEASING"
    BY <1>3 DEF InPhase
<1>7. ASSUME TaskOK(g) PROVE TaskOK(h)
  <2>1. ~h.made => h.error = None /\ h.stopped
      BY <1>2, <1>3, <1>5, <1>7 DEF TaskOK, Lost
  <2>2. CASE done
      BY <1>3, <1>5, <1>6, <2>1, <2>2 DEF TaskOK
  <2>3. CASE ~done
      BY <1>3, <1>5, <1>7, <2>1, <2>3 DEF TaskOK
  <2> QED BY <2>2, <2>3
<1> QED BY <1>2, <1>3, <1>5, <1>6, <1>7

LEMMA BeginDoes ==
    ASSUME direction \in {"push", "pull"}, NEW g, NEW src, GuestOK(g, src), TaskOK(g)
    PROVE  LET h == BeginAt(g) IN
           /\ TaskOK(h) /\ h.made /\ h.terminal = g.terminal /\ h.cancelled = g.cancelled
           /\ IF BeginLaunches(g) /\ ~g.cancelled
              THEN /\ h.alive /\ ~h.stopped /\ ~h.known /\ h.error = None
                   /\ h.job = IF direction = "pull" THEN "package" ELSE "verify_partial"
              ELSE /\ h.alive = g.alive /\ h.stopped = g.stopped /\ h.known = g.known /\ h.error = g.error
                   /\ h.job = g.job /\ h.proof = g.proof
<1> PICK h : h = BeginAt(g)
    OBVIOUS
<1> PICK e : e = [g EXCEPT !.made = TRUE]
    OBVIOUS
<1> PICK job : job = IF direction = "pull" THEN "package" ELSE "verify_partial"
    OBVIOUS
<1>1. /\ e \in Guests /\ e.made = TRUE /\ e.alive = g.alive /\ e.job = g.job /\ e.terminal = g.terminal
      /\ e.error = g.error /\ e.stopped = g.stopped /\ e.known = g.known /\ e.proof = g.proof
      /\ e.cancelled = g.cancelled
    BY DEF GuestOK, Guests
<1>2. h = IF BeginLaunches(g) /\ ~g.cancelled THEN Launched(e, job) ELSE e
    BY DEF BeginAt
<1>3. CASE ~(BeginLaunches(g) /\ ~g.cancelled)
    BY <1>1, <1>2, <1>3 DEF TaskOK
<1>4. CASE BeginLaunches(g) /\ ~g.cancelled
  <2>1. /\ h.made = e.made /\ h.terminal = e.terminal /\ h.cancelled = e.cancelled /\ h.job = job
        /\ h.alive /\ ~h.stopped /\ ~h.known /\ h.error = None /\ ~h.proof
    <3> PICK k : k = Launched(e, job)
        OBVIOUS
    <3>1. /\ k.made = e.made /\ k.terminal = e.terminal /\ k.cancelled = e.cancelled /\ k.job = job
          /\ k.alive /\ ~k.stopped /\ ~k.known /\ k.error = None /\ ~k.proof
        BY <1>1, LaunchedDoes
    <3> QED BY <1>2, <1>4, <3>1
  <2>2. direction = "push" => g.terminal = None \/ g.terminal.phase = "READY"
      BY <1>4 DEF BeginLaunches, InPhase
  <2>3. direction = "pull" => g.terminal = None
      BY <1>4 DEF BeginLaunches, GuestOK, WorkerOK
  <2> QED BY <1>1, <1>4, <2>1, <2>2, <2>3 DEF TaskOK
<1> QED BY <1>3, <1>4

LEMMA ChunksDoes ==
    ASSUME direction \in {"push", "pull"}, NEW g, NEW src, GuestOK(g, src), TaskOK(g)
    PROVE  LET h == ChunksAt(g) IN
           /\ TaskOK(h) /\ h.made = g.made /\ h.cancelled = g.cancelled /\ h.alive = g.alive
           /\ h.stopped = g.stopped /\ h.error = g.error /\ h.job = g.job
           /\ h.terminal = g.terminal \/ (g.terminal = None /\ h.terminal # None /\ h.terminal.phase = "READY")
           /\ (ChunksAccepted(g) => h.terminal # None)
<1> PICK h : h = ChunksAt(g)
    OBVIOUS
<1>1. g \in Guests
    BY DEF GuestOK
<1>2. CASE ~(ChunksAccepted(g) /\ g.terminal = None)
    BY <1>2 DEF ChunksAt
<1>3. CASE ChunksAccepted(g) /\ g.terminal = None
  <2>1. h = [g EXCEPT !.terminal = FreshTerminal, !.proof = FALSE]
      BY <1>3 DEF ChunksAt
  <2>2. /\ h.terminal = FreshTerminal /\ h.made = g.made /\ h.alive = g.alive /\ h.error = g.error
        /\ h.job = g.job /\ h.stopped = g.stopped /\ h.cancelled = g.cancelled
      BY <1>1, <2>1 DEF Guests
  <2>3. FreshTerminal # None /\ FreshTerminal.phase = "READY"
      BY FreshOK, NoneIsAbsent
  <2> QED BY <1>3, <2>2, <2>3 DEF TaskOK
<1> QED BY <1>2, <1>3

LEMMA ReleasedIsOver ==
    ASSUME direction \in {"push", "pull"}, NEW t \in Snapshots, LedgerOK(t), t.phase = "RELEASED", NEW a \in Actions
    PROVE  Stat(t, a) # "IN_PROGRESS"
<1>1. Stat(t, "release") = "DONE"
    BY DEF LedgerOK, PhaseOK
<1>2. Stat(t, "prepare") = "DONE" /\ Stat(t, "commit") # "IN_PROGRESS"
    BY <1>1 DEF LedgerOK, ReceiptsOK
<1> QED BY <1>1, <1>2, ActionNames

LEMMA FinishDoes ==
    ASSUME direction \in {"push", "pull"}, NEW g, NEW src, GuestOK(g, src), TaskOK(g),
           NEW a \in Actions, NEW in, NEW h \in FinishAt(g, a, in)
    PROVE  /\ TaskOK(h) /\ h.made = g.made /\ h.cancelled = g.cancelled
           /\ h = g \/ (h.job = a /\ h.error = None)
<1>1. g \in Guests
    BY DEF GuestOK
<1>2. a # "verify_partial"
    BY DEF Actions
<1>3. CASE FinishStarts(g, a, in)
  <2> PICK u : u = Begun(g.terminal, a, in, FreshId)
      OBVIOUS
  <2> PICK e : e = [g EXCEPT !.terminal = u]
      OBVIOUS
  <2>1. h = Launched(e, a)
      BY <1>3 DEF FinishAt
  <2>2. g.terminal # None /\ g.terminal.phase = ExpectedPhase(a) /\ g.made
      BY <1>3 DEF FinishStarts, BeginStarts, GuestOK, WorkerOK
  <2>3. u.phase # "RELEASED"
      BY <2>2 DEF Begun, Ledger, ExpectedPhase
  <2>4. /\ h.made = g.made /\ h.terminal = u /\ h.cancelled = g.cancelled /\ h.job = a /\ h.error = None
    <3> PICK c : c = (e.cleaned /\ ~(a = "release" /\ direction = "push"))
        OBVIOUS
    <3>1. h = [e EXCEPT !.job = a, !.alive = TRUE, !.stopped = FALSE, !.known = FALSE, !.error = None,
                        !.proof = FALSE, !.cleaned = c]
        BY <2>1 DEF Launched
    <3> QED BY <1>1, <3>1 DEF Guests
  <2> QED BY <1>2, <2>2, <2>3, <2>4 DEF TaskOK
<1>4. CASE FinishRelaunches(g, a, in) /\ h = Launched(g, a)
  <2>1. g.terminal # None /\ Stat(g.terminal, a) = "IN_PROGRESS"
      BY <1>4 DEF FinishRelaunches, FinishReplays, Op, Stat
  <2>2. g.terminal \in Snapshots /\ LedgerOK(g.terminal) /\ g.made
      BY <1>1, <2>1, GuestFields DEF GuestOK, WorkerOK
  <2>3. g.terminal.phase # "RELEASED"
      BY <2>1, <2>2, ReleasedIsOver
  <2>4. h.made = g.made /\ h.terminal = g.terminal /\ h.cancelled = g.cancelled /\ h.job = a /\ h.error = None
      BY <1>1, <1>4, LaunchedDoes
  <2> QED BY <1>2, <2>2, <2>3, <2>4 DEF TaskOK
<1>5. CASE h = g
    BY <1>5
<1> QED BY <1>3, <1>4, <1>5 DEF FinishAt

LEMMA AbortDoes ==
    ASSUME direction \in {"push", "pull"}, NEW g, NEW src, GuestOK(g, src), TaskOK(g), g.made
    PROVE  TaskOK(AbortAt(g)) /\ AbortAt(g).made /\ AbortAt(g).cancelled
<1> PICK code : code = IF g.stopped THEN g.error ELSE "transfer_cancelled"
    OBVIOUS
<1> PICK e : e = [g EXCEPT !.cancelled = TRUE, !.alive = FALSE, !.stopped = TRUE, !.error = code]
    OBVIOUS
<1>1. g \in Guests /\ code \in GuestErrors \cup {None}
    BY GuestFields, GuestErrorNames DEF GuestOK
<1>2. e \in Guests
    BY <1>1 DEF Guests
<1>3. /\ e.made = g.made /\ e.alive = FALSE /\ e.job = g.job /\ e.terminal = g.terminal
      /\ e.intent = g.intent /\ e.error = code /\ e.cleaned = g.cleaned /\ e.stopped = TRUE
      /\ e.cancelled = TRUE
    BY <1>1 DEF Guests
<1>4. AbortAt(g) = Settled(e)
    BY <1>1 DEF AbortAt
<1>5. GuestOK(e, src)
  <2>1. WorkerOK(e) /\ IntentOK(e)
      BY <1>3 DEF GuestOK, WorkerOK, IntentOK
  <2>2. Causes(code, e.terminal, src)
      BY <1>3 DEF GuestOK, ErrorsOK, Causes
  <2>3. ErrorsOK(e, src)
      BY <1>3, <2>2, GuestErrorNames DEF GuestOK, ErrorsOK
  <2> QED BY <1>2, <1>3, <2>1, <2>3 DEF GuestOK
<1>6. TaskOK(e)
    BY <1>3 DEF TaskOK
<1> PICK h : h = Settled(e)
    OBVIOUS
<1>7. TaskOK(h) /\ h.made = e.made /\ h.cancelled = e.cancelled
    BY <1>5, <1>6, SettledDoes
<1> QED BY <1>3, <1>4, <1>7

LEMMA ExecutedDoes ==
    ASSUME direction \in {"push", "pull"}, NEW g, NEW src, GuestOK(g, src), TaskOK(g),
           NEW r \in Requests, NEW h \in Executed(g, r)
    PROVE  TaskOK(h) /\ (g.made => h.made) /\ (g.cancelled => h.cancelled)
<1>1. r.call \in {"begin", "chunks", "abort"} \cup Actions
    BY DEF Requests
<1>2. CASE r.call = "begin"
  <2>1. h = BeginAt(g)
      BY <1>2 DEF Executed
  <2> QED BY <2>1, BeginDoes
<1>3. CASE r.call = "chunks"
  <2>1. h = ChunksAt(g)
      BY <1>3 DEF Executed
  <2> QED BY <2>1, ChunksDoes
<1>4. CASE r.call = "abort"
  <2>1. h = IF g.made THEN AbortAt(g) ELSE g
      BY <1>4 DEF Executed
  <2> QED BY <2>1, AbortDoes
<1>5. CASE r.call \in Actions
  <2>1. h \in FinishAt(g, r.call, r.inputs)
      BY <1>5 DEF Executed, Actions
  <2> QED BY <1>5, <2>1, FinishDoes
<1> QED BY <1>1, <1>2, <1>3, <1>4, <1>5

(* A saved step of a worker that runs: the ledger stays or moves on, and   *)
(* no error is recorded.                                                   *)
LEMMA WorkedDoes ==
    ASSUME direction \in {"push", "pull"}, NEW g, NEW src, GuestOK(g, src), g.alive, TaskOK(g)
    PROVE  LET h == Worked(g) IN
           /\ TaskOK(h) /\ h.made = g.made /\ h.job = g.job /\ h.error = g.error /\ h.stopped = g.stopped
           /\ h.known = g.known /\ h.cancelled = g.cancelled /\ (h.alive => g.alive)
           /\ (g.job = "verify_partial" => h.proof /\ h.terminal = g.terminal)
<1> PICK h : h = Worked(g)
    OBVIOUS
<1> PICK x : x = Exited(g)
    OBVIOUS
<1>1. g \in Guests /\ g.made /\ g.job # None /\ g.error = g.error
    BY DEF GuestOK, WorkerOK
<1>2. /\ x.made = g.made /\ x.terminal = g.terminal /\ x.cancelled = g.cancelled /\ x.job = g.job
      /\ x.alive = FALSE /\ x.stopped = g.stopped /\ x.known = g.known /\ x.error = g.error
    BY <1>1, ExitedDoes
<1>3. x \in Guests
    BY ExitedOK DEF GuestOK
<1>6. CASE g.job = "package"
  <2>1. h = [x EXCEPT !.terminal = FreshTerminal]
      BY <1>6 DEF Worked
  <2>2. /\ h.made = x.made /\ h.job = x.job /\ h.error = x.error /\ h.stopped = x.stopped
        /\ h.known = x.known /\ h.cancelled = x.cancelled /\ h.alive = x.alive /\ h.terminal = FreshTerminal
      BY <1>3, <2>1 DEF Guests
  <2> QED BY <1>1, <1>2, <1>6, <2>2, FreshOK DEF TaskOK
<1>7. CASE g.job = "verify_partial"
  <2>1. h = [x EXCEPT !.proof = TRUE]
      BY <1>7 DEF Worked
  <2>2. /\ h.made = x.made /\ h.job = x.job /\ h.error = x.error /\ h.stopped = x.stopped
        /\ h.known = x.known /\ h.cancelled = x.cancelled /\ h.alive = x.alive /\ h.terminal = x.terminal
        /\ h.proof = TRUE
      BY <1>3, <2>1 DEF Guests
  <2> QED BY <1>2, <2>2 DEF TaskOK
<1>8. CASE g.job = "prepare"
  <2> PICK r : r = [binding |-> "K", id |-> FreshId]
      OBVIOUS
  <2> PICK u : u = PrepareDone(g.terminal, r)
      OBVIOUS
  <2>1. h = [x EXCEPT !.terminal = u]
      BY <1>2, <1>8 DEF Worked
  <2>2. u.phase = "PREPARED"
      BY DEF PrepareDone, Ledger
  <2>3. /\ h.made = x.made /\ h.job = x.job /\ h.error = x.error /\ h.stopped = x.stopped
        /\ h.known = x.known /\ h.cancelled = x.cancelled /\ h.alive = x.alive /\ h.terminal = u
      BY <1>3, <2>1 DEF Guests
  <2> QED BY <1>1, <1>2, <1>8, <2>2, <2>3 DEF TaskOK
<1>9. CASE g.job = "commit"
  <2>1. CASE g.intent = None
    <3> PICK r : r = [binding |-> "K", prepare |-> g.terminal.prepare, id |-> FreshId]
        OBVIOUS
    <3>1. h = [g EXCEPT !.intent = r]
        BY <1>9, <2>1 DEF Worked
    <3>2. /\ h.made = g.made /\ h.job = g.job /\ h.error = g.error /\ h.stopped = g.stopped
          /\ h.known = g.known /\ h.cancelled = g.cancelled /\ h.alive = g.alive /\ h.terminal = g.terminal
        BY <1>1, <3>1 DEF Guests
    <3> QED BY <1>9, <3>2 DEF TaskOK
  <2>2. CASE g.intent # None
    <3> PICK u : u = CommitDone(g.terminal, g.intent)
        OBVIOUS
    <3>1. h = [x EXCEPT !.terminal = u]
        BY <1>2, <1>9, <2>2 DEF Worked
    <3>2. u.phase = "PUBLISHED"
        BY DEF CommitDone, Ledger
    <3>3. /\ h.made = x.made /\ h.job = x.job /\ h.error = x.error /\ h.stopped = x.stopped
          /\ h.known = x.known /\ h.cancelled = x.cancelled /\ h.alive = x.alive /\ h.terminal = u
        BY <1>3, <3>1 DEF Guests
    <3> QED BY <1>1, <1>2, <1>9, <3>2, <3>3 DEF TaskOK
  <2> QED BY <2>1, <2>2
<1>10. CASE g.job = "release"
  <2>1. CASE g.terminal.authorized = None
    <3> PICK u : u = ReleaseAuthorized(g.terminal)
        OBVIOUS
    <3>1. h = [g EXCEPT !.terminal = u]
        BY <1>10, <2>1 DEF Worked
    <3>2. /\ h.made = g.made /\ h.job = g.job /\ h.error = g.error /\ h.stopped = g.stopped
          /\ h.known = g.known /\ h.cancelled = g.cancelled /\ h.alive = g.alive /\ h.terminal = u
        BY <1>1, <3>1 DEF Guests
    <3> QED BY <1>1, <1>10, <3>2 DEF TaskOK
  <2>2. CASE g.terminal.authorized # None /\ direction = "pull" /\ ~g.cleaned
    <3>1. h = [g EXCEPT !.cleaned = TRUE]
        BY <1>10, <2>2 DEF Worked
    <3>2. /\ h.made = g.made /\ h.job = g.job /\ h.error = g.error /\ h.stopped = g.stopped
          /\ h.known = g.known /\ h.cancelled = g.cancelled /\ h.alive = g.alive /\ h.terminal = g.terminal
        BY <1>1, <3>1 DEF Guests
    <3> QED BY <1>10, <3>2 DEF TaskOK
  <2>3. CASE g.terminal.authorized # None /\ ~(direction = "pull" /\ ~g.cleaned)
    <3>1. h = [x EXCEPT !.cleaned = TRUE]
        BY <1>10, <2>3 DEF Worked
    <3>2. /\ h.made = x.made /\ h.job = x.job /\ h.error = x.error /\ h.stopped = x.stopped
          /\ h.known = x.known /\ h.cancelled = x.cancelled /\ h.alive = x.alive /\ h.terminal = x.terminal
        BY <1>3, <3>1 DEF Guests
    <3> QED BY <1>2, <1>10, <3>2 DEF TaskOK
  <2> QED BY <2>1, <2>2, <2>3
<1>11. g.job \in {"package", "verify_partial", "prepare", "commit", "release"}
    BY <1>1, GuestFields DEF Actions
<1> QED BY <1>6, <1>7, <1>8, <1>9, <1>10, <1>11

LEMMA RaisedDoes ==
    ASSUME direction \in {"push", "pull"}, NEW g, NEW src, GuestOK(g, src), g.alive, TaskOK(g),
           NEW code, NEW staged
    PROVE  TaskOK(Raised(g, code, staged)) /\ Raised(g, code, staged).made
<1> PICK h : h = Raised(g, code, staged)
    OBVIOUS
<1> PICK e : e = [Exited(g) EXCEPT !.error = code]
    OBVIOUS
<1>1. g \in Guests /\ g.made
    BY DEF GuestOK, WorkerOK
<1>2. Exited(g) \in Guests /\ Exited(g).made = g.made /\ Exited(g).job = g.job /\ Exited(g).terminal = g.terminal
    BY <1>1, ExitedDoes, ExitedOK DEF GuestOK
<1>3. e.made = g.made /\ e.job = g.job /\ e.terminal = g.terminal
    BY <1>2 DEF Guests
<1>4. \/ h = e
      \/ g.job \in Actions /\ h = [e EXCEPT !.terminal = ActionFailed(@, g.job, code)]
    BY DEF Raised
<1>5. CASE h = e
    BY <1>1, <1>3, <1>5 DEF TaskOK
<1>6. CASE g.job \in Actions /\ h = [e EXCEPT !.terminal = ActionFailed(@, g.job, code)]
  <2> PICK u : u = ActionFailed(e.terminal, g.job, code)
      OBVIOUS
  <2>1. u.phase # "RELEASED"
      BY DEF ActionFailed, Ledger, FailedPhase
  <2>2. h = [e EXCEPT !.terminal = u]
      BY <1>6
  <2>3. h.made = e.made /\ h.job = e.job /\ h.terminal = u
      BY <1>2, <2>2 DEF Guests
  <2>4. g.job # "verify_partial"
      BY <1>6 DEF Actions
  <2> QED BY <1>1, <1>3, <2>1, <2>3, <2>4 DEF TaskOK
<1> QED BY <1>4, <1>5, <1>6

-----------------------------------------------------------------------------
(* What a step of the host carries over from the journal it acts on, and   *)
(* where it may go.                                                        *)
Carries(j) == Same(j, journal') /\ host'.abort = host.abort /\ files' = files

Arrives(j) ==
    /\ Carries(j) /\ host'.pc # "register_package" /\ host'.pc \notin AbortPcs
    /\ direction = "pull" =>
          /\ host'.pc \in {"poll", "request"} /\ host'.action = "prepare" => files.stage = "full"
          /\ host'.pc = "publish" => j.intent # None \/ files.stage = "full"

Eases(g) == EaseOK(host', g) /\ EndOK(result', files')

LEMMA SetPhaseTyped == ASSUME NEW j \in Journals, NEW p \in HostPhases PROVE SetPhase(j, p) \in Journals
<1>1. CASE j.phase = p
    BY <1>1 DEF SetPhase
<1>2. CASE j.phase # p
  <2> PICK q : q = j.phase
      OBVIOUS
  <2>1. q \in HostPhases \cup {None}
      BY JournalFields
  <2>2. SetPhase(j, p) = [j EXCEPT !.phase = p, !.last = q]
      BY <1>2 DEF SetPhase
  <2> QED BY <2>1, <2>2 DEF Journals
<1> QED BY <1>1, <1>2

LEMMA SetPhaseSame == ASSUME NEW j \in Journals, NEW p PROVE Same(j, SetPhase(j, p))
BY DEF SetPhase, Same, Journals

LEMMA EndCarries ==
    ASSUME NEW j \in Journals, host \in HostStates, NEW outcome, NEW code, End(j, outcome, code), files' = files
    PROVE  Carries(j) /\ host'.pc = "idle" /\ host' \in HostStates
<1>1. host' = [host EXCEPT !.pc = "idle"]
    BY DEF End
<1>2. host'.abort = host.abort /\ host'.pc = "idle" /\ host' \in HostStates
    BY <1>1 DEF HostStates, Pcs
<1>3. journal' = j \/ journal' = [j EXCEPT !.phase = "COMPLETE", !.last = "CLEANING"]
    BY DEF End
<1>4. Same(j, journal')
    BY <1>3 DEF Same, Journals
<1> QED BY <1>2, <1>4 DEF Carries

LEMMA RaiseCarries ==
    ASSUME NEW j \in Journals, host \in HostStates, NEW code, Raise(j, code)
    PROVE  Carries(j) /\ host'.pc = "idle" /\ host' \in HostStates
<1>1. j.destVerified \in BOOLEAN \cup {None}
    BY JournalFields
<1>d. PICK d \in BOOLEAN \cup {None} : d = IF j.published /\ code \in DestinationCodes THEN FALSE ELSE j.destVerified
    BY <1>1
<1>s. PICK s \in BOOLEAN : s <=> (j.stable /\ code # "source_changed")
    OBVIOUS
<1> PICK k : k = [j EXCEPT !.destVerified = d, !.stable = s]
    OBVIOUS
<1>2. k \in Journals /\ Same(j, k)
  <2>1. k \in Journals
      BY ZenonT(60) DEF Journals
  <2>2. Same(j, k)
      BY DEF Journals, Same
  <2> QED BY <2>1, <2>2
<1>3. files' = files
    BY DEF Raise
<1>4. \E m, outcome : m \in Journals /\ Same(k, m) /\ End(m, outcome, code)
  <2>1. \/ End(SetPhase(k, "CONFLICT"), "conflict", code) \/ End(SetPhase(k, "FAILED"), "incomplete", code)
        \/ End(SetPhase(k, "CLEANING"), "cleanup_pending", code)
        \/ End(SetPhase(k, "FAILED"), "rejected", code) \/ End(k, "incomplete", code)
      BY <1>d, <1>s DEF Raise, Fail
  <2>2. ASSUME NEW p \in HostPhases PROVE SetPhase(k, p) \in Journals /\ Same(k, SetPhase(k, p))
    <3>1. SetPhase(k, p) \in Journals
        BY <1>2, SetPhaseTyped
    <3> QED BY <1>2, <3>1, SetPhaseSame
  <2>3. k \in Journals /\ Same(k, k)
      BY <1>2 DEF Same
  <2> QED BY <2>1, <2>2, <2>3, PhaseNames
<1>5. PICK m, outcome : m \in Journals /\ Same(k, m) /\ End(m, outcome, code)
    BY <1>4
<1>6. Carries(m) /\ host'.pc = "idle" /\ host' \in HostStates
    BY <1>3, <1>5, EndCarries
<1> QED BY <1>2, <1>5, <1>6 DEF Carries, Same

LEMMA RaiseArrives ==
    ASSUME NEW j \in Journals, host \in HostStates, NEW code, Raise(j, code)
    PROVE  Arrives(j) /\ host'.pc = "idle"
BY RaiseCarries DEF Arrives, AbortPcs

LEMMA GoCarries ==
    ASSUME NEW j, host \in HostStates, NEW pc \in Pcs, Go(j, pc)
    PROVE  /\ Carries(j) /\ host'.pc = pc /\ host'.action = host.action /\ host'.back = host.back
           /\ host'.sent = host.sent /\ result' = result
BY DEF Go, Carries, Same, HostStates

(* The inputs of an action never change, so no run refuses to ask again.   *)
LEMMA EnterFinishGoes ==
    ASSUME NEW j, JournalOK(j), host \in HostStates, NEW action \in Actions, EnterFinish(j, action)
    PROVE  Carries(j) /\ host'.pc = "poll" /\ host'.action = action /\ result' = result
<1>1. j.asked[action] \in {None, FinishInputs(j, action)}
    BY InputsFixed
<1>2. /\ journal' = [j EXCEPT !.asked[action] = FinishInputs(j, action)]
      /\ host' = [host EXCEPT !.pc = "poll", !.action = action]
      /\ files' = files /\ result' = result
    BY <1>1 DEF EnterFinish
<1>3. Same(j, journal')
    BY <1>2 DEF Same, JournalOK, Journals
<1>4. host'.pc = "poll" /\ host'.action = action /\ host'.abort = host.abort
    BY <1>2 DEF HostStates
<1> QED BY <1>2, <1>3, <1>4 DEF Carries

LEMMA PhasedFinishGoes ==
    ASSUME direction \in {"push", "pull"}, NEW j, NEW g, NEW l, Running(j, g, l), NEW p \in HostPhases,
           p # "COMPLETE", p \in {"PUBLISHED", "CLEANING"} => j.published,
           NEW action \in Actions, EnterFinish(SetPhase(j, p), action)
    PROVE  Carries(j) /\ host'.pc = "poll" /\ host'.action = action /\ result' = result
<1> PICK k : k = SetPhase(j, p)
    OBVIOUS
<1>1. Running(k, g, l) /\ OnlyPhase(j, k)
    BY PhasedRuns
<1>2. JournalOK(k) /\ host \in HostStates
    BY <1>1 DEF Running, World
<1>3. Carries(k) /\ host'.pc = "poll" /\ host'.action = action /\ result' = result
    BY <1>2, EnterFinishGoes
<1> QED BY <1>1, <1>3 DEF Carries, Same, OnlyPhase

LEMMA EnterReleaseGoes ==
    ASSUME direction \in {"push", "pull"}, NEW j, NEW g, NEW l, Running(j, g, l), j.published, EnterRelease(j)
    PROVE  Carries(j) /\ host'.pc = "poll" /\ host'.action = "release" /\ result' = result
<1> PICK i : i = SetPhase(j, "PUBLISHED")
    OBVIOUS
<1>1. Running(i, g, l) /\ OnlyPhase(j, i)
    BY PhasedRuns, PhaseNames
<1>2. i.published /\ "CLEANING" \in HostPhases /\ "release" \in Actions
    BY <1>1, PhaseNames, ActionNames DEF OnlyPhase
<1>3. EnterFinish(SetPhase(i, "CLEANING"), "release")
    BY DEF EnterRelease
<1>4. Carries(i) /\ host'.pc = "poll" /\ host'.action = "release" /\ result' = result
    BY <1>1, <1>2, <1>3, PhasedFinishGoes
<1> QED BY <1>1, <1>4 DEF Carries, Same, OnlyPhase

(* A poll, or a step that starts one, eases on what status has reported.   *)
LEMMA PollEases ==
    ASSUME result = None, NEW g, g.terminal # None, g.error = None, g.job = "verify_partial" => g.stopped,
           host'.pc \in {"poll", "request", "validate"} \cup PullPcs, result' = result
    PROVE  Eases(g)
<1>1. FinishEases(host', g)
    BY DEF FinishEases
<1>2. StartEases(host', g) /\ VerifyEases(host', g)
    BY DEF StartEases, VerifyEases, PullPcs
<1> QED BY <1>1, <1>2 DEF Eases, EaseOK, EndOK

LEMMA IdleEases ==
    ASSUME NEW g, host'.pc = "idle", EndOK(result', files')
    PROVE  Eases(g)
BY DEF Eases, EaseOK, StartEases, VerifyEases, FinishEases, PullPcs

LEMMA ArrivesAs == ASSUME NEW j, NEW k, Same(j, k), Arrives(k) PROVE Arrives(j)
BY DEF Arrives, Carries, Same

LEMMA OnlyPhaseSame == ASSUME NEW j, NEW k, OnlyPhase(j, k) PROVE Same(j, k)
BY DEF OnlyPhase, Same

(* The guest is at rest without an error.                                  *)
AtRest(g) == g.made /\ g.error = None /\ g.stopped

LEMMA SendArrives ==
    ASSUME direction = "push", NEW j, host \in HostStates, NEW sent, journal' = j,
           host' = [host EXCEPT !.pc = "send", !.sent = sent], files' = files
    PROVE  Arrives(j) /\ host'.pc = "send" /\ host'.sent = sent
<1>1. host'.pc = "send" /\ host'.sent = sent /\ host'.abort = host.abort
    BY DEF HostStates
<1> QED BY <1>1 DEF Arrives, Carries, Same, AbortPcs

LEMMA SendEases ==
    ASSUME result = None, NEW g, host'.pc = "send", host'.sent => g.terminal # None, result' = result,
           AtRest(g), Unprepared(g)
    PROVE  Eases(g)
BY DEF Eases, EaseOK, StartEases, VerifyEases, FinishEases, PullPcs, EndOK, AtRest

LEMMA PollArrives ==
    ASSUME NEW j, Carries(j), host'.pc = "poll", direction = "push" \/ host'.action # "prepare"
    PROVE  Arrives(j) /\ host'.pc # "verify_ready"
BY DEF Arrives, AbortPcs

LEMMA PushEases ==
    ASSUME direction = "push", NEW j, NEW g, NEW l, Following(j, g, l), Push(j, g)
    PROVE  /\ Arrives(j) /\ host'.pc # "verify_ready"
           /\ Calm(files) /\ AtRest(g) => Eases(g)
<1> PICK t : t = g.terminal
    OBVIOUS
<1>1. /\ Running(j, g, l) /\ JournalOK(j) /\ j \in Journals /\ Agree(j, g, bounds.overdue) /\ host \in HostStates
      /\ result = None
    BY DEF Following, Running, World, JournalOK
<1>p. ASSUME Carries(j), host'.pc = "poll", result' = result, t # None
      PROVE  Arrives(j) /\ host'.pc # "verify_ready" /\ (AtRest(g) => Eases(g))
    BY <1>1, <1>p, PollArrives, PollEases DEF AtRest
<1>2. CASE j.publication # None
  <2>1. j.published /\ EnterRelease(j) /\ t # None
      BY <1>1, <1>2 DEF JournalOK, Push, Agree
  <2>2. Carries(j) /\ host'.pc = "poll" /\ result' = result
      BY <1>1, <2>1, EnterReleaseGoes
  <2> QED BY <1>p, <2>1, <2>2
<1>3. CASE j.publication = None /\ ~Uncommitted(g)
  <2>1. t # None /\ Stat(t, "commit") # "NONE"
      BY <1>3 DEF Uncommitted
  <2>2. j.asked["commit"] # None
      BY <1>1, <2>1, ActionNames DEF Agree
  <2>3. j.validation # None
      BY <1>1, <2>2 DEF JournalOK
  <2>4. EnterFinish(j, "commit")
      BY <1>3, <2>1, <2>3 DEF Push, Op, Stat
  <2>5. Carries(j) /\ host'.pc = "poll" /\ result' = result
      BY <1>1, <2>4, EnterFinishGoes, ActionNames
  <2> QED BY <1>p, <2>1, <2>5
<1>4. CASE j.publication = None /\ Uncommitted(g) /\ files.source = "changed"
  <2>1. Raise(j, "source_changed")
      BY <1>4 DEF Push, Uncommitted, Op, Stat
  <2> QED BY <1>1, <1>4, <2>1, RaiseArrives DEF Calm
<1>5. CASE j.publication = None /\ Uncommitted(g) /\ files.source # "changed" /\ (t = None \/ InPhase(g, "READY"))
  <2> PICK k : k = SetPhase(j, "TRANSFERRING")
      OBVIOUS
  <2>1. journal' = k /\ host' = [host EXCEPT !.pc = "send", !.sent = t # None] /\ files' = files /\ result' = result
      BY <1>5 DEF Push, Uncommitted, Op, Stat
  <2>2. Same(j, k)
      BY <1>1, SetPhaseSame
  <2>3. Arrives(k) /\ host'.pc = "send" /\ (host'.sent => t # None)
      BY <1>1, <2>1, SendArrives, Zenon
  <2>4. Unprepared(g)
      BY <1>5 DEF Unprepared, InPhase
  <2> QED BY <1>1, <2>1, <2>2, <2>3, <2>4, ArrivesAs, SendEases
<1>6. CASE j.publication = None /\ Uncommitted(g) /\ files.source # "changed" /\ ~(t = None \/ InPhase(g, "READY"))
  <2>1. EnterFinish(SetPhase(j, "VERIFYING"), "prepare")
      BY <1>6 DEF Push, Uncommitted, Op, Stat
  <2>2. Carries(j) /\ host'.pc = "poll" /\ result' = result
      BY <1>1, <2>1, PhasedFinishGoes, PhaseNames, ActionNames
  <2> QED BY <1>p, <1>6, <2>2
<1> QED BY <1>2, <1>3, <1>4, <1>5, <1>6

LEMMA GoArrives ==
    ASSUME NEW j, host \in HostStates, NEW pc \in Pcs \ (AbortPcs \cup {"register_package"}), Go(j, pc),
           direction = "pull" =>
               /\ pc \in {"poll", "request"} /\ host.action = "prepare" => files.stage = "full"
               /\ pc = "publish" => j.intent # None \/ files.stage = "full"
    PROVE  Arrives(j) /\ host'.pc = pc /\ host'.back = host.back /\ result' = result
<1>1. /\ Carries(j) /\ host'.pc = pc /\ host'.action = host.action /\ host'.back = host.back
      /\ result' = result
    BY GoCarries
<1> QED BY <1>1 DEF Arrives

LEMMA PullEases ==
    ASSUME direction = "pull", NEW j, NEW g, NEW l, Following(j, g, l), Pull(j, g),
           g.error = None, g.terminal # None
    PROVE  /\ Arrives(j) /\ host'.pc # "verify_ready"
           /\ Calm(files) /\ AtRest(g) => Eases(g)
<1> PICK t : t = g.terminal
    OBVIOUS
<1>1. /\ Running(j, g, l) /\ j.begun /\ Current(j, g) /\ JournalOK(j) /\ Agree(j, g, bounds.overdue)
      /\ GuestOK(g, files.source) /\ LedgerOK(t) /\ t \in Snapshots /\ t # None /\ host \in HostStates
      /\ result = None /\ j \in Journals
    BY GuestFields DEF Following, Running, World, GuestOK, JournalOK
<1>2. CASE j.intent # None \/ j.published
  <2>1. Go(j, "publish")
      BY <1>2 DEF Pull
  <2>2. j.intent # None
      BY <1>1, <1>2 DEF JournalOK
  <2>3. "publish" \in Pcs \ (AbortPcs \cup {"register_package"})
      BY DEF Pcs, AbortPcs
  <2>4. Arrives(j) /\ host'.pc = "publish" /\ result' = result
      BY <1>1, <2>1, <2>2, <2>3, GoArrives
  <2>5. AtRest(g) => Eases(g)
      BY <1>1, <2>4, PollEases DEF AtRest, PullPcs
  <2> QED BY <2>4, <2>5
<1>3. CASE ~(j.intent # None \/ j.published) /\ (InPhase(g, "READY") \/ InPhase(g, "PREPARED"))
  <2> PICK k : k = SetPhase(j, "TRANSFERRING")
      OBVIOUS
  <2>1. Same(j, k) /\ Go(k, "chunks")
      BY <1>1, <1>3, SetPhaseSame DEF Pull
  <2>2. "chunks" \in Pcs \ (AbortPcs \cup {"register_package"})
      BY DEF Pcs, AbortPcs
  <2>3. Arrives(k) /\ host'.pc = "chunks" /\ result' = result
      BY <1>1, <2>1, <2>2, GoArrives
  <2>4. AtRest(g) => Eases(g)
      BY <1>1, <2>3, PollEases DEF AtRest, PullPcs
  <2> QED BY <2>1, <2>3, <2>4, ArrivesAs
<1>4. CASE ~(j.intent # None \/ j.published) /\ ~(InPhase(g, "READY") \/ InPhase(g, "PREPARED"))
  <2>1. t.phase \notin {"READY", "PREPARED"} /\ t.phase \in Phases
      BY <1>1, <1>4, SnapshotFields DEF InPhase
  <2>2. t.phase \notin {"FAILED", "CHANGED"}
      BY <1>1 DEF GuestOK, ErrorsOK
  <2>3. t.phase # "PUBLISHED"
      BY <1>1 DEF LedgerOK, PhaseOK
  <2>4. t.authorized # None
      BY <1>1, <2>1, <2>2, <2>3 DEF LedgerOK, PhaseOK, Phases
  <2>5. Stat(t, "release") # "NONE"
      BY <1>1, <2>4 DEF LedgerOK, ReceiptsOK
  <2>6. j.asked["release"] # None
      BY <1>1, <2>5, ActionNames DEF Agree
  <2>7. j.published
      BY <1>1, <2>6 DEF JournalOK
  <2> QED BY <1>4, <2>7
<1> QED BY <1>2, <1>3, <1>4

LEMMA ProceedEases ==
    ASSUME direction \in {"push", "pull"}, NEW j, NEW g, NEW l, Following(j, g, l), Proceed(j, g),
           direction = "pull" => g.error = None /\ g.terminal # None
    PROVE  /\ Arrives(j) /\ host'.pc # "verify_ready"
           /\ Calm(files) /\ AtRest(g) => Eases(g)
<1> PICK k : k = SetPhase(j, "READY")
    OBVIOUS
<1>1. Running(k, g, l) /\ OnlyPhase(j, k) /\ Current(k, g)
    BY PhasedRuns, PhaseNames DEF Following
<1>2. Following(k, g, l) /\ Same(j, k)
    BY <1>1, OnlyPhaseSame DEF Following, OnlyPhase
<1>3. IF direction = "push" THEN Push(k, g) ELSE Pull(k, g)
    BY DEF Proceed
<1> QED BY <1>2, <1>3, PushEases, PullEases, ArrivesAs

LEMMA ReadyEases ==
    ASSUME direction \in {"push", "pull"}, NEW j, NEW g, NEW l, Following(j, g, l), Ready(j, g)
    PROVE  /\ Arrives(j) /\ host'.pc # "verify_ready"
           /\ Calm(files) /\ g.made /\ g.error = None /\ (g.job = "verify_partial" => g.stopped /\ direction = "push")
                 => Eases(g)
<1>1. Running(j, g, l) /\ host \in HostStates /\ j \in Journals /\ result = None
    BY DEF Following, Running, World, JournalOK
<1>2. CASE g.error # None
  <2>1. Raise(j, g.error)
      BY <1>2 DEF Ready
  <2> QED BY <1>1, <1>2, <2>1, RaiseArrives
<1>3. CASE g.error = None /\ (~g.stopped \/ (direction = "pull" /\ g.terminal = None))
  <2>1. Go(j, "ready")
      BY <1>3 DEF Ready
  <2>2. "ready" \in Pcs \ (AbortPcs \cup {"register_package"})
      BY DEF Pcs, AbortPcs
  <2>3. Arrives(j) /\ host'.pc = "ready" /\ result' = result
      BY <1>1, <2>1, <2>2, GoArrives
  <2>4. ASSUME g.made, g.job # "verify_partial" PROVE Eases(g)
      BY <1>1, <1>3, <2>3, <2>4
         DEF Eases, EaseOK, StartEases, VerifyEases, FinishEases, PullPcs, EndOK
  <2> QED BY <1>3, <2>3, <2>4
<1>4. CASE g.error = None /\ ~(~g.stopped \/ (direction = "pull" /\ g.terminal = None))
  <2>1. Proceed(j, g)
      BY <1>4 DEF Ready
  <2> QED BY <1>4, <2>1, ProceedEases DEF AtRest
<1> QED BY <1>2, <1>3, <1>4

(* The guest is verifying a prefix, or can.                                *)
Verifiable(g) ==
    /\ g.made /\ Unprepared(g) /\ (g.alive => g.job = "verify_partial")
    /\ g.error \in {None, "worker_result_unknown"}

LEMMA VerifyWaitEases ==
    ASSUME direction = "push", NEW j, NEW g, NEW l, Following(j, g, l), VerifyWait(j, g)
    PROVE  /\ Arrives(j) /\ host'.pc # "verify_ready"
           /\ Verifiable(g) /\ (host.back = "prepare" => g.terminal # None) => Eases(g)
<1>1. Running(j, g, l) /\ host \in HostStates /\ j \in Journals /\ result = None
    BY DEF Following, Running, World, JournalOK
<1>2. CASE g.stopped /\ g.error \notin RecoverableErrors
  <2>1. Raise(j, "chunk_outcome_unresolved")
      BY <1>2 DEF VerifyWait
  <2>2. ~Verifiable(g)
      BY <1>2 DEF Verifiable, RecoverableErrors
  <2> QED BY <1>1, <2>1, <2>2, RaiseArrives
<1>3. CASE ~(g.stopped /\ g.error \notin RecoverableErrors)
  <2> PICK pc : pc = IF g.stopped THEN "verify_call" ELSE "verify_wait"
      OBVIOUS
  <2>1. Go(j, pc)
      BY <1>3 DEF VerifyWait
  <2>2. pc \in Pcs \ (AbortPcs \cup {"register_package"}) /\ pc \notin {"poll", "request", "publish", "verify_ready"}
      BY DEF Pcs, AbortPcs
  <2>3. Arrives(j) /\ host'.pc = pc /\ host'.back = host.back /\ result' = result
      BY <1>1, <2>1, <2>2, GoArrives
  <2>4. ASSUME Verifiable(g), host.back = "prepare" => g.terminal # None PROVE Eases(g)
      BY <1>1, <2>3, <2>4
         DEF Verifiable, Eases, EaseOK, StartEases, VerifyEases, FinishEases, PullPcs, EndOK
  <2> QED BY <2>2, <2>3, <2>4
<1> QED BY <1>2, <1>3

(* The proof of a new prefix verification is there, or is being made.      *)
Confirming(g) ==
    /\ Verifiable(g) /\ g.error = None /\ ~g.known /\ g.job = "verify_partial"
    /\ g.stopped => g.proof
    /\ g.alive \/ g.proof
    /\ host.back = "prepare" => g.terminal # None

LEMMA VerifyReadyEases ==
    ASSUME direction = "push", NEW j, NEW g, NEW l, Following(j, g, l), VerifyReady(j, g)
    PROVE  Arrives(j) /\ (Calm(files) /\ Confirming(g) => Eases(g))
<1>1. Running(j, g, l) /\ host \in HostStates /\ j \in Journals /\ result = None
    BY DEF Following, Running, World, JournalOK
<1>2. CASE g.error # None \/ (g.stopped /\ (~g.proof \/ g.known \/ g.job # "verify_partial"))
  <2>1. Raise(j, "chunk_outcome_unresolved")
      BY <1>2 DEF VerifyReady
  <2>2. ~Confirming(g)
      BY <1>2 DEF Confirming
  <2>3. Arrives(j)
      BY <1>1, <2>1, RaiseArrives
  <2> QED BY <2>2, <2>3
<1>3. CASE g.error = None /\ ~g.stopped
  <2>1. Go(j, "verify_ready")
      BY <1>3 DEF VerifyReady
  <2>2. "verify_ready" \in Pcs \ (AbortPcs \cup {"register_package"})
      BY DEF Pcs, AbortPcs
  <2>3. Arrives(j) /\ host'.pc = "verify_ready" /\ host'.back = host.back /\ result' = result
      BY <1>1, <2>1, <2>2, GoArrives
  <2>4. ASSUME Confirming(g) PROVE Eases(g)
    <3>1. /\ Verifiable(g) /\ g.error = None /\ ~g.known /\ g.job = "verify_partial"
          /\ g.alive \/ g.proof
          /\ host.back = "prepare" => g.terminal # None
        BY <2>4 DEF Confirming
    <3>2. StartEases(host', g) /\ FinishEases(host', g)
        BY <2>3 DEF StartEases, FinishEases, PullPcs
    <3>3. VerifyEases(host', g)
        BY <2>3, <3>1 DEF VerifyEases, Verifiable
    <3>4. EndOK(result', files')
        BY <1>1, <2>3 DEF EndOK
    <3> QED BY <3>2, <3>3, <3>4 DEF Eases, EaseOK
  <2> QED BY <2>3, <2>4
<1>4. CASE g.error = None /\ g.stopped /\ g.proof /\ ~g.known /\ g.job = "verify_partial"
  <2>r. Verifiable(g) => AtRest(g) /\ Unprepared(g)
      BY <1>4 DEF AtRest, Verifiable
  <2>c. Confirming(g) => Verifiable(g) /\ (host.back = "prepare" => g.terminal # None)
      BY DEF Confirming
  <2>1. CASE host.back = "proceed"
    <3>1. Proceed(j, g)
        BY <1>4, <2>1 DEF VerifyReady
    <3>2. Arrives(j) /\ (Calm(files) /\ AtRest(g) => Eases(g))
        BY <3>1, ProceedEases
    <3> QED BY <2>r, <2>c, <3>2
  <2>2. CASE host.back = "prepare"
    <3>1. EnterFinish(SetPhase(j, "VERIFYING"), "prepare")
        BY <1>4, <2>2 DEF VerifyReady
    <3>2. Carries(j) /\ host'.pc = "poll" /\ result' = result
        BY <1>1, <3>1, PhasedFinishGoes, PhaseNames, ActionNames
    <3>3. Arrives(j)
        BY <3>2, PollArrives
    <3>4. g.terminal # None => Eases(g)
        BY <1>1, <1>4, <3>2, PollEases
    <3> QED BY <2>2, <2>c, <3>3, <3>4
  <2>3. CASE host.back \notin {"proceed", "prepare"}
    <3>1. /\ journal' = j /\ host' = [host EXCEPT !.pc = "send", !.sent = g.terminal # None]
          /\ files' = files /\ result' = result
        BY <1>4, <2>3 DEF VerifyReady
    <3>2. Arrives(j) /\ host'.pc = "send" /\ (host'.sent => g.terminal # None)
        BY <1>1, <3>1, SendArrives, Zenon
    <3>3. Verifiable(g) => Eases(g)
        BY <1>1, <2>r, <3>1, <3>2, SendEases
    <3> QED BY <2>c, <3>2, <3>3
  <2> QED BY <2>1, <2>2, <2>3
<1> QED BY <1>2, <1>3, <1>4

(* A worker that runs before a prepare has begun verifies or packs.        *)
LEMMA EarlyWorker ==
    ASSUME direction = "push", NEW g, NEW src, GuestOK(g, src), g.alive, Unprepared(g), g.job # "prepare"
    PROVE  g.job = "verify_partial"
<1>1. g.job # "package" /\ g.job # None
    BY DEF GuestOK, WorkerOK
<1>2. ASSUME g.job \in {"commit", "release"} PROVE FALSE
  <2>1. g.terminal # None /\ Stat(g.terminal, g.job) = "IN_PROGRESS" /\ LedgerOK(g.terminal)
      BY <1>2 DEF GuestOK, WorkerOK, Actions
  <2>2. g.terminal.phase = "READY"
      BY <2>1 DEF Unprepared
  <2> QED BY <1>2, <2>1, <2>2 DEF LedgerOK, PhaseOK
<1>3. g.job \in Actions \cup {"package", "verify_partial", None}
    BY GuestFields DEF GuestOK
<1> QED BY <1>1, <1>2, <1>3 DEF Actions

(* What a run that was interrupted may find without having to raise.       *)
Resumable(g) ==
    /\ g.made /\ host.back = "proceed"
    /\ g.error = None \/ (g.error = "worker_result_unknown" /\ g.job = "verify_partial")
    /\ ~(direction = "push" /\ g.alive /\ g.job = "prepare")

LEMMA ResumedEases ==
    ASSUME direction \in {"push", "pull"}, NEW j, NEW g, NEW l, Following(j, g, l), Resumed(j, g), TaskOK(g)
    PROVE  Arrives(j) /\ host'.pc # "verify_ready" /\ (Calm(files) /\ Resumable(g) => Eases(g))
<1>1. Running(j, g, l) /\ host \in HostStates /\ j \in Journals /\ result = None /\ GuestOK(g, files.source)
    BY DEF Following, Running, World, JournalOK
<1> PICK resumable \in BOOLEAN : resumable <=> (g.terminal = None \/ (direction = "push" /\ InPhase(g, "READY")))
    OBVIOUS
<1> PICK refused \in BOOLEAN : refused <=> (g.error # None /\ (~resumable \/ g.error \notin RecoverableErrors))
    OBVIOUS
<1>2. g.job = "verify_partial" => direction = "push" /\ resumable
    BY DEF TaskOK, InPhase
<1>3. CASE refused
  <2>1. Raise(j, g.error)
      BY <1>3 DEF Resumed
  <2>2. ~Resumable(g)
      BY <1>2, <1>3 DEF RecoverableErrors, Resumable
  <2>3. Arrives(j) /\ host'.pc = "idle"
      BY <1>1, <2>1, RaiseArrives
  <2> QED BY <2>2, <2>3
<1>4. CASE ~refused /\ (~resumable \/ (direction # "push" /\ ~g.stopped))
  <2>1. Ready(j, g)
      BY <1>4 DEF Resumed
  <2>2. Resumable(g) => g.made /\ g.error = None /\ (g.job = "verify_partial" => g.stopped /\ direction = "push")
      BY <1>2, <1>4 DEF Resumable
  <2>3. /\ Arrives(j) /\ host'.pc # "verify_ready"
        /\ Calm(files) /\ g.made /\ g.error = None /\ (g.job = "verify_partial" => g.stopped /\ direction = "push")
              => Eases(g)
      BY <2>1, ReadyEases
  <2> QED BY <2>2, <2>3
<1>5. CASE ~refused /\ resumable /\ direction = "push"
  <2>1. VerifyWait(j, g)
      BY <1>5 DEF Resumed
  <2>2. Unprepared(g)
      BY <1>5 DEF Unprepared, InPhase
  <2>3. Resumable(g) => (g.alive => g.job = "verify_partial")
      BY <1>1, <1>5, <2>2, EarlyWorker DEF Resumable
  <2>4. Resumable(g) => Verifiable(g) /\ (host.back = "prepare" => g.terminal # None)
      BY <2>2, <2>3 DEF Verifiable, Resumable
  <2>5. /\ Arrives(j) /\ host'.pc # "verify_ready"
        /\ Verifiable(g) /\ (host.back = "prepare" => g.terminal # None) => Eases(g)
      BY <1>5, <2>1, VerifyWaitEases
  <2> QED BY <2>4, <2>5
<1>6. CASE ~refused /\ resumable /\ direction # "push" /\ g.stopped
  <2>1. Go(j, "begin_call")
      BY <1>6 DEF Resumed
  <2>2. "begin_call" \in Pcs \ (AbortPcs \cup {"register_package"})
      BY DEF Pcs, AbortPcs
  <2>3. Arrives(j) /\ host'.pc = "begin_call" /\ host'.back = host.back /\ result' = result
      BY <1>1, <2>1, <2>2, GoArrives
  <2>4. ASSUME Resumable(g) PROVE Eases(g)
    <3>1. g.error = None
        BY <1>2, <1>6, <2>4 DEF Resumable
    <3>2. StartEases(host', g)
        BY <1>6, <2>3, <3>1 DEF StartEases
    <3>3. VerifyEases(host', g) /\ FinishEases(host', g)
        BY <2>3 DEF VerifyEases, FinishEases, PullPcs
    <3>4. EndOK(result', files')
        BY <1>1, <2>3 DEF EndOK
    <3> QED BY <3>2, <3>3, <3>4 DEF Eases, EaseOK
  <2> QED BY <2>3, <2>4
<1> QED BY <1>3, <1>4, <1>5, <1>6

LEMMA ReleasedEases ==
    ASSUME direction \in {"push", "pull"}, NEW j, NEW g, NEW l, Following(j, g, l), Released(j, g), TaskOK(g),
           g.terminal # None, Stat(g.terminal, "release") = "DONE"
    PROVE  Arrives(j) /\ host'.pc # "verify_ready" /\ (Calm(files) /\ g.error = None /\ g.stopped => Eases(g))
<1> PICK t : t = g.terminal
    OBVIOUS
<1>1. /\ Running(j, g, l) /\ host \in HostStates /\ j \in Journals /\ result = None /\ Current(j, g)
      /\ GuestOK(g, files.source) /\ JournalOK(j) /\ FilesOK(j, files) /\ LedgerOK(t)
    BY DEF Following, Running, World, JournalOK, GuestOK
<1>2. t.phase = "RELEASED" /\ t.authorized # None
    BY <1>1 DEF LedgerOK, PhaseOK
<1>3. t.publication # None
    BY <1>1, <1>2 DEF LedgerOK, ReceiptsOK
<1>4. j.publication = t.publication /\ j.published
    BY <1>1, <1>3 DEF Current, JournalOK
<1>5. CASE ~ReleaseProved(j, g)
  <2>1. Raise(j, "guest_cleanup_unproven")
      BY <1>5 DEF Released
  <2>2. Arrives(j) /\ host'.pc = "idle"
      BY <1>1, <2>1, RaiseArrives
  <2>3. InPhase(g, "RELEASED") /\ g.job = "release" /\ g.cleaned /\ g.terminal.publication = j.publication
      BY <1>1, <1>2, <1>4 DEF InPhase, TaskOK, GuestOK, ErrorsOK
  <2>4. ~(g.error = None /\ g.stopped)
      BY <1>5, <2>3 DEF ReleaseProved
  <2> QED BY <2>2, <2>4
<1>6. CASE ReleaseProved(j, g) /\ direction = "pull" /\ DestinationError # None
  <2>1. Raise(j, DestinationError)
      BY <1>6 DEF Released
  <2>2. Arrives(j) /\ host'.pc = "idle"
      BY <1>1, <2>1, RaiseArrives
  <2>3. ~Calm(files)
      BY <1>1, <1>4, <1>6 DEF Calm, FilesOK, DestinationError
  <2> QED BY <2>2, <2>3
<1>7. CASE ReleaseProved(j, g) /\ ~(direction = "pull" /\ DestinationError # None)
  <2> PICK k : k = [j EXCEPT !.destVerified = TRUE, !.guestClean = TRUE, !.hostClean = FALSE]
      OBVIOUS
  <2>1. Go(k, "clean") /\ Same(j, k)
      BY <1>1, <1>7 DEF Released, Same, Journals
  <2>2. "clean" \in Pcs \ (AbortPcs \cup {"register_package"})
      BY DEF Pcs, AbortPcs
  <2>3. Arrives(k) /\ host'.pc = "clean" /\ result' = result
      BY <1>1, <2>1, <2>2, GoArrives
  <2>4. Eases(g)
    <3>1. StartEases(host', g) /\ VerifyEases(host', g) /\ FinishEases(host', g)
        BY <2>3 DEF StartEases, VerifyEases, FinishEases, PullPcs
    <3> QED BY <1>1, <2>3, <3>1 DEF Eases, EaseOK, EndOK
  <2> QED BY <2>1, <2>3, <2>4, ArrivesAs
<1> QED BY <1>5, <1>6, <1>7

LEMMA FinishedEases ==
    ASSUME direction \in {"push", "pull"}, NEW j, NEW g, NEW l, Following(j, g, l), Finished(j, g), TaskOK(g),
           Finishing(host.action, j, g), g.terminal # None, Stat(g.terminal, host.action) = "DONE",
           direction = "pull" /\ host.action = "prepare" => files.stage = "full"
    PROVE  Arrives(j) /\ host'.pc # "verify_ready" /\ (Calm(files) /\ g.error = None /\ g.stopped => Eases(g))
<1> PICK t : t = g.terminal
    OBVIOUS
<1>1. /\ Running(j, g, l) /\ host \in HostStates /\ j \in Journals /\ result = None /\ Current(j, g)
      /\ GuestOK(g, files.source) /\ JournalOK(j) /\ LedgerOK(t)
    BY DEF Following, Running, World, JournalOK, GuestOK
<1>2. CASE host.action = "prepare" /\ direction = "push" /\ Go(j, "validate")
  <2>1. "validate" \in Pcs \ (AbortPcs \cup {"register_package"})
      BY DEF Pcs, AbortPcs
  <2>2. Arrives(j) /\ host'.pc = "validate" /\ result' = result
      BY <1>1, <1>2, <2>1, GoArrives
  <2>3. g.error = None /\ g.stopped => Eases(g)
      BY <1>1, <2>2, PollEases
  <2> QED BY <2>2, <2>3
<1>3. CASE host.action = "prepare" /\ direction = "pull" /\ Go([j EXCEPT !.stable = TRUE], "publish")
  <2> PICK k : k = [j EXCEPT !.stable = TRUE]
      OBVIOUS
  <2>1. Go(k, "publish") /\ Same(j, k)
      BY <1>1, <1>3 DEF Same, Journals
  <2>2. "publish" \in Pcs \ (AbortPcs \cup {"register_package"})
      BY DEF Pcs, AbortPcs
  <2>3. Arrives(k) /\ host'.pc = "publish" /\ result' = result
      BY <1>1, <1>3, <2>1, <2>2, GoArrives
  <2>4. g.error = None /\ g.stopped => Eases(g)
      BY <1>1, <2>3, PollEases DEF PullPcs
  <2> QED BY <2>1, <2>3, <2>4, ArrivesAs
<1>4. CASE host.action = "commit" /\ EnterRelease(j)
  <2>1. Stat(t, "commit") = "DONE" /\ direction = "push"
      BY <1>4 DEF Finishing
  <2>2. t.publication # None
      BY <1>1, <2>1 DEF LedgerOK, ReceiptsOK
  <2>3. j.published
      BY <1>1, <2>2 DEF Current, JournalOK
  <2>4. Carries(j) /\ host'.pc = "poll" /\ result' = result
      BY <1>1, <1>4, <2>3, EnterReleaseGoes
  <2>5. Arrives(j)
      BY <2>1, <2>4, PollArrives
  <2>6. g.error = None /\ g.stopped => Eases(g)
      BY <1>1, <2>4, PollEases
  <2> QED BY <2>4, <2>5, <2>6
<1>5. CASE host.action = "release" /\ Released(j, g)
    BY <1>5, ReleasedEases
<1> QED BY <1>2, <1>3, <1>4, <1>5 DEF Finished

(* The loop of _finish goes on.                                            *)
Pollable(j, g) ==
    /\ g.terminal # None /\ g.error = None
    /\ g.job = "verify_partial" => g.stopped
    /\ j.attempts[host.action] # RetryCap

LEMMA PolledEases ==
    ASSUME direction \in {"push", "pull"}, NEW j, NEW g, NEW l, Following(j, g, l), Polled(j, g), TaskOK(g),
           Finishing(host.action, j, g), direction = "pull" /\ host.action = "prepare" => files.stage = "full"
    PROVE  Arrives(j) /\ host'.pc # "verify_ready" /\ (Calm(files) /\ Pollable(j, g) => Eases(g))
<1> PICK t : t = g.terminal
    OBVIOUS
<1> PICK a : a = host.action
    OBVIOUS
<1>1. /\ Running(j, g, l) /\ host \in HostStates /\ a \in Actions /\ j \in Journals /\ result = None
      /\ GuestOK(g, files.source) /\ Agree(j, g, bounds.overdue)
    BY DEF Following, Running, World, JournalOK, HostStates
<1>2. CASE t = None
  <2>1. Raise(j, "guest_terminal_missing")
      BY <1>2 DEF Polled
  <2>2. Arrives(j) /\ host'.pc = "idle"
      BY <1>1, <2>1, RaiseArrives
  <2>3. ~Pollable(j, g)
      BY <1>2 DEF Pollable
  <2> QED BY <2>2, <2>3
<1>3. CASE t # None /\ Stat(t, a) = "FAILED"
  <2>1. t.ops[a].inputs = j.asked[a]
      BY <1>1, <1>3 DEF Agree
  <2>2. Raise(j, t.ops[a].result.error)
      BY <1>3, <2>1 DEF Polled, Op, Stat
  <2>3. Arrives(j) /\ host'.pc = "idle"
      BY <1>1, <2>2, RaiseArrives
  <2>4. t.phase \in {"FAILED", "CHANGED"}
      BY <1>1, <1>3 DEF GuestOK, LedgerOK, PhaseOK
  <2>5. g.error # None
      BY <1>1, <1>3, <2>4 DEF GuestOK, ErrorsOK
  <2>6. ~Pollable(j, g)
      BY <2>5 DEF Pollable
  <2> QED BY <2>3, <2>6
<1>4. CASE t # None /\ Stat(t, a) # "FAILED"
  <2>1. Stat(t, a) # "NONE" => t.ops[a].inputs = j.asked[a]
      BY <1>1, <1>4 DEF Agree
  <2>2. \/ Stat(t, a) = "DONE" /\ g.stopped /\ Finished(j, g)
        \/ Go(j, "poll")
        \/ Go(j, "request")
        \/ ~(j.attempts[a] < RetryCap) /\ Raise(j, "action_retry_exhausted")
        \/ g.error # None /\ Raise(j, g.error)
      BY <1>4, <2>1 DEF Polled, Op, Stat
  <2>3. CASE Stat(t, a) = "DONE" /\ g.stopped /\ Finished(j, g)
    <3>1. Arrives(j) /\ host'.pc # "verify_ready" /\ (Calm(files) /\ g.error = None /\ g.stopped => Eases(g))
        BY <1>4, <2>3, FinishedEases
    <3>2. Pollable(j, g) => g.error = None /\ g.stopped
        BY <2>3 DEF Pollable
    <3> QED BY <3>1, <3>2
  <2>4. ASSUME NEW pc \in {"poll", "request"}, Go(j, pc)
        PROVE  Arrives(j) /\ host'.pc # "verify_ready" /\ (Pollable(j, g) => Eases(g))
    <3>1. pc \in Pcs \ (AbortPcs \cup {"register_package"}) /\ pc # "publish"
        BY DEF Pcs, AbortPcs
    <3>2. Arrives(j) /\ host'.pc = pc /\ result' = result
        BY <1>1, <2>4, <3>1, GoArrives
    <3>3. Pollable(j, g) => Eases(g)
        BY <1>1, <1>4, <3>2, PollEases DEF Pollable
    <3> QED BY <3>2, <3>3
  <2>5. CASE ~(j.attempts[a] < RetryCap) /\ Raise(j, "action_retry_exhausted")
    <3>1. Arrives(j) /\ host'.pc = "idle"
        BY <1>1, <2>5, RaiseArrives
    <3>2. j.attempts[a] \in 0..RetryCap
        BY <1>1, JournalFields
    <3>3. j.attempts[a] = RetryCap
        BY <2>5, <3>2 DEF RetryCap
    <3>4. ~Pollable(j, g)
        BY <3>3 DEF Pollable
    <3> QED BY <3>1, <3>4
  <2>6. CASE g.error # None /\ Raise(j, g.error)
    <3>1. Arrives(j) /\ host'.pc = "idle"
        BY <1>1, <2>6, RaiseArrives
    <3>2. ~Pollable(j, g)
        BY <2>6 DEF Pollable
    <3> QED BY <3>1, <3>2
  <2> QED BY <2>2, <2>3, <2>4, <2>5, <2>6
<1> QED BY <1>2, <1>3, <1>4

-----------------------------------------------------------------------------
(* From one step of the world to the next.                                 *)
QuietNow == Now /\ QuietOK(bounds, host, journal, guest, files, late, result)
SmoothNow == Smooth(bounds, host, journal, guest, files)
SmoothNext == Smooth(bounds', host', journal', guest', files')

InOrder == OrderOK(host', journal', guest', files', late')
AtEase == SmoothNext => EaseOK(host', guest') /\ EndOK(result', files')
StaysQuiet == InOrder /\ AtEase

(* A journal that a begun transfer goes on with.                           *)
Advances(j) ==
    /\ j.attempts = journal.attempts /\ j.adapterPending = journal.adapterPending
    /\ j.begun /\ j.intent = journal.intent /\ (journal.published => j.published)

LEMMA QuietRuns ==
    ASSUME QuietNow, host.pc # "idle"
    PROVE  /\ Now /\ direction \in {"push", "pull"} /\ Counters(bounds)
           /\ Running(journal, guest, late) /\ JournalOK(journal) /\ journal \in Journals
           /\ World(journal, guest, files, late, bounds.overdue) /\ host \in HostStates /\ result = None
           /\ GuestOK(guest, files.source) /\ guest \in Guests /\ WorkerOK(guest) /\ FilesOK(journal, files)
           /\ FinishingOK(host, journal, guest, bounds.overdue) /\ PublishingOK(host, journal, files)
           /\ CleaningOK(host, journal, guest, files)
           /\ (host.pc \notin EarlyPcs => journal.begun)
           /\ (host.pc \in PullPcs => direction = "pull") /\ (host.pc \in PushPcs => direction = "push")
           /\ OrderOK(host, journal, guest, files, late) /\ TaskOK(guest)
           /\ SentOK(host, journal, guest, files, late) /\ StagedOK(host, journal, files)
           /\ (SmoothNow => EaseOK(host, guest) /\ Calm(files) /\ ~guest.cancelled /\ ~host.abort
                            /\ ~journal.adapterPending /\ ~bounds.expired)
<1>1. Now
    BY DEF QuietNow
<1>2. /\ direction \in {"push", "pull"} /\ Counters(bounds)
      /\ Running(journal, guest, late) /\ JournalOK(journal) /\ journal \in Journals
      /\ World(journal, guest, files, late, bounds.overdue)
      /\ GuestOK(guest, files.source) /\ FilesOK(journal, files)
      /\ RunningOK(host, journal) /\ FinishingOK(host, journal, guest, bounds.overdue)
      /\ PublishingOK(host, journal, files) /\ CleaningOK(host, journal, guest, files)
      /\ (host.pc \notin EarlyPcs => journal.begun)
    BY <1>1, NowRuns
<1>3. host \in HostStates /\ result = None
    BY <1>2 DEF Running
<1>4. guest \in Guests /\ WorkerOK(guest)
    BY <1>2 DEF GuestOK
<1>5. (host.pc \in PullPcs => direction = "pull") /\ (host.pc \in PushPcs => direction = "push")
    BY <1>2 DEF RunningOK
<1>6. /\ OrderOK(host, journal, guest, files, late) /\ TaskOK(guest)
      /\ SentOK(host, journal, guest, files, late) /\ StagedOK(host, journal, files)
    BY DEF QuietNow, QuietOK, OrderOK
<1>7. SmoothNow => EaseOK(host, guest)
    BY DEF QuietNow, QuietOK, SmoothNow
<1>8. SmoothNow => /\ Calm(files) /\ ~guest.cancelled /\ ~host.abort
                   /\ ~journal.adapterPending /\ ~bounds.expired
    BY DEF SmoothNow, Smooth
<1> QED BY <1>1, <1>2, <1>3, <1>4, <1>5, <1>6, <1>7, <1>8

LEMMA FaultIsRough == ASSUME Counters(bounds), Faulty PROVE ~SmoothNext
<1> PICK n : n = bounds.faults + 1
    OBVIOUS
<1>1. bounds' = [bounds EXCEPT !.faults = n, !.quiet = FALSE]
    BY DEF Faulty
<1>2. bounds'.quiet = FALSE
    BY <1>1 DEF Counters
<1> QED BY <1>2 DEF SmoothNext, Smooth

LEMMA SmoothBefore ==
    ASSUME bounds' = bounds, Calm(files') => Calm(files), host'.abort = host.abort,
           journal'.attempts = journal.attempts, journal'.adapterPending = journal.adapterPending,
           guest.cancelled => guest'.cancelled, SmoothNext
    PROVE  SmoothNow
BY DEF SmoothNext, SmoothNow, Smooth

LEMMA ArrivesInOrder ==
    ASSUME NEW j, Arrives(j), TaskOK(guest'), guest'.made \/ late' # {} => j.begun,
           direction = "push" /\ files.temp = "none" => ~j.begun /\ host'.pc # "begin_call",
           direction = "pull" =>
               (j.intent # None /\ ~j.published => files.stage = "full" \/ files.dest # "none")
    PROVE  InOrder
<1>1. /\ journal'.begun = j.begun /\ journal'.intent = j.intent /\ journal'.published = j.published
      /\ files' = files
    BY DEF Arrives, Carries, Same
<1>2. SentOK(host', journal', guest', files', late')
    BY <1>1 DEF Arrives, SentOK
<1>3. StagedOK(host', journal', files')
    BY <1>1 DEF Arrives, StagedOK
<1> QED BY <1>2, <1>3 DEF InOrder, OrderOK

LEMMA OrderKept ==
    ASSUME SentOK(host, journal, guest, files, late), StagedOK(host, journal, files),
           journal.begun \/ host.pc = "begin_call", NEW j, Arrives(j), TaskOK(guest'),
           j.begun, j.intent = journal.intent, journal.published => j.published
    PROVE  InOrder
<1>1. ~(direction = "push" /\ files.temp = "none")
    BY DEF SentOK
<1>2. direction = "pull" =>
        (j.intent # None /\ ~j.published => files.stage = "full" \/ files.dest # "none")
    BY DEF StagedOK
<1> QED BY <1>1, <1>2, ArrivesInOrder

LEMMA BegunInOrder ==
    ASSUME SentOK(host, journal, guest, files, late), StagedOK(host, journal, files),
           journal.begun \/ host.pc = "begin_call", NEW j, Arrives(j), Advances(j), TaskOK(guest')
    PROVE  InOrder
BY OrderKept DEF Advances

LEMMA ArrivesAtEase ==
    ASSUME NEW j, Arrives(j), Advances(j), bounds' = bounds, guest.cancelled => guest'.cancelled,
           SmoothNow => Eases(guest')
    PROVE  AtEase
<1>1. /\ journal'.attempts = journal.attempts /\ journal'.adapterPending = journal.adapterPending
      /\ files' = files /\ host'.abort = host.abort
    BY DEF Arrives, Carries, Same, Advances
<1>2. SmoothNext => SmoothNow
    BY <1>1, SmoothBefore
<1> QED BY <1>2 DEF AtEase, Eases

(* A step that leaves the guest alone.                                     *)
LEMMA LocalQuiet ==
    ASSUME QuietNow, host.pc # "idle", journal.begun \/ host.pc = "begin_call", Local,
           NEW j, Arrives(j), Advances(j),
           SmoothNow => Eases(guest)
    PROVE  StaysQuiet
<1>1. /\ SentOK(host, journal, guest, files, late) /\ StagedOK(host, journal, files) /\ TaskOK(guest)
    BY QuietRuns
<1>2. guest' = guest /\ late' = late /\ bounds' = bounds
    BY DEF Local
<1>3. InOrder
    BY <1>1, <1>2, BegunInOrder
<1>4. AtEase
    BY <1>2, ArrivesAtEase
<1> QED BY <1>3, <1>4 DEF StaysQuiet

(* A run whose steps are not smooth may raise.                             *)
LEMMA RoughQuiet ==
    ASSUME QuietNow, host.pc # "idle", journal.begun \/ host.pc = "begin_call", Local,
           NEW j \in Journals, Advances(j),
           NEW code, Raise(j, code), SmoothNow => EndOK(result', files)
    PROVE  StaysQuiet
<1>1. host \in HostStates
    BY QuietRuns
<1>2. Arrives(j) /\ host'.pc = "idle" /\ files' = files
    BY <1>1, RaiseArrives DEF Raise
<1>3. SmoothNow => Eases(guest)
    BY <1>2, IdleEases
<1> QED BY <1>2, <1>3, LocalQuiet

(* The answer of a status.                                                 *)
LEMMA KnownEases ==
    ASSUME NEW g \in Guests, NEW mark \in BOOLEAN, NEW h, mark => h.pc # "verify_ready"
    PROVE  LET k == [g EXCEPT !.known = g.known \/ mark] IN
           /\ k.cancelled = g.cancelled /\ (TaskOK(g) => TaskOK(k)) /\ (EaseOK(h, g) => EaseOK(h, k))
<1> PICK known \in BOOLEAN : known <=> (g.known \/ mark)
    OBVIOUS
<1> PICK k : k = [g EXCEPT !.known = g.known \/ mark]
    OBVIOUS
<1>1. g.known \in BOOLEAN
    BY GuestFields
<1>2. k = [g EXCEPT !.known = known]
    BY <1>1
<1>3. /\ k.made = g.made /\ k.terminal = g.terminal /\ k.job = g.job /\ k.alive = g.alive
      /\ k.stopped = g.stopped /\ k.error = g.error /\ k.proof = g.proof /\ k.cancelled = g.cancelled
      /\ k.known = known
    BY <1>2 DEF Guests
<1>4. TaskOK(g) => TaskOK(k)
    BY <1>3 DEF TaskOK
<1>5. StartEases(h, g) => StartEases(h, k)
    BY <1>3 DEF StartEases
<1>6. VerifyEases(h, g) => VerifyEases(h, k)
    BY <1>3 DEF VerifyEases, Unprepared
<1>7. FinishEases(h, g) => FinishEases(h, k)
    BY <1>3 DEF FinishEases
<1> QED BY <1>3, <1>4, <1>5, <1>6, <1>7 DEF EaseOK

LEMMA IngestedAdvances ==
    ASSUME QuietNow, host.pc # "idle", journal.begun
    PROVE  Advances(Ingested(journal, Settled(guest))) /\ Ingested(journal, Settled(guest)) \in Journals
<1> PICK g : g = Settled(guest)
    OBVIOUS
<1> PICK k : k = Ingested(journal, g)
    OBVIOUS
<1>1. Now /\ direction \in {"push", "pull"} /\ JournalOK(journal)
    BY QuietRuns
<1>2. Ingests(journal, k, g) /\ Running(k, g, late)
    BY <1>1, StatusPrepares
<1>3. GuestOK(g, files.source)
    BY <1>2 DEF Running, World
<1>4. k.adapterPending = journal.adapterPending
    BY <1>1, <1>3, IngestedDoes
<1> QED BY <1>2, <1>4 DEF Ingests, Advances

LEMMA AnswerQuiet ==
    ASSUME QuietNow, host.pc # "idle", journal.begun, NEW mark \in BOOLEAN, StatusAnswered(mark),
           Arrives(Ingested(journal, Settled(guest))), mark => host'.pc # "verify_ready",
           SmoothNow => Eases(Settled(guest))
    PROVE  StaysQuiet
<1> PICK g : g = Settled(guest)
    OBVIOUS
<1> PICK j : j = Ingested(journal, g)
    OBVIOUS
<1>1. /\ direction \in {"push", "pull"} /\ GuestOK(guest, files.source) /\ TaskOK(guest)
      /\ SentOK(host, journal, guest, files, late) /\ StagedOK(host, journal, files)
    BY QuietRuns
<1>2. TaskOK(g) /\ g.cancelled = guest.cancelled
    BY <1>1, SettledDoes
<1>3. g \in Guests
    BY <1>1, SettledOK DEF Evolves, GuestOK
<1>4. guest' = [g EXCEPT !.known = g.known \/ mark] /\ bounds' = bounds
    BY DEF StatusAnswered
<1>5. guest'.cancelled = guest.cancelled /\ TaskOK(guest') /\ (EaseOK(host', g) => EaseOK(host', guest'))
    BY <1>2, <1>3, <1>4, KnownEases
<1>6. Advances(j)
    BY IngestedAdvances
<1>7. InOrder
    BY <1>1, <1>5, <1>6, BegunInOrder
<1>8. SmoothNow => Eases(guest')
    BY <1>5 DEF Eases
<1>9. AtEase
    BY <1>4, <1>5, <1>6, <1>8, ArrivesAtEase
<1> QED BY <1>7, <1>9 DEF StaysQuiet

LEMMA StatusFailsQuiet == ASSUME QuietNow, host.pc # "idle", journal.begun, StatusFails PROVE StaysQuiet
<1> PICK g : g = Settled(guest)
    OBVIOUS
<1> PICK i : i = Ingested(journal, g)
    OBVIOUS
<1>1. /\ direction \in {"push", "pull"} /\ GuestOK(guest, files.source) /\ TaskOK(guest) /\ Counters(bounds)
      /\ SentOK(host, journal, guest, files, late) /\ StagedOK(host, journal, files)
      /\ host \in HostStates /\ journal \in Journals
    BY QuietRuns
<1>2. TaskOK(g)
    BY <1>1, SettledDoes
<1>3. Advances(i) /\ i \in Journals
    BY IngestedAdvances
<1>4. Faulty
    BY DEF StatusFails
<1>5. AtEase
    BY <1>1, <1>4, FaultIsRough DEF AtEase
<1>6. CASE guest' \in {guest, g} /\ Raise(journal, "outcome_unknown")
  <2>1. Arrives(journal)
      BY <1>1, <1>6, RaiseArrives
  <2>2. Advances(journal)
      BY DEF Advances
  <2>3. InOrder
      BY <1>1, <1>2, <1>6, <2>1, <2>2, BegunInOrder
  <2> QED BY <1>5, <2>3 DEF StaysQuiet
<1>7. CASE guest' = g /\ Raise([i EXCEPT !.adapterPending = TRUE], "cleanup_failed")
  <2> PICK k : k = [i EXCEPT !.adapterPending = TRUE]
      OBVIOUS
  <2>1. /\ k \in Journals /\ k.begun = i.begun /\ k.intent = i.intent /\ k.published = i.published
      BY <1>3, ZenonT(60) DEF Journals
  <2>2. Arrives(k)
      BY <1>1, <1>7, <2>1, RaiseArrives
  <2>3. ~(direction = "push" /\ files.temp = "none") /\ k.begun
      BY <1>1, <1>3, <2>1 DEF SentOK, Advances
  <2>4. direction = "pull" =>
          (k.intent # None /\ ~k.published => files.stage = "full" \/ files.dest # "none")
      BY <1>1, <1>3, <2>1 DEF StagedOK, Advances
  <2>5. InOrder
      BY <1>2, <1>7, <2>2, <2>3, <2>4, ArrivesInOrder
  <2> QED BY <1>5, <2>5 DEF StaysQuiet
<1> QED BY <1>6, <1>7 DEF StatusFails

(* A mutation that is not answered: a fault, or one that must be refused.  *)
LEMMA UnansweredIsRough ==
    ASSUME QuietNow, host.pc # "idle", NEW r \in Requests, Unanswered(r)
    PROVE  /\ TaskOK(guest')
           /\ ~SmoothNext \/ (~Answers(guest, r) /\ guest' = guest /\ late' = late /\ bounds' = bounds)
<1>1. direction \in {"push", "pull"} /\ GuestOK(guest, files.source) /\ TaskOK(guest) /\ Counters(bounds)
    BY QuietRuns
<1>2. CASE Faulty /\ guest' \in Executed(guest, r)
  <2>1. TaskOK(guest')
      BY <1>1, <1>2, ExecutedDoes
  <2> QED BY <1>1, <1>2, <2>1, FaultIsRough
<1>3. CASE Faulty /\ guest' = guest
    BY <1>1, <1>3, FaultIsRough
<1>4. CASE ~Answers(guest, r) /\ UNCHANGED <<guest, late, bounds>>
    BY <1>1, <1>4
<1> QED BY <1>2, <1>3, <1>4 DEF Unanswered

-----------------------------------------------------------------------------
(* The host's steps of a quiet run: first those that ask for a status.     *)
LEMMA BeginCallEases ==
    ASSUME result = None, NEW g, host'.pc = "begin_call", result' = result, g.error = None,
           direction = "push" => ~g.made
    PROVE  Eases(g)
<1>1. StartEases(host', g) /\ VerifyEases(host', g) /\ FinishEases(host', g)
    BY DEF StartEases, VerifyEases, FinishEases, PullPcs
<1> QED BY <1>1 DEF Eases, EaseOK, EndOK

LEMMA SettledKeeps ==
    ASSUME direction \in {"push", "pull"}, NEW g, NEW src, GuestOK(g, src)
    PROVE  LET h == Settled(g) IN
           /\ g.terminal # None => h.terminal # None
           /\ Unprepared(g) => Unprepared(h) /\ h.terminal = g.terminal
<1> PICK h : h = Settled(g)
    OBVIOUS
<1>1. \/ h.terminal = g.terminal
      \/ g.job = "release" /\ g.terminal # None /\ g.terminal.phase = "RELEASING"
    BY SettledDoes
<1>2. Keeps(g.terminal, h.terminal)
    BY SettledOK DEF Evolves, Follows
<1>3. g.terminal # None => h.terminal # None
    BY <1>2 DEF Keeps
<1>4. Unprepared(g) => Unprepared(h) /\ h.terminal = g.terminal
    BY <1>1 DEF Unprepared
<1> QED BY <1>3, <1>4

LEMMA BeginQuiet == ASSUME QuietNow, Begin PROVE StaysQuiet
<1> PICK g : g = Settled(guest)
    OBVIOUS
<1> PICK j : j = Ingested(journal, g)
    OBVIOUS
<1>1. host.pc = "begin"
    BY DEF Begin, At
<1>2. /\ Now /\ direction \in {"push", "pull"} /\ journal.begun /\ host \in HostStates /\ result = None
      /\ GuestOK(guest, files.source) /\ TaskOK(guest)
    BY <1>1, QuietRuns DEF EarlyPcs
<1>3. SmoothNow => /\ host.back = "proceed" /\ guest.error = None
                   /\ ~(direction = "push" /\ guest.alive /\ guest.job = "prepare")
  <2>1. SmoothNow => StartEases(host, guest)
      BY <1>1, QuietRuns DEF EaseOK
  <2> QED BY <1>1, <2>1 DEF StartEases
<1>4. ASSUME guest.made, StatusAnswered(TRUE), Resumed(j, g) PROVE StaysQuiet
  <2>1. Following(j, g, late)
      BY <1>1, <1>2, StatusPrepares
  <2>2. /\ TaskOK(g) /\ g.made = guest.made /\ g.job = guest.job /\ g.alive = guest.alive
        /\ g.error = IF Lost(guest) THEN "worker_result_unknown" ELSE guest.error
      BY <1>2, SettledDoes
  <2>3. Arrives(j) /\ host'.pc # "verify_ready" /\ (Calm(files) /\ Resumable(g) => Eases(g))
      BY <1>2, <1>4, <2>1, <2>2, ResumedEases
  <2>4. SmoothNow => Resumable(g)
      BY <1>3, <1>4, <2>2 DEF Resumable, Lost
  <2>5. SmoothNow => Calm(files)
      BY <1>1, QuietRuns
  <2>6. SmoothNow => Eases(g)
      BY <2>3, <2>4, <2>5
  <2> QED BY <1>1, <1>2, <1>4, <2>3, <2>6, AnswerQuiet
<1>5. CASE Go(journal, "begin_call") /\ Local /\ ~guest.made
  <2>1. "begin_call" \in Pcs \ (AbortPcs \cup {"register_package"})
      BY DEF Pcs, AbortPcs
  <2>2. Arrives(journal) /\ host'.pc = "begin_call" /\ result' = result
      BY <1>2, <1>5, <2>1, GoArrives
  <2>3. SmoothNow => Eases(guest)
      BY <1>2, <1>3, <1>5, <2>2, BeginCallEases
  <2>4. Advances(journal)
      BY <1>2 DEF Advances
  <2> QED BY <1>1, <1>2, <1>5, <2>2, <2>3, <2>4, LocalQuiet
<1>6. CASE Status(Resumed, TRUE) /\ guest.made
  <2>1. CASE StatusFails
      BY <1>1, <1>2, <2>1, StatusFailsQuiet
  <2>2. IngestError(journal, g) = None
      BY <1>1, <1>2, StatusPrepares
  <2> QED BY <1>4, <1>6, <2>1, <2>2 DEF Status
<1> QED BY <1>5, <1>6 DEF Begin

LEMMA AwaitReadyQuiet == ASSUME QuietNow, AwaitReady PROVE StaysQuiet
<1> PICK g : g = Settled(guest)
    OBVIOUS
<1> PICK j : j = Ingested(journal, g)
    OBVIOUS
<1>1. host.pc = "ready"
    BY DEF AwaitReady, At
<1>2. /\ Now /\ direction \in {"push", "pull"} /\ journal.begun /\ host \in HostStates /\ result = None
      /\ GuestOK(guest, files.source) /\ TaskOK(guest) /\ journal \in Journals
    BY <1>1, QuietRuns DEF EarlyPcs
<1>3. SmoothNow => guest.made /\ guest.error = None /\ guest.job # "verify_partial"
  <2>1. SmoothNow => StartEases(host, guest)
      BY <1>1, QuietRuns DEF EaseOK
  <2> QED BY <1>1, <2>1 DEF StartEases
<1>4. ASSUME StatusAnswered(FALSE), Ready(j, g) PROVE StaysQuiet
  <2>1. Following(j, g, late)
      BY <1>1, <1>2, StatusPrepares
  <2>2. /\ TaskOK(g) /\ g.made = guest.made /\ g.job = guest.job /\ g.alive = guest.alive
        /\ g.error = IF Lost(guest) THEN "worker_result_unknown" ELSE guest.error
      BY <1>2, SettledDoes
  <2>3. Arrives(j) /\ host'.pc # "verify_ready"
      BY <1>2, <1>4, <2>1, ReadyEases
  <2>4. SmoothNow => g.made /\ g.error = None /\ g.job # "verify_partial"
      BY <1>3, <2>2 DEF Lost
  <2>5. SmoothNow => Calm(files)
      BY <1>1, QuietRuns
  <2>6. SmoothNow => Eases(g)
      BY <1>2, <1>4, <2>1, <2>4, <2>5, ReadyEases
  <2> QED BY <1>1, <1>2, <1>4, <2>3, <2>6, AnswerQuiet
<1>5. CASE Raise(journal, "task_not_found") /\ Local /\ ~guest.made
  <2>1. Advances(journal)
      BY <1>2 DEF Advances
  <2>2. ~SmoothNow
      BY <1>3, <1>5
  <2> QED BY <1>1, <1>2, <1>5, <2>1, <2>2, RoughQuiet
<1>6. CASE Status(Ready, FALSE)
  <2>1. CASE StatusFails
      BY <1>1, <1>2, <2>1, StatusFailsQuiet
  <2>2. IngestError(journal, g) = None
      BY <1>1, <1>2, StatusPrepares
  <2> QED BY <1>4, <1>6, <2>1, <2>2, Zenon DEF Status
<1> QED BY <1>5, <1>6 DEF AwaitReady

LEMMA AwaitIdleQuiet == ASSUME QuietNow, AwaitIdle PROVE StaysQuiet
<1> PICK g : g = Settled(guest)
    OBVIOUS
<1> PICK j : j = Ingested(journal, g)
    OBVIOUS
<1>1. host.pc = "verify_wait"
    BY DEF AwaitIdle, At
<1>2. /\ Now /\ direction = "push" /\ journal.begun /\ host \in HostStates /\ result = None
      /\ GuestOK(guest, files.source) /\ TaskOK(guest)
    BY <1>1, QuietRuns DEF EarlyPcs, PushPcs
<1>3. SmoothNow => /\ guest.made /\ Unprepared(guest) /\ (host.back = "prepare" => guest.terminal # None)
                   /\ (guest.alive => guest.job = "verify_partial")
                   /\ guest.error \in {None, "worker_result_unknown"}
  <2>1. SmoothNow => VerifyEases(host, guest)
      BY <1>1, QuietRuns DEF EaseOK
  <2> QED BY <1>1, <2>1 DEF VerifyEases
<1>4. ASSUME StatusAnswered(TRUE), VerifyWait(j, g) PROVE StaysQuiet
  <2>1. Following(j, g, late)
      BY <1>1, <1>2, StatusPrepares
  <2>2. /\ TaskOK(g) /\ g.made = guest.made /\ g.job = guest.job /\ g.alive = guest.alive
        /\ g.error = IF Lost(guest) THEN "worker_result_unknown" ELSE guest.error
      BY <1>2, SettledDoes
  <2>k. (guest.terminal # None => g.terminal # None) /\ (Unprepared(guest) => Unprepared(g))
      BY <1>2, SettledKeeps
  <2>3. Arrives(j) /\ host'.pc # "verify_ready"
      BY <1>2, <1>4, <2>1, VerifyWaitEases
  <2>4. SmoothNow => Verifiable(g) /\ (host.back = "prepare" => g.terminal # None)
      BY <1>3, <2>2, <2>k DEF Verifiable
  <2>6. SmoothNow => Eases(g)
      BY <1>2, <1>4, <2>1, <2>4, VerifyWaitEases
  <2> QED BY <1>1, <1>2, <1>4, <2>3, <2>6, AnswerQuiet
<1>6. CASE Status(VerifyWait, TRUE)
  <2>1. CASE StatusFails
      BY <1>1, <1>2, <2>1, StatusFailsQuiet
  <2>2. IngestError(journal, g) = None
      BY <1>1, <1>2, StatusPrepares
  <2> QED BY <1>4, <1>6, <2>1, <2>2, Zenon DEF Status
<1> QED BY <1>6 DEF AwaitIdle

LEMMA AwaitProofQuiet == ASSUME QuietNow, AwaitProof PROVE StaysQuiet
<1> PICK g : g = Settled(guest)
    OBVIOUS
<1> PICK j : j = Ingested(journal, g)
    OBVIOUS
<1>1. host.pc = "verify_ready"
    BY DEF AwaitProof, At
<1>2. /\ Now /\ direction = "push" /\ journal.begun /\ host \in HostStates /\ result = None
      /\ GuestOK(guest, files.source) /\ TaskOK(guest) /\ WorkerOK(guest)
    BY <1>1, QuietRuns DEF EarlyPcs, PushPcs
<1>3. SmoothNow => /\ guest.made /\ Unprepared(guest) /\ (host.back = "prepare" => guest.terminal # None)
                   /\ guest.error = None /\ ~guest.known /\ guest.job = "verify_partial"
                   /\ (guest.alive \/ guest.proof)
  <2>1. SmoothNow => VerifyEases(host, guest)
      BY <1>1, QuietRuns DEF EaseOK
  <2> QED BY <1>1, <2>1 DEF VerifyEases
<1>4. ASSUME StatusAnswered(FALSE), VerifyReady(j, g) PROVE StaysQuiet
  <2>1. Following(j, g, late)
      BY <1>1, <1>2, StatusPrepares
  <2>2. /\ TaskOK(g) /\ g.made = guest.made /\ g.job = guest.job /\ g.alive = guest.alive
        /\ g.known = guest.known /\ g.proof = guest.proof /\ (g.stopped <=> guest.stopped \/ ~guest.alive)
        /\ g.error = IF Lost(guest) THEN "worker_result_unknown" ELSE guest.error
      BY <1>2, SettledDoes
  <2>k. (guest.terminal # None => g.terminal # None) /\ (Unprepared(guest) => Unprepared(g))
      BY <1>2, SettledKeeps
  <2>3. Arrives(j) /\ (Calm(files) /\ Confirming(g) => Eases(g))
      BY <1>2, <1>4, <2>1, VerifyReadyEases
  <2>4. SmoothNow => Confirming(g)
    <3> SUFFICES ASSUME SmoothNow PROVE Confirming(g)
        OBVIOUS
    <3>1. g.error = None
        BY <1>3, <2>2 DEF Lost
    <3>2. Verifiable(g)
        BY <1>3, <2>2, <2>k, <3>1 DEF Verifiable
    <3>3. guest.alive => ~guest.stopped
        BY <1>2 DEF WorkerOK
    <3>4. guest.stopped => guest.proof
        BY <1>3, <3>3
    <3>5. g.stopped => g.proof
        BY <1>3, <2>2, <3>4
    <3> QED BY <1>3, <2>2, <2>k, <3>1, <3>2, <3>5 DEF Confirming
  <2>5. SmoothNow => Calm(files)
      BY <1>1, QuietRuns
  <2>6. SmoothNow => Eases(g)
      BY <2>3, <2>4, <2>5
  <2> QED BY <1>1, <1>2, <1>4, <2>3, <2>6, AnswerQuiet
<1>6. CASE Status(VerifyReady, FALSE)
  <2>1. CASE StatusFails
      BY <1>1, <1>2, <2>1, StatusFailsQuiet
  <2>2. IngestError(journal, g) = None
      BY <1>1, <1>2, StatusPrepares
  <2> QED BY <1>4, <1>6, <2>1, <2>2, Zenon DEF Status
<1> QED BY <1>6 DEF AwaitProof

LEMMA PollQuiet == ASSUME QuietNow, Poll PROVE StaysQuiet
<1> PICK g : g = Settled(guest)
    OBVIOUS
<1> PICK j : j = Ingested(journal, g)
    OBVIOUS
<1>1. host.pc = "poll"
    BY DEF Poll, At
<1>2. /\ Now /\ direction \in {"push", "pull"} /\ journal.begun /\ host \in HostStates /\ result = None
      /\ GuestOK(guest, files.source) /\ TaskOK(guest) /\ FinishingOK(host, journal, guest, bounds.overdue)
      /\ StagedOK(host, journal, files) /\ host.action \in Actions
    BY <1>1, QuietRuns DEF EarlyPcs, HostStates
<1>3. SmoothNow => /\ guest.terminal # None /\ guest.error = None /\ (guest.job = "verify_partial" => guest.stopped)
                   /\ journal.attempts[host.action] # RetryCap
  <2>1. SmoothNow => FinishEases(host, guest)
      BY <1>1, QuietRuns DEF EaseOK
  <2>2. SmoothNow => journal.attempts[host.action] # RetryCap
      BY <1>2 DEF SmoothNow, Smooth
  <2> QED BY <1>1, <2>1, <2>2 DEF FinishEases
<1>4. ASSUME StatusAnswered(FALSE), Polled(j, g) PROVE StaysQuiet
  <2>1. /\ Following(j, g, late) /\ Ingests(journal, j, g) /\ j.begun
        /\ (Uncommitted(guest) => Uncommitted(g))
      BY <1>1, <1>2, StatusPrepares
  <2>2. /\ TaskOK(g) /\ g.made = guest.made /\ g.job = guest.job /\ g.alive = guest.alive
        /\ (g.stopped <=> guest.stopped \/ ~guest.alive)
        /\ g.error = IF Lost(guest) THEN "worker_result_unknown" ELSE guest.error
      BY <1>2, SettledDoes
  <2>k. guest.terminal # None => g.terminal # None
      BY <1>2, SettledKeeps
  <2>a. j.asked = journal.asked /\ j.stable = journal.stable /\ j.phase = journal.phase
        /\ j.attempts = journal.attempts
      BY <2>1 DEF Ingests
  <2>f. Finishing(host.action, j, g)
      BY <1>1, <1>2, <2>1, <2>a DEF Finishing, FinishingOK
  <2>s. direction = "pull" /\ host.action = "prepare" => files.stage = "full"
      BY <1>1, <1>2 DEF StagedOK
  <2>3. Arrives(j) /\ host'.pc # "verify_ready" /\ (Calm(files) /\ Pollable(j, g) => Eases(g))
      BY <1>2, <1>4, <2>1, <2>2, <2>f, <2>s, PolledEases
  <2>4. SmoothNow => Pollable(j, g)
      BY <1>3, <2>2, <2>a, <2>k DEF Pollable, Lost
  <2>5. SmoothNow => Calm(files)
      BY <1>1, QuietRuns
  <2>6. SmoothNow => Eases(g)
      BY <2>3, <2>4, <2>5
  <2> QED BY <1>1, <1>2, <1>4, <2>3, <2>6, AnswerQuiet
<1>6. CASE Status(Polled, FALSE)
  <2>1. CASE StatusFails
      BY <1>1, <1>2, <2>1, StatusFailsQuiet
  <2>2. IngestError(journal, g) = None
      BY <1>1, <1>2, StatusPrepares
  <2> QED BY <1>4, <1>6, <2>1, <2>2, Zenon DEF Status
<1> QED BY <1>6 DEF Poll

-----------------------------------------------------------------------------
(* The steps that send a mutation.                                         *)
LEMMA BegunAdvances ==
    ASSUME journal \in Journals
    PROVE  Advances(BegunNow) /\ BegunNow \in Journals
BY ZenonT(60) DEF Advances, BegunNow, Journals

LEMMA AdvancesOn ==
    ASSUME direction \in {"push", "pull"}, NEW j, Advances(j), JournalOK(j), NEW g, NEW src, GuestOK(g, src)
    PROVE  Advances(Ingested(j, g))
<1> PICK k : k = Ingested(j, g)
    OBVIOUS
<1>1. Ingests(j, k, g) /\ k.adapterPending = j.adapterPending
    BY IngestedDoes
<1> QED BY <1>1 DEF Advances, Ingests

(* A begin that is executed, and the status that answers it.               *)
LEMMA BegunDoes ==
    ASSUME QuietNow, host.pc # "idle"
    PROVE  LET g == Settled(BeginAt(guest)) IN
           /\ GuestOK(g, files.source) /\ TaskOK(g) /\ g.made /\ g.cancelled = guest.cancelled
           /\ guest.terminal # None => g.terminal # None
           /\ Unprepared(guest) => Unprepared(g) /\ g.terminal = guest.terminal
           /\ IF BeginLaunches(guest) /\ ~guest.cancelled
              THEN /\ g.alive /\ ~g.stopped /\ ~g.known /\ g.error = None
                   /\ g.job = IF direction = "pull" THEN "package" ELSE "verify_partial"
              ELSE /\ g.job = guest.job /\ g.alive = guest.alive
                   /\ (g.stopped <=> guest.stopped \/ ~guest.alive)
                   /\ (g.error = IF Lost(guest) THEN "worker_result_unknown" ELSE guest.error)
<1> PICK b : b = BeginAt(guest)
    OBVIOUS
<1> PICK g : g = Settled(b)
    OBVIOUS
<1>1. direction \in {"push", "pull"} /\ GuestOK(guest, files.source) /\ TaskOK(guest)
    BY QuietRuns
<1>2. GuestOK(b, files.source)
    BY <1>1, BeginOK DEF Evolves
<1>3. /\ TaskOK(b) /\ b.made /\ b.terminal = guest.terminal /\ b.cancelled = guest.cancelled
      /\ IF BeginLaunches(guest) /\ ~guest.cancelled
         THEN /\ b.alive /\ ~b.stopped /\ ~b.known /\ b.error = None
              /\ b.job = IF direction = "pull" THEN "package" ELSE "verify_partial"
         ELSE /\ b.alive = guest.alive /\ b.stopped = guest.stopped /\ b.known = guest.known
              /\ b.error = guest.error /\ b.job = guest.job /\ b.proof = guest.proof
    BY <1>1, BeginDoes
<1>4. GuestOK(g, files.source)
    BY <1>1, <1>2, SettledOK DEF Evolves
<1>5. /\ g.made = b.made /\ g.job = b.job /\ g.alive = b.alive /\ g.known = b.known
      /\ g.cancelled = b.cancelled /\ (g.stopped <=> b.stopped \/ ~b.alive)
      /\ (g.error = IF Lost(b) THEN "worker_result_unknown" ELSE b.error) /\ TaskOK(g)
    BY <1>1, <1>2, <1>3, SettledDoes
<1>6. /\ b.terminal # None => g.terminal # None
      /\ Unprepared(b) => Unprepared(g) /\ g.terminal = b.terminal
    BY <1>1, <1>2, SettledKeeps
<1>7. Unprepared(b) <=> Unprepared(guest)
    BY <1>3 DEF Unprepared
<1>8. CASE BeginLaunches(guest) /\ ~guest.cancelled
    BY <1>3, <1>4, <1>5, <1>6, <1>7, <1>8 DEF Lost
<1>9. CASE ~(BeginLaunches(guest) /\ ~guest.cancelled)
  <2>1. Lost(b) <=> Lost(guest)
      BY <1>3, <1>9 DEF Lost
  <2> QED BY <1>3, <1>4, <1>5, <1>6, <1>7, <1>9, <2>1
<1> QED BY <1>8, <1>9

(* The same guest as before: only then is a smooth run not answered.       *)
LEMMA BeginIsAnswered == ASSUME ~guest.cancelled PROVE Answers(guest, Call("begin"))
BY DEF Answers, Call

LEMMA BeginCallQuiet == ASSUME QuietNow, BeginCall PROVE StaysQuiet
<1> PICK j : j = BegunNow
    OBVIOUS
<1>1. host.pc = "begin_call"
    BY DEF BeginCall, At
<1>2. /\ direction \in {"push", "pull"} /\ Running(journal, guest, late) /\ host \in HostStates /\ result = None
      /\ SentOK(host, journal, guest, files, late) /\ StagedOK(host, journal, files)
      /\ journal \in Journals /\ TaskOK(guest)
    BY <1>1, QuietRuns
<1>3. Running(j, guest, late) /\ j.begun /\ JournalOK(j)
    BY <1>2, BegunRuns DEF Running, World
<1>4. Advances(j) /\ j \in Journals
    BY <1>2, BegunAdvances
<1>5. SmoothNow => guest.error = None /\ (direction = "push" => ~guest.made)
  <2>1. SmoothNow => StartEases(host, guest)
      BY <1>1, QuietRuns DEF EaseOK
  <2> QED BY <1>1, <2>1 DEF StartEases
<1>6. ASSUME NEW g, g = Settled(BeginAt(guest)), guest' = g, Ready(Ingested(j, g), g), UNCHANGED <<late, bounds>>
      PROVE  StaysQuiet
  <2> PICK i : i = Ingested(j, g)
      OBVIOUS
  <2>1. Running(j, g, late)
      BY <1>2, <1>3, <1>6, BegunAtRuns
  <2>2. Following(i, g, late)
      BY <1>2, <1>3, <2>1, StatusFollows
  <2>3. /\ GuestOK(g, files.source) /\ TaskOK(g) /\ g.made /\ g.cancelled = guest.cancelled
        /\ IF BeginLaunches(guest) /\ ~guest.cancelled
           THEN /\ g.error = None /\ g.job = IF direction = "pull" THEN "package" ELSE "verify_partial"
           ELSE /\ g.job = guest.job /\ (g.stopped <=> guest.stopped \/ ~guest.alive)
                /\ (g.error = IF Lost(guest) THEN "worker_result_unknown" ELSE guest.error)
      BY <1>1, <1>6, BegunDoes
  <2>4. Advances(i)
      BY <1>2, <1>3, <1>4, <2>3, AdvancesOn
  <2>5. Arrives(i)
      BY <1>2, <1>6, <2>2, ReadyEases
  <2>6. SmoothNow => g.error = None /\ (g.job = "verify_partial" => g.stopped /\ direction = "push")
    <3>1. ~guest.made => guest.stopped
        BY <1>2 DEF TaskOK
    <3>2. guest.job = "verify_partial" => direction = "push"
        BY <1>2 DEF TaskOK
    <3>3. direction = "push" /\ ~guest.made => ~BeginLaunches(guest)
        BY DEF BeginLaunches
    <3> QED BY <1>2, <1>5, <2>3, <3>1, <3>2, <3>3 DEF Lost
  <2>7. SmoothNow => Calm(files)
      BY <1>1, QuietRuns
  <2>8. SmoothNow => Eases(g)
      BY <1>2, <1>6, <2>2, <2>3, <2>6, <2>7, ReadyEases
  <2>9. InOrder
      BY <1>1, <1>2, <1>6, <2>3, <2>4, <2>5, BegunInOrder
  <2>10. AtEase
      BY <1>6, <2>3, <2>4, <2>5, <2>8, ArrivesAtEase
  <2> QED BY <2>9, <2>10 DEF StaysQuiet
<1>7. CASE Unanswered(Call("begin")) /\ Go(j, "ready")
  <2>1. Call("begin") \in Requests
      BY CallIsIntended DEF Intended
  <2>2. /\ TaskOK(guest')
        /\ ~SmoothNext \/ (~Answers(guest, Call("begin")) /\ guest' = guest /\ late' = late /\ bounds' = bounds)
      BY <1>1, <1>7, <2>1, UnansweredIsRough
  <2>3. "ready" \in Pcs \ (AbortPcs \cup {"register_package"})
      BY DEF Pcs, AbortPcs
  <2>4. Arrives(j)
      BY <1>2, <1>7, <2>3, GoArrives
  <2>5. InOrder
      BY <1>1, <1>2, <1>4, <2>2, <2>4, BegunInOrder
  <2>6. SmoothNow => Answers(guest, Call("begin"))
      BY <1>1, QuietRuns, BeginIsAnswered
  <2>7. CASE ~Answers(guest, Call("begin")) /\ guest' = guest /\ bounds' = bounds
    <3>1. AtEase
        BY <1>4, <2>4, <2>6, <2>7, ArrivesAtEase
    <3> QED BY <2>5, <3>1 DEF StaysQuiet
  <2>8. CASE ~SmoothNext
      BY <2>5, <2>8 DEF StaysQuiet, AtEase
  <2> QED BY <2>2, <2>7, <2>8
<1>8. CASE ~InTime /\ Raise(j, "deadline_exceeded") /\ Local
  <2>1. ~SmoothNow
      BY <1>1, <1>8, QuietRuns DEF InTime
  <2> QED BY <1>1, <1>4, <1>8, <2>1, RoughQuiet
<1> QED BY <1>6, <1>7, <1>8 DEF BeginCall, BegunNow

LEMMA VerifyCallQuiet == ASSUME QuietNow, VerifyCall PROVE StaysQuiet
<1>1. host.pc = "verify_call"
    BY DEF VerifyCall, At
<1>2. /\ direction = "push" /\ Running(journal, guest, late) /\ host \in HostStates /\ result = None
      /\ SentOK(host, journal, guest, files, late) /\ StagedOK(host, journal, files)
      /\ JournalOK(journal) /\ TaskOK(guest) /\ journal.begun /\ WorkerOK(guest)
    BY <1>1, QuietRuns DEF EarlyPcs, PushPcs
<1>3. SmoothNow => /\ guest.made /\ guest.stopped /\ Unprepared(guest)
                   /\ (host.back = "prepare" => guest.terminal # None)
  <2>1. SmoothNow => VerifyEases(host, guest)
      BY <1>1, QuietRuns DEF EaseOK
  <2> QED BY <1>1, <2>1 DEF VerifyEases
<1>4. Advances(journal)
    BY <1>2 DEF Advances
<1>5. SmoothNow => Calm(files) /\ ~guest.cancelled
    BY <1>1, QuietRuns
<1>6. ASSUME NEW g, g = Settled(BeginAt(guest)), guest' = g, VerifyReady(Ingested(journal, g), g),
             UNCHANGED <<late, bounds>>
      PROVE  StaysQuiet
  <2> PICK i : i = Ingested(journal, g)
      OBVIOUS
  <2>1. Running(journal, g, late)
      BY <1>2, <1>6, BegunAtRuns
  <2>2. Following(i, g, late)
      BY <1>2, <2>1, StatusFollows
  <2>3. /\ GuestOK(g, files.source) /\ TaskOK(g) /\ g.made /\ g.cancelled = guest.cancelled
        /\ (guest.terminal # None => g.terminal # None) /\ (Unprepared(guest) => Unprepared(g))
        /\ BeginLaunches(guest) /\ ~guest.cancelled =>
              g.alive /\ ~g.stopped /\ ~g.known /\ g.error = None /\ g.job = "verify_partial"
      BY <1>1, <1>2, <1>6, BegunDoes
  <2>4. Advances(i)
      BY <1>2, <1>4, <2>3, AdvancesOn
  <2>5. Arrives(i) /\ (Calm(files) /\ Confirming(g) => Eases(g))
      BY <1>2, <1>6, <2>2, VerifyReadyEases
  <2>6. SmoothNow => BeginLaunches(guest)
    <3>1. guest.alive => ~guest.stopped
        BY <1>2 DEF WorkerOK
    <3> QED BY <1>2, <1>3, <3>1 DEF BeginLaunches, Unprepared, InPhase
  <2>7. SmoothNow => Confirming(g)
      BY <1>3, <1>5, <2>3, <2>6 DEF Confirming, Verifiable
  <2>8. SmoothNow => Eases(g)
      BY <1>5, <2>5, <2>7
  <2>9. InOrder
      BY <1>2, <1>6, <2>3, <2>4, <2>5, BegunInOrder
  <2>10. AtEase
      BY <1>6, <2>3, <2>4, <2>5, <2>8, ArrivesAtEase
  <2> QED BY <2>9, <2>10 DEF StaysQuiet
<1>7. CASE Unanswered(Call("begin")) /\ Go(journal, "verify_ready")
  <2>1. Call("begin") \in Requests
      BY CallIsIntended DEF Intended
  <2>2. /\ TaskOK(guest')
        /\ ~SmoothNext \/ (~Answers(guest, Call("begin")) /\ guest' = guest /\ late' = late /\ bounds' = bounds)
      BY <1>1, <1>7, <2>1, UnansweredIsRough
  <2>3. "verify_ready" \in Pcs \ (AbortPcs \cup {"register_package"})
      BY DEF Pcs, AbortPcs
  <2>4. Arrives(journal)
      BY <1>2, <1>7, <2>3, GoArrives
  <2>5. InOrder
      BY <1>2, <1>4, <2>2, <2>4, BegunInOrder
  <2>6. SmoothNow => Answers(guest, Call("begin"))
      BY <1>5, BeginIsAnswered
  <2>7. CASE ~Answers(guest, Call("begin")) /\ guest' = guest /\ bounds' = bounds
    <3>1. AtEase
        BY <1>4, <2>4, <2>6, <2>7, ArrivesAtEase
    <3> QED BY <2>5, <3>1 DEF StaysQuiet
  <2>8. CASE ~SmoothNext
      BY <2>5, <2>8 DEF StaysQuiet, AtEase
  <2> QED BY <2>2, <2>7, <2>8
<1> QED BY <1>6, <1>7 DEF VerifyCall

LEMMA SendQuiet == ASSUME QuietNow, Send PROVE StaysQuiet
<1> PICK r : r = Call("chunks")
    OBVIOUS
<1>1. host.pc = "send"
    BY DEF Send, At
<1>2. /\ direction = "push" /\ host \in HostStates /\ result = None
      /\ SentOK(host, journal, guest, files, late) /\ StagedOK(host, journal, files)
      /\ TaskOK(guest) /\ journal.begun /\ WorkerOK(guest) /\ GuestOK(guest, files.source)
    BY <1>1, QuietRuns DEF EarlyPcs, PushPcs
<1>3. SmoothNow => /\ guest.made /\ guest.stopped /\ guest.error = None /\ Unprepared(guest)
                   /\ (host.sent => guest.terminal # None)
  <2>1. SmoothNow => VerifyEases(host, guest)
      BY <1>1, QuietRuns DEF EaseOK
  <2> QED BY <1>1, <2>1 DEF VerifyEases
<1>4. Advances(journal)
    BY <1>2 DEF Advances
<1>5. journal' = journal /\ files' = files /\ result' = result
    BY DEF Send
<1>6. ASSUME host'.abort = host.abort, host'.pc \in {"send", "verify_wait"} PROVE Arrives(journal)
    BY <1>2, <1>5, <1>6 DEF Arrives, Carries, Same, AbortPcs
<1>7. guest.alive => ~guest.stopped
    BY <1>2 DEF WorkerOK
<1>8. CASE host.sent /\ Local /\ host' = [host EXCEPT !.pc = "verify_wait", !.back = "prepare"]
  <2>1. host'.pc = "verify_wait" /\ host'.abort = host.abort
      BY <1>2, <1>8 DEF HostStates
  <2>2. Arrives(journal)
      BY <1>6, <2>1
  <2>3. SmoothNow => Eases(guest)
    <3> SUFFICES ASSUME SmoothNow PROVE Eases(guest)
        OBVIOUS
    <3>1. StartEases(host', guest) /\ FinishEases(host', guest)
        BY <2>1 DEF StartEases, FinishEases, PullPcs
    <3>2. VerifyEases(host', guest)
        BY <1>3, <1>7, <1>8, <2>1 DEF VerifyEases
    <3> QED BY <1>2, <1>5, <3>1, <3>2 DEF Eases, EaseOK, EndOK
  <2> QED BY <1>1, <1>2, <1>4, <1>8, <2>2, <2>3, LocalQuiet
<1>9. CASE Answered(r) /\ UNCHANGED bounds /\ host' = [host EXCEPT !.sent = TRUE]
  <2>1. host'.pc = "send" /\ host'.abort = host.abort /\ host'.sent
      BY <1>1, <1>2, <1>9 DEF HostStates
  <2>2. Arrives(journal)
      BY <1>6, <2>1
  <2>3. guest' = ChunksAt(guest) /\ ChunksAccepted(guest) /\ late' = late
      BY <1>9 DEF Answered, Answers, Executed, Call, Actions
  <2>4. /\ TaskOK(guest') /\ guest'.made = guest.made /\ guest'.cancelled = guest.cancelled
        /\ guest'.stopped = guest.stopped /\ guest'.error = guest.error /\ guest'.terminal # None
        /\ (guest'.terminal = guest.terminal \/ guest'.terminal.phase = "READY")
      BY <1>2, <2>3, ChunksDoes
  <2>5. InOrder
      BY <1>2, <1>4, <2>2, <2>4, BegunInOrder
  <2>6. SmoothNow => Eases(guest')
    <3> SUFFICES ASSUME SmoothNow PROVE Eases(guest')
        OBVIOUS
    <3>1. StartEases(host', guest') /\ FinishEases(host', guest')
        BY <2>1 DEF StartEases, FinishEases, PullPcs
    <3>2. Unprepared(guest')
        BY <1>3, <2>4 DEF Unprepared
    <3>3. VerifyEases(host', guest')
        BY <1>3, <2>1, <2>4, <3>2 DEF VerifyEases
    <3> QED BY <1>2, <1>5, <3>1, <3>3 DEF Eases, EaseOK, EndOK
  <2>7. AtEase
      BY <1>4, <1>9, <2>2, <2>4, <2>6, ArrivesAtEase
  <2> QED BY <2>5, <2>7 DEF StaysQuiet
<1>10. CASE Unanswered(r) /\ host' = [host EXCEPT !.pc = "verify_wait", !.back = "send"]
  <2>1. r \in Requests
      BY CallIsIntended DEF Intended
  <2>2. /\ TaskOK(guest')
        /\ ~SmoothNext \/ (~Answers(guest, r) /\ guest' = guest /\ late' = late /\ bounds' = bounds)
      BY <1>1, <1>10, <2>1, UnansweredIsRough
  <2>3. host'.pc = "verify_wait" /\ host'.abort = host.abort
      BY <1>2, <1>10 DEF HostStates
  <2>4. Arrives(journal)
      BY <1>6, <2>3
  <2>5. InOrder
      BY <1>2, <1>4, <2>2, <2>4, BegunInOrder
  <2>6. SmoothNow => Answers(guest, r)
    <3>1. SmoothNow => ~guest.cancelled
        BY <1>1, QuietRuns
    <3>2. SmoothNow => ChunksAccepted(guest)
        BY <1>3, <1>7, <3>1 DEF ChunksAccepted, Unprepared, InPhase
    <3> QED BY <3>2 DEF Answers, Call
  <2>7. CASE ~Answers(guest, r) /\ guest' = guest /\ bounds' = bounds
    <3>1. AtEase
        BY <1>4, <2>4, <2>6, <2>7, ArrivesAtEase
    <3> QED BY <2>5, <3>1 DEF StaysQuiet
  <2>8. CASE ~SmoothNext
      BY <2>5, <2>8 DEF StaysQuiet, AtEase
  <2> QED BY <2>2, <2>7, <2>8
<1> QED BY <1>8, <1>9, <1>10 DEF Send

LEMMA AttemptedDoes ==
    ASSUME journal \in Journals, NEW a \in Actions, NEW j, j = Attempted(a)
    PROVE  /\ j.adapterPending = journal.adapterPending /\ j.begun = journal.begun
           /\ j.intent = journal.intent /\ j.published = journal.published
           /\ \A b \in Actions : b # a => j.attempts[b] = journal.attempts[b]
<1> PICK n : n = journal.attempts[a] + 1
    OBVIOUS
<1> PICK u : u = (journal.unknown \/ a = "commit")
    OBVIOUS
<1> PICK attempts : attempts = [journal.attempts EXCEPT ![a] = n]
    OBVIOUS
<1>1. j = [journal EXCEPT !.attempts = attempts, !.unknown = u]
    BY DEF Attempted, Journals
<1>2. \A b \in Actions : b # a => attempts[b] = journal.attempts[b]
    BY JournalFields
<1> QED BY <1>1, <1>2 DEF Journals

LEMMA RequestQuiet == ASSUME QuietNow, Request PROVE StaysQuiet
<1> PICK a : a = host.action
    OBVIOUS
<1> PICK j : j = Attempted(a)
    OBVIOUS
<1> PICK r : r = RequestNow
    OBVIOUS
<1>1. host.pc = "request"
    BY DEF Request, At
<1>2. /\ Now /\ direction \in {"push", "pull"} /\ host \in HostStates /\ result = None /\ Counters(bounds)
      /\ SentOK(host, journal, guest, files, late) /\ StagedOK(host, journal, files)
      /\ TaskOK(guest) /\ GuestOK(guest, files.source) /\ journal \in Journals
    BY <1>1, QuietRuns
<1>3. /\ a \in Actions /\ journal.begun /\ journal.attempts[a] < RetryCap
      /\ Running(j, guest, late) /\ j.begun /\ Intended(j, r) /\ r.call = a
      /\ j = [journal EXCEPT !.attempts[a] = @ + 1, !.unknown = @ \/ a = "commit"]
    BY <1>1, <1>2, RequestPrepares, Zenon
<1>4. /\ j.adapterPending = journal.adapterPending /\ j.intent = journal.intent /\ j.published = journal.published
      /\ \A b \in Actions : b # a => j.attempts[b] = journal.attempts[b]
    BY <1>2, <1>3, AttemptedDoes
<1>5. SmoothNow => guest.terminal # None /\ guest.error = None /\ (guest.job = "verify_partial" => guest.stopped)
  <2>1. SmoothNow => FinishEases(host, guest)
      BY <1>1, QuietRuns DEF EaseOK
  <2> QED BY <1>1, <2>1 DEF FinishEases
<1>p. "poll" \in Pcs \ (AbortPcs \cup {"register_package"})
    BY DEF Pcs, AbortPcs
<1>s. direction = "pull" /\ host.action = "prepare" => files.stage = "full"
    BY <1>1, <1>2 DEF StagedOK
<1>6. ASSUME NEW k, Go(k, "poll"), k.begun, k.intent = journal.intent, journal.published => k.published, TaskOK(guest')
      PROVE  InOrder /\ Arrives(k) /\ host'.pc = "poll" /\ result' = result
  <2>1. Arrives(k) /\ host'.pc = "poll" /\ result' = result
      BY <1>2, <1>p, <1>s, <1>6, GoArrives
  <2> QED BY <1>2, <1>3, <1>6, <2>1, OrderKept
<1>7. ASSUME NEW k, Arrives(k), k.attempts = j.attempts, k.adapterPending = journal.adapterPending,
             bounds' = bounds, guest.cancelled => guest'.cancelled, SmoothNext
      PROVE  SmoothNow
  <2>1. /\ journal'.attempts = j.attempts /\ journal'.adapterPending = journal.adapterPending
        /\ files' = files /\ host'.abort = host.abort
      BY <1>7 DEF Arrives, Carries, Same
  <2>2. \A b \in Actions : journal.attempts[b] # RetryCap
    <3> SUFFICES ASSUME NEW b \in Actions PROVE journal.attempts[b] # RetryCap
        OBVIOUS
    <3>1. CASE b = a
      <4>1. journal.attempts[a] \in 0..RetryCap
          BY <1>2, <1>3, JournalFields
      <4> QED BY <1>3, <3>1, <4>1 DEF RetryCap
    <3>2. CASE b # a
        BY <1>4, <1>7, <2>1, <3>2 DEF SmoothNext, Smooth
    <3> QED BY <3>1, <3>2
  <2> QED BY <1>7, <2>1, <2>2 DEF SmoothNext, SmoothNow, Smooth
<1>8. ASSUME Answered(r), \/ bounds' = bounds /\ AcceptError(j, guest', a) # None
                          \/ bounds' = bounds /\ Go(Accepted(j, guest', a), "poll")
                          \/ Faulty /\ Go([Accepted(j, guest', a) EXCEPT !.adapterPending = TRUE], "poll")
      PROVE  StaysQuiet
  <2> PICK k : k = Accepted(j, guest', a)
      OBVIOUS
  <2>1. /\ guest' \in FinishAt(guest, a, journal.asked[a]) /\ guest'.terminal # None
        /\ AcceptError(j, guest', a) = None /\ Ingests(j, k, guest') /\ k.adapterPending = j.adapterPending
      BY <1>1, <1>2, <1>8, AnswerPrepares
  <2>2. /\ TaskOK(guest') /\ guest'.cancelled = guest.cancelled
        /\ guest' = guest \/ (guest'.job = a /\ guest'.error = None)
      BY <1>2, <1>3, <2>1, FinishDoes
  <2>3. /\ k.begun /\ k.intent = journal.intent /\ (journal.published => k.published) /\ k \in Journals
        /\ k.attempts = j.attempts /\ k.adapterPending = journal.adapterPending
      BY <1>3, <1>4, <2>1, Zenon DEF Ingests
  <2>4. SmoothNow => guest'.error = None /\ (guest'.job = "verify_partial" => guest'.stopped)
      BY <1>3, <1>5, <2>2 DEF Actions
  <2>5. CASE bounds' = bounds /\ Go(k, "poll")
    <3>1. InOrder /\ Arrives(k) /\ host'.pc = "poll" /\ result' = result
        BY <1>6, <2>2, <2>3, <2>5
    <3>2. SmoothNow => Eases(guest')
        BY <1>2, <2>1, <2>4, <3>1, PollEases
    <3>3. SmoothNext => SmoothNow
        BY <1>7, <2>2, <2>3, <2>5, <3>1
    <3> QED BY <3>1, <3>2, <3>3 DEF StaysQuiet, AtEase, Eases
  <2>6. CASE Faulty /\ Go([k EXCEPT !.adapterPending = TRUE], "poll")
    <3> PICK m : m = [k EXCEPT !.adapterPending = TRUE]
        OBVIOUS
    <3>1. m.begun /\ m.intent = journal.intent /\ (journal.published => m.published)
        BY <2>3 DEF Journals
    <3>2. InOrder
        BY <1>6, <2>2, <2>6, <3>1
    <3>3. AtEase
        BY <1>2, <2>6, FaultIsRough DEF AtEase
    <3> QED BY <3>2, <3>3 DEF StaysQuiet
  <2> QED BY <1>8, <2>1, <2>5, <2>6
<1>9. CASE Unanswered(r) /\ Go(j, "poll")
  <2>1. /\ TaskOK(guest')
        /\ ~SmoothNext \/ (~Answers(guest, r) /\ guest' = guest /\ late' = late /\ bounds' = bounds)
      BY <1>1, <1>3, <1>9, UnansweredIsRough DEF Intended
  <2>2. InOrder /\ Arrives(j) /\ host'.pc = "poll" /\ result' = result
      BY <1>3, <1>4, <1>6, <1>9, <2>1
  <2>3. CASE guest' = guest /\ bounds' = bounds
    <3>1. SmoothNow => Eases(guest')
        BY <1>2, <1>5, <2>2, <2>3, PollEases
    <3>2. SmoothNext => SmoothNow
        BY <1>4, <1>7, <2>2, <2>3
    <3> QED BY <2>2, <3>1, <3>2 DEF StaysQuiet, AtEase, Eases
  <2>4. CASE ~SmoothNext
      BY <2>2, <2>4 DEF StaysQuiet, AtEase
  <2> QED BY <2>1, <2>3, <2>4
<1>10. CASE ~InTime /\ Raise(j, "deadline_exceeded") /\ Local
  <2>1. j \in Journals
      BY <1>3 DEF Running, World, JournalOK
  <2>2. Arrives(j)
      BY <1>2, <1>10, <2>1, RaiseArrives
  <2>3. guest' = guest /\ bounds' = bounds
      BY <1>10 DEF Local
  <2>4. InOrder
      BY <1>2, <1>3, <1>4, <2>2, <2>3, OrderKept
  <2>5. ~SmoothNow
      BY <1>1, <1>10, QuietRuns DEF InTime
  <2>6. ~SmoothNext
      BY <1>4, <1>7, <2>2, <2>3, <2>5
  <2> QED BY <2>4, <2>6 DEF StaysQuiet, AtEase
<1>11. \/ Answered(r) /\ (\/ bounds' = bounds /\ AcceptError(j, guest', a) # None
                          \/ bounds' = bounds /\ Go(Accepted(j, guest', a), "poll")
                          \/ Faulty /\ Go([Accepted(j, guest', a) EXCEPT !.adapterPending = TRUE], "poll"))
       \/ Unanswered(r) /\ Go(j, "poll")
       \/ ~InTime /\ Raise(j, "deadline_exceeded") /\ Local
    BY <1>3 DEF Request, RequestNow
<1> QED BY <1>8, <1>9, <1>10, <1>11

(* The steps before the guest is asked, and the ends of a run.             *)
LEMMA IdleInOrder ==
    ASSUME SentOK(host, journal, guest, files, late), StagedOK(host, journal, files), NEW j, Carries(j),
           host'.pc = "idle", TaskOK(guest'), guest'.made = guest.made, late' = late,
           j.begun = journal.begun, j.intent = journal.intent, journal.published => j.published
    PROVE  InOrder
<1>1. /\ journal'.begun = journal.begun /\ journal'.intent = journal.intent
      /\ (journal.published => journal'.published) /\ files' = files
    BY DEF Carries, Same
<1>2. SentOK(host', journal', guest', files', late')
    BY <1>1 DEF SentOK, AbortPcs
<1>3. StagedOK(host', journal', files')
    BY <1>1 DEF StagedOK
<1> QED BY <1>2, <1>3 DEF InOrder, OrderOK

LEMMA IdleArrives == ASSUME NEW j, Carries(j), host'.pc = "idle" PROVE Arrives(j)
BY DEF Arrives, AbortPcs

LEMMA AbortsInOrder ==
    ASSUME SentOK(host, journal, guest, files, late), StagedOK(host, journal, files), NEW j, Carries(j),
           host'.pc \in AbortPcs \cup {"idle"}, host.abort, TaskOK(guest'), journal.begun,
           j.begun, j.intent = journal.intent, journal.published => j.published
    PROVE  StaysQuiet
<1>1. /\ journal'.begun /\ journal'.intent = journal.intent /\ host'.abort
      /\ (journal.published => journal'.published) /\ files' = files
    BY DEF Carries, Same
<1>2. host'.pc \notin {"begin_call", "register_package", "poll", "request", "publish"}
    BY DEF AbortPcs
<1>3. SentOK(host', journal', guest', files', late')
    BY <1>1, <1>2 DEF SentOK
<1>4. StagedOK(host', journal', files')
    BY <1>1, <1>2 DEF StagedOK
<1>5. ~SmoothNext
    BY <1>1 DEF SmoothNext, Smooth
<1> QED BY <1>3, <1>4, <1>5 DEF StaysQuiet, InOrder, OrderOK, AtEase

LEMMA ConnectQuiet == ASSUME QuietNow, Connect PROVE StaysQuiet
<1>1. host.pc = "connect"
    BY DEF Connect, At
<1>2. /\ direction \in {"push", "pull"} /\ host \in HostStates /\ result = None /\ Counters(bounds)
      /\ SentOK(host, journal, guest, files, late) /\ StagedOK(host, journal, files)
      /\ TaskOK(guest) /\ journal \in Journals /\ FilesOK(journal, files)
    BY <1>1, QuietRuns
<1>3. SmoothNow => /\ host.back = "proceed" /\ guest.error = None
                   /\ ~(direction = "push" /\ guest.alive /\ guest.job = "prepare")
  <2>1. SmoothNow => StartEases(host, guest)
      BY <1>1, QuietRuns DEF EaseOK
  <2> QED BY <1>1, <2>1 DEF StartEases
<1>4. CASE Faulty /\ Raise(journal, "connection_failed") /\ UNCHANGED <<guest, late>>
  <2>1. Carries(journal) /\ host'.pc = "idle"
      BY <1>2, <1>4, RaiseCarries
  <2>2. InOrder
      BY <1>2, <1>4, <2>1, IdleInOrder
  <2>3. AtEase
      BY <1>2, <1>4, FaultIsRough DEF AtEase
  <2> QED BY <2>2, <2>3 DEF StaysQuiet
<1>5. CASE host.abort /\ journal.begun /\ Go(journal, "abort_status") /\ Local
  <2>1. "abort_status" \in Pcs /\ "abort_status" \in AbortPcs
      BY DEF Pcs, AbortPcs
  <2>2. Carries(journal) /\ host'.pc = "abort_status"
      BY <1>2, <1>5, <2>1, GoCarries
  <2> QED BY <1>2, <1>5, <2>1, <2>2, AbortsInOrder DEF Local
<1>6. CASE /\ host.abort /\ files' = files /\ Local
           /\ End(SetPhase(journal, "CANCELLED"), "incomplete", "transfer_cancelled")
  <2> PICK j : j = SetPhase(journal, "CANCELLED")
      OBVIOUS
  <2>2. j \in Journals /\ Same(journal, j)
      BY <1>2, PhaseNames, SetPhaseTyped, SetPhaseSame
  <2>3. Carries(j) /\ host'.pc = "idle"
      BY <1>2, <1>6, <2>2, EndCarries
  <2>4. InOrder
      BY <1>2, <1>6, <2>2, <2>3, IdleInOrder DEF Local, Same
  <2>5. ~SmoothNext
      BY <1>6, <2>3 DEF Carries, SmoothNext, Smooth
  <2> QED BY <2>4, <2>5 DEF StaysQuiet, AtEase
<1>7. CASE /\ direction = "push" /\ files.temp = "none" /\ files' = [files EXCEPT !.temp = "unregistered"]
           /\ host' = [host EXCEPT !.pc = "register_package"]
           /\ UNCHANGED <<journal, result>> /\ Local
  <2>1. host'.pc = "register_package" /\ host'.back = host.back /\ host'.abort = host.abort
      BY <1>2, <1>7 DEF HostStates
  <2>2. files'.temp = "unregistered" /\ files'.source = files.source /\ files'.dest = files.dest
      BY <1>2, <1>7 DEF FilesOK, FileStates
  <2>3. guest' = guest /\ late' = late /\ bounds' = bounds
      BY <1>7 DEF Local
  <2>4. SentOK(host', journal', guest', files', late')
      BY <1>2, <1>7, <2>1, <2>2, <2>3 DEF SentOK, AbortPcs
  <2>5. InOrder
      BY <1>2, <1>7, <2>3, <2>4 DEF InOrder, OrderOK, StagedOK
  <2>6. SmoothNext => SmoothNow
      BY <1>7, <2>1, <2>2, <2>3, SmoothBefore DEF Calm
  <2>7. SmoothNow => EaseOK(host', guest')
    <3>1. VerifyEases(host', guest') /\ FinishEases(host', guest')
        BY <2>1 DEF VerifyEases, FinishEases, PullPcs
    <3>2. SmoothNow => StartEases(host', guest')
        BY <1>3, <2>1, <2>3 DEF StartEases
    <3> QED BY <3>1, <3>2 DEF EaseOK
  <2>8. EndOK(result', files')
      BY <1>2, <1>7 DEF EndOK
  <2> QED BY <2>5, <2>6, <2>7, <2>8 DEF StaysQuiet, AtEase
<1>8. CASE files.temp = "unregistered" /\ Raise(journal, "host_package_reconcile_required") /\ Local
  <2>1. Carries(journal) /\ host'.pc = "idle" /\ files' = files
      BY <1>2, <1>8, RaiseCarries DEF Raise
  <2>2. InOrder
      BY <1>2, <1>8, <2>1, IdleInOrder DEF Local
  <2>3. Eases(guest')
      BY <1>8, <2>1, IdleEases DEF EndOK
  <2> QED BY <2>2, <2>3 DEF StaysQuiet, AtEase, Eases
<1>9. CASE /\ ~(direction = "push" /\ files.temp = "none") /\ Local
           /\ Go(journal, IF journal.begun THEN "begin" ELSE "begin_call")
  <2> PICK pc : pc = IF journal.begun THEN "begin" ELSE "begin_call"
      OBVIOUS
  <2>1. pc \in Pcs \ (AbortPcs \cup {"register_package"}) /\ pc \in {"begin", "begin_call"}
      BY DEF Pcs, AbortPcs
  <2>2. Arrives(journal) /\ host'.pc = pc /\ host'.back = host.back /\ result' = result
      BY <1>2, <1>9, <2>1, GoArrives
  <2>3. guest' = guest /\ late' = late /\ bounds' = bounds
      BY <1>9 DEF Local
  <2>4. guest.made \/ late # {} => journal.begun
      BY <1>2 DEF SentOK
  <2>5. direction = "pull" =>
          (journal.intent # None /\ ~journal.published => files.stage = "full" \/ files.dest # "none")
      BY <1>2 DEF StagedOK
  <2>6. InOrder
      BY <1>2, <1>9, <2>2, <2>3, <2>4, <2>5, ArrivesInOrder
  <2>7. /\ journal'.attempts = journal.attempts /\ journal'.adapterPending = journal.adapterPending
        /\ files' = files /\ host'.abort = host.abort
      BY <2>2 DEF Arrives, Carries, Same
  <2>8. SmoothNext => SmoothNow
      BY <2>3, <2>7, SmoothBefore
  <2>9. SmoothNow => EaseOK(host', guest')
    <3>1. VerifyEases(host', guest') /\ FinishEases(host', guest')
        BY <2>1, <2>2 DEF VerifyEases, FinishEases, PullPcs
    <3>2. SmoothNow => StartEases(host', guest')
        BY <1>3, <2>1, <2>2, <2>3, <2>4 DEF StartEases
    <3> QED BY <3>1, <3>2 DEF EaseOK
  <2>10. EndOK(result', files')
      BY <1>2, <2>2 DEF EndOK
  <2> QED BY <2>6, <2>8, <2>9, <2>10 DEF StaysQuiet, AtEase
<1> QED BY <1>4, <1>5, <1>6, <1>7, <1>8, <1>9 DEF Connect

LEMMA RegisterPackageQuiet == ASSUME QuietNow, RegisterPackage PROVE StaysQuiet
<1>1. host.pc = "register_package"
    BY DEF RegisterPackage, At
<1>2. /\ direction = "push" /\ host \in HostStates /\ result = None /\ FilesOK(journal, files)
      /\ SentOK(host, journal, guest, files, late) /\ TaskOK(guest)
    BY <1>1, QuietRuns DEF PushPcs
<1>3. SmoothNow => guest.error = None
  <2>1. SmoothNow => StartEases(host, guest)
      BY <1>1, QuietRuns DEF EaseOK
  <2> QED BY <1>1, <2>1 DEF StartEases
<1>4. /\ files' = [files EXCEPT !.temp = "ready"] /\ host' = [host EXCEPT !.pc = "begin_call"]
      /\ journal' = journal /\ result' = result /\ guest' = guest /\ late' = late /\ bounds' = bounds
    BY DEF RegisterPackage, Local
<1>5. host'.pc = "begin_call" /\ host'.abort = host.abort
    BY <1>2, <1>4 DEF HostStates
<1>6. files'.temp = "ready" /\ files'.source = files.source /\ files'.dest = files.dest
    BY <1>2, <1>4 DEF FilesOK, FileStates
<1>7. ~journal.begun /\ ~guest.made
    BY <1>1, <1>2 DEF SentOK
<1>8. SentOK(host', journal', guest', files', late')
    BY <1>2, <1>4, <1>5, <1>6 DEF SentOK, AbortPcs
<1>9. InOrder
    BY <1>2, <1>4, <1>8 DEF InOrder, OrderOK, StagedOK
<1>10. SmoothNext => SmoothNow
    BY <1>4, <1>5, <1>6, SmoothBefore DEF Calm
<1>11. SmoothNow => Eases(guest')
    BY <1>2, <1>3, <1>4, <1>5, <1>7, BeginCallEases
<1> QED BY <1>9, <1>10, <1>11 DEF StaysQuiet, AtEase, Eases

LEMMA DeadlineEndsQuiet == ASSUME QuietNow, DeadlineEnds PROVE StaysQuiet
<1>1. host.pc # "idle" /\ bounds.expired /\ Raise(journal, "deadline_exceeded") /\ Local
    BY DEF DeadlineEnds, InTime
<1>2. /\ host \in HostStates /\ journal \in Journals /\ TaskOK(guest)
      /\ SentOK(host, journal, guest, files, late) /\ StagedOK(host, journal, files)
    BY <1>1, QuietRuns
<1>3. Carries(journal) /\ host'.pc = "idle"
    BY <1>1, <1>2, RaiseCarries
<1>4. InOrder
    BY <1>1, <1>2, <1>3, IdleInOrder DEF Local
<1>5. ~SmoothNext
    BY <1>1 DEF Local, SmoothNext, Smooth
<1> QED BY <1>4, <1>5 DEF StaysQuiet, AtEase

LEMMA AbortQuiet == ASSUME QuietNow, Abort PROVE StaysQuiet
<1> PICK g : g = Settled(guest)
    OBVIOUS
<1> PICK j : j = Ingested(journal, g)
    OBVIOUS
<1>1. host.pc \in AbortPcs /\ host.pc # "idle"
    BY DEF Abort, At, AbortPcs
<1>2. /\ Now /\ direction \in {"push", "pull"} /\ host \in HostStates /\ journal \in Journals /\ TaskOK(guest)
      /\ GuestOK(guest, files.source) /\ journal.begun
      /\ SentOK(host, journal, guest, files, late) /\ StagedOK(host, journal, files)
    BY <1>1, QuietRuns DEF EarlyPcs, AbortPcs
<1>3. host.abort
    BY <1>1, <1>2 DEF SentOK
<1>4. Advances(j) /\ j \in Journals
    BY <1>1, <1>2, IngestedAdvances
<1>5. ASSUME StatusAnswered(FALSE), NEW k, Same(j, k), Carries(k), host'.pc \in AbortPcs \cup {"idle"} PROVE StaysQuiet
  <2>1. TaskOK(g) /\ g \in Guests
      BY <1>2, SettledDoes, SettledOK DEF Evolves, GuestOK
  <2>2. guest' = [g EXCEPT !.known = g.known \/ FALSE]
      BY <1>5 DEF StatusAnswered
  <2>3. TaskOK(guest')
      BY <2>1, <2>2, KnownEases
  <2>4. k.begun /\ k.intent = journal.intent /\ (journal.published => k.published)
      BY <1>4, <1>5 DEF Advances, Same
  <2> QED BY <1>2, <1>3, <1>5, <2>3, <2>4, AbortsInOrder
<1>6. CASE Raise(journal, "task_not_found") /\ Local
  <2>1. Carries(journal) /\ host'.pc = "idle"
      BY <1>2, <1>6, RaiseCarries
  <2> QED BY <1>2, <1>3, <1>6, <2>1, AbortsInOrder DEF Local
<1>7. CASE StatusAnswered(FALSE) /\ AbortSeen(j, g)
  <2>1. "abort_call" \in Pcs /\ "abort_call" \in AbortPcs
      BY DEF Pcs, AbortPcs
  <2>2. Carries(j) /\ host'.pc = "abort_call"
      BY <1>2, <1>7, <2>1, GoCarries DEF AbortSeen
  <2>3. Same(j, j)
      BY DEF Same
  <2> QED BY <1>5, <1>7, <2>1, <2>2, <2>3
<1>8. CASE StatusAnswered(FALSE) /\ AbortDone(j, g)
  <2> PICK k : k = SetPhase(j, "CANCELLED")
      OBVIOUS
  <2>1. End(k, "incomplete", "transfer_cancelled") /\ files' = files
      BY <1>8 DEF AbortDone
  <2>2. Same(j, k)
      BY <1>4, SetPhaseSame
  <2>4. k \in Journals
      BY <1>4, PhaseNames, SetPhaseTyped
  <2>5. Carries(k) /\ host'.pc = "idle"
      BY <1>2, <2>1, <2>4, EndCarries
  <2> QED BY <1>5, <1>8, <2>2, <2>5
<1>9. CASE StatusFails
    BY <1>1, <1>2, <1>9, StatusFailsQuiet
<1>i. Call("abort") \in Requests /\ Call("abort").call = "abort"
    BY CallIsIntended DEF Intended
<1>10. CASE Answered(Call("abort")) /\ Go(journal, "abort_done")
  <2>1. TaskOK(guest')
      BY <1>2, <1>i, <1>10, ExecutedDoes DEF Answered
  <2>2. "abort_done" \in Pcs /\ "abort_done" \in AbortPcs
      BY DEF Pcs, AbortPcs
  <2>3. Carries(journal) /\ host'.pc = "abort_done"
      BY <1>2, <1>10, <2>2, GoCarries
  <2> QED BY <1>2, <1>3, <2>1, <2>2, <2>3, AbortsInOrder
<1>11. CASE Unanswered(Call("abort")) /\ Raise(journal, "outcome_unknown")
  <2>1. TaskOK(guest')
      BY <1>1, <1>i, <1>11, UnansweredIsRough
  <2>2. Carries(journal) /\ host'.pc = "idle"
      BY <1>2, <1>11, RaiseCarries
  <2> QED BY <1>2, <1>3, <2>1, <2>2, AbortsInOrder
<1>12. IngestError(journal, g) = None
    BY <1>1, <1>2, StatusPrepares
<1> QED BY <1>6, <1>7, <1>8, <1>9, <1>10, <1>11, <1>12 DEF Abort, Status

(* The steps of a pull on its files, and the cleanup.                      *)
LEMMA FaultQuiet ==
    ASSUME QuietNow, host.pc # "idle", journal.begun, Faulty, guest' = guest, late' = late,
           NEW code, Raise(journal, code)
    PROVE  StaysQuiet
<1>1. /\ SentOK(host, journal, guest, files, late) /\ StagedOK(host, journal, files) /\ TaskOK(guest)
      /\ host \in HostStates /\ journal \in Journals /\ Counters(bounds)
    BY QuietRuns
<1>2. Arrives(journal)
    BY <1>1, RaiseArrives
<1>3. Advances(journal)
    BY DEF Advances
<1>4. InOrder
    BY <1>1, <1>2, <1>3, BegunInOrder
<1>5. ~SmoothNext
    BY <1>1, FaultIsRough
<1> QED BY <1>4, <1>5 DEF StaysQuiet, AtEase

(* What eases a poll or a file step eases the next one.                    *)
LEMMA FinishGoesOn ==
    ASSUME QuietNow, SmoothNow, host.pc \in {"poll", "request", "validate"} \cup PullPcs,
           host'.pc \in {"poll", "request", "validate"} \cup PullPcs, result' = result
    PROVE  Eases(guest)
<1>1. host.pc # "idle"
    BY DEF PullPcs
<1>2. result = None /\ FinishEases(host, guest)
    BY <1>1, QuietRuns DEF EaseOK
<1>3. guest.terminal # None /\ guest.error = None /\ (guest.job = "verify_partial" => guest.stopped)
    BY <1>2 DEF FinishEases
<1> QED BY <1>2, <1>3, PollEases

LEMMA CleanEases ==
    ASSUME result' = None, NEW g, host'.pc \in {"clean", "delete", "final"}
    PROVE  Eases(g)
BY DEF Eases, EaseOK, StartEases, VerifyEases, FinishEases, PullPcs, EndOK

LEMMA FilesQuiet ==
    ASSUME QuietNow, host.pc # "idle", journal.begun, Local, Same(journal, journal'),
           NEW pc \in {"stage", "register_stage", "mark", "final"}, host' = [host EXCEPT !.pc = pc],
           direction = "push" => files'.temp # "none",
           direction = "pull" =>
               (journal.intent # None /\ ~journal.published => files'.stage = "full" \/ files'.dest # "none"),
           Calm(files') => Calm(files), SmoothNow => Eases(guest)
    PROVE  StaysQuiet
<1>1. SentOK(host, journal, guest, files, late) /\ TaskOK(guest) /\ host \in HostStates
    BY QuietRuns
<1>2. guest' = guest /\ late' = late /\ bounds' = bounds
    BY DEF Local
<1>3. host'.pc = pc /\ host'.abort = host.abort
    BY <1>1 DEF HostStates
<1>4. /\ journal'.begun = journal.begun /\ journal'.intent = journal.intent
      /\ journal'.published = journal.published /\ journal'.attempts = journal.attempts
      /\ journal'.adapterPending = journal.adapterPending
    BY DEF Same
<1>5. SentOK(host', journal', guest', files', late')
    BY <1>2, <1>3, <1>4 DEF SentOK, AbortPcs
<1>6. StagedOK(host', journal', files')
    BY <1>3, <1>4 DEF StagedOK
<1>7. SmoothNext => SmoothNow
    BY <1>2, <1>3, <1>4, SmoothBefore
<1>8. AtEase
    BY <1>2, <1>7 DEF AtEase, Eases
<1> QED BY <1>1, <1>2, <1>5, <1>6, <1>8 DEF StaysQuiet, InOrder, OrderOK

LEMMA ValidateQuiet == ASSUME QuietNow, Validate PROVE StaysQuiet
<1> PICK r : r = [binding |-> "K", prepare |-> journal.prepare, id |-> journal.prepare.id]
    OBVIOUS
<1> PICK k : k = [journal EXCEPT !.validation = r, !.stable = TRUE]
    OBVIOUS
<1>1. host.pc = "validate" /\ Local /\ host.pc # "idle"
    BY DEF Validate, At
<1>2. /\ direction = "push" /\ Running(journal, guest, late) /\ journal.begun /\ journal.prepare # None
      /\ journal \in Journals /\ host \in HostStates
    BY <1>1, QuietRuns DEF EarlyPcs, FinishingOK, PushPcs
<1>3. journal.validation \in {None, r} /\ JournalOK(k)
    BY <1>2, ValidatedRuns, Zenon DEF Running, World
<1>4. CASE files.source = "changed"
  <2>1. Raise(journal, "source_changed")
      BY <1>4 DEF Validate
  <2>2. ~SmoothNow
      BY <1>4 DEF SmoothNow, Smooth, Calm
  <2>3. Advances(journal)
      BY <1>2 DEF Advances
  <2> QED BY <1>1, <1>2, <2>1, <2>2, <2>3, RoughQuiet
<1>5. CASE files.source # "changed"
  <2>1. EnterFinish(k, "commit")
      BY <1>3, <1>5 DEF Validate
  <2>2. Carries(k) /\ host'.pc = "poll" /\ host'.action = "commit" /\ result' = result
      BY <1>2, <1>3, <2>1, EnterFinishGoes, ActionNames
  <2>3. Arrives(k)
      BY <1>2, <2>2, PollArrives
  <2>4. Advances(k)
      BY <1>2 DEF Advances, Journals
  <2>5. SmoothNow => Eases(guest)
      BY <1>1, <2>2, FinishGoesOn
  <2> QED BY <1>1, <1>2, <2>3, <2>4, <2>5, LocalQuiet
<1> QED BY <1>4, <1>5

LEMMA PullNow ==
    ASSUME QuietNow, host.pc \in PullPcs
    PROVE  /\ host.pc # "idle" /\ direction = "pull" /\ Running(journal, guest, late) /\ journal.begun
           /\ JournalOK(journal) /\ journal \in Journals /\ host \in HostStates /\ FilesOK(journal, files)
           /\ files \in FileStates /\ Advances(journal) /\ Same(journal, journal)
           /\ PublishingOK(host, journal, files) /\ StagedOK(host, journal, files)
           /\ (host'.pc \in {"poll", "request", "validate"} \cup PullPcs /\ result' = result /\ SmoothNow
                  => Eases(guest))
<1>1. host.pc # "idle"
    BY DEF PullPcs
<1>2. /\ direction = "pull" /\ Running(journal, guest, late) /\ journal.begun
      /\ JournalOK(journal) /\ journal \in Journals /\ host \in HostStates /\ FilesOK(journal, files)
      /\ PublishingOK(host, journal, files) /\ StagedOK(host, journal, files)
    BY <1>1, QuietRuns DEF EarlyPcs, PullPcs
<1>3. Advances(journal) /\ Same(journal, journal) /\ files \in FileStates
    BY <1>2 DEF Advances, Same, FilesOK
<1>4. host'.pc \in {"poll", "request", "validate"} \cup PullPcs /\ result' = result /\ SmoothNow => Eases(guest)
    BY FinishGoesOn
<1> QED BY <1>1, <1>2, <1>3, <1>4

LEMMA ChunksQuiet == ASSUME QuietNow, Chunks PROVE StaysQuiet
<1>1. host.pc = "chunks" /\ host.pc \in PullPcs
    BY DEF Chunks, At, PullPcs
<1>2. /\ host.pc # "idle" /\ direction = "pull" /\ journal.begun /\ journal \in Journals
      /\ files \in FileStates /\ Advances(journal) /\ host \in HostStates /\ journal.intent = None
    BY <1>1, PullNow DEF PublishingOK
<1>3. CASE /\ files' = [files EXCEPT !.temp = "ready"]
           /\ journal' = SetPhase(journal, "VERIFYING")
           /\ host' = [host EXCEPT !.pc = "stage"]
           /\ UNCHANGED result /\ Local
  <2>1. Same(journal, journal')
      BY <1>2, <1>3, SetPhaseSame
  <2>2. files'.source = files.source /\ files'.dest = files.dest
      BY <1>2, <1>3 DEF FileStates
  <2>3. host'.pc \in PullPcs /\ result' = result
      BY <1>2, <1>3 DEF HostStates, PullPcs
  <2>4. SmoothNow => Eases(guest)
      BY <1>1, <2>3, PullNow
  <2>5. Calm(files') => Calm(files)
      BY <2>2 DEF Calm
  <2> QED BY <1>2, <1>3, <2>1, <2>4, <2>5, FilesQuiet
<1>4. CASE guest.cancelled /\ Raise(journal, "transfer_cancelled") /\ Local
  <2>1. ~SmoothNow
      BY <1>4 DEF SmoothNow, Smooth
  <2> QED BY <1>2, <1>4, <2>1, RoughQuiet
<1>5. CASE Faulty /\ Raise(journal, "outcome_unknown") /\ UNCHANGED <<guest, late>>
    BY <1>2, <1>5, FaultQuiet
<1> QED BY <1>3, <1>4, <1>5 DEF Chunks

LEMMA TakenIsRough == ASSUME FilesOK(journal, files), journal.intent = None, ~Vacant PROVE ~SmoothNow
BY DEF FilesOK, Vacant, SmoothNow, Smooth, Calm

LEMMA StageQuiet == ASSUME QuietNow, Stage PROVE StaysQuiet
<1>1. host.pc = "stage" /\ host.pc \in PullPcs /\ Local
    BY DEF Stage, At, PullPcs
<1>2. /\ host.pc # "idle" /\ direction = "pull" /\ journal.begun /\ JournalOK(journal) /\ journal \in Journals
      /\ files \in FileStates /\ FilesOK(journal, files) /\ Advances(journal) /\ Same(journal, journal)
      /\ host \in HostStates /\ journal.intent = None
    BY <1>1, PullNow DEF PublishingOK
<1>3. CASE ~Vacant /\ Raise(journal, "destination_exists")
    BY <1>1, <1>2, <1>3, TakenIsRough, RoughQuiet
<1>4. CASE files.stage = "unregistered" /\ Raise(journal, "stage_reconcile_required")
  <2>1. EndOK(result', files)
      BY <1>4 DEF EndOK
  <2> QED BY <1>1, <1>2, <1>4, <2>1, RoughQuiet
<1>5. CASE /\ files' = [files EXCEPT !.stage = IF @ = "none" THEN "unregistered" ELSE "full"]
           /\ host' = [host EXCEPT !.pc = IF files.stage = "none" THEN "register_stage" ELSE "stage"]
           /\ UNCHANGED <<journal, result>>
  <2> PICK pc : pc = IF files.stage = "none" THEN "register_stage" ELSE "stage"
      OBVIOUS
  <2>1. pc \in {"stage", "register_stage", "mark", "final"} /\ pc \in PullPcs /\ host' = [host EXCEPT !.pc = pc]
      BY <1>5 DEF PullPcs
  <2>2. files'.source = files.source /\ files'.dest = files.dest
      BY <1>2, <1>5 DEF FileStates
  <2>3. host'.pc \in PullPcs /\ result' = result
      BY <1>2, <1>5, <2>1 DEF HostStates
  <2>4. SmoothNow => Eases(guest)
      BY <1>1, <2>3, PullNow
  <2>5. Calm(files') => Calm(files)
      BY <2>2 DEF Calm
  <2> QED BY <1>1, <1>2, <1>5, <2>1, <2>4, <2>5, FilesQuiet
<1>6. CASE files.stage = "full" /\ EnterFinish(journal, "prepare")
  <2>1. Carries(journal) /\ host'.pc = "poll" /\ result' = result
      BY <1>2, <1>6, EnterFinishGoes, ActionNames
  <2>2. Arrives(journal)
      BY <1>6, <2>1 DEF Arrives, AbortPcs
  <2>3. SmoothNow => Eases(guest)
      BY <1>1, <2>1, PullNow
  <2> QED BY <1>1, <1>2, <2>2, <2>3, LocalQuiet
<1> QED BY <1>3, <1>4, <1>5, <1>6 DEF Stage

LEMMA RegisterStageQuiet == ASSUME QuietNow, RegisterStage PROVE StaysQuiet
<1>1. host.pc = "register_stage" /\ host.pc \in PullPcs /\ Local
    BY DEF RegisterStage, At, PullPcs
<1>2. /\ host.pc # "idle" /\ direction = "pull" /\ journal.begun /\ files \in FileStates
      /\ Same(journal, journal) /\ host \in HostStates /\ journal.intent = None
    BY <1>1, PullNow DEF PublishingOK
<1>3. /\ files' = [files EXCEPT !.stage = "registered"] /\ host' = [host EXCEPT !.pc = "stage"]
      /\ journal' = journal /\ result' = result
    BY DEF RegisterStage
<1>4. files'.source = files.source /\ files'.dest = files.dest
    BY <1>2, <1>3 DEF FileStates
<1>5. host'.pc \in PullPcs
    BY <1>2, <1>3 DEF HostStates, PullPcs
<1>6. SmoothNow => Eases(guest)
    BY <1>1, <1>3, <1>5, PullNow
<1>7. Calm(files') => Calm(files)
    BY <1>4 DEF Calm
<1> QED BY <1>1, <1>2, <1>3, <1>6, <1>7, FilesQuiet

LEMMA GoOnQuiet ==
    ASSUME QuietNow, host.pc \in PullPcs, Local, NEW j, Advances(j), NEW pc \in {"rename", "receipt"}, Go(j, pc)
    PROVE  StaysQuiet
<1>1. host.pc # "idle" /\ journal.begun /\ host \in HostStates
    BY PullNow
<1>2. pc \in Pcs \ (AbortPcs \cup {"register_package"}) /\ pc \in PullPcs
    BY DEF Pcs, AbortPcs, PullPcs
<1>3. Arrives(j) /\ host'.pc = pc /\ result' = result
    BY <1>1, <1>2, GoArrives
<1>4. SmoothNow => Eases(guest)
    BY <1>2, <1>3, PullNow
<1> QED BY <1>1, <1>3, <1>4, LocalQuiet

LEMMA PublishQuiet == ASSUME QuietNow, Publish PROVE StaysQuiet
<1>1. host.pc = "publish" /\ host.pc \in PullPcs /\ Local
    BY DEF Publish, At, PullPcs
<1>2. /\ host.pc # "idle" /\ direction = "pull" /\ journal.begun /\ journal \in Journals
      /\ FilesOK(journal, files) /\ Advances(journal) /\ host \in HostStates
      /\ (journal.intent # None \/ files.stage = "full")
    BY <1>1, PullNow DEF StagedOK
<1>3. CASE journal.intent # None
  <2>1. Go(journal, "rename")
      BY <1>3 DEF Publish
  <2> QED BY <1>1, <1>2, <2>1, GoOnQuiet
<1>4. CASE journal.intent = None /\ ~Vacant
  <2>1. Raise(journal, "destination_exists")
      BY <1>4 DEF Publish
  <2> QED BY <1>1, <1>2, <1>4, <2>1, TakenIsRough, RoughQuiet
<1>5. CASE journal.intent = None /\ Vacant
  <2> PICK r : r = [binding |-> "K", prepare |-> journal.prepare, id |-> FreshId]
      OBVIOUS
  <2> PICK k : k = [journal EXCEPT !.intent = r]
      OBVIOUS
  <2>1. Go(k, "rename")
      BY <1>5 DEF Publish
  <2>2. "rename" \in Pcs \ (AbortPcs \cup {"register_package"}) /\ "rename" \in PullPcs
      BY DEF Pcs, AbortPcs, PullPcs
  <2>3. Arrives(k) /\ host'.pc = "rename" /\ result' = result
      BY <1>2, <2>1, <2>2, GoArrives
  <2>4. /\ k.begun = journal.begun /\ k.published = journal.published /\ k.attempts = journal.attempts
        /\ k.adapterPending = journal.adapterPending
      BY <1>2 DEF Journals
  <2>5. TaskOK(guest) /\ guest' = guest /\ late' = late /\ bounds' = bounds
      BY <1>1, <1>2, QuietRuns DEF Local
  <2>6. InOrder
      BY <1>2, <1>5, <2>3, <2>4, <2>5, ArrivesInOrder
  <2>7. SmoothNow => Eases(guest)
      BY <1>1, <2>2, <2>3, PullNow
  <2>8. /\ journal'.attempts = journal.attempts /\ journal'.adapterPending = journal.adapterPending
        /\ files' = files /\ host'.abort = host.abort
      BY <2>3, <2>4 DEF Arrives, Carries, Same
  <2>9. SmoothNext => SmoothNow
      BY <2>5, <2>8, SmoothBefore
  <2> QED BY <2>5, <2>6, <2>7, <2>9 DEF StaysQuiet, AtEase, Eases
<1> QED BY <1>3, <1>4, <1>5

LEMMA MarkedAdvances ==
    ASSUME journal \in Journals, journal.begun PROVE Advances(MarkedNow) /\ MarkedNow \in Journals
BY DEF MarkedNow, Advances, Journals

LEMMA RenameQuiet == ASSUME QuietNow, Rename PROVE StaysQuiet
<1>1. host.pc = "rename" /\ host.pc \in PullPcs /\ Local
    BY DEF Rename, At, PullPcs
<1>2. /\ host.pc # "idle" /\ direction = "pull" /\ journal.begun /\ journal \in Journals
      /\ FilesOK(journal, files) /\ files \in FileStates /\ Advances(journal) /\ Same(journal, journal)
      /\ host \in HostStates /\ journal.intent # None
      /\ (~journal.published => files.stage = "full" \/ files.dest # "none")
    BY <1>1, PullNow DEF PublishingOK, StagedOK
<1>m. Advances(MarkedNow) /\ MarkedNow \in Journals
    BY <1>2, MarkedAdvances
<1>r. ASSUME ~Calm(files), NEW j \in Journals, Advances(j), NEW code, Raise(j, code) PROVE StaysQuiet
  <2>1. ~SmoothNow
      BY <1>r DEF SmoothNow, Smooth
  <2> QED BY <1>1, <1>2, <1>r, <2>1, RoughQuiet
<1>3. CASE files.dest = "ours" /\ Go(MarkedNow, "receipt")
    BY <1>1, <1>3, <1>m, GoOnQuiet
<1>4. CASE files.dest \in {"altered", "pruned"} /\ Raise(MarkedNow, DestinationError)
  <2>1. ~Calm(files)
      BY <1>4 DEF Calm
  <2> QED BY <1>4, <1>m, <1>r, <2>1
<1>5. CASE files.dest = "foreign" /\ Raise(journal, DestinationError)
  <2>1. ~Calm(files)
      BY <1>5 DEF Calm
  <2> QED BY <1>2, <1>5, <1>r, <2>1
<1>6. CASE Vacant /\ journal.published /\ Raise(journal, "published_destination_missing")
  <2>1. ~Calm(files)
      BY <1>2, <1>6 DEF Calm, Vacant, FilesOK
  <2> QED BY <1>2, <1>6, <1>r, <2>1
<1>7. CASE /\ Vacant /\ ~journal.published /\ files.stage = "none"
           /\ Raise([journal EXCEPT !.unknown = TRUE], "publication_outcome_unknown")
  <2> PICK k : k = [journal EXCEPT !.unknown = TRUE]
      OBVIOUS
  <2>1. ~Calm(files)
      BY <1>2, <1>7 DEF Calm, Vacant
  <2>2. k \in Journals /\ Advances(k)
      BY <1>2 DEF Journals, Advances
  <2> QED BY <1>7, <1>r, <2>1, <2>2
<1>8. CASE /\ Vacant /\ ~journal.published /\ files.stage = "full"
           /\ files' = [files EXCEPT !.dest = "ours", !.stage = "none"]
           /\ host' = [host EXCEPT !.pc = "mark"]
           /\ UNCHANGED <<journal, result>>
  <2>1. files'.source = files.source /\ files'.dest = "ours"
      BY <1>2, <1>8 DEF FileStates
  <2>2. files.dest = "none"
      BY <1>2, <1>8 DEF FilesOK, Vacant
  <2>3. Calm(files') => Calm(files)
      BY <2>1, <2>2 DEF Calm
  <2>4. host'.pc \in PullPcs /\ result' = result
      BY <1>2, <1>8 DEF HostStates, PullPcs
  <2>5. SmoothNow => Eases(guest)
      BY <1>1, <2>4, PullNow
  <2> QED BY <1>1, <1>2, <1>8, <2>1, <2>3, <2>5, FilesQuiet
<1> QED BY <1>3, <1>4, <1>5, <1>6, <1>7, <1>8 DEF Rename, MarkedNow

LEMMA MarkPublishedQuiet == ASSUME QuietNow, MarkPublished PROVE StaysQuiet
<1>1. host.pc = "mark" /\ host.pc \in PullPcs /\ Local
    BY DEF MarkPublished, At, PullPcs
<1>2. host.pc # "idle" /\ journal.begun /\ journal \in Journals /\ files.dest # "none"
    BY <1>1, PullNow DEF PublishingOK
<1>m. Advances(MarkedNow) /\ MarkedNow \in Journals
    BY <1>2, MarkedAdvances
<1>3. CASE DestinationError # None
  <2>1. Raise(MarkedNow, DestinationError)
      BY <1>3 DEF MarkPublished, MarkedNow
  <2>2. ~SmoothNow
      BY <1>2, <1>3 DEF DestinationError, SmoothNow, Smooth, Calm
  <2> QED BY <1>1, <1>2, <1>m, <2>1, <2>2, RoughQuiet
<1>4. CASE DestinationError = None
  <2>1. Go(MarkedNow, "receipt")
      BY <1>4 DEF MarkPublished, MarkedNow
  <2> QED BY <1>1, <1>m, <2>1, GoOnQuiet
<1> QED BY <1>3, <1>4

LEMMA StoreReceiptQuiet == ASSUME QuietNow, StoreReceipt PROVE StaysQuiet
<1> PICK k : k = [journal EXCEPT !.publication = journal.intent, !.phase = "PUBLISHED"]
    OBVIOUS
<1>1. host.pc = "receipt" /\ host.pc \in PullPcs /\ Local /\ EnterRelease(k)
    BY DEF StoreReceipt, At, PullPcs
<1>2. host.pc # "idle" /\ Now
    BY <1>1 DEF QuietNow
<1>3. direction = "pull" /\ journal.begun /\ Running(k, guest, late) /\ Same(journal, k) /\ k.published
    BY <1>1, <1>2, ReceiptRuns
<1>4. Carries(k) /\ host'.pc = "poll" /\ host'.action = "release" /\ result' = result
    BY <1>1, <1>3, EnterReleaseGoes
<1>5. Arrives(k)
    BY <1>4, PollArrives
<1>6. Advances(k)
    BY <1>3 DEF Same, Advances
<1>7. SmoothNow => Eases(guest)
    BY <1>1, <1>4, PullNow
<1> QED BY <1>1, <1>2, <1>3, <1>5, <1>6, <1>7, LocalQuiet

LEMMA CleanNow ==
    ASSUME QuietNow, host.pc \in {"clean", "delete", "final"}
    PROVE  /\ host.pc # "idle" /\ journal.begun /\ journal \in Journals /\ host \in HostStates
           /\ journal.published /\ Advances(journal) /\ files \in FileStates /\ result = None
           /\ (direction = "pull" /\ DestinationError # None => ~Calm(files))
           /\ CleaningOK(host, journal, guest, files)
<1>1. host.pc # "idle"
    OBVIOUS
<1>2. /\ direction \in {"push", "pull"} /\ Running(journal, guest, late) /\ journal.begun
      /\ journal \in Journals /\ host \in HostStates /\ FilesOK(journal, files) /\ result = None
      /\ CleaningOK(host, journal, guest, files)
    BY <1>1, QuietRuns DEF EarlyPcs
<1>3. ReleasedAs(guest, journal)
    BY <1>2 DEF CleaningOK
<1>4. journal.published
    BY <1>2, <1>3, ReleasedIsStable
<1>5. direction = "pull" /\ DestinationError # None => ~Calm(files)
    BY <1>2, <1>4 DEF FilesOK, DestinationError, Calm
<1> QED BY <1>1, <1>2, <1>4, <1>5 DEF Advances, FilesOK

LEMMA EndsRoughly ==
    ASSUME QuietNow, host.pc \in {"clean", "delete", "final"}, Local, ~SmoothNow,
           NEW outcome, NEW code, End(journal, outcome, code), files' = files
    PROVE  StaysQuiet
<1>1. host.pc # "idle" /\ journal.begun /\ journal \in Journals /\ host \in HostStates /\ Advances(journal)
    BY CleanNow
<1>2. Carries(journal) /\ host'.pc = "idle"
    BY <1>1, EndCarries
<1>3. Arrives(journal)
    BY <1>2, IdleArrives
<1> QED BY <1>1, <1>3, LocalQuiet

LEMMA CleanQuiet == ASSUME QuietNow, Clean PROVE StaysQuiet
<1>1. host.pc = "clean" /\ host.pc \in {"clean", "delete", "final"} /\ Local
    BY DEF Clean, At
<1>2. /\ host.pc # "idle" /\ journal.begun /\ journal \in Journals /\ host \in HostStates /\ result = None
      /\ (direction = "pull" /\ DestinationError # None => ~Calm(files))
    BY <1>1, CleanNow
<1>3. CASE journal.adapterPending
  <2>1. ~SmoothNow
      BY <1>3 DEF SmoothNow, Smooth
  <2> QED BY <1>1, <1>3, <2>1, EndsRoughly DEF Clean
<1>4. CASE ~journal.adapterPending /\ direction = "pull" /\ DestinationError # None
  <2>1. ~SmoothNow
      BY <1>2, <1>4 DEF SmoothNow, Smooth
  <2> QED BY <1>1, <1>4, <2>1, EndsRoughly DEF Clean
<1>5. CASE ~journal.adapterPending /\ ~(direction = "pull" /\ DestinationError # None)
  <2> PICK k : k = [journal EXCEPT !.cleanIntent = TRUE]
      OBVIOUS
  <2>1. Go(k, "delete")
      BY <1>5 DEF Clean
  <2>2. Advances(k)
      BY <1>2 DEF Advances, Journals
  <2>3. "delete" \in Pcs \ (AbortPcs \cup {"register_package"})
      BY DEF Pcs, AbortPcs
  <2>4. Arrives(k) /\ host'.pc = "delete" /\ result' = result
      BY <1>2, <2>1, <2>3, GoArrives
  <2>5. SmoothNow => Eases(guest)
      BY <1>2, <2>4, CleanEases
  <2> QED BY <1>1, <1>2, <2>2, <2>4, <2>5, LocalQuiet
<1> QED BY <1>3, <1>4, <1>5

LEMMA DeleteQuiet == ASSUME QuietNow, Delete PROVE StaysQuiet
<1>1. host.pc = "delete" /\ host.pc \in {"clean", "delete", "final"} /\ Local
    BY DEF Delete, At
<1>2. /\ host.pc # "idle" /\ journal.begun /\ host \in HostStates /\ result = None /\ journal.published
      /\ files \in FileStates
    BY <1>1, CleanNow
<1>3. /\ files' = [files EXCEPT !.temp = "gone"] /\ host' = [host EXCEPT !.pc = "final"]
      /\ journal' = journal /\ result' = result
    BY DEF Delete
<1>4. files'.temp = "gone" /\ files'.source = files.source /\ files'.dest = files.dest
    BY <1>2, <1>3 DEF FileStates
<1>5. Calm(files') => Calm(files)
    BY <1>4 DEF Calm
<1>6. host'.pc = "final"
    BY <1>2, <1>3 DEF HostStates
<1>7. SmoothNow => Eases(guest)
    BY <1>2, <1>3, <1>6, CleanEases
<1>8. Same(journal, journal')
    BY <1>3 DEF Same
<1> QED BY <1>1, <1>2, <1>3, <1>4, <1>5, <1>7, <1>8, FilesQuiet

LEMMA FinalizeQuiet == ASSUME QuietNow, Finalize PROVE StaysQuiet
<1> PICK j : j = [journal EXCEPT !.hostClean = TRUE]
    OBVIOUS
<1>1. host.pc = "final" /\ host.pc \in {"clean", "delete", "final"} /\ Local
    BY DEF Finalize, At
<1>2. /\ host.pc # "idle" /\ journal.begun /\ journal \in Journals /\ host \in HostStates
      /\ (direction = "pull" /\ DestinationError # None => ~Calm(files))
      /\ journal.destVerified = TRUE /\ journal.guestClean /\ ~journal.adapterPending
    BY <1>1, CleanNow DEF CleaningOK
<1>3. /\ j \in Journals /\ Advances(j) /\ j.hostClean = TRUE /\ j.destVerified = journal.destVerified
      /\ j.guestClean = journal.guestClean /\ j.adapterPending = journal.adapterPending
    BY <1>2 DEF Journals, Advances
<1>4. CASE direction = "pull" /\ DestinationError # None /\ Raise(j, DestinationError)
  <2>1. ~SmoothNow
      BY <1>2, <1>4 DEF SmoothNow, Smooth
  <2> QED BY <1>1, <1>2, <1>3, <1>4, <2>1, RoughQuiet
<1>5. CASE bounds.expired /\ Raise(j, "deadline_exceeded")
  <2>1. ~SmoothNow
      BY <1>5 DEF SmoothNow, Smooth
  <2> QED BY <1>1, <1>2, <1>3, <1>5, <2>1, RoughQuiet
<1>6. CASE End(j, "complete", None) /\ files' = files
  <2>1. Carries(j) /\ host'.pc = "idle"
      BY <1>2, <1>3, <1>6, EndCarries
  <2>2. Arrives(j)
      BY <2>1, IdleArrives
  <2>3. result' = Report(j, "complete", None)
      BY <1>2, <1>3, <1>6 DEF End, Proven
  <2>4. EndOK(result', files')
      BY <2>3 DEF Report, EndOK
  <2>5. SmoothNow => Eases(guest)
      BY <2>1, <2>4, IdleEases
  <2> QED BY <1>1, <1>2, <1>3, <2>2, <2>5, LocalQuiet
<1> QED BY <1>4, <1>5, <1>6 DEF Finalize

LEMMA HostStepQuiet == ASSUME QuietNow, HostStep PROVE StaysQuiet
BY ConnectQuiet, RegisterPackageQuiet, BeginQuiet, BeginCallQuiet, AwaitReadyQuiet, SendQuiet, AwaitIdleQuiet,
   VerifyCallQuiet, AwaitProofQuiet, PollQuiet, RequestQuiet, ValidateQuiet, ChunksQuiet, StageQuiet,
   RegisterStageQuiet, PublishQuiet, RenameQuiet, MarkPublishedQuiet, StoreReceiptQuiet, CleanQuiet,
   DeleteQuiet, FinalizeQuiet, AbortQuiet, DeadlineEndsQuiet DEF HostStep

(* The steps of everyone but the host's run.                               *)
LEMMA QuietFacts ==
    ASSUME QuietNow
    PROVE  /\ Now /\ direction \in {"push", "pull"} /\ Counters(bounds) /\ JournalOK(journal)
           /\ journal \in Journals /\ host \in HostStates /\ GuestOK(guest, files.source) /\ guest \in Guests
           /\ WorkerOK(guest) /\ FilesOK(journal, files) /\ files \in FileStates /\ LateOK(journal, late)
           /\ (host.pc # "idle" => result = None)
           /\ TaskOK(guest) /\ SentOK(host, journal, guest, files, late) /\ StagedOK(host, journal, files)
           /\ (SmoothNow => EaseOK(host, guest) /\ EndOK(result, files))
<1>1. Now
    BY DEF QuietNow
<1>2. /\ direction \in {"push", "pull"} /\ Counters(bounds) /\ JournalOK(journal) /\ journal \in Journals
      /\ host \in HostStates /\ GuestOK(guest, files.source) /\ FilesOK(journal, files) /\ LateOK(journal, late)
      /\ ResultOK(result, host, journal, guest, files, bounds.overdue)
    BY <1>1, NowFacts
<1>3. guest \in Guests /\ WorkerOK(guest) /\ files \in FileStates
    BY <1>2 DEF GuestOK, FilesOK
<1>4. host.pc # "idle" => result = None
    BY <1>2 DEF ResultOK
<1>5. TaskOK(guest) /\ SentOK(host, journal, guest, files, late) /\ StagedOK(host, journal, files)
    BY DEF QuietNow, QuietOK, OrderOK
<1>6. SmoothNow => EaseOK(host, guest) /\ EndOK(result, files)
    BY DEF QuietNow, QuietOK, SmoothNow
<1> QED BY <1>1, <1>2, <1>3, <1>4, <1>5, <1>6

LEMMA OrderStays ==
    ASSUME QuietNow, UNCHANGED <<journal, host, files>>, TaskOK(guest'), guest'.made \/ late' # {} => journal.begun
    PROVE  InOrder
<1>1. SentOK(host, journal, guest, files, late) /\ StagedOK(host, journal, files)
    BY QuietFacts
<1>2. SentOK(host', journal', guest', files', late')
    BY <1>1 DEF SentOK
<1>3. StagedOK(host', journal', files')
    BY <1>1 DEF StagedOK
<1> QED BY <1>2, <1>3 DEF InOrder, OrderOK

LEMMA StartQuiet == ASSUME QuietNow, Start PROVE StaysQuiet
<1>1. /\ Counters(bounds) /\ journal \in Journals /\ TaskOK(guest)
      /\ SentOK(host, journal, guest, files, late) /\ StagedOK(host, journal, files)
    BY QuietFacts
<1> PICK m : m = SetPhase(journal, "PREPARING")
    OBVIOUS
<1>2. m \in Journals /\ Same(journal, m)
    BY <1>1, PhaseNames, SetPhaseTyped, SetPhaseSame
<1>3. journal' = [m EXCEPT !.destVerified = None]
    BY DEF Start
<1>4. /\ journal'.begun = journal.begun /\ journal'.intent = journal.intent
      /\ journal'.published = journal.published
    BY <1>2, <1>3 DEF Same, Journals
<1>5. host'.pc = "connect" /\ host'.back = "proceed"
    BY DEF Start
<1>6. result' = None /\ files' = files /\ guest' = guest /\ late' = late
    BY DEF Start
<1>7. SentOK(host', journal', guest', files', late')
    BY <1>1, <1>4, <1>5, <1>6 DEF SentOK, AbortPcs
<1>8. StagedOK(host', journal', files')
    BY <1>1, <1>4, <1>5, <1>6 DEF StagedOK
<1>9. InOrder
    BY <1>1, <1>6, <1>7, <1>8 DEF InOrder, OrderOK
<1>10. bounds'.inherited = Leftover
  <2> PICK n : n = bounds.runs + 1
      OBVIOUS
  <2> PICK left : left = Leftover
      OBVIOUS
  <2>1. bounds' = [bounds EXCEPT !.runs = n, !.quiet = TRUE, !.inherited = left]
      BY DEF Start
  <2> QED BY <1>1, <2>1 DEF Counters
<1>11. SmoothNext => guest.error = None /\ ~(direction = "push" /\ guest.alive /\ guest.job = "prepare")
    BY <1>10 DEF SmoothNext, Smooth, Leftover
<1>12. SmoothNext => StartEases(host', guest')
    BY <1>5, <1>6, <1>11 DEF StartEases
<1>13. VerifyEases(host', guest') /\ FinishEases(host', guest')
    BY <1>5 DEF VerifyEases, FinishEases, PullPcs
<1>14. EndOK(result', files')
    BY <1>6 DEF EndOK
<1> QED BY <1>9, <1>12, <1>13, <1>14 DEF StaysQuiet, AtEase, EaseOK

LEMMA CrashQuiet == ASSUME QuietNow, Crash PROVE StaysQuiet
<1>1. /\ host.pc # "idle" /\ host' = [host EXCEPT !.pc = "idle"] /\ journal' = journal /\ files' = files
      /\ guest' = guest /\ late' = late /\ result' = result
    BY DEF Crash, At
<1>2. /\ host \in HostStates /\ result = None /\ TaskOK(guest)
      /\ SentOK(host, journal, guest, files, late) /\ StagedOK(host, journal, files)
    BY <1>1, QuietFacts
<1>3. host'.pc = "idle" /\ host'.abort = host.abort
    BY <1>1, <1>2 DEF HostStates
<1>4. Carries(journal)
    BY <1>1, <1>3 DEF Carries, Same
<1>5. InOrder
    BY <1>1, <1>2, <1>3, <1>4, IdleInOrder
<1>6. EndOK(result', files')
    BY <1>1, <1>2 DEF EndOK
<1>7. Eases(guest')
    BY <1>3, <1>6, IdleEases
<1> QED BY <1>5, <1>7 DEF StaysQuiet, AtEase, Eases

LEMMA ExpireQuiet == ASSUME QuietNow, Expire PROVE StaysQuiet
<1>1. Counters(bounds) /\ TaskOK(guest) /\ SentOK(host, journal, guest, files, late)
    BY QuietFacts
<1>2. guest' = guest /\ late' = late /\ UNCHANGED <<journal, host, files>>
    BY DEF Expire
<1>3. InOrder
    BY <1>1, <1>2, OrderStays DEF SentOK
<1>4. bounds'.expired = TRUE
    BY <1>1 DEF Expire, Counters
<1> QED BY <1>3, <1>4 DEF StaysQuiet, AtEase, SmoothNext, Smooth

LEMMA GuestWorkQuiet == ASSUME QuietNow, GuestWork PROVE StaysQuiet
<1> PICK h : h = Worked(guest)
    OBVIOUS
<1>1. guest.alive /\ guest' = h /\ UNCHANGED <<journal, host, files, late, result, bounds>>
    BY DEF GuestWork
<1>2. /\ direction \in {"push", "pull"} /\ JournalOK(journal) /\ GuestOK(guest, files.source) /\ TaskOK(guest)
      /\ WorkerOK(guest) /\ SentOK(host, journal, guest, files, late)
      /\ (SmoothNow => EaseOK(host, guest) /\ EndOK(result, files))
    BY QuietFacts
<1>3. /\ TaskOK(h) /\ h.made = guest.made /\ h.job = guest.job /\ h.error = guest.error
      /\ h.stopped = guest.stopped /\ h.known = guest.known /\ h.cancelled = guest.cancelled
      /\ (h.alive => guest.alive) /\ (guest.job = "verify_partial" => h.proof /\ h.terminal = guest.terminal)
    BY <1>1, <1>2, WorkedDoes
<1>4. guest.terminal # None => h.terminal # None
    BY <1>1, <1>2, WorkedOK DEF Evolves, Follows, Keeps
<1>5. ~guest.stopped
    BY <1>1, <1>2 DEF WorkerOK
<1>6. InOrder
    BY <1>1, <1>2, <1>3, OrderStays DEF SentOK
<1>7. StartEases(host, guest) => StartEases(host, h)
    BY <1>3 DEF StartEases
<1>8. VerifyEases(host, guest) => VerifyEases(host, h)
    BY <1>1, <1>3, <1>5 DEF VerifyEases, Unprepared
<1>9. FinishEases(host, guest) => FinishEases(host, h)
    BY <1>3, <1>4 DEF FinishEases
<1>10. SmoothNext => SmoothNow
    BY <1>1, <1>3, SmoothBefore
<1> QED BY <1>1, <1>2, <1>6, <1>7, <1>8, <1>9, <1>10 DEF StaysQuiet, AtEase, EaseOK

LEMMA GuestRaisesQuiet == ASSUME QuietNow, GuestRaises PROVE StaysQuiet
<1>1. guest.alive /\ UNCHANGED <<journal, host, files, late, result>>
    BY DEF GuestRaises
<1>2. /\ direction \in {"push", "pull"} /\ GuestOK(guest, files.source) /\ TaskOK(guest) /\ Counters(bounds)
      /\ WorkerOK(guest) /\ SentOK(host, journal, guest, files, late)
    BY QuietFacts
<1>3. PICK code, staged : guest' = Raised(guest, code, staged)
    BY DEF GuestRaises
<1>4. TaskOK(guest')
    BY <1>1, <1>2, <1>3, RaisedDoes
<1>5. journal.begun
    BY <1>1, <1>2 DEF WorkerOK, SentOK
<1>6. InOrder
    BY <1>1, <1>4, <1>5, OrderStays
<1>7. Faulty \/ files.source = "changed"
    BY DEF GuestRaises, SourceRefused
<1>8. ~SmoothNext
  <2>1. CASE Faulty
      BY <1>2, <2>1, FaultIsRough
  <2>2. CASE files.source = "changed"
      BY <1>1, <2>2 DEF SmoothNext, Smooth, Calm
  <2> QED BY <1>7, <2>1, <2>2
<1> QED BY <1>6, <1>8 DEF StaysQuiet, AtEase

LEMMA GuestKilledQuiet == ASSUME QuietNow, GuestKilled PROVE StaysQuiet
<1> PICK h : h = Exited(guest)
    OBVIOUS
<1>1. guest.alive /\ Faulty /\ guest' = h /\ UNCHANGED <<journal, host, files, late, result>>
    BY DEF GuestKilled
<1>2. guest \in Guests /\ TaskOK(guest) /\ Counters(bounds) /\ SentOK(host, journal, guest, files, late)
    BY QuietFacts
<1>3. /\ h.made = guest.made /\ h.terminal = guest.terminal /\ h.job = guest.job /\ h.error = guest.error
      /\ h.stopped = guest.stopped
    BY <1>2, ExitedDoes
<1>4. TaskOK(guest')
    BY <1>1, <1>2, <1>3 DEF TaskOK
<1>5. InOrder
    BY <1>1, <1>2, <1>3, <1>4, OrderStays DEF SentOK
<1>6. ~SmoothNext
    BY <1>1, <1>2, FaultIsRough
<1> QED BY <1>5, <1>6 DEF StaysQuiet, AtEase

LEMMA LateRequestQuiet == ASSUME QuietNow, LateRequest PROVE StaysQuiet
<1>1. /\ direction \in {"push", "pull"} /\ GuestOK(guest, files.source) /\ TaskOK(guest) /\ Counters(bounds)
      /\ LateOK(journal, late) /\ SentOK(host, journal, guest, files, late)
    BY QuietFacts
<1>2. PICK r \in late : guest' \in Executed(guest, r)
    BY DEF LateRequest
<1>3. UNCHANGED <<journal, host, files>>
    BY DEF LateRequest
<1>4. r \in Requests /\ journal.begun
    BY <1>1 DEF LateOK, SentOK
<1>5. TaskOK(guest')
    BY <1>1, <1>2, <1>4, ExecutedDoes
<1>6. InOrder
    BY <1>3, <1>4, <1>5, OrderStays
<1>7. bounds'.quiet = FALSE
  <2>1. PICK q \in late : bounds' = [bounds EXCEPT !.quiet = FALSE, !.overdue = @ \/ q.call = "commit"]
      BY DEF LateRequest
  <2> QED BY <1>1, <2>1 DEF Counters
<1> QED BY <1>6, <1>7 DEF StaysQuiet, AtEase, SmoothNext, Smooth

LEMMA OtherUsersQuiet == ASSUME QuietNow, OtherUsers PROVE StaysQuiet
<1>1. /\ files \in FileStates /\ TaskOK(guest) /\ Counters(bounds)
      /\ SentOK(host, journal, guest, files, late) /\ StagedOK(host, journal, files)
    BY QuietFacts
<1>2. /\ journal' = journal /\ host' = host /\ guest' = guest /\ late' = late
      /\ bounds' = [bounds EXCEPT !.quiet = FALSE]
    BY DEF OtherUsers
<1>3. files'.temp = files.temp /\ files'.stage = files.stage /\ (files.dest # "none" => files'.dest # "none")
  <2>1. CASE files' = [files EXCEPT !.source = "changed"]
      BY <1>1, <2>1 DEF FileStates
  <2>2. CASE files' = [files EXCEPT !.dest = "foreign"]
      BY <1>1, <2>2 DEF FileStates
  <2>3. CASE \E damage \in {"altered", "pruned", "removed"} : files' = [files EXCEPT !.dest = damage]
      BY <1>1, <2>3 DEF FileStates
  <2> QED BY <2>1, <2>2, <2>3 DEF OtherUsers
<1>4. SentOK(host', journal', guest', files', late')
    BY <1>1, <1>2, <1>3 DEF SentOK
<1>5. StagedOK(host', journal', files')
    BY <1>1, <1>2, <1>3 DEF StagedOK
<1>6. bounds'.quiet = FALSE
    BY <1>1, <1>2 DEF Counters
<1> QED BY <1>1, <1>2, <1>4, <1>5, <1>6 DEF StaysQuiet, InOrder, OrderOK, AtEase, SmoothNext, Smooth

LEMMA StepQuiet ==
    ASSUME QuietNow, Start \/ HostStep \/ Crash \/ Expire \/ GuestStep \/ GuestKilled \/ LateRequest \/ OtherUsers
    PROVE  StaysQuiet
BY StartQuiet, HostStepQuiet, CrashQuiet, ExpireQuiet, GuestWorkQuiet, GuestRaisesQuiet, GuestKilledQuiet,
   LateRequestQuiet, OtherUsersQuiet DEF GuestStep

LEMMA QuietNext ==
    ASSUME direction' = direction, StaysQuiet
    PROVE  QuietOK(bounds, host, journal, guest, files, late, result)'
<1>1. TaskOK(guest)'
    BY DEF StaysQuiet, InOrder, OrderOK, TaskOK
<1>2. SentOK(host, journal, guest, files, late)'
    BY DEF StaysQuiet, InOrder, OrderOK, SentOK
<1>3. StagedOK(host, journal, files)'
    BY DEF StaysQuiet, InOrder, OrderOK, StagedOK
<1>4. Smooth(bounds, host, journal, guest, files)' => EaseOK(host', guest') /\ EndOK(result', files')
    BY DEF StaysQuiet, AtEase, SmoothNext, Smooth, Calm
<1>5. EaseOK(host', guest') => EaseOK(host, guest)'
    BY DEF EaseOK, StartEases, VerifyEases, Unprepared, FinishEases, PullPcs
<1>6. EndOK(result', files') => EndOK(result, files)'
    BY DEF EndOK
<1> QED BY <1>1, <1>2, <1>3, <1>4, <1>5, <1>6 DEF QuietOK, OrderOK

LEMMA QuietKept == ASSUME QuietInv, [Next]_vars PROVE QuietInv'
<1>1. QuietNow /\ Inv
    BY InvIsNow DEF QuietInv, QuietNow
<1>2. Inv'
    BY <1>1, InvKept
<1>3. CASE Next
  <2>1. direction' = direction /\ StaysQuiet
      BY <1>1, <1>3, StepQuiet DEF Next
  <2> QED BY <1>2, <2>1, QuietNext DEF QuietInv
<1>4. CASE UNCHANGED vars
  <2>1. /\ host' = host /\ journal' = journal /\ guest' = guest /\ files' = files /\ late' = late
        /\ result' = result /\ bounds' = bounds /\ direction' = direction
      BY <1>4 DEF vars
  <2>2. OrderOK(host, journal, guest, files, late)
        /\ (Smooth(bounds, host, journal, guest, files) => EaseOK(host, guest) /\ EndOK(result, files))
      BY <1>1 DEF QuietNow, QuietOK
  <2>3. StaysQuiet
      BY <2>1, <2>2 DEF StaysQuiet, InOrder, AtEase, SmoothNext
  <2> QED BY <1>2, <2>1, <2>3, QuietNext DEF QuietInv
<1> QED BY <1>3, <1>4

LEMMA QuietInit == ASSUME Init PROVE QuietInv
<1>1. Inv
    BY InvInit
<1>2. /\ guest.made = FALSE /\ guest.error = None /\ guest.stopped = TRUE /\ guest.terminal = None
      /\ guest.job # "verify_partial"
    BY NoneIsAbsent DEF Init
<1>3. host.pc = "idle" /\ journal.begun = FALSE /\ journal.intent = None /\ late = {} /\ result = None
    BY DEF Init
<1>4. TaskOK(guest)
    BY <1>2 DEF TaskOK
<1>5. SentOK(host, journal, guest, files, late) /\ StagedOK(host, journal, files)
    BY <1>2, <1>3 DEF SentOK, StagedOK, AbortPcs
<1>6. EaseOK(host, guest)
    BY <1>3 DEF EaseOK, StartEases, VerifyEases, FinishEases, PullPcs
<1>7. EndOK(result, files)
    BY <1>3 DEF EndOK
<1> QED BY <1>1, <1>4, <1>5, <1>6, <1>7 DEF QuietInv, QuietOK, OrderOK

(* Every run of TransferCoordinator.run keeps its order, and as long as     *)
(* nothing fails no step of it meets a guest, a file or a journal that     *)
(* makes it raise: its document says complete.                             *)
THEOREM QuietInvariance == Spec => []QuietInv
<1>1. Init => QuietInv
    BY QuietInit
<1>2. QuietInv /\ [Next]_vars => QuietInv'
    BY QuietKept
<1> QED BY <1>1, <1>2, PTL DEF Spec

(* A run in which nothing fails completes the transfer, however the runs   *)
(* before it ended: TransferCoordinator.run reaches its except branch only *)
(* by a fault, a late request, a change by other users, an error or a      *)
(* running prepare the guest held at the start, an abort, a cancelled      *)
(* guest, the deadline, a leftover of the adapter, an unregistered         *)
(* temporary or stage, or an action out of attempts.                       *)
THEOREM QuietRunsComplete == Spec => []QuietRunCompletes
<1>1. ASSUME QuietInv PROVE QuietRunCompletes
  <2>1. SUFFICES ASSUME result # None, bounds.quiet, Undisturbed, ~Excused, ~bounds.inherited
                 PROVE  result.outcome = "complete"
      BY DEF QuietRunCompletes, Told
  <2>2. Smooth(bounds, host, journal, guest, files)
      BY <2>1 DEF Smooth, Excused, Undisturbed, Calm
  <2>3. EndOK(result, files)
      BY <1>1, <2>2 DEF QuietInv, QuietOK
  <2>4. files.temp # "unregistered" /\ files.stage # "unregistered"
      BY <2>1 DEF Excused
  <2> QED BY <2>1, <2>3, <2>4 DEF EndOK
<1> QED BY <1>1, QuietInvariance, PTL
=============================================================================
