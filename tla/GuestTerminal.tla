--------------------------- MODULE GuestTerminal ---------------------------
(***************************************************************************)
(* One guest task's durable action ledger, as guest_service.py drives it:  *)
(* every request restores the ledger from disk, applies one method of      *)
(* GuestTerminal and saves the snapshot before it answers.  Requests are   *)
(* arbitrary (any action, any receipts, repeated, with foreign or stale    *)
(* receipts); answers may be lost; worker completions carry any operation  *)
(* id.  `told` remembers what some answer has disclosed to the host.       *)
(***************************************************************************)
EXTENDS TerminalRules

VARIABLES
    terminal,  \* the snapshot on disk
    told       \* history: operations and receipts disclosed to the host

vars == <<terminal, told>>

(* What an answer discloses: operation identities, and receipts by kind.   *)
Disclosures ==
    [kind : {"operation"}, action : Actions, id : Ids, inputs : Inputs]
      \cup [kind : {"prepare"}, receipt : PrepareReceipts]
      \cup [kind : {"publication"}, receipt : PublicationReceipts]

TypeOK == /\ terminal \in Snapshots
          /\ told \subseteq Disclosures

Init == /\ terminal = FreshTerminal
        /\ told = {}

(* uuid4 never returns an identifier that is already in the snapshot.      *)
UsedIds ==
    {terminal.ops[a].id : a \in Actions}
      \cup (IF terminal.prepare = None THEN {} ELSE {terminal.prepare.id})
      \cup (IF terminal.publication = None THEN {} ELSE {terminal.publication.id})

OperationView(t, a) == [kind |-> "operation", action |-> a, id |-> t.ops[a].id,
                        inputs |-> t.ops[a].inputs]

(* What _public(state) shows of a ledger.                                  *)
Shown(t) ==
    {OperationView(t, a) : a \in {b \in Actions : t.ops[b].status # "NONE"}}
      \cup (IF t.prepare = None THEN {}
            ELSE {[kind |-> "prepare", receipt |-> t.prepare]})
      \cup (IF t.publication = None THEN {}
            ELSE {[kind |-> "publication", receipt |-> t.publication]})

(* transfer_finish: begin or replay an action, save, then answer with the  *)
(* operation.  The answer may be lost.                                     *)
TransferFinish(action, in) ==
    LET t == Restore(terminal) IN
    /\ t # None
    /\ \/ /\ BeginReplays(t, action, in)
          /\ UNCHANGED terminal
          /\ told' \in {told, told \cup {OperationView(t, action)}}
       \/ /\ BeginStarts(t, action, in)
          /\ \E id \in Ids \ UsedIds :
                /\ terminal' = Begun(t, action, in, id)
                /\ told' \in {told, told \cup {OperationView(terminal', action)}}

(* transfer_status: restore, then show the ledger.                         *)
TransferStatus ==
    /\ Restore(terminal) # None
    /\ told' = told \cup Shown(terminal)
    /\ UNCHANGED terminal

(* Worker completions: restore the saved ledger, apply, save.              *)
PersistPrepare(id, receiptId) ==
    LET t == Restore(terminal)
        r == [binding |-> "K", id |-> receiptId] IN
    /\ t # None
    /\ PrepareCompletes(t, id, r)
    /\ receiptId \notin UsedIds
    /\ terminal' = PrepareDone(t, r)
    /\ UNCHANGED told

PersistCommit(id, receiptId) ==
    LET t == Restore(terminal)
        r == [binding |-> "K", prepare |-> t.prepare, id |-> receiptId] IN
    /\ t # None
    /\ CommitCompletes(t, id, r)
    /\ receiptId \notin UsedIds
    /\ terminal' = CommitDone(t, r)
    /\ UNCHANGED told

PersistAuthorization(id) ==
    LET t == Restore(terminal) IN
    /\ t # None
    /\ Pending(t, "release", id)
    /\ terminal' = ReleaseAuthorized(t)
    /\ UNCHANGED told

FinalizeRelease(id) ==
    LET t == Restore(terminal) IN
    /\ t # None
    /\ ReleaseCompletes(t, id)
    /\ terminal' = ReleaseDone(t)
    /\ UNCHANGED told

RecordFailure(action, id, code) ==
    LET t == Restore(terminal) IN
    /\ t # None
    /\ ActionFails(t, action, id)
    /\ terminal' = ActionFailed(t, action, code)
    /\ UNCHANGED told

Next ==
    \/ \E a \in Actions : \E in \in ActionInputs(a) : TransferFinish(a, in)
    \/ TransferStatus
    \/ \E id, receiptId \in Ids : PersistPrepare(id, receiptId)
    \/ \E id, receiptId \in Ids : PersistCommit(id, receiptId)
    \/ \E id \in Ids : PersistAuthorization(id)
    \/ \E id \in Ids : FinalizeRelease(id)
    \/ \E a \in Actions, id \in Ids, code \in Codes : RecordFailure(a, id, code)

Spec == Init /\ [][Next]_vars

-----------------------------------------------------------------------------
(* Every ledger the engine can save replays to itself: the strict equality *)
(* test at the end of GuestTerminal.restore never rejects a snapshot the   *)
(* engine wrote, so no sequence of requests, failures and completions can  *)
(* leave a task that status, finish and the host refuse to read.           *)
RestoreAccepts == Restore(terminal) = terminal

(* What an answer has disclosed stays true: operation ids, their inputs    *)
(* and receipts are never regenerated after a lost response (the rule the  *)
(* host's _ingest relies on to detect a conflicting guest).                *)
DisclosuresHold == told \subseteq Shown(terminal)

(* The receipt chain behind a release: it names the stored prepare receipt *)
(* and a publication chained to it, and for a push exactly the receipt the *)
(* completed commit stored (_inputs and complete_commit together).         *)
ReleaseChain ==
    terminal.ops["release"].status # "NONE" =>
        LET in == terminal.ops["release"].inputs IN
        /\ terminal.ops["prepare"].status = "DONE"
        /\ in.prepare = terminal.ops["prepare"].result.prepare
        /\ in.publication.prepare = in.prepare
        /\ Direction = "push" =>
              /\ terminal.ops["commit"].status = "DONE"
              /\ in.publication = terminal.ops["commit"].result.publication

(* At most one action is ever in progress, and the phase is the one the    *)
(* furthest action implies: the fields _public reports never contradict    *)
(* the ledger.                                                             *)
PhaseMatchesLedger ==
    /\ \A a, b \in Actions :
          terminal.ops[a].status = "IN_PROGRESS" /\ terminal.ops[b].status = "IN_PROGRESS" => a = b
    /\ terminal.phase = "RELEASED" <=> terminal.ops["release"].status = "DONE"
    /\ terminal.phase = "RELEASING" <=>
          terminal.authorized # None /\ terminal.ops["release"].status = "IN_PROGRESS"
    /\ terminal.phase \in {"FAILED", "CHANGED"} <=>
          \E a \in Actions : terminal.ops[a].status = "FAILED"

(* Accepted work is never taken back: a finished operation, a stored       *)
(* receipt and a release authorization survive every later step.           *)
Kept(t, u) ==
    /\ \A a \in Actions : t.ops[a].status \in {"DONE", "FAILED"} => u.ops[a] = t.ops[a]
    /\ t.prepare # None => u.prepare = t.prepare
    /\ t.publication # None => u.publication = t.publication
    /\ t.authorized # None => /\ u.authorized = t.authorized
                              /\ u.phase \in {"RELEASING", "RELEASED"}

Irrevocable == [][Kept(terminal, terminal')]_vars
=============================================================================
