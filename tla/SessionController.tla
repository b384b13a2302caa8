-------------------------- MODULE SessionController --------------------------
(***************************************************************************)
(* The observed HTTP instance: velociraptor_observation_controller.py with *)
(* its retained threads (observation_workers.py), the tracked SDK adapter  *)
(* (observation_sdk_adapter.py), the exporter (observation_export.py) and  *)
(* the lifespan of velociraptor_transport.py.                              *)
(*                                                                         *)
(* Every HTTP request is a task of one event loop: it waits, is admitted   *)
(* as a work row, begins its attempt, takes a slot, is handed to the SDK's *)
(* dispatcher and leaves.  The dispatcher runs the handler as a task of    *)
(* its own; handlers own threads and child processes; a DELETE or the end  *)
(* of the service closes a session behind a barrier and publishes its cut  *)
(* from a native thread.  An action is what runs between two awaits, or    *)
(* under one lock.                                                         *)
(*                                                                         *)
(* The bearer owner is one (a foreign owner is refused before any state).  *)
(* A request id is a pair of its number and its JSON type.  Measured       *)
(* memory is not counted: a gate over it may refuse at any time, within    *)
(* MaxFaults.  Maintenance sessions (a pull of a published cut) are left   *)
(* out.                                                                    *)
(***************************************************************************)
EXTENDS Integers, FiniteSets

CONSTANTS
    MaxRows,     \* work rows the instance ever admits
    Sessions,    \* session ids
    Kinds,       \* the kinds of request that arrive
    Ids,         \* request ids: <<number, type>>
    NoSession, NoId,
    MaxSessions, \* max_sessions
    MaxPending,  \* max_pending_work
    MaxBinary,   \* max_binary_work
    MaxWork,     \* max_sdk_work
    MaxFaults    \* failures, cancellations and memory refusals together

ASSUME BudgetAssumption ==
    /\ {MaxSessions, MaxPending, MaxBinary, MaxWork} \subseteq Nat \ {0}
    /\ {MaxRows, MaxFaults} \subseteq Nat /\ NoSession \notin Sessions

VARIABLES
    phase,    \* _startup_phase
    inst,     \* _state of the instance
    lost,     \* history: the instance was UNKNOWN once
    sess,     \* sess[s]: _sessions, its thread group and its transport
    row,      \* row[r]: the work row and where its HTTP task is
    close,    \* close[s]: the closing task and its two native threads
    pending,  \* _pending
    ledger,   \* the attempt ledger: "open", "unknown", "closed"
    drain,    \* "no", "closing", "over"
    faults

vars == <<phase, inst, lost, sess, row, close, pending, ledger, drain, faults>>

(* Rows are numbered in the order of their admission.                      *)
Rows == 1..MaxRows
NoRow == 0
NoWork == [at |-> "idle", kind |-> "none", sess |-> NoSession, id |-> NoId, re |-> NoRow,
           creating |-> FALSE, enqueued |-> FALSE, sent |-> FALSE, started |-> FALSE,
           handled |-> FALSE, cancelled |-> FALSE, ok |-> FALSE,
           journal |-> "none", claims |-> 0, owner |-> "none", thread |-> "none",
           child |-> "none", out |-> "none"]

Init ==
    /\ phase = "ACQUIRED" /\ inst = "ACTIVE" /\ lost = FALSE
    /\ sess = [s \in Sessions |-> [state |-> "none", ready |-> FALSE, frozen |-> FALSE,
                                   group |-> "known", term |-> "no", run |-> "none",
                                   error |-> FALSE]]
    /\ row = [r \in Rows |-> NoWork]
    /\ close = [s \in Sessions |-> [at |-> "no", prefix |-> "none",
                                    export |-> "none", cut |-> FALSE]]
    /\ pending = 0 /\ ledger = "open" /\ drain = "no" /\ faults = 0

-----------------------------------------------------------------------------
(* Shared pieces.                                                          *)

Admitted == {r \in Rows : row[r].kind # "none"}
Of(s) == {r \in Admitted : row[r].sess = s}
Left(r) == row[r].at = "gone"
Created == {s \in Sessions : sess[s].state # "none"}
Fault == faults < MaxFaults /\ faults' = faults + 1
Set(r, new) == row' = [row EXCEPT ![r] = new]

(* _unknown(session): the instance, and the session when there is one.     *)
Unknown(s) ==
    /\ inst' = "UNKNOWN" /\ lost' = TRUE
    /\ sess' = [x \in Sessions |-> IF x = s THEN [sess[x] EXCEPT !.state = "UNKNOWN"] ELSE sess[x]]

(* Each row, owner, thread, child and outgoing request took one number.    *)
Sequence == Cardinality(Admitted) + Cardinality({r \in Rows : row[r].owner # "none"})
          + Cardinality({r \in Rows : row[r].thread # "none"})
          + Cardinality({r \in Rows : row[r].child # "none"})
          + Cardinality({r \in Rows : row[r].out # "none"})
WorkFull == Sequence >= MaxWork

PendingRow(r) ==
    IF row[r].kind = "binary" THEN ~(row[r].handled /\ Left(r))
    ELSE ~row[r].handled /\ row[r].re = NoRow /\ (row[r].creating \/ ~row[r].enqueued)
PendingCount(answered) ==
    Cardinality({r \in Admitted : PendingRow(r)})
    + Cardinality({r \in Rows : row[r].child = "reserved"})
    + Cardinality({r \in Rows \ {answered} : row[r].out = "waiting"})
PendingFull(answered) == PendingCount(answered) >= MaxPending

GroupOpen(s) == ~sess[s].frozen /\ sess[s].group = "known"
KnownClosed(s) == ~sess[s].error /\ sess[s].run = "exited" /\ sess[s].term = "done"

(* _claim and _finish.  Only the tail of initialize asks for the outcome.  *)
Claimed(w) == IF w.journal = "none" THEN w
              ELSE [w EXCEPT !.claims = @ + 1, !.journal = "claimed"]
Finished(w, outcome) ==
    [w EXCEPT !.handled = TRUE, !.ok = w.kind = "initialize" /\ outcome = "returned",
              !.journal = IF @ = "none" THEN @ ELSE "sealed"]
(* _finish of a claimed row; a ledger that is not open loses the instance. *)
Finish(r, w, outcome) ==
    IF w.journal = "none" \/ ledger = "open"
    THEN Set(r, Finished(w, outcome)) /\ UNCHANGED <<inst, lost, sess>>
    ELSE Set(r, w) /\ Unknown(w.sess)
Settle(r) == Finish(r, Claimed([row[r] EXCEPT !.at = "leave"]), "cancelled")

-----------------------------------------------------------------------------
(* The lifespan: open_approved acquired the ledger; the application enters *)
(* and leaves; a start that fails releases what nobody uses yet.           *)

Starting ==
    /\ phase = "ACQUIRED" /\ ledger # "closed" /\ phase' = "ENTERING"
    /\ UNCHANGED <<inst, lost, sess, row, close, pending, ledger, drain, faults>>

LifespanEntered ==
    /\ phase = "ENTERING" /\ phase' = "ACTIVE"
    /\ UNCHANGED <<inst, lost, sess, row, close, pending, ledger, drain, faults>>

AbortIsSafe ==
    /\ phase \in {"ACQUIRED", "ENTERING"} /\ inst # "UNKNOWN"
    /\ Admitted = {} /\ Created = {} /\ pending = 0
    /\ \A s \in Sessions : close[s].prefix = "none"
AbortStartup ==
    /\ ledger # "closed" /\ Fault
    /\ phase \in {"ACQUIRED", "ENTERING"} \/ drain = "over"
    /\ inst' = "UNKNOWN" /\ lost' = TRUE
    /\ IF AbortIsSafe THEN phase' = "ABORTED" /\ ledger' = "closed"
       ELSE UNCHANGED <<phase, ledger>>
    /\ UNCHANGED <<sess, row, close, pending, drain>>

-----------------------------------------------------------------------------
(* Ingress.  Nothing a request does before its admission is shared; from   *)
(* its admission to its slot there is no await.                            *)

Live(s) == sess[s].state # "none" /\ sess[s].term = "no"

(* The requests that may arrive.                                           *)
Requests ==
    {[kind |-> "initialize", sess |-> NoSession, id |-> i, re |-> NoRow] : i \in Ids}
    \cup [kind : {"call", "cancel"}, sess : Created, id : Ids, re : {NoRow}]
    \cup [kind : {"initialized", "get"}, sess : Created, id : {NoId}, re : {NoRow}]
    \cup {[kind |-> "binary", sess |-> s, id |-> NoId, re |-> NoRow] :
            s \in {x \in Created : Live(x) /\ sess[x].ready}}
    \cup {[kind |-> "reply", sess |-> row[q].sess, id |-> NoId, re |-> q] :
            q \in {x \in Admitted : row[x].out = "waiting"}}
NextRow == Cardinality(Admitted) + 1
Accepting == phase = "ACTIVE" /\ drain = "no" /\ NextRow \in Rows
Arrives(m) == m.kind \in Kinds

(* _await_initialized: wait for the admitted tail of the handshake.        *)
Waits(m) ==
    /\ m.sess # NoSession /\ m.kind # "binary"
    /\ IF m.kind = "initialized"
       THEN /\ sess[m.sess].state = "PENDING"
            /\ \E q \in Of(m.sess) : row[q].kind = "initialize" /\ row[q].enqueued /\ ~Left(q)
       ELSE /\ ~sess[m.sess].ready /\ sess[m.sess].state = "OPEN"
            /\ \E q \in Of(m.sess) : row[q].kind = "initialized" /\ row[q].enqueued /\ ~row[q].handled

(* The refusals of _admit and _admit_binary, in their order.               *)
BinaryFull(m) == m.kind = "binary"
                 /\ Cardinality({q \in Admitted : row[q].kind = "binary"}) >= MaxBinary
Draining(m) == inst # "ACTIVE"
               /\ ~(inst = "DRAINING" /\ m.sess # NoSession /\ m.kind \in {"reply", "cancel"})
(* Mutant: the creations in flight are not counted.                        *)
SessionsFull_Created(m) == m.sess = NoSession /\ Cardinality(Created) >= MaxSessions
SessionsFull(m) == m.sess = NoSession
                   /\ (Cardinality(Created) + pending >= MaxSessions \/ pending >= MaxPending)
Closing(m) == /\ m.sess # NoSession
              /\ \/ sess[m.sess].state # "OPEN"
                 \/ (~sess[m.sess].ready /\ m.kind # "initialized")
Answered(m) == m.re # NoRow /\ \E q \in Admitted : row[q].re = m.re
OverBudget(m) ==
    \/ BinaryFull(m)
    \/ ~Draining(m) /\ SessionsFull(m)
    \/ ~Draining(m) /\ ~Closing(m) /\ (PendingFull(m.re) \/ WorkFull)
Refuses(m) == Draining(m) \/ Closing(m) \/ OverBudget(m)

(* _begin: an attempt for a tool call; a repeated key is rejected.         *)
Repeated(m) == \E q \in Of(m.sess) : row[q].kind = "call" /\ row[q].id = m.id /\ row[q].journal # "none"

(* _slot: a request waits for every earlier one whose id the SDK would     *)
(* confuse with its own.                                                   *)
(* Mutant: ids are compared with their JSON type.                          *)
Conflicts_Typed(m, n) == {m.kind, n.kind} \subseteq {"call", "initialize"} /\ m.id = n.id
Conflicts(m, n) == /\ {m.kind, n.kind} \subseteq {"call", "initialize"}
                   /\ m.id[1] = n.id[1]
Before(m, n) == {q \in Admitted : /\ row[q].sess = m.sess /\ q < n
                                  /\ Conflicts(m, row[q]) /\ ~(Left(q) /\ row[q].handled)}
Admission(m) == [NoWork EXCEPT !.kind = m.kind, !.sess = m.sess, !.id = m.id, !.re = m.re,
                               !.creating = m.sess = NoSession]
Answer(w) == [w EXCEPT !.at = "leave", !.handled = TRUE]
Queued(w) == IF Before(w, NextRow) = {} THEN [w EXCEPT !.at = "sdk", !.enqueued = TRUE]
             ELSE [w EXCEPT !.at = "slot"]

Admit(m) ==
      LET w == Admission(m) IN
      /\ Arrives(m) /\ m.kind \notin {"binary", "cancel"} /\ ~Answered(m) /\ ~Waits(m) /\ ~Refuses(m)
      /\ m.kind = "call" => ledger = "open"
      /\ Set(NextRow, IF m.kind # "call" THEN Queued(w)
                ELSE IF Repeated(m) THEN Answer(w)
                ELSE Queued([w EXCEPT !.journal = "open"]))
      /\ pending' = pending + IF m.sess = NoSession THEN 1 ELSE 0
      /\ UNCHANGED <<phase, inst, lost, sess, close, ledger, drain, faults>>

(* The attempt cannot be recorded: with no attempt, or with no journal.    *)
BeginFails(m) ==
    \E j \in {"none", "begun"} :
      /\ Arrives(m) /\ m.kind = "call" /\ ~Waits(m) /\ ~Refuses(m)
      /\ IF ledger = "open" THEN Fault ELSE UNCHANGED faults
      /\ Set(NextRow, [Admission(m) EXCEPT !.at = "leave", !.journal = j])
      /\ ledger' = IF ledger = "open" THEN "unknown" ELSE ledger
      /\ Unknown(m.sess) /\ UNCHANGED <<phase, close, pending, drain>>

(* notifications/cancelled: a queued target is cancelled here; one the SDK *)
(* owns is forwarded.                                                      *)
Target(m) == {q \in Of(m.sess) : /\ row[q].kind \in {"call", "initialize"}
                                 /\ row[q].id = m.id /\ ~row[q].handled}
Oldest(rows) == CHOOSE q \in rows : \A p \in rows : q <= p
AdmitCancel(m) ==
      LET w == Admission(m)
          q == Oldest(Target(m)) IN
      /\ Arrives(m) /\ m.kind = "cancel" /\ ~Waits(m) /\ ~Refuses(m)
      /\ IF Target(m) = {} THEN Set(NextRow, Answer(w))
         ELSE IF row[q].enqueued THEN Set(NextRow, Queued(w))
         ELSE row' = [row EXCEPT ![NextRow] = Answer(w), ![q].cancelled = TRUE]
      /\ UNCHANGED <<phase, inst, lost, sess, close, pending, ledger, drain, faults>>

(* A binary chunk is its own handler: it takes its owner at once, or loses *)
(* the instance when the last number went to the row itself.               *)
AdmitBinary(m) ==
      LET w == [Admission(m) EXCEPT !.enqueued = TRUE, !.started = TRUE] IN
      /\ Arrives(m) /\ m.kind = "binary" /\ ~Refuses(m)
      /\ IF Sequence + 1 >= MaxWork
         THEN Set(NextRow, [w EXCEPT !.at = "leave"]) /\ Unknown(m.sess)
         ELSE Set(NextRow, [w EXCEPT !.at = "sdk", !.owner = "live"]) /\ UNCHANGED <<inst, lost, sess>>
      /\ UNCHANGED <<phase, close, pending, ledger, drain, faults>>

(* A refusal leaves no row; a budget that is full drains the instance,     *)
(* whatever the instance was when the binary gate is the one.              *)
AdmitRefused(m) ==
      /\ Arrives(m) /\ ~Answered(m) /\ ~Waits(m) /\ OverBudget(m) /\ inst' = "DRAINING"
      /\ UNCHANGED <<phase, lost, sess, row, close, pending, ledger, drain, faults>>

(* The measured memory is over its budget.                                 *)
RetainedFull ==
    /\ phase = "ACTIVE" /\ drain = "no" /\ inst = "ACTIVE" /\ Fault /\ inst' = "DRAINING"
    /\ UNCHANGED <<phase, lost, sess, row, close, pending, ledger, drain>>

Previous(r) == Before(row[r], r)
Dropped(r) == row[r].cancelled \/ PendingCount(NoRow) > MaxPending

Slot(r) ==
    /\ row[r].at = "slot"
    /\ IF Dropped(r) THEN Settle(r)
       ELSE /\ Previous(r) = {} /\ Set(r, [row[r] EXCEPT !.at = "sdk", !.enqueued = TRUE])
            /\ UNCHANGED <<inst, lost, sess>>
    /\ UNCHANGED <<phase, close, pending, ledger, drain, faults>>

(* The client of a queued request disconnects.                             *)
Disconnect(r) ==
    /\ row[r].at = "slot" /\ ~row[r].cancelled /\ Previous(r) # {}
    /\ Set(r, [row[r] EXCEPT !.cancelled = TRUE])
    /\ UNCHANGED <<phase, inst, lost, sess, close, pending, ledger, drain, faults>>

-----------------------------------------------------------------------------
(* The SDK: the manager, the transport and the dispatcher of a session.    *)

(* initialize creates the session and starts its runner.                   *)
Create(r) ==
    /\ row[r].at = "sdk" /\ row[r].kind = "initialize" /\ row[r].sess = NoSession
    /\ \E s \in Sessions \ Created :
         /\ sess' = [sess EXCEPT ![s].state = "PENDING", ![s].run = "live"]
         /\ Set(r, [row[r] EXCEPT !.sess = s, !.creating = FALSE])
    /\ pending' = pending - 1
    /\ UNCHANGED <<phase, inst, lost, close, ledger, drain, faults>>

(* A terminated transport refuses the message, or its closed stream raises.*)
SendRefused(r) ==
    /\ row[r].at = "sdk" /\ row[r].kind \notin {"get", "binary"} /\ row[r].sess # NoSession
    /\ sess[row[r].sess].term # "no"
    /\ Set(r, [row[r] EXCEPT !.at = "leave"])
    /\ \/ UNCHANGED <<inst, lost, sess>>
       \/ /\ inst' = "UNKNOWN" /\ lost' = TRUE
          /\ sess' = [sess EXCEPT ![row[r].sess].state = "UNKNOWN", ![row[r].sess].error = TRUE]
    /\ UNCHANGED <<phase, close, pending, ledger, drain, faults>>

(* The read stream takes the message: from here the HTTP task and the      *)
(* handler go on by themselves (a notification's task just returns).       *)
Send(r) ==
    LET s == row[r].sess IN
    /\ row[r].at = "sdk" /\ row[r].kind \notin {"get", "binary"} /\ s # NoSession
    /\ sess[s].run = "live" /\ sess[s].term = "no"
    /\ Set(r, [row[r] EXCEPT !.at = "reply", !.sent = TRUE])
    /\ UNCHANGED <<phase, inst, lost, sess, close, pending, ledger, drain, faults>>
Unstarted(r) == row[r].sent /\ ~row[r].started

(* _dispatch of a handed-over row, wherever its HTTP task is by now: the   *)
(* journal is claimed, then the thread group admits an owner, or refuses   *)
(* and the handler ends as raised.                                         *)
Dispatch(r) ==
    LET s == row[r].sess
        new == Claimed([row[r] EXCEPT !.started = TRUE])
    IN
    /\ Unstarted(r) /\ ~row[r].handled /\ row[r].kind # "reply" /\ sess[s].run = "live"
    /\ IF GroupOpen(s) /\ inst # "UNKNOWN" /\ ~WorkFull
       THEN Set(r, [new EXCEPT !.owner = "live"]) /\ UNCHANGED <<inst, lost, sess>>
       ELSE IF GroupOpen(s) /\ inst # "UNKNOWN" /\ ledger = "open"
       THEN Set(r, Finished(new, "raised")) /\ inst' = "DRAINING" /\ UNCHANGED <<lost, sess>>
       ELSE Finish(r, new, "raised")
    /\ UNCHANGED <<phase, close, pending, ledger, drain, faults>>

(* A reply reaches the outgoing request it answers, if that still waits.   *)
ConsumeResponse(r) ==
    LET q == row[r].re IN
    /\ Unstarted(r) /\ row[r].kind = "reply" /\ sess[row[r].sess].run = "live"
    /\ row' = [row EXCEPT ![r].started = TRUE, ![r].handled = TRUE,
                 ![q].out = "over"]
    /\ UNCHANGED <<phase, inst, lost, sess, close, pending, ledger, drain, faults>>

(* _owned_to_thread: the thread is registered to a live owner, runs, and   *)
(* is joined by the task that started it, cancelled or not.                *)
Busy(r) == row[r].thread = "running"
StartThread(r) ==
    /\ row[r].owner = "live" /\ ~row[r].handled /\ row[r].thread = "none"
    /\ row[r].kind \in {"call", "binary"}
    /\ sess[row[r].sess].group = "known" /\ inst # "UNKNOWN"
    /\ IF WorkFull THEN inst' = "DRAINING" /\ UNCHANGED row
       ELSE Set(r, [row[r] EXCEPT !.thread = "running"]) /\ UNCHANGED inst
    /\ UNCHANGED <<phase, lost, sess, close, pending, ledger, drain, faults>>

ThreadJoined(r) ==
    /\ row[r].thread = "running" /\ row[r].child # "reserved"
    /\ Set(r, [row[r] EXCEPT !.thread = "joined"])
    /\ \/ UNCHANGED <<sess, faults>>
       \/ Fault /\ sess' = [sess EXCEPT ![row[r].sess].group = "unknown", ![row[r].sess].frozen = TRUE]
    /\ UNCHANGED <<phase, inst, lost, close, pending, ledger, drain>>

(* _reserve_transfer: a child of a live owner.  The pending gate drains    *)
(* the instance before anybody asks whether it is UNKNOWN.                 *)
ReserveChild(r) ==
    /\ row[r].thread = "running" /\ row[r].kind = "call" /\ row[r].child = "none"
    /\ IF PendingFull(NoRow) \/ (inst # "UNKNOWN" /\ WorkFull)
       THEN inst' = "DRAINING" /\ UNCHANGED row
       ELSE inst # "UNKNOWN" /\ Set(r, [row[r] EXCEPT !.child = "reserved"]) /\ UNCHANGED inst
    /\ UNCHANGED <<phase, lost, sess, close, pending, ledger, drain, faults>>

Spawn(r) ==
    /\ row[r].thread = "running" /\ row[r].child = "reserved"
    /\ \E c \in {"live", "nospawn"} : Set(r, [row[r] EXCEPT !.child = c])
    /\ UNCHANGED <<phase, inst, lost, sess, close, pending, ledger, drain, faults>>

(* _issued_request: the handler asks the client something and waits.       *)
Ask(r) ==
    /\ row[r].owner = "live" /\ row[r].kind = "call" /\ ~row[r].handled /\ row[r].out = "none"
    /\ "reply" \in Kinds
    /\ IF PendingFull(NoRow) \/ (inst # "UNKNOWN" /\ WorkFull)
       THEN inst' = "DRAINING" /\ UNCHANGED row
       ELSE inst # "UNKNOWN" /\ Set(r, [row[r] EXCEPT !.out = "waiting"]) /\ UNCHANGED inst
    /\ UNCHANGED <<phase, lost, sess, close, pending, ledger, drain, faults>>

(* The handler ends: its threads are joined, its owner ended, its journal  *)
(* sealed.  A handler is cancelled when its client or its session is.      *)
BusinessEnds(r) ==
    LET s == row[r].sess IN
    /\ row[r].owner = "live" /\ row[r].kind # "binary" /\ ~row[r].handled /\ ~Busy(r)
    /\ ledger # "open" => row[r].journal = "none"
    /\ \E o \in {"returned", "raised"} :
         /\ o = "returned" => row[r].out # "waiting"
         /\ Set(r, [Finished(row[r], o) EXCEPT !.owner = "ended",
                     !.out = IF @ = "waiting" THEN "over" ELSE @])
         /\ sess' = IF row[r].kind = "initialized" /\ o = "returned"
                    THEN [sess EXCEPT ![s].ready = TRUE] ELSE sess
    /\ UNCHANGED <<phase, inst, lost, close, pending, ledger, drain, faults>>

(* The seal or the attempt's end cannot be recorded.                       *)
BusinessFails(r) ==
    /\ row[r].owner = "live" /\ row[r].journal = "claimed" /\ ~row[r].handled /\ ~Busy(r)
    /\ IF ledger = "open" THEN Fault ELSE UNCHANGED faults
    /\ Set(r, [row[r] EXCEPT !.owner = "ended", !.out = IF @ = "waiting" THEN "over" ELSE @])
    /\ ledger' = IF ledger = "open" THEN "unknown" ELSE ledger
    /\ Unknown(row[r].sess) /\ UNCHANGED <<phase, close, pending, drain>>

BinaryEnds(r) ==
    /\ row[r].at = "sdk" /\ row[r].kind = "binary" /\ ~Busy(r)
    /\ Set(r, Answer(row[r]))
    /\ UNCHANGED <<phase, inst, lost, sess, close, pending, ledger, drain, faults>>

(* A stream, the router or the runner of the session fails.                *)
SdkFault(s) ==
    /\ s \in Created /\ sess[s].run = "live" /\ ~sess[s].error /\ Fault
    /\ inst' = "UNKNOWN" /\ lost' = TRUE
    /\ sess' = [sess EXCEPT ![s].state = "UNKNOWN", ![s].error = TRUE]
    /\ UNCHANGED <<phase, row, close, pending, ledger, drain>>

-----------------------------------------------------------------------------
(* The HTTP task after the SDK took the row.                               *)

(* The response ends with the handler's answer, with the session, or with  *)
(* its client, whatever the handler still does.                            *)
HttpReturns(r) ==
    LET s == row[r].sess IN
    /\ row[r].at = "reply"
    /\ Set(r, [row[r] EXCEPT !.at = IF row[r].kind = "initialize" THEN "tail" ELSE "leave"])
    /\ sess' = IF row[r].kind = "initialized" /\ row[r].handled
               THEN [sess EXCEPT ![s].ready = TRUE] ELSE sess
    /\ UNCHANGED <<phase, inst, lost, close, pending, ledger, drain, faults>>

(* The event stream of a GET ends.                                         *)
StreamEnds(r) ==
    /\ row[r].at = "sdk" /\ row[r].kind = "get"
    /\ Set(r, [Finished(row[r], "returned") EXCEPT !.at = "leave"])
    /\ UNCHANGED <<phase, inst, lost, sess, close, pending, ledger, drain, faults>>

(* The tail of initialize waits for its handler and opens the session.     *)
Tail(r) ==
    /\ row[r].at = "tail" /\ row[r].handled
    /\ Set(r, [row[r] EXCEPT !.at = "leave"])
    /\ IF row[r].ok
       THEN sess' = [sess EXCEPT ![row[r].sess].state = "OPEN"] /\ UNCHANGED <<inst, lost>>
       ELSE Unknown(row[r].sess)
    /\ UNCHANGED <<phase, close, pending, ledger, drain, faults>>

TailTimesOut(r) ==
    /\ row[r].at = "tail" /\ ~row[r].handled
    /\ Set(r, [row[r] EXCEPT !.at = "leave"]) /\ Unknown(row[r].sess)
    /\ UNCHANGED <<phase, close, pending, ledger, drain, faults>>

(* The HTTP task is cancelled: what the SDK owns is left to it, a journal  *)
(* nobody else can have is settled here.                                   *)
HttpCancelled(r) ==
    /\ row[r].at \in {"slot", "sdk", "reply", "tail"} /\ Fault
    /\ row[r].kind = "binary" => ~Busy(r)
    /\ IF row[r].enqueued /\ ~row[r].handled
       THEN Set(r, [row[r] EXCEPT !.at = "leave"]) /\ Unknown(row[r].sess)
       ELSE IF row[r].journal = "open" /\ ~row[r].enqueued THEN Settle(r)
       ELSE Set(r, [row[r] EXCEPT !.at = "leave"]) /\ UNCHANGED <<inst, lost, sess>>
    /\ UNCHANGED <<phase, close, pending, ledger, drain>>

(* The finally of the ingress.                                             *)
(* Mutant: a row that was handed over and did not start yet is settled.    *)
Unclaimed_Enqueued(w) == ~w.started /\ ~w.handled
Unclaimed(w) == ~w.enqueued /\ ~w.started /\ ~w.handled
LeaveWith(w) ==
    IF Unclaimed(w) /\ w.journal \notin {"none", "begun"} /\ ledger # "unknown" THEN Finished(Claimed(w), "cancelled")
    ELSE IF Unclaimed(w) /\ w.journal = "none" THEN Finished(w, "not_dispatched")
    ELSE w
Leave(r) ==
    LET w == LeaveWith(row[r]) IN
    /\ row[r].at = "leave"
    /\ Set(r, [w EXCEPT !.at = "gone", !.creating = FALSE,
                 !.owner = IF w.kind = "binary" /\ @ = "live" THEN "ended" ELSE @,
                 !.handled = @ \/ w.creating \/ w.kind \in {"get", "binary"}])
    /\ pending' = pending - IF w.creating THEN 1 ELSE 0
    /\ IF w.creating \/ (w.kind = "get" /\ ~w.handled) THEN Unknown(w.sess) ELSE UNCHANGED <<inst, lost, sess>>
    /\ UNCHANGED <<phase, close, ledger, drain, faults>>

-----------------------------------------------------------------------------
(* Closing a session, by DELETE or by the drain.                           *)

Resting == \A s \in Sessions : close[s].at \in {"no", "done"}

CloseSession(s) ==
    /\ phase = "ACTIVE" /\ sess[s].state = "OPEN" /\ inst # "UNKNOWN"
    /\ drain = "no" \/ (drain = "closing" /\ Resting)
    /\ sess' = [sess EXCEPT ![s].state = "CLOSING", ![s].frozen = TRUE]
    /\ row' = [r \in Rows |-> IF r \in Of(s) /\ ~row[r].enqueued
                              THEN [row[r] EXCEPT !.cancelled = TRUE] ELSE row[r]]
    /\ close' = [close EXCEPT ![s].at = "barrier"]
    /\ UNCHANGED <<phase, inst, lost, pending, ledger, drain, faults>>

Terminate(s) ==
    /\ close[s].at # "no" /\ sess[s].term = "no"
    /\ sess' = [sess EXCEPT ![s].term = "done"]
    /\ UNCHANGED <<phase, inst, lost, row, close, pending, ledger, drain, faults>>

(* The read stream ended: the dispatcher joins its handlers, the           *)
(* connection closes, the runner exits.                                    *)
RunnerExits(s) ==
    /\ sess[s].term = "done" /\ sess[s].run = "live"
    /\ \A r \in Of(s) : row[r].owner = "live" => row[r].kind = "binary"
    /\ sess' = [sess EXCEPT ![s].run = "exited"]
    /\ UNCHANGED <<phase, inst, lost, row, close, pending, ledger, drain, faults>>

(* _poll finds that a child exited: its report and its root lease prove the   *)
(* cleanup, or the session is lost.                                        *)
PollChild(r) ==
    /\ row[r].child = "live" /\ close[row[r].sess].at = "barrier"
    /\ \/ Set(r, [row[r] EXCEPT !.child = "closed"]) /\ UNCHANGED <<inst, lost, sess, faults>>
       \/ Fault /\ Set(r, [row[r] EXCEPT !.child = "faulted"]) /\ Unknown(row[r].sess)
    /\ UNCHANGED <<phase, close, pending, ledger, drain>>

ChildrenClosed(s) == \A r \in Of(s) : row[r].child \in {"none", "nospawn", "closed"}
Quiescent(s) == sess[s].group = "known" /\ \A r \in Of(s) : row[r].owner # "live" /\ ~Busy(r)
RowsDone(s) == \A r \in Of(s) : row[r].handled /\ Left(r)

Barrier(s) ==
    /\ close[s].at = "barrier" /\ sess[s].state # "UNKNOWN"
    /\ RowsDone(s) /\ ChildrenClosed(s) /\ KnownClosed(s) /\ Quiescent(s)
    /\ close' = [close EXCEPT ![s].at = "prefix", ![s].prefix = "running"]
    /\ UNCHANGED <<phase, inst, lost, sess, row, pending, ledger, drain, faults>>

(* The deadline passed, or the session or its transport is lost.           *)
BarrierFails(s) ==
    /\ close[s].at = "barrier"
    /\ sess' = [sess EXCEPT ![s].state = "UNKNOWN"]
    /\ inst' = IF inst = "UNKNOWN" THEN inst ELSE "DRAINING"
    /\ close' = [close EXCEPT ![s].at = "done"]
    /\ UNCHANGED <<phase, lost, row, pending, ledger, drain, faults>>

(* The native thread that reserves the export and reads the prefix.        *)
Collect(s) ==
    /\ close[s].prefix = "running"
    /\ \/ /\ ledger = "open" /\ close' = [close EXCEPT ![s].prefix = "ok"]
          /\ UNCHANGED <<ledger, faults>>
       \/ /\ IF ledger = "open" THEN Fault ELSE UNCHANGED faults
          /\ close' = [close EXCEPT ![s].prefix = "failed"] /\ ledger' = "unknown"
    /\ UNCHANGED <<phase, inst, lost, sess, row, pending, drain>>

(* _lifecycle: the proof of the close; a child that was never started is   *)
(* not one it can describe.                                                *)
(* Mutant: the proof of the close does not look at the children.           *)
Lifecycle_Childless(s) == KnownClosed(s) /\ Quiescent(s) /\ RowsDone(s)
Lifecycle(s) == KnownClosed(s) /\ Quiescent(s) /\ RowsDone(s)
                /\ \A r \in Of(s) : row[r].child \in {"none", "closed"}

PrefixJoined(s) ==
    /\ close[s].at = "prefix" /\ close[s].prefix = "ok"
    /\ inst # "UNKNOWN" /\ ledger = "open" /\ Lifecycle(s)
    /\ close' = [close EXCEPT ![s].at = "export", ![s].export = "start"]
    /\ UNCHANGED <<phase, inst, lost, sess, row, pending, ledger, drain, faults>>

(* retain: late native work may not go on after UNKNOWN or the deadline.   *)
Retain == inst # "UNKNOWN" /\ ledger = "open"

(* publish: the documents, then the files and their readback, then the     *)
(* receipt.  A failure after the first write poisons the ledger.           *)
PublishStart(s) ==
    /\ close[s].export = "start"
    /\ close' = [close EXCEPT ![s].export = IF Retain THEN "writing" ELSE "failed"]
    /\ UNCHANGED <<phase, inst, lost, sess, row, pending, ledger, drain, faults>>
PublishCheck(s) ==
    /\ close[s].export = "writing" /\ Retain
    /\ close' = [close EXCEPT ![s].export = "checked"]
    /\ UNCHANGED <<phase, inst, lost, sess, row, pending, ledger, drain, faults>>
PublishFails(s) ==
    /\ close[s].export = "writing"
    /\ close' = [close EXCEPT ![s].export = "failed"] /\ ledger' = "unknown"
    /\ UNCHANGED <<phase, inst, lost, sess, row, pending, drain, faults>>
PublishIssue(s) ==
    /\ close[s].export = "checked"
    /\ close' = [close EXCEPT ![s].export = "issued"]
    /\ UNCHANGED <<phase, inst, lost, sess, row, pending, ledger, drain, faults>>

Closed(s) ==
    /\ close[s].at = "export" /\ close[s].export = "issued" /\ Retain
    /\ close' = [close EXCEPT ![s].at = "done", ![s].cut = TRUE]
    /\ sess' = [sess EXCEPT ![s].state = "CLOSED"]
    /\ UNCHANGED <<phase, inst, lost, row, pending, ledger, drain, faults>>

(* A thread that failed, a deadline, or an instance lost meanwhile.  The   *)
(* thread, if it still runs, stays owned.                                  *)
CloseFails(s) ==
    /\ close[s].at \in {"prefix", "export"}
    /\ Unknown(s) /\ close' = [close EXCEPT ![s].at = "done"]
    /\ UNCHANGED <<phase, row, pending, ledger, drain, faults>>

-----------------------------------------------------------------------------
(* The end of the service.  The server lets every HTTP task end first.     *)

DrainStart ==
    /\ phase = "ACTIVE" /\ drain = "no" /\ Resting
    /\ \A r \in Rows : row[r].at \in {"idle", "gone"}
    /\ IF inst = "UNKNOWN" THEN drain' = "over" /\ UNCHANGED inst
       ELSE drain' = "closing" /\ inst' = "DRAINING"
    /\ UNCHANGED <<phase, lost, sess, row, close, pending, ledger, faults>>

DrainFails ==
    /\ drain = "closing" /\ Resting
    /\ inst = "UNKNOWN" \/ \E s \in Created : sess[s].state \notin {"OPEN", "CLOSED"}
    /\ drain' = "over" /\ Unknown(NoSession)
    /\ UNCHANGED <<phase, row, close, pending, ledger, faults>>

DrainLedger ==
    /\ drain = "closing" /\ \A s \in Created : sess[s].state = "CLOSED"
    /\ drain' = "over"
    /\ \/ ledger = "open" /\ ledger' = "closed" /\ inst' = "CLOSED" /\ UNCHANGED <<lost, sess, faults>>
       \/ Fault /\ ledger' = "unknown" /\ Unknown(NoSession)
    /\ UNCHANGED <<phase, row, close, pending>>

LifespanExited ==
    /\ drain = "over" /\ phase = "ACTIVE" /\ phase' = "EXITED"
    /\ UNCHANGED <<inst, lost, sess, row, close, pending, ledger, drain, faults>>

-----------------------------------------------------------------------------
Arrival(m) == Admit(m) \/ AdmitCancel(m) \/ AdmitBinary(m) \/ AdmitRefused(m) \/ BeginFails(m)
Ingress(r) == Slot(r) \/ Disconnect(r) \/ HttpReturns(r) \/ StreamEnds(r) \/ Tail(r)
    \/ TailTimesOut(r) \/ HttpCancelled(r) \/ Leave(r)
Handler(r) == Create(r) \/ SendRefused(r) \/ Send(r) \/ Dispatch(r) \/ ConsumeResponse(r) \/ StartThread(r)
    \/ ThreadJoined(r) \/ ReserveChild(r) \/ Spawn(r) \/ PollChild(r)
    \/ Ask(r) \/ BusinessEnds(r) \/ BusinessFails(r) \/ BinaryEnds(r)
Shut(s) == CloseSession(s) \/ Terminate(s) \/ RunnerExits(s) \/ Barrier(s) \/ BarrierFails(s)
    \/ Collect(s) \/ PrefixJoined(s) \/ PublishStart(s) \/ PublishCheck(s)
    \/ PublishFails(s) \/ PublishIssue(s) \/ Closed(s) \/ CloseFails(s) \/ SdkFault(s)
Service == RetainedFull \/ Starting \/ LifespanEntered \/ AbortStartup \/ DrainStart \/ DrainFails
    \/ DrainLedger \/ LifespanExited

Next ==
    \/ Accepting /\ \E m \in Requests : Arrival(m)
    \/ \E r \in Rows : Ingress(r) \/ Handler(r)
    \/ \E s \in Sessions : Shut(s)
    \/ Service
Spec == Init /\ [][Next]_vars

-----------------------------------------------------------------------------
(* Properties.                                                             *)

(* A session is CLOSED only when nothing of it can act any more: every     *)
(* request has left and its handler ended, journals are sealed, threads    *)
(* joined, children reaped with their proof, the SDK's runner gone and the *)
(* receipt issued.  It stays so.                                           *)
ClosedIsQuiescent ==
    \A s \in Sessions : sess[s].state = "CLOSED" =>
      /\ close[s].export = "issued" /\ sess[s].run = "exited"
      /\ \A r \in Of(s) : /\ Left(r) /\ row[r].handled /\ row[r].owner # "live" /\ ~Busy(r)
                           /\ row[r].child \in {"none", "closed"} /\ row[r].out # "waiting"
                           /\ row[r].journal \in {"none", "sealed"}

(* The HTTP task and the SDK's handler never both claim a request's        *)
(* journal, whichever of cancellation, close and hand-over comes first;    *)
(* and however its HTTP task left, the handler of a message the SDK has    *)
(* finds the row unclaimed and unfinished when it starts.                  *)
ClaimedOnce ==
    \A r \in Rows : /\ row[r].claims <= 1
                    /\ Unstarted(r) => row[r].claims = 0 /\ ~row[r].handled

(* Of two requests of a session whose ids the SDK's stream table would     *)
(* confuse, the second is handed over only when the first is gone.         *)
IdsAreExclusive ==
    \A r, q \in Admitted :
        /\ r # q /\ row[r].sess = row[q].sess
        /\ {row[r].kind, row[q].kind} \subseteq {"call", "initialize"} /\ row[r].id[1] = row[q].id[1]
        /\ row[r].enqueued /\ row[q].enqueued
        => \E x \in {r, q} : Left(x) /\ row[x].handled

(* The creations in flight are counted exactly, so that sessions and       *)
(* creations together stay within max_sessions.                            *)
SessionsAreBounded ==
    /\ pending = Cardinality({r \in Admitted : row[r].creating})
    /\ Cardinality(Created) + pending <= MaxSessions

(* "It must not begin a successful native publication after UNKNOWN": once *)
(* the instance was UNKNOWN no export starts writing.                      *)
NoPublicationAfterUnknown ==
    [][lost => \A s \in Sessions : close'[s].export = "writing" => close[s].export = "writing"]_vars
=============================================================================
