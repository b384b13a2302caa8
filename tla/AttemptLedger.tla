---------------------------- MODULE AttemptLedger ----------------------------
(***************************************************************************)
(* The attempt ledger of one service instance                              *)
(* (velociraptor_observation_attempts.py), its catalog                     *)
(* (velociraptor_observation_catalog.py) and the journals of its requests, *)
(* driven as the session controller drives them                            *)
(* (velociraptor_observation_controller.py).  Each request is a thread:    *)
(* begin and accept, then business that emits events, then seal, close and *)
(* finish.  Session closes read a prefix of the catalog; close ends it.    *)
(* A publication that fails may or may not have left its file; it makes    *)
(* the ledger unknown for good.                                            *)
(***************************************************************************)
EXTENDS RequestJournal

CONSTANTS
    Keys,               \* request keys
    Sessions, Session,  \* Session[k]: the session of key k
    KeyBytes,           \* KeyBytes[k]: size of key k's canonical form
    Outcomes,           \* of a request: returned, raised, cancelled
    MaxAttempts, MaxActive, MaxCatalogRecords, MaxCatalogRecordBytes,
    MaxKeyBytes, MaxSeenKeyBytes, MaxArchiveBytes,
    MaxExportFiles,     \* files one prefix may hold
    MaxFaults           \* bound: failures in one behaviour

(* _budgets: the reserves without which a configuration is refused.        *)
ASSUME LedgerBudgets ==
    /\ {MaxAttempts, MaxActive, MaxCatalogRecords, MaxCatalogRecordBytes,
        MaxKeyBytes, MaxSeenKeyBytes, MaxArchiveBytes} \subseteq Nat \ {0}
    /\ MaxActive <= MaxAttempts
    /\ 3 * MaxAttempts + 2 <= MaxCatalogRecords
    /\ MaxSeenKeyBytes >= MaxAttempts * MaxKeyBytes
    /\ MaxArchiveBytes >= (3 * MaxAttempts + 2) * MaxCatalogRecordBytes + MaxAttempts * MaxTotalBytes
                          + MaxActive * MaxRecordBytes + MaxCatalogRecordBytes

(* _precheck_loaded asks for even more.                                    *)
ASSUME ExportBudget ==
    MaxExportFiles \in Nat /\ MaxExportFiles >= 3 * MaxAttempts + 2 + MaxAttempts * MaxRecords

(* None stands for a free lock, too.                                       *)
ASSUME NoneIsNoLock == None \notin Nat

(* begin refuses a longer key before anything else ('key_budget').         *)
ASSUME KeysFit ==
    /\ Session \in [Keys -> Sessions]
    /\ KeyBytes \in [Keys -> 1..MaxKeyBytes]
    /\ MaxFaults \in Nat

VARIABLES
    catalog,    \* the catalog's files, in order
    count,      \* _catalog_count: those whose publication was confirmed
    att,        \* _attempts, by sequence: [key, reason, state, active, pc, outcome]
    jn,         \* jn[a]: the request's journal, None before it is built
    chain,      \* chain[a]: the files in the request's directory
    seenBytes,  \* _seen_bytes
    active,     \* _active
    reserve,    \* _request_reserve
    accepted, rejected,
    unknown,    \* _unknown
    life,       \* "open", "closing" (_closing), "published", "closed" (_closed)
    lock,       \* holder of the catalog lock: None, an attempt or Closer
    cut,        \* cut[s]: the session's close: [state, count]
    faults

budgets == <<seenBytes, active, reserve>>
tallies == <<accepted, rejected>>
vars == <<catalog, count, att, jn, chain, budgets, tallies, unknown, life, lock, cut, faults>>

Attempts == 1..MaxAttempts
Begun == DOMAIN att
Closer == 0     \* close, as the holder of the lock

(* A row behind the confirmed head; fields a row type lacks are None.      *)
Row(type, a, reason, disposition, outcome, n, bytes) ==
    [type |-> type, seq |-> count, prev |-> count, attempt |-> a,
     key |-> IF a \in Begun THEN att[a].key ELSE None,
     reason |-> reason, disposition |-> disposition, outcome |-> outcome,
     records |-> n, bytes |-> bytes, accepted |-> accepted, rejected |-> rejected]

Init ==
    /\ catalog = <<[type |-> "INSTANCE_BEGIN", seq |-> 0, prev |-> 0, attempt |-> None, key |-> None,
                    reason |-> None, disposition |-> None, outcome |-> None, records |-> 0,
                    bytes |-> 0, accepted |-> 0, rejected |-> 0]>>
    /\ count = 1
    /\ att = <<>>
    /\ jn = [a \in Attempts |-> None]
    /\ chain = [a \in Attempts |-> <<>>]
    /\ seenBytes = 0 /\ active = 0 /\ reserve = 0
    /\ accepted = 0 /\ rejected = 0
    /\ unknown = FALSE /\ life = "open" /\ lock = None
    /\ cut = [s \in Sessions |-> [state |-> "open", count |-> 0]]
    /\ faults = 0

LedgerAvailable == life = "open" /\ ~unknown

(* A native call fails, or what the controller may still retain is too     *)
(* small for a prefix.                                                     *)
Fault == faults < MaxFaults /\ faults' = faults + 1

Quiet == faults' = faults

At(a, pc) == a \in Begun /\ att[a].pc = pc

Becomes(a, pc, state, slot, outcome) ==
    att' = [att EXCEPT ![a] = [key |-> att[a].key, reason |-> att[a].reason, state |-> state,
                               active |-> slot, pc |-> pc, outcome |-> outcome]]

Move(a, pc) == Becomes(a, pc, att[a].state, att[a].active, att[a].outcome)

MoveAs(a, pc, state) == Becomes(a, pc, state, att[a].active, att[a].outcome)

(* _publish: the row is written, read back and confirmed.                  *)
Published(row) ==
    /\ count < MaxCatalogRecords
    /\ catalog' = Append(catalog, row)
    /\ count' = count + 1
    /\ UNCHANGED unknown /\ Quiet

(* _publish raises: over budget, or a failure before or after the file is  *)
(* in place.                                                               *)
Unpublished(row) ==
    /\ \/ count >= MaxCatalogRecords /\ Quiet /\ UNCHANGED catalog
       \/ Fault /\ catalog' \in {catalog, Append(catalog, row)}
    /\ unknown' = TRUE
    /\ UNCHANGED count

(* _RequestPublisher.publish, with the same outcomes for a request's file. *)
Wrote(a, record) ==
    /\ chain' = [chain EXCEPT ![a] = Append(@, record)]
    /\ UNCHANGED unknown /\ Quiet

WriteFails(a, record) ==
    /\ Fault
    /\ chain' \in {chain, [chain EXCEPT ![a] = Append(@, record)]}
    /\ unknown' = TRUE

(***************************************************************************)
(* begin                                                                   *)
(***************************************************************************)
(* Mutant: a key is forgotten with its attempt.                            *)
SeenActive(k) == \E a \in Begun : att[a].key = k /\ att[a].active

Seen(k) == \E a \in Begun : att[a].key = k

Reason(k) ==
    IF Seen(k) THEN "DUPLICATE"
    ELSE IF active >= MaxActive THEN "ACTIVE_LIMIT"
    ELSE IF seenBytes + KeyBytes[k] > MaxSeenKeyBytes THEN "SEEN_LIMIT"
    ELSE IF reserve + MaxTotalBytes + (3 * MaxAttempts + 2) * MaxCatalogRecordBytes
              + MaxActive * MaxRecordBytes + MaxCatalogRecordBytes > MaxArchiveBytes THEN "BYTE_LIMIT"
    ELSE "NONE"

(* The controller admits no request of a session that is being closed.     *)
SessionOpen(k) == cut[Session[k]].state = "open"

(* Decision and reservation, under the catalog lock.                       *)
BeginReserve(k) ==
    /\ SessionOpen(k)
    /\ lock = None
    /\ LedgerAvailable
    /\ Len(att) < MaxAttempts
    /\ LET new == Reason(k) = "NONE"
       IN  /\ att' = Append(att, [key |-> k, reason |-> Reason(k), state |-> "BEGUN",
                                  active |-> new, pc |-> "begin", outcome |-> None])
           /\ seenBytes' = seenBytes + (IF Seen(k) THEN 0 ELSE KeyBytes[k])
           /\ active' = active + (IF new THEN 1 ELSE 0)
           /\ reserve' = reserve + (IF new THEN MaxTotalBytes ELSE 0)
    /\ lock' = Len(att) + 1
    /\ UNCHANGED <<catalog, count, jn, chain, tallies, unknown, life, cut, faults>>

BeginRow(a) == Row("ATTEMPT_BEGIN", a, att[a].reason, None, None, 0, 0)

RejectRow(a) == Row("ATTEMPT_END", a, None, "REJECTED", None, 0, 0)

BeginPublish(a) ==
    /\ At(a, "begin")
    /\ Published(BeginRow(a))
    /\ IF att[a].reason = "NONE" THEN Move(a, "begun") /\ lock' = None
                                 ELSE Move(a, "reject") /\ UNCHANGED lock
    /\ UNCHANGED <<jn, chain, budgets, tallies, life, cut>>

RejectPublish(a) ==
    /\ At(a, "reject")
    /\ Published(RejectRow(a))
    /\ MoveAs(a, "done", "ENDED")
    /\ rejected' = rejected + 1
    /\ lock' = None
    /\ UNCHANGED <<jn, chain, budgets, accepted, life, cut>>

(* _retire gives back the active slot once, never the reservation.         *)
Retired(a, pc) ==
    /\ Becomes(a, pc, att[a].state, FALSE, att[a].outcome)
    /\ active' = active - (IF att[a].active THEN 1 ELSE 0)
    /\ UNCHANGED <<seenBytes, reserve>>

BeginFails(a) ==
    /\ \/ At(a, "begin") /\ Unpublished(BeginRow(a))
       \/ At(a, "reject") /\ Unpublished(RejectRow(a))
    /\ Retired(a, "failed")
    /\ lock' = None
    /\ UNCHANGED <<jn, chain, tallies, life, cut>>

(***************************************************************************)
(* accept                                                                  *)
(***************************************************************************)
AcceptStart(a) ==
    /\ At(a, "begun")
    /\ IF LedgerAvailable THEN MoveAs(a, "create", "ACCEPTING") ELSE Move(a, "stuck")
    /\ UNCHANGED <<catalog, count, jn, chain, budgets, tallies, unknown, life, lock, cut, faults>>

(* Directory, publisher and journal, whose construction writes the         *)
(* acceptance.                                                             *)
AcceptCreate(a) ==
    /\ At(a, "create")
    /\ \E size \in Sizes :
          /\ Reserved(NewJournal, size)
          /\ Wrote(a, Original(NewJournal, "accept", size, None, None))
          /\ jn' = [jn EXCEPT ![a] = Confirmed(NewJournal, size, FALSE, {})]
    /\ Move(a, "ack")
    /\ UNCHANGED <<catalog, count, budgets, tallies, life, lock, cut>>

AcceptLock(a) ==
    /\ At(a, "ack")
    /\ lock = None
    /\ LedgerAvailable
    /\ lock' = a
    /\ Move(a, "acknowledge")
    /\ UNCHANGED <<catalog, count, jn, chain, budgets, tallies, unknown, life, cut, faults>>

AckRow(a) == Row("ACCEPT_ACK", a, None, None, None, 0, 0)

AcceptPublish(a) ==
    /\ At(a, "acknowledge")
    /\ Published(AckRow(a))
    /\ accepted' = accepted + 1
    /\ lock' = None
    /\ MoveAs(a, "accepted", "ACCEPTED")
    /\ UNCHANGED <<jn, chain, budgets, rejected, life, cut>>

(* Every failure poisons the ledger before the slot is given back.         *)
AcceptFails(a) ==
    /\ \/ /\ At(a, "create")
          /\ \E size \in Sizes : WriteFails(a, Original(NewJournal, "accept", size, None, None))
          /\ UNCHANGED <<catalog, count, lock>>
       \/ /\ At(a, "ack")
          /\ lock = None /\ ~LedgerAvailable
          /\ unknown' = TRUE /\ Quiet
          /\ UNCHANGED <<catalog, count, chain, lock>>
       \/ /\ At(a, "acknowledge")
          /\ Unpublished(AckRow(a))
          /\ lock' = None
          /\ UNCHANGED chain
    /\ MoveAs(a, "retire", "UNKNOWN")
    /\ UNCHANGED <<jn, budgets, tallies, life, cut>>

(***************************************************************************)
(* The request: its scope claims the journal and emits events              *)
(***************************************************************************)
Claim(a) ==
    /\ At(a, "accepted")
    /\ jn' = [jn EXCEPT ![a] = Marked(@, {"claimed"})]
    /\ Move(a, "business")
    /\ UNCHANGED <<catalog, count, chain, budgets, tallies, unknown, life, lock, cut, faults>>

(* A request lost before its hand-over is not settled in an unknown ledger. *)
ClaimSkipped(a) ==
    /\ At(a, "accepted")
    /\ unknown
    /\ Move(a, "stuck")
    /\ UNCHANGED <<catalog, count, jn, chain, budgets, tallies, unknown, life, lock, cut, faults>>

Emit(a) ==
    /\ At(a, "business")
    /\ MayEmit(jn[a]) /\ Available(jn[a])
    /\ \E size \in Sizes :
          /\ Reserved(jn[a], size)
          /\ Wrote(a, Original(jn[a], "event", size, None, None))
          /\ jn' = [jn EXCEPT ![a] = Confirmed(@, size, TRUE, {})]
    /\ UNCHANGED <<catalog, count, att, budgets, tallies, life, lock, cut>>

(* An invalid or oversized event, or one without room, writes nothing and  *)
(* fails scope and journal.                                                *)
EmitRefused(a) ==
    /\ At(a, "business")
    /\ jn' = [jn EXCEPT ![a] = Marked(@, {"failed", "scopeFailed"})]
    /\ UNCHANGED <<catalog, count, att, chain, budgets, tallies, unknown, life, lock, cut, faults>>

EmitFails(a) ==
    /\ At(a, "business")
    /\ MayEmit(jn[a]) /\ Available(jn[a])
    /\ \E size \in Sizes : /\ Reserved(jn[a], size)
                           /\ WriteFails(a, Original(jn[a], "event", size, None, None))
    /\ jn' = [jn EXCEPT ![a] = Marked(@, {"failed", "scopeFailed", "poisoned"})]
    /\ UNCHANGED <<catalog, count, att, budgets, tallies, life, lock, cut>>

(* The worker has exited; the scope is finished with the handler's outcome. *)
BusinessEnds(a) ==
    /\ At(a, "business")
    /\ \E o \in Outcomes : Becomes(a, "seal", att[a].state, att[a].active, o)
    /\ UNCHANGED <<catalog, count, jn, chain, budgets, tallies, unknown, life, lock, cut, faults>>

SealRecord(a, size) == Original(jn[a], "seal", size, SealStatus(jn[a]), att[a].outcome)

Seal(a) ==
    /\ At(a, "seal")
    /\ Available(jn[a]) /\ MaySeal(jn[a])
    /\ \E size \in Sizes :
          /\ SealFits(jn[a], size)
          /\ Wrote(a, SealRecord(a, size))
          /\ jn' = [jn EXCEPT ![a] = Confirmed(@, size, FALSE, {"sealed"})]
    /\ Move(a, "close")
    /\ UNCHANGED <<catalog, count, budgets, tallies, life, lock, cut>>

(* The journal is not available, or the seal is refused or not confirmed.  *)
SealFails(a) ==
    /\ At(a, "seal")
    /\ \/ /\ ~Available(jn[a])
          /\ UNCHANGED <<jn, chain, unknown>> /\ Quiet
       \/ /\ Available(jn[a])
          /\ ~MaySeal(jn[a]) \/ \E size \in Sizes : ~SealFits(jn[a], size)
          /\ jn' = [jn EXCEPT ![a] = Marked(@, {"failed", "poisoned"})]
          /\ UNCHANGED <<chain, unknown>> /\ Quiet
       \/ /\ Available(jn[a]) /\ MaySeal(jn[a])
          /\ \E size \in Sizes : SealFits(jn[a], size) /\ WriteFails(a, SealRecord(a, size))
          /\ jn' = [jn EXCEPT ![a] = Marked(@, {"failed", "poisoned"})]
    /\ Move(a, "close")
    /\ UNCHANGED <<catalog, count, budgets, tallies, life, lock, cut>>

(* The journal is closed whether or not it was sealed.  Only a scope that  *)
(* finished cleanly goes on to ledger.finish; any other keeps its slot.    *)
CloseJournal(a) ==
    /\ At(a, "close")
    /\ \/ /\ jn' = [jn EXCEPT ![a] = Marked(@, {"closed"})]
          /\ UNCHANGED unknown /\ Quiet
          /\ Move(a, IF "sealed" \in jn[a].flags THEN "finish" ELSE "stuck")
       \/ /\ Fault
          /\ jn' = [jn EXCEPT ![a] = Marked(@, {"closed", "failed", "closeFailed"})]
          /\ unknown' = TRUE
          /\ Move(a, "stuck")
    /\ UNCHANGED <<catalog, count, chain, budgets, tallies, life, lock, cut>>

(***************************************************************************)
(* finish                                                                  *)
(***************************************************************************)
FinishStart(a) ==
    /\ At(a, "finish")
    /\ life = "open"
    /\ MoveAs(a, "read", "FINISHING")
    /\ UNCHANGED <<catalog, count, jn, chain, budgets, tallies, unknown, life, lock, cut, faults>>

(* The directory holds exactly the confirmed originals, they verify, and   *)
(* they say what the journal and the caller say.                           *)
OriginalsKnown(a) ==
    /\ {"sealed", "closed", "claimed"} \subseteq jn[a].flags
    /\ jn[a].flags \cap {"poisoned", "closeFailed"} = {}
    /\ Len(chain[a]) = jn[a].count
    /\ Verifies(chain[a])
    /\ Status(chain[a]) \in {"COMPLETE", "FAILED"}
    /\ Last(chain[a]).outcome = att[a].outcome
    /\ Bytes(chain[a]) = jn[a].bytes
    /\ Last(chain[a]).events = jn[a].events

FinishRead(a) ==
    /\ At(a, "read")
    /\ OriginalsKnown(a)
    /\ Move(a, "end")
    /\ UNCHANGED <<catalog, count, jn, chain, budgets, tallies, unknown, life, lock, cut, faults>>

FinishLock(a) ==
    /\ At(a, "end")
    /\ lock = None
    /\ LedgerAvailable
    /\ lock' = a
    /\ Move(a, "publish")
    /\ UNCHANGED <<catalog, count, jn, chain, budgets, tallies, unknown, life, cut, faults>>

(* Mutant: the END counts the events, not the records.                     *)
EndRowEvents(a) ==
    Row("ATTEMPT_END", a, None, Status(chain[a]), att[a].outcome, jn[a].events, jn[a].bytes)

EndRow(a) == Row("ATTEMPT_END", a, None, Status(chain[a]), att[a].outcome, jn[a].count, jn[a].bytes)

FinishPublish(a) ==
    /\ At(a, "publish")
    /\ Published(EndRow(a))
    /\ lock' = None
    /\ Move(a, "ended")
    /\ UNCHANGED <<jn, chain, budgets, tallies, life, cut>>

FinishEnded(a) ==
    /\ At(a, "ended")
    /\ MoveAs(a, "retire", "ENDED")
    /\ UNCHANGED <<catalog, count, jn, chain, budgets, tallies, unknown, life, lock, cut, faults>>

FinishFails(a) ==
    /\ \/ /\ At(a, "read")
          /\ (~OriginalsKnown(a) /\ Quiet) \/ Fault
          /\ unknown' = TRUE
          /\ UNCHANGED <<catalog, count, lock>>
       \/ /\ At(a, "end")
          /\ lock = None /\ ~LedgerAvailable
          /\ unknown' = TRUE /\ Quiet
          /\ UNCHANGED <<catalog, count, lock>>
       \/ /\ At(a, "publish")
          /\ Unpublished(EndRow(a))
          /\ lock' = None
    /\ MoveAs(a, "retire", "UNKNOWN")
    /\ UNCHANGED <<jn, chain, budgets, tallies, life, cut>>

(* The slot is free; a journal that accept built and could not hand over   *)
(* is closed.                                                              *)
Retire(a) ==
    /\ At(a, "retire")
    /\ Retired(a, IF att[a].state = "ENDED" THEN "done" ELSE "failed")
    /\ jn' = [jn EXCEPT ![a] = IF jn[a] = None THEN None ELSE Marked(@, {"closed"})]
    /\ UNCHANGED <<catalog, count, chain, tallies, unknown, life, lock, cut, faults>>

(***************************************************************************)
(* A session's prefix                                                      *)
(***************************************************************************)
OfSession(s) == {a \in Begun : Session[att[a].key] = s}

(* The controller's barrier: every handler of the session has ended.       *)
HandlersExited(s) == \A a \in OfSession(s) : att[a].pc = "done"

Rows(type, a, n) == {i \in 1..n : catalog[i].type = type /\ catalog[i].attempt = a}

(* Row i, an END, describes the originals of its attempt.                  *)
EndDescribes(a, i) ==
    /\ Verifies(chain[a])
    /\ catalog[i].disposition = Status(chain[a])
    /\ catalog[i].outcome = Last(chain[a]).outcome
    /\ catalog[i].records = Len(chain[a])
    /\ catalog[i].bytes = Bytes(chain[a])
    /\ Rows("ACCEPT_ACK", a, count) # {}

(* The files a prefix holds: the catalog and the session's originals.      *)
PrefixFiles(s) == count + SumFunction([a \in OfSession(s) |-> Len(chain[a])])

(* What the reader of a catalog knows when it comes to row i.              *)
Before(rows, i, type, a) == {j \in 1..(i - 1) : rows[j].type = type /\ rows[j].attempt = a}

Begins(rows, i) == {j \in 1..(i - 1) : rows[j].type = "ATTEMPT_BEGIN"}

IsNew(rows, i, a) == \E j \in Before(rows, i, "ATTEMPT_BEGIN", a) : rows[j].reason = "NONE"

RowVerifies(rows, i) ==
    LET r == rows[i]
    IN  /\ r.seq = i - 1 /\ r.prev = i - 1
        /\ (r.type = "INSTANCE_BEGIN") = (i = 1)
        /\ r.type = "ATTEMPT_BEGIN" =>
              /\ r.attempt = Cardinality(Begins(rows, i)) + 1
              /\ (r.reason = "DUPLICATE") = (\E j \in Begins(rows, i) : rows[j].key = r.key)
        /\ r.type \in {"ACCEPT_ACK", "ATTEMPT_END"} =>
              /\ Before(rows, i, "ATTEMPT_BEGIN", r.attempt) # {}
              /\ Before(rows, i, "ATTEMPT_END", r.attempt) = {}
        /\ r.type = "ACCEPT_ACK" =>
              /\ IsNew(rows, i, r.attempt)
              /\ Before(rows, i, "ACCEPT_ACK", r.attempt) = {}
        /\ r.type = "ATTEMPT_END" =>
              /\ (r.disposition = "REJECTED") = ~IsNew(rows, i, r.attempt)
              /\ IsNew(rows, i, r.attempt) => Before(rows, i, "ACCEPT_ACK", r.attempt) # {}
        /\ r.type = "INSTANCE_END" =>
              /\ i = Len(rows)
              /\ \A j \in Begins(rows, i) : Before(rows, i, "ATTEMPT_END", rows[j].attempt) # {}
              /\ r.accepted = Cardinality({j \in 1..(i - 1) : rows[j].type = "ACCEPT_ACK"})
              /\ r.rejected = Cardinality({j \in Begins(rows, i) : rows[j].reason # "NONE"})
              /\ r.accepted + r.rejected = Cardinality(Begins(rows, i))

(* CatalogCodec.verify accepts the rows.                                   *)
CatalogVerifies(rows) ==
    /\ Len(rows) \in 1..MaxCatalogRecords
    /\ \A i \in DOMAIN rows : RowVerifies(rows, i)

PrefixHolds(s) ==
    /\ LedgerAvailable
    /\ Len(catalog) = count
    /\ CatalogVerifies(catalog)
    /\ PrefixFiles(s) <= MaxExportFiles
    /\ \A a \in OfSession(s) :
          /\ att[a].state = "ENDED"
          /\ \E i \in Rows("ATTEMPT_END", a, count) :
                IF att[a].reason = "NONE" THEN EndDescribes(a, i)
                                          ELSE catalog[i].disposition = "REJECTED"

(* The prefix is read under the catalog lock; any refusal poisons.         *)
PrefixRead(s) ==
    /\ cut[s].state = "open"
    /\ HandlersExited(s)
    /\ life = "open"
    /\ lock = None
    /\ \/ /\ PrefixHolds(s)
          /\ cut' = [cut EXCEPT ![s] = [state |-> "read", count |-> count]]
          /\ UNCHANGED unknown /\ Quiet
       \/ /\ (~PrefixHolds(s) /\ Quiet) \/ Fault
          /\ cut' = [cut EXCEPT ![s] = [state |-> "failed", count |-> 0]]
          /\ unknown' = TRUE
    /\ UNCHANGED <<catalog, count, att, jn, chain, budgets, tallies, life, lock>>

(* The source handles are closed without the lock, then the prefix is      *)
(* issued by a ledger that is still known.                                 *)
PrefixIssue(s) ==
    /\ cut[s].state = "read"
    /\ \/ /\ cut' = [cut EXCEPT ![s].state = IF LedgerAvailable THEN "issued" ELSE "failed"]
          /\ UNCHANGED unknown /\ Quiet
       \/ /\ Fault
          /\ cut' = [cut EXCEPT ![s].state = "failed"]
          /\ unknown' = TRUE
    /\ UNCHANGED <<catalog, count, att, jn, chain, budgets, tallies, life, lock>>

(***************************************************************************)
(* close                                                                   *)
(***************************************************************************)
(* The service stops once no close of a session is reading.                *)
CloseStart ==
    /\ \A s \in Sessions : cut[s].state # "read"
    /\ life = "open"
    /\ lock = None
    /\ active = 0
    /\ life' = "closing"
    /\ lock' = Closer
    /\ UNCHANGED <<catalog, count, att, jn, chain, budgets, tallies, unknown, cut, faults>>

AllEnded == \A a \in Begun : att[a].state = "ENDED"

InstanceEndRow == Row("INSTANCE_END", None, None, None, None, 0, 0)

ClosePublish ==
    /\ life = "closing"
    /\ ~unknown /\ AllEnded
    /\ Published(InstanceEndRow)
    /\ life' = "published"
    /\ UNCHANGED <<att, jn, chain, budgets, tallies, lock, cut>>

CloseRefused ==
    /\ life = "closing"
    /\ \/ ~(~unknown /\ AllEnded) /\ unknown' = TRUE /\ Quiet /\ UNCHANGED <<catalog, count>>
       \/ ~unknown /\ AllEnded /\ Unpublished(InstanceEndRow)
    /\ life' = "closed"
    /\ lock' = None
    /\ UNCHANGED <<att, jn, chain, budgets, tallies, cut>>

(* _cleanup closes the native resources; a failure makes the end unknown.  *)
CloseCleanup ==
    /\ life = "published"
    /\ (UNCHANGED unknown /\ Quiet) \/ (Fault /\ unknown' = TRUE)
    /\ life' = "closed"
    /\ lock' = None
    /\ UNCHANGED <<catalog, count, att, jn, chain, budgets, tallies, cut>>

Next ==
    \/ \E k \in Keys : BeginReserve(k)
    \/ \E a \in Attempts :
          \/ BeginPublish(a) \/ RejectPublish(a) \/ BeginFails(a)
          \/ AcceptStart(a) \/ AcceptCreate(a) \/ AcceptLock(a) \/ AcceptPublish(a) \/ AcceptFails(a)
          \/ Claim(a) \/ ClaimSkipped(a) \/ Emit(a) \/ EmitRefused(a) \/ EmitFails(a) \/ BusinessEnds(a)
          \/ Seal(a) \/ SealFails(a) \/ CloseJournal(a)
          \/ FinishStart(a) \/ FinishRead(a) \/ FinishLock(a) \/ FinishPublish(a)
          \/ FinishEnded(a) \/ FinishFails(a) \/ Retire(a)
    \/ \E s \in Sessions : PrefixRead(s) \/ PrefixIssue(s)
    \/ CloseStart \/ ClosePublish \/ CloseRefused \/ CloseCleanup

Spec == Init /\ [][Next]_vars

-----------------------------------------------------------------------------
States == {"BEGUN", "ACCEPTING", "ACCEPTED", "FINISHING", "ENDED", "UNKNOWN"}

Pcs == {"begin", "reject", "begun", "create", "ack", "acknowledge", "accepted", "business", "seal",
        "close", "finish", "read", "end", "publish", "ended", "retire", "done", "failed", "stuck"}

Reasons == {"NONE", "DUPLICATE", "ACTIVE_LIMIT", "SEEN_LIMIT", "BYTE_LIMIT"}

AttemptRecords == [key : Keys, reason : Reasons, state : States, active : BOOLEAN, pc : Pcs,
                   outcome : Outcomes \cup {None}]

TypeOK ==
    /\ att \in Seq(AttemptRecords) /\ Len(att) <= MaxAttempts
    /\ jn \in [Attempts -> Journal \cup {None}]
    /\ seenBytes \in Nat /\ active \in Int /\ reserve \in Nat

(* What is on disk is a catalog its reader accepts, after every step and   *)
(* every failure: sequences, predecessors, duplicates, ACK before END, and *)
(* an INSTANCE_END only behind the END of every attempt with the right     *)
(* counts (CatalogCodec.verify against every _publish).                    *)
CatalogIsValid == CatalogVerifies(catalog)

(* An ATTEMPT_END of an accepted request describes the sealed and closed   *)
(* originals of that request, when it is published and for ever after: no  *)
(* thread writes to a request behind its END.  A prefix issued for a       *)
(* session holds the END of every attempt the session ever began.          *)
EndIsEvidence ==
    /\ \A i \in DOMAIN catalog :
          catalog[i].type = "ATTEMPT_END" /\ catalog[i].disposition # "REJECTED"
              => /\ EndDescribes(catalog[i].attempt, i)
                 /\ {"sealed", "closed"} \subseteq jn[catalog[i].attempt].flags
    /\ \A s \in Sessions : cut[s].state = "issued" =>
          \A a \in OfSession(s) : Rows("ATTEMPT_END", a, cut[s].count) # {}

(* Only a failure from outside makes a ledger unknown: no interleaving of  *)
(* requests, session closes and the end of the service does (every _poison *)
(* and every refusal of accept, finish, _session_prefix and close).        *)
NoFalseUnknown == unknown => faults > 0

(* A journal that may still be sealed has room for a seal of the largest   *)
(* size (_reserve), so no accepted request ends unsealed for want of room. *)
SealAlwaysFits ==
    \A a \in Attempts : jn[a] # None /\ Available(jn[a]) => SealFits(jn[a], MaxRecordBytes)

(* No request is ever turned away for SEEN_LIMIT or BYTE_LIMIT.            *)
NoReserveMissing == \A a \in Begun : att[a].reason \in {"NONE", "DUPLICATE", "ACTIVE_LIMIT"}

(* The checks of _budgets suffice for every sequence of calls: seals fit,  *)
(* no reserve is missing, the catalog never meets its limit, the slots in  *)
(* use are the attempts not retired, and all files stay within the limit   *)
(* of the archive.                                                         *)
ReservesSuffice ==
    /\ SealAlwaysFits
    /\ NoReserveMissing
    /\ active = Cardinality({a \in Begun : att[a].active})
    /\ Len(catalog) <= 3 * MaxAttempts + 2
    /\ Len(catalog) * MaxCatalogRecordBytes
          + SumFunction([a \in Attempts |-> Bytes(chain[a])]) <= MaxArchiveBytes

(* The end of an attempt is evidence of what its handlers did, and an end  *)
(* that can be known is never reported unknown.                            *)
EndIsTrue == EndIsEvidence /\ NoFalseUnknown
=============================================================================
