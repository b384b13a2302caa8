------------------------ MODULE AttemptLedgerProofs ------------------------
(***************************************************************************)
(* The attempt ledger for every number of attempts, every size and every   *)
(* limit _budgets admits.  What the reserves buy: a journal that may still *)
(* be sealed has room for its seal, and nothing is turned away for want of *)
(* key or byte reserves.  Where an attempt can be, and who holds the lock. *)
(* What lies on disk under a request, and what the catalog says of it:     *)
(* rows its reader accepts, and ENDs that describe their originals for     *)
(* good.  Only a failure from outside makes the ledger unknown.            *)
(***************************************************************************)
EXTENDS AttemptLedger, FiniteSetTheorems, TLAPS

(* From accept's construction to the end of its scope a request has a      *)
(* journal.                                                                *)
WithJournal == {"ack", "acknowledge", "accepted", "business", "seal", "close"}

JournalsExist == \A a \in Begun : att[a].pc \in WithJournal => jn[a] \in Journal

HasRoom(j) == Available(j) => SealFits(j, MaxRecordBytes)

RoomLeft == \A a \in Attempts : jn[a] \in Journal => HasRoom(jn[a])

(* Every attempt has used at most its share of the key and byte reserves.  *)
SharesHold == /\ seenBytes <= Len(att) * MaxKeyBytes
              /\ reserve <= Len(att) * MaxTotalBytes

IInv == TypeOK /\ JournalsExist /\ RoomLeft /\ SharesHold /\ NoReserveMissing

(* One more share still fits the total.                                    *)
LEMMA OneMoreShare ==
    ASSUME NEW n \in Nat, NEW m \in Nat, NEW share \in Nat, n < m
    PROVE  /\ n * share + share <= m * share
           /\ (n + 1) * share = n * share + share
  <1>1. PICK d \in Nat : m = n + 1 + d
    <2>1. m - (n + 1) \in Nat /\ m = n + 1 + (m - (n + 1))
      OBVIOUS
    <2> QED BY <2>1
  <1>2. m * share = n * share + share + d * share
    BY <1>1
  <1>3. d * share \in Nat
    BY <1>1
  <1>4. n * share \in Nat
    OBVIOUS
  <1> QED BY <1>2, <1>3, <1>4

(* The limits are numbers, and attempts are begun in order.                *)
LEMMA LimitsAreNats ==
    MaxAttempts \in Nat /\ MaxActive \in Nat /\ MaxCatalogRecordBytes \in Nat /\ MaxKeyBytes \in Nat
    /\ MaxSeenKeyBytes \in Nat /\ MaxArchiveBytes \in Nat
  BY LedgerBudgets

(* Begun attempts are attempts.                                            *)
LEMMA BegunAttempts ==
    ASSUME TypeOK, NEW a \in Begun
    PROVE  a \in Attempts
  <1>1. Len(att) \in Nat /\ a \in 1..Len(att) /\ Len(att) <= MaxAttempts
    BY DEF TypeOK, Begun
  <1> QED BY <1>1, LimitsAreNats DEF Attempts

(* Attempt a goes on to pc; the sequence and the others stay.              *)
Moved(a, pc) ==
    /\ att' \in Seq(AttemptRecords) /\ Len(att') = Len(att) /\ DOMAIN att' = DOMAIN att
    /\ att'[a].pc = pc /\ att'[a].reason = att[a].reason
    /\ \A b \in DOMAIN att : b # a => att'[b] = att[b]

LEMMA BecomesKeeps ==
    ASSUME att \in Seq(AttemptRecords), NEW a \in Begun, NEW pc \in Pcs, NEW state \in States,
           NEW slot \in BOOLEAN, NEW outcome \in Outcomes \cup {None},
           Becomes(a, pc, state, slot, outcome)
    PROVE  Moved(a, pc)
  <1> DEFINE r == [key |-> att[a].key, reason |-> att[a].reason, state |-> state,
                   active |-> slot, pc |-> pc, outcome |-> outcome]
  <1>1. att[a] \in AttemptRecords
    BY DEF Begun
  <1>2. r \in AttemptRecords
    BY <1>1 DEF AttemptRecords
  <1>3. att' = [att EXCEPT ![a] = r]
    BY DEF Becomes
  <1>4. r.pc = pc /\ r.reason = att[a].reason
    OBVIOUS
  <1> HIDE DEF r
  <1> QED BY <1>2, <1>3, <1>4 DEF Begun, Moved

(* An attempt's record, unfolded.                                          *)
LEMMA AttemptFields ==
    ASSUME TypeOK, NEW a \in Begun
    PROVE  /\ att[a].key \in Keys /\ att[a].reason \in Reasons /\ att[a].state \in States
           /\ att[a].active \in BOOLEAN /\ att[a].pc \in Pcs
           /\ att[a].outcome \in Outcomes \cup {None}
  <1>1. att[a] \in AttemptRecords
    BY DEF TypeOK, Begun
  <1> QED BY <1>1 DEF AttemptRecords
(* So do the three ways the actions put it.                                *)
LEMMA MoveKeeps ==
    ASSUME TypeOK, NEW a \in Begun, NEW pc \in Pcs, Move(a, pc)
    PROVE  Moved(a, pc)
  <1>1. PICK st \in States, sl \in BOOLEAN, o \in Outcomes \cup {None} :
           st = att[a].state /\ sl = att[a].active /\ o = att[a].outcome
    BY AttemptFields
  <1>2. Becomes(a, pc, st, sl, o)
    BY <1>1 DEF Move, Becomes
  <1> QED BY <1>2, BecomesKeeps DEF TypeOK

LEMMA MoveAsKeeps ==
    ASSUME TypeOK, NEW a \in Begun, NEW pc \in Pcs, NEW state \in States, MoveAs(a, pc, state)
    PROVE  Moved(a, pc)
  <1>1. PICK sl \in BOOLEAN, o \in Outcomes \cup {None} : sl = att[a].active /\ o = att[a].outcome
    BY AttemptFields
  <1>2. Becomes(a, pc, state, sl, o)
    BY <1>1 DEF MoveAs, Becomes
  <1> QED BY <1>2, BecomesKeeps DEF TypeOK

LEMMA RetiredKeeps ==
    ASSUME TypeOK, NEW a \in Begun, NEW pc \in Pcs, Retired(a, pc)
    PROVE  Moved(a, pc) /\ active' \in Int /\ UNCHANGED <<seenBytes, reserve>>
  <1>1. PICK st \in States, o \in Outcomes \cup {None} : st = att[a].state /\ o = att[a].outcome
    BY AttemptFields
  <1>2. Becomes(a, pc, st, FALSE, o)
    BY <1>1 DEF Retired, Becomes
  <1>3. Moved(a, pc)
    BY <1>2, BecomesKeeps DEF TypeOK
  <1>4. active' \in Int /\ UNCHANGED <<seenBytes, reserve>>
    BY DEF Retired, TypeOK
  <1> QED BY <1>3, <1>4

(* Marking a journal neither uses room nor makes it available again.       *)
LEMMA MarkedKeeps ==
    ASSUME NEW j \in Journal, NEW fs \in SUBSET Flags
    PROVE  /\ Marked(j, fs) \in Journal
           /\ HasRoom(j) => HasRoom(Marked(j, fs))
  BY RequestBudgets DEF Marked, Journal, HasRoom, Available, SealFits

(* A record that kept the reserve leaves the room of a seal.               *)
LEMMA ConfirmedKeeps ==
    ASSUME NEW j \in Journal, NEW size \in Sizes, NEW event \in BOOLEAN, NEW fs \in SUBSET Flags,
           Reserved(j, size) \/ "sealed" \in fs
    PROVE  /\ Confirmed(j, size, event, fs) \in Journal
           /\ HasRoom(Confirmed(j, size, event, fs))
  <1>1. size \in Nat
    BY SizesEncode, RequestBudgets
  <1>2. Confirmed(j, size, event, fs) \in Journal
    BY <1>1 DEF Confirmed, Journal
  <1>3. CASE "sealed" \in fs
    BY <1>2, <1>3 DEF Confirmed, HasRoom, Available
  <1>4. CASE Reserved(j, size)
    BY <1>1, <1>2, <1>4, RequestBudgets DEF Confirmed, HasRoom, Reserved, SealFits, Journal
  <1> QED BY <1>2, <1>3, <1>4

LEMMA NewJournalFits == NewJournal \in Journal
  BY DEF NewJournal, Journal

(* A step of attempt a keeps the invariant if it leaves the budgets, and   *)
(* the journals of the others, and hands a on with a journal that has room. *)
LEMMA AttemptStep ==
    ASSUME IInv, NEW a \in Begun, NEW pc \in Pcs, Moved(a, pc),
           jn' = [jn EXCEPT ![a] = jn'[a]],
           jn'[a] \in Journal \cup {None},
           pc \in WithJournal => jn'[a] \in Journal,
           jn'[a] \in Journal => HasRoom(jn'[a]),
           active' \in Int, UNCHANGED <<seenBytes, reserve>>
    PROVE  IInv'
  <1> USE DEF IInv
  <1>0. a \in Attempts
    BY BegunAttempts
  <1>1. /\ att' \in Seq(AttemptRecords) /\ Len(att') = Len(att) /\ DOMAIN att' = DOMAIN att
        /\ att'[a].pc = pc /\ att'[a].reason = att[a].reason
        /\ \A b \in DOMAIN att : b # a => att'[b] = att[b]
    BY DEF Moved
  <1>2. /\ jn' \in [Attempts -> Journal \cup {None}]
        /\ \A b \in Attempts : b # a => jn'[b] = jn[b]
    BY <1>0 DEF TypeOK
  <1>3. TypeOK'
    BY <1>1, <1>2 DEF TypeOK, Attempts
  <1>4. JournalsExist'
    <2> SUFFICES ASSUME NEW b \in DOMAIN att, att'[b].pc \in WithJournal
                 PROVE  jn'[b] \in Journal
      BY <1>1 DEF JournalsExist, Begun, Journal
    <2>1. b \in Attempts
      BY BegunAttempts DEF Begun
    <2>2. b # a => att[b].pc \in WithJournal /\ jn'[b] = jn[b]
      BY <1>1, <1>2, <2>1
    <2> QED BY <1>1, <2>2 DEF JournalsExist, Begun
  <1>5. RoomLeft'
    <2> SUFFICES ASSUME NEW b \in Attempts, jn'[b] \in Journal PROVE HasRoom(jn'[b])
      BY DEF RoomLeft, HasRoom, Available, SealFits, Attempts
    <2> QED BY <1>2 DEF RoomLeft
  <1>6. SharesHold'
    BY <1>1 DEF SharesHold
  <1>7. NoReserveMissing'
    BY <1>1 DEF NoReserveMissing, Begun
  <1> QED BY <1>3, <1>4, <1>5, <1>6, <1>7

(* So does a step that changes one journal and no attempt.                 *)
LEMMA JournalStep ==
    ASSUME IInv, NEW a \in Begun, jn' = [jn EXCEPT ![a] = jn'[a]],
           jn'[a] \in Journal, HasRoom(jn'[a]),
           UNCHANGED <<att, budgets>>
    PROVE  IInv'
  <1> USE DEF IInv
  <1>0. a \in Attempts
    BY BegunAttempts
  <1>2. /\ jn' \in [Attempts -> Journal \cup {None}]
        /\ \A b \in Attempts : b # a => jn'[b] = jn[b]
    BY <1>0 DEF TypeOK
  <1>3. TypeOK'
    BY <1>2 DEF TypeOK, Attempts, budgets
  <1>4. JournalsExist'
    <2> SUFFICES ASSUME NEW b \in DOMAIN att, att[b].pc \in WithJournal
                 PROVE  jn'[b] \in Journal
      BY DEF JournalsExist, Begun, Journal
    <2>1. b \in Attempts
      BY BegunAttempts DEF Begun
    <2> QED BY <1>2, <2>1 DEF JournalsExist, Begun
  <1>5. RoomLeft'
    <2> SUFFICES ASSUME NEW b \in Attempts, jn'[b] \in Journal PROVE HasRoom(jn'[b])
      BY DEF RoomLeft, HasRoom, Available, SealFits, Attempts
    <2> QED BY <1>2 DEF RoomLeft
  <1>6. SharesHold' /\ NoReserveMissing'
    BY DEF SharesHold, NoReserveMissing, Begun, budgets
  <1> QED BY <1>3, <1>4, <1>5, <1>6

(* And one that leaves the journals alone and moves a within or out of the *)
(* part of a request that has one.                                         *)
LEMMA QuietStep ==
    ASSUME IInv, NEW a \in Begun, NEW pc \in Pcs, Moved(a, pc),
           pc \in WithJournal => att[a].pc \in WithJournal,
           UNCHANGED jn, active' \in Int, UNCHANGED <<seenBytes, reserve>>
    PROVE  IInv'
  <1>0. a \in Attempts
    BY BegunAttempts DEF IInv
  <1>1. jn'[a] \in Journal \cup {None} /\ jn' = [jn EXCEPT ![a] = jn'[a]]
    BY <1>0 DEF IInv, TypeOK
  <1>2. pc \in WithJournal => jn'[a] \in Journal
    BY DEF IInv, JournalsExist
  <1>3. jn'[a] \in Journal => HasRoom(jn'[a])
    BY <1>0 DEF IInv, RoomLeft
  <1> QED BY <1>1, <1>2, <1>3, AttemptStep

(***************************************************************************)
(* The steps                                                               *)
(***************************************************************************)
(* begin's decision: the shares of the attempts begun so far leave the key *)
(* and byte reserves of one more, which is why it is never refused.        *)
LEMMA BeginReserveKeeps ==
    ASSUME IInv, NEW k \in Keys, BeginReserve(k)
    PROVE  IInv'
  <1> DEFINE new == Reason(k) = "NONE"
             r == [key |-> k, reason |-> Reason(k), state |-> "BEGUN",
                   active |-> new, pc |-> "begin", outcome |-> None]
  <1> USE LimitsAreNats
  <1>1. /\ att \in Seq(AttemptRecords) /\ Len(att) \in Nat /\ Len(att) < MaxAttempts
        /\ seenBytes \in Nat /\ reserve \in Nat /\ active \in Int
        /\ seenBytes <= Len(att) * MaxKeyBytes /\ reserve <= Len(att) * MaxTotalBytes
    BY DEF IInv, TypeOK, SharesHold, BeginReserve
  <1>2. MaxTotalBytes \in Nat /\ MaxRecordBytes \in Nat
    BY RequestBudgets
  <1>3. KeyBytes[k] \in Nat /\ KeyBytes[k] <= MaxKeyBytes
    BY KeysFit
  <1>4. Len(att) * MaxKeyBytes \in Nat /\ Len(att) * MaxTotalBytes \in Nat
        /\ MaxAttempts * MaxKeyBytes \in Nat /\ MaxAttempts * MaxTotalBytes \in Nat
        /\ (3 * MaxAttempts + 2) * MaxCatalogRecordBytes \in Nat /\ MaxActive * MaxRecordBytes \in Nat
    BY <1>1, <1>2
  <1>5. /\ Len(att) * MaxKeyBytes + MaxKeyBytes <= MaxAttempts * MaxKeyBytes
        /\ (Len(att) + 1) * MaxKeyBytes = Len(att) * MaxKeyBytes + MaxKeyBytes
        /\ Len(att) * MaxTotalBytes + MaxTotalBytes <= MaxAttempts * MaxTotalBytes
        /\ (Len(att) + 1) * MaxTotalBytes = Len(att) * MaxTotalBytes + MaxTotalBytes
    BY <1>1, <1>2, OneMoreShare
  <1>6. seenBytes + KeyBytes[k] <= MaxSeenKeyBytes
    <2>1. MaxSeenKeyBytes >= MaxAttempts * MaxKeyBytes
      BY LedgerBudgets
    <2>2. seenBytes + KeyBytes[k] <= Len(att) * MaxKeyBytes + MaxKeyBytes
      BY <1>1, <1>3, <1>4
    <2> QED BY <1>1, <1>3, <1>4, <1>5, <2>1, <2>2
  <1>7. reserve + MaxTotalBytes + (3 * MaxAttempts + 2) * MaxCatalogRecordBytes
          + MaxActive * MaxRecordBytes + MaxCatalogRecordBytes <= MaxArchiveBytes
    BY <1>1, <1>2, <1>4, <1>5, LedgerBudgets
  <1>8. Reason(k) \in {"NONE", "DUPLICATE", "ACTIVE_LIMIT"}
    <2>1. ~(seenBytes + KeyBytes[k] > MaxSeenKeyBytes)
      BY <1>1, <1>3, <1>6
    <2>2. ~(reserve + MaxTotalBytes + (3 * MaxAttempts + 2) * MaxCatalogRecordBytes
              + MaxActive * MaxRecordBytes + MaxCatalogRecordBytes > MaxArchiveBytes)
      BY <1>1, <1>2, <1>4, <1>7
    <2> QED BY <2>1, <2>2, Zenon DEF Reason
  <1>9. r \in AttemptRecords
    <2>1. Reason(k) \in Reasons
      BY <1>8 DEF Reasons
    <2>2. new \in BOOLEAN
      OBVIOUS
    <2> HIDE DEF new
    <2> QED BY <2>1, <2>2 DEF AttemptRecords, States, Pcs
  <1>10. r.pc = "begin" /\ r.reason = Reason(k)
    OBVIOUS
  <1>11. /\ att' = Append(att, r) /\ UNCHANGED jn
         /\ seenBytes' = seenBytes + (IF Seen(k) THEN 0 ELSE KeyBytes[k])
         /\ active' = active + (IF new THEN 1 ELSE 0)
         /\ reserve' = reserve + (IF new THEN MaxTotalBytes ELSE 0)
    BY DEF BeginReserve
  <1> HIDE DEF r, new
  <1>12. /\ att' \in Seq(AttemptRecords) /\ Len(att') = Len(att) + 1
         /\ \A b \in DOMAIN att' : (b \in DOMAIN att /\ att'[b] = att[b]) \/ att'[b] = r
    BY <1>1, <1>9, <1>11
  <1>13. TypeOK'
    BY <1>1, <1>2, <1>3, <1>11, <1>12 DEF IInv, TypeOK, Attempts
  <1>14. JournalsExist'
    <2> SUFFICES ASSUME NEW b \in DOMAIN att', att'[b].pc \in WithJournal
                 PROVE  jn[b] \in Journal
      BY <1>11 DEF JournalsExist, Begun, Journal
    <2>1. b \in DOMAIN att /\ att'[b] = att[b]
      BY <1>10, <1>12 DEF WithJournal
    <2> QED BY <2>1 DEF IInv, JournalsExist, Begun
  <1>15. RoomLeft'
    BY <1>11 DEF IInv, RoomLeft, HasRoom, Available, SealFits, Attempts
  <1>16. SharesHold'
    BY <1>1, <1>2, <1>3, <1>4, <1>5, <1>11, <1>12 DEF SharesHold
  <1>17. NoReserveMissing'
    BY <1>8, <1>10, <1>12 DEF IInv, NoReserveMissing, Begun
  <1> QED BY <1>13, <1>14, <1>15, <1>16, <1>17 DEF IInv

(* The actions of a request that leave its journal alone.                  *)
LEMMA RequestKeeps ==
    ASSUME IInv, NEW a \in Attempts,
           \/ BeginPublish(a) \/ RejectPublish(a) \/ BeginFails(a)
           \/ AcceptStart(a) \/ AcceptLock(a) \/ AcceptPublish(a) \/ AcceptFails(a)
           \/ ClaimSkipped(a) \/ BusinessEnds(a)
           \/ FinishStart(a) \/ FinishRead(a) \/ FinishLock(a) \/ FinishPublish(a)
           \/ FinishEnded(a) \/ FinishFails(a)
    PROVE  IInv'
  <1> DEFINE quiet == UNCHANGED jn /\ active' \in Int /\ UNCHANGED <<seenBytes, reserve>>
  <1>0. TypeOK /\ active \in Int
    BY DEF IInv, TypeOK
  <1>1. CASE BeginPublish(a)
    <2>1. a \in Begun /\ att[a].pc = "begin" /\ quiet /\ (Move(a, "begun") \/ Move(a, "reject"))
      BY <1>0, <1>1 DEF BeginPublish, At, budgets
    <2> QED BY <1>0, <2>1, MoveKeeps, QuietStep DEF Pcs, WithJournal
  <1>2. CASE RejectPublish(a)
    <2>1. a \in Begun /\ quiet /\ MoveAs(a, "done", "ENDED")
      BY <1>0, <1>2 DEF RejectPublish, At, budgets
    <2> QED BY <1>0, <2>1, MoveAsKeeps, QuietStep DEF Pcs, States, WithJournal
  <1>3. CASE BeginFails(a)
    <2>1. a \in Begun /\ UNCHANGED jn /\ Retired(a, "failed")
      BY <1>3 DEF BeginFails, At
    <2> QED BY <1>0, <2>1, RetiredKeeps, QuietStep DEF Pcs, WithJournal
  <1>4. CASE AcceptStart(a)
    <2>1. a \in Begun /\ quiet /\ (MoveAs(a, "create", "ACCEPTING") \/ Move(a, "stuck"))
      BY <1>0, <1>4 DEF AcceptStart, At, budgets
    <2> QED BY <1>0, <2>1, MoveKeeps, MoveAsKeeps, QuietStep DEF Pcs, States, WithJournal
  <1>5. CASE AcceptLock(a)
    <2>1. a \in Begun /\ att[a].pc = "ack" /\ quiet /\ Move(a, "acknowledge")
      BY <1>0, <1>5 DEF AcceptLock, At, budgets
    <2> QED BY <1>0, <2>1, MoveKeeps, QuietStep DEF Pcs, WithJournal
  <1>6. CASE AcceptPublish(a)
    <2>1. a \in Begun /\ att[a].pc = "acknowledge" /\ quiet /\ MoveAs(a, "accepted", "ACCEPTED")
      BY <1>0, <1>6 DEF AcceptPublish, At, budgets
    <2> QED BY <1>0, <2>1, MoveAsKeeps, QuietStep DEF Pcs, States, WithJournal
  <1>7. CASE AcceptFails(a)
    <2>1. a \in Begun /\ quiet /\ MoveAs(a, "retire", "UNKNOWN")
      BY <1>0, <1>7 DEF AcceptFails, At, budgets
    <2> QED BY <1>0, <2>1, MoveAsKeeps, QuietStep DEF Pcs, States, WithJournal
  <1>8. CASE ClaimSkipped(a)
    <2>1. a \in Begun /\ quiet /\ Move(a, "stuck")
      BY <1>0, <1>8 DEF ClaimSkipped, At, budgets
    <2> QED BY <1>0, <2>1, MoveKeeps, QuietStep DEF Pcs, WithJournal
  <1>9. CASE BusinessEnds(a)
    <2>1. a \in Begun /\ att[a].pc = "business" /\ quiet
      BY <1>0, <1>9 DEF BusinessEnds, At, budgets
    <2>2. PICK o \in Outcomes : Becomes(a, "seal", att[a].state, att[a].active, o)
      BY <1>9 DEF BusinessEnds
    <2>3. PICK st \in States, sl \in BOOLEAN : st = att[a].state /\ sl = att[a].active
      BY <1>0, <2>1, AttemptFields
    <2>4. Becomes(a, "seal", st, sl, o)
      BY <2>2, <2>3 DEF Becomes
    <2>5. Moved(a, "seal")
      BY <1>0, <2>1, <2>4, BecomesKeeps DEF TypeOK, Pcs
    <2> QED BY <2>1, <2>5, QuietStep DEF Pcs, WithJournal
  <1>10. CASE FinishStart(a)
    <2>1. a \in Begun /\ quiet /\ MoveAs(a, "read", "FINISHING")
      BY <1>0, <1>10 DEF FinishStart, At, budgets
    <2> QED BY <1>0, <2>1, MoveAsKeeps, QuietStep DEF Pcs, States, WithJournal
  <1>11. CASE FinishRead(a)
    <2>1. a \in Begun /\ quiet /\ Move(a, "end")
      BY <1>0, <1>11 DEF FinishRead, At, budgets
    <2> QED BY <1>0, <2>1, MoveKeeps, QuietStep DEF Pcs, WithJournal
  <1>12. CASE FinishLock(a)
    <2>1. a \in Begun /\ quiet /\ Move(a, "publish")
      BY <1>0, <1>12 DEF FinishLock, At, budgets
    <2> QED BY <1>0, <2>1, MoveKeeps, QuietStep DEF Pcs, WithJournal
  <1>13. CASE FinishPublish(a)
    <2>1. a \in Begun /\ quiet /\ Move(a, "ended")
      BY <1>0, <1>13 DEF FinishPublish, At, budgets
    <2> QED BY <1>0, <2>1, MoveKeeps, QuietStep DEF Pcs, WithJournal
  <1>14. CASE FinishEnded(a)
    <2>1. a \in Begun /\ quiet /\ MoveAs(a, "retire", "ENDED")
      BY <1>0, <1>14 DEF FinishEnded, At, budgets
    <2> QED BY <1>0, <2>1, MoveAsKeeps, QuietStep DEF Pcs, States, WithJournal
  <1>15. CASE FinishFails(a)
    <2>1. a \in Begun /\ quiet /\ MoveAs(a, "retire", "UNKNOWN")
      BY <1>0, <1>15 DEF FinishFails, At, budgets
    <2> QED BY <1>0, <2>1, MoveAsKeeps, QuietStep DEF Pcs, States, WithJournal
  <1> QED BY <1>1, <1>2, <1>3, <1>4, <1>5, <1>6, <1>7, <1>8, <1>9, <1>10, <1>11, <1>12, <1>13,
             <1>14, <1>15

(* The actions that write to, mark or close a journal.                     *)
LEMMA JournalKeeps ==
    ASSUME IInv, NEW a \in Attempts,
           \/ AcceptCreate(a) \/ Claim(a) \/ Emit(a) \/ EmitRefused(a) \/ EmitFails(a)
           \/ Seal(a) \/ SealFails(a) \/ CloseJournal(a) \/ Retire(a)
    PROVE  IInv'
  <1> DEFINE still == active' \in Int /\ UNCHANGED <<seenBytes, reserve>>
  <1>0. TypeOK /\ active \in Int /\ jn[a] \in Journal \cup {None}
    BY DEF IInv, TypeOK
  <1>i. ASSUME NEW j, jn' = [jn EXCEPT ![a] = j]
        PROVE  jn'[a] = j /\ jn' = [jn EXCEPT ![a] = jn'[a]]
    BY <1>0, <1>i DEF TypeOK
  <1>j. ASSUME At(a, "accepted") \/ At(a, "business") \/ At(a, "seal") \/ At(a, "close")
        PROVE  a \in Begun /\ jn[a] \in Journal /\ HasRoom(jn[a])
    BY <1>j DEF IInv, JournalsExist, RoomLeft, At, WithJournal
  <1>m. ASSUME NEW fs \in SUBSET Flags, jn[a] \in Journal, HasRoom(jn[a]),
               jn' = [jn EXCEPT ![a] = Marked(@, fs)]
        PROVE  /\ jn' = [jn EXCEPT ![a] = jn'[a]]
               /\ jn'[a] \in Journal /\ HasRoom(jn'[a])
    <2>1. Marked(jn[a], fs) \in Journal /\ HasRoom(Marked(jn[a], fs))
      BY <1>m, MarkedKeeps
    <2>2. jn'[a] = Marked(jn[a], fs) /\ jn' = [jn EXCEPT ![a] = jn'[a]]
      BY <1>m, <1>0 DEF TypeOK
    <2> QED BY <2>1, <2>2
  <1>1. CASE AcceptCreate(a)
    <2>1. a \in Begun /\ still /\ Move(a, "ack")
      BY <1>0, <1>1 DEF AcceptCreate, At, budgets
    <2>2. PICK size \in Sizes : /\ Reserved(NewJournal, size)
                                /\ jn' = [jn EXCEPT ![a] = Confirmed(NewJournal, size, FALSE, {})]
      BY <1>1 DEF AcceptCreate
    <2>3. Confirmed(NewJournal, size, FALSE, {}) \in Journal
          /\ HasRoom(Confirmed(NewJournal, size, FALSE, {}))
      BY <2>2, NewJournalFits, ConfirmedKeeps
    <2>4. jn'[a] = Confirmed(NewJournal, size, FALSE, {}) /\ jn' = [jn EXCEPT ![a] = jn'[a]]
      BY <1>0, <2>2 DEF TypeOK
    <2>5. jn'[a] \in Journal /\ HasRoom(jn'[a])
      BY <2>3, <2>4
    <2> QED BY <1>0, <2>1, <2>4, <2>5, MoveKeeps, AttemptStep DEF Pcs
  <1>2. CASE Claim(a)
    <2>1. At(a, "accepted") /\ still /\ Move(a, "business")
          /\ jn' = [jn EXCEPT ![a] = Marked(@, {"claimed"})]
      BY <1>0, <1>2 DEF Claim, budgets
    <2>2. a \in Begun /\ jn' = [jn EXCEPT ![a] = jn'[a]] /\ jn'[a] \in Journal /\ HasRoom(jn'[a])
      BY <1>j, <1>m, <2>1 DEF Flags
    <2> QED BY <1>0, <2>1, <2>2, MoveKeeps, AttemptStep DEF Pcs
  <1>3. CASE Emit(a)
    <2>1. At(a, "business") /\ UNCHANGED <<att, budgets>>
      BY <1>3 DEF Emit
    <2>2. PICK size \in Sizes : /\ Reserved(jn[a], size)
                                /\ jn' = [jn EXCEPT ![a] = Confirmed(@, size, TRUE, {})]
      BY <1>3 DEF Emit
    <2>3. Confirmed(jn[a], size, TRUE, {}) \in Journal /\ HasRoom(Confirmed(jn[a], size, TRUE, {}))
      BY <1>j, <2>1, <2>2, ConfirmedKeeps
    <2>4. jn'[a] = Confirmed(jn[a], size, TRUE, {}) /\ jn' = [jn EXCEPT ![a] = jn'[a]]
      BY <1>0, <2>2 DEF TypeOK
    <2>5. jn'[a] \in Journal /\ HasRoom(jn'[a]) /\ a \in Begun
      BY <1>j, <2>1, <2>3, <2>4
    <2> QED BY <2>1, <2>4, <2>5, JournalStep
  <1>4. CASE EmitRefused(a)
    <2>1. At(a, "business") /\ UNCHANGED <<att, budgets>>
          /\ jn' = [jn EXCEPT ![a] = Marked(@, {"failed", "scopeFailed"})]
      BY <1>4 DEF EmitRefused
    <2>2. a \in Begun /\ jn' = [jn EXCEPT ![a] = jn'[a]] /\ jn'[a] \in Journal /\ HasRoom(jn'[a])
      BY <1>j, <1>m, <2>1 DEF Flags
    <2> QED BY <2>1, <2>2, JournalStep
  <1>5. CASE EmitFails(a)
    <2>1. At(a, "business") /\ UNCHANGED <<att, budgets>>
          /\ jn' = [jn EXCEPT ![a] = Marked(@, {"failed", "scopeFailed", "poisoned"})]
      BY <1>5 DEF EmitFails
    <2>2. a \in Begun /\ jn' = [jn EXCEPT ![a] = jn'[a]] /\ jn'[a] \in Journal /\ HasRoom(jn'[a])
      BY <1>j, <1>m, <2>1 DEF Flags
    <2> QED BY <2>1, <2>2, JournalStep
  <1>6. CASE Seal(a)
    <2>1. At(a, "seal") /\ still /\ Move(a, "close")
      BY <1>0, <1>6 DEF Seal, budgets
    <2>2. PICK size \in Sizes : jn' = [jn EXCEPT ![a] = Confirmed(@, size, FALSE, {"sealed"})]
      BY <1>6 DEF Seal
    <2>3. Confirmed(jn[a], size, FALSE, {"sealed"}) \in Journal
          /\ HasRoom(Confirmed(jn[a], size, FALSE, {"sealed"}))
      BY <1>j, <2>1, ConfirmedKeeps DEF Flags
    <2>4. jn'[a] = Confirmed(jn[a], size, FALSE, {"sealed"}) /\ jn' = [jn EXCEPT ![a] = jn'[a]]
      BY <1>0, <2>2 DEF TypeOK
    <2>5. jn'[a] \in Journal /\ HasRoom(jn'[a]) /\ a \in Begun
      BY <1>j, <2>1, <2>3, <2>4
    <2> QED BY <1>0, <2>1, <2>4, <2>5, MoveKeeps, AttemptStep DEF Pcs
  <1>7. CASE SealFails(a)
    <2>1. At(a, "seal") /\ still /\ Move(a, "close")
          /\ (UNCHANGED jn \/ jn' = [jn EXCEPT ![a] = Marked(@, {"failed", "poisoned"})])
      BY <1>0, <1>7 DEF SealFails, budgets
    <2>2. a \in Begun /\ att[a].pc = "seal" /\ Moved(a, "close")
      BY <1>0, <2>1, MoveKeeps DEF At, Pcs
    <2>3. CASE UNCHANGED jn
      BY <2>1, <2>2, <2>3, QuietStep DEF Pcs, WithJournal
    <2>4. CASE jn' = [jn EXCEPT ![a] = Marked(@, {"failed", "poisoned"})]
      <3>1. jn' = [jn EXCEPT ![a] = jn'[a]] /\ jn'[a] \in Journal /\ HasRoom(jn'[a])
        BY <1>j, <1>m, <2>1, <2>4 DEF Flags
      <3> QED BY <2>1, <2>2, <3>1, AttemptStep DEF Pcs
    <2> QED BY <2>1, <2>3, <2>4
  <1>8. CASE CloseJournal(a)
    <2>1. At(a, "close") /\ still /\ (Move(a, "finish") \/ Move(a, "stuck"))
          /\ \/ jn' = [jn EXCEPT ![a] = Marked(@, {"closed"})]
             \/ jn' = [jn EXCEPT ![a] = Marked(@, {"closed", "failed", "closeFailed"})]
      BY <1>0, <1>8 DEF CloseJournal, budgets
    <2>2. a \in Begun /\ jn' = [jn EXCEPT ![a] = jn'[a]] /\ jn'[a] \in Journal /\ HasRoom(jn'[a])
      BY <1>j, <1>m, <2>1 DEF Flags
    <2> QED BY <1>0, <2>1, <2>2, MoveKeeps, AttemptStep DEF Pcs
  <1>9. CASE Retire(a)
    <2>1. a \in Begun /\ (Retired(a, "done") \/ Retired(a, "failed"))
      BY <1>9 DEF Retire, At
    <2>2. still /\ (Moved(a, "done") \/ Moved(a, "failed"))
      BY <1>0, <2>1, RetiredKeeps DEF Pcs
    <2>3. CASE jn[a] = None
      <3>1. jn' = jn
        BY <1>0, <1>9, <2>3 DEF Retire, TypeOK
      <3> QED BY <2>1, <2>2, <3>1, QuietStep DEF Pcs, WithJournal
    <2>4. CASE jn[a] # None
      <3>1. jn[a] \in Journal /\ HasRoom(jn[a])
        BY <1>0, <2>4 DEF IInv, RoomLeft
      <3>2. jn' = [jn EXCEPT ![a] = Marked(@, {"closed"})]
        BY <1>9, <2>4 DEF Retire
      <3>3. jn' = [jn EXCEPT ![a] = jn'[a]] /\ jn'[a] \in Journal /\ HasRoom(jn'[a])
        BY <1>m, <3>1, <3>2 DEF Flags
      <3> QED BY <2>1, <2>2, <3>3, AttemptStep DEF Pcs
    <2> QED BY <2>3, <2>4
  <1> QED BY <1>1, <1>2, <1>3, <1>4, <1>5, <1>6, <1>7, <1>8, <1>9

(* A step that touches no attempt, journal or budget.                      *)
LEMMA IdleKeeps ==
    ASSUME IInv, UNCHANGED <<att, jn, budgets>>
    PROVE  IInv'
  BY DEF IInv, TypeOK, JournalsExist, RoomLeft, HasRoom, Available, SealFits, SharesHold,
         NoReserveMissing, Begun, budgets, Attempts

LEMMA InitHolds == Init => IInv
  <1> SUFFICES ASSUME Init PROVE IInv
    OBVIOUS
  <1> USE LimitsAreNats
  <1>1. att \in Seq(AttemptRecords) /\ Len(att) = 0 /\ DOMAIN att = {}
    BY DEF Init
  <1>2. \A a \in Attempts : jn[a] = None
    BY DEF Init
  <1>3. TypeOK
    BY <1>1 DEF Init, TypeOK, Attempts
  <1>4. JournalsExist /\ NoReserveMissing
    BY <1>1 DEF JournalsExist, NoReserveMissing, Begun
  <1>5. SharesHold
    BY <1>1, RequestBudgets DEF Init, SharesHold
  <1>6. RoomLeft
    BY <1>2, NoneIsNoJournal DEF RoomLeft
  <1> QED BY <1>3, <1>4, <1>5, <1>6 DEF IInv

(* Every step of the ledger keeps the invariant.                           *)
LEMMA NextKeeps == IInv /\ [Next]_vars => IInv'
  <1> SUFFICES ASSUME IInv, [Next]_vars PROVE IInv'
    OBVIOUS
  <1>1. ASSUME NEW k \in Keys, BeginReserve(k) PROVE IInv'
    BY <1>1, BeginReserveKeeps
  <1>2. ASSUME NEW a \in Attempts,
               \/ BeginPublish(a) \/ RejectPublish(a) \/ BeginFails(a)
               \/ AcceptStart(a) \/ AcceptLock(a) \/ AcceptPublish(a) \/ AcceptFails(a)
               \/ ClaimSkipped(a) \/ BusinessEnds(a)
               \/ FinishStart(a) \/ FinishRead(a) \/ FinishLock(a) \/ FinishPublish(a)
               \/ FinishEnded(a) \/ FinishFails(a)
        PROVE  IInv'
    BY <1>2, RequestKeeps
  <1>3. ASSUME NEW a \in Attempts,
               \/ AcceptCreate(a) \/ Claim(a) \/ Emit(a) \/ EmitRefused(a) \/ EmitFails(a)
               \/ Seal(a) \/ SealFails(a) \/ CloseJournal(a) \/ Retire(a)
        PROVE  IInv'
    BY <1>3, JournalKeeps
  <1>4. ASSUME NEW s \in Sessions, PrefixRead(s) \/ PrefixIssue(s) PROVE IInv'
    BY <1>4, IdleKeeps DEF PrefixRead, PrefixIssue
  <1>5. CASE CloseStart \/ ClosePublish \/ CloseRefused \/ CloseCleanup
    BY <1>5, IdleKeeps DEF CloseStart, ClosePublish, CloseRefused, CloseCleanup
  <1>6. CASE UNCHANGED vars
    BY <1>6, IdleKeeps DEF vars
  <1> QED BY <1>1, <1>2, <1>3, <1>4, <1>5, <1>6 DEF Next

(* The state of the ledger is inductively well formed: types, a journal    *)
(* for every request between accept and its last close, room for the seal, *)
(* and every budget within the shares of the attempts begun.               *)
THEOREM LedgerInvariant == Spec => []IInv
  <1> QED BY InitHolds, NextKeeps, PTL DEF Spec

(* A set of subsets of a finite set has a smallest member: the induction   *)
(* the sums below need.                                                    *)
LEMMA SmallestSet ==
    ASSUME NEW S, IsFiniteSet(S), NEW B, B \subseteq SUBSET S, B # {}
    PROVE  \E T \in B : \A U \in B : U \subseteq T => U = T
  <1>1. B \subseteq FiniteSubsetsOf(S)
    BY FS_FiniteSubsetsOfFinite
  <1>2. PICK T \in B : \A U \in B : ~ (<<U, T>> \in StrictSubsetOrdering(S))
    <2>1. IsWellFoundedOn(StrictSubsetOrdering(S), FiniteSubsetsOf(S))
      BY FS_StrictSubsetOrderingWellFounded
    <2> QED BY <1>1, <2>1, WFMin
  <1>3. ASSUME NEW U \in B, U \subseteq T PROVE U = T
    BY <1>2, <1>3 DEF StrictSubsetOrdering
  <1> QED BY <1>3

(* The recursion of a sum over the subsets of S.                           *)
One(s) == CHOOSE x \in s : TRUE
Sums(f, S, g) == g = [s \in SUBSET S |-> IF s = {} THEN 0 ELSE f[One(s)] + g[s \ {One(s)}]]

LEMMA OneIsIn == ASSUME NEW s, s # {} PROVE One(s) \in s
  BY DEF One

(* Two solutions agree wherever both are defined.                          *)
LEMMA SumsAgree ==
    ASSUME NEW f, NEW S, NEW T, IsFiniteSet(S), NEW g, NEW h, Sums(f, S, g), Sums(f, T, h),
           NEW U, U \subseteq S, U \subseteq T
    PROVE  g[U] = h[U]
  <1> DEFINE B == {V \in SUBSET S : V \subseteq T /\ g[V] # h[V]}
  <1>1. SUFFICES ASSUME B # {} PROVE FALSE
    OBVIOUS
  <1>2. PICK V \in B : \A W \in B : W \subseteq V => W = V
    <2>1. B \subseteq SUBSET S
      OBVIOUS
    <2> HIDE DEF B
    <2> QED BY <1>1, <2>1, SmallestSet
  <1>3. V \subseteq S /\ V \subseteq T /\ g[V] # h[V]
    OBVIOUS
  <1>4. V # {}
    BY <1>3 DEF Sums
  <1>5. One(V) \in V
    BY <1>4, OneIsIn
  <1> DEFINE W == V \ {One(V)}
  <1>6. W \subseteq S /\ W \subseteq T /\ W \subseteq V /\ W # V
    BY <1>3, <1>5
  <1>7. g[W] = h[W]
    BY <1>2, <1>6
  <1>8. g[V] = f[One(V)] + g[W] /\ h[V] = f[One(V)] + h[W]
    BY <1>3, <1>4 DEF Sums
  <1> QED BY <1>3, <1>7, <1>8

(* A solution exists.                                                      *)
LEMMA SumsExist ==
    ASSUME NEW f, NEW S, IsFiniteSet(S)
    PROVE  \E g : Sums(f, S, g)
  <1> DEFINE B == {V \in SUBSET S : ~ \E g : Sums(f, V, g)}
  <1>1. SUFFICES ASSUME B # {} PROVE FALSE
    OBVIOUS
  <1>2. PICK V \in B : \A W \in B : W \subseteq V => W = V
    <2>1. B \subseteq SUBSET S
      OBVIOUS
    <2> HIDE DEF B
    <2> QED BY <1>1, <2>1, SmallestSet
  <1> DEFINE Sol(W) == CHOOSE g : Sums(f, W, g)
  <1>3. ASSUME NEW W \in SUBSET V, W # V PROVE Sums(f, W, Sol(W))
    <2>1. \E g : Sums(f, W, g)
      BY <1>2, <1>3
    <2> QED BY <2>1
  <1> DEFINE g == [s \in SUBSET V |-> IF s = {} THEN 0 ELSE f[One(s)] + Sol(s \ {One(s)})[s \ {One(s)}]]
  <1> HIDE DEF Sol
  <1>4. ASSUME NEW s \in SUBSET V, s # V PROVE g[s] = Sol(s)[s]
    <2>1. Sums(f, s, Sol(s))
      BY <1>3, <1>4
    <2>2. CASE s = {}
      BY <2>1, <2>2 DEF Sums
    <2>3. CASE s # {}
      <3> DEFINE r == s \ {One(s)}
      <3>1. One(s) \in s /\ r \subseteq s /\ r \subseteq V /\ r # V
        BY <2>3, OneIsIn, <1>4
      <3>2. Sums(f, r, Sol(r))
        BY <1>3, <3>1
      <3>3. Sol(s)[s] = f[One(s)] + Sol(s)[r]
        BY <2>1, <2>3 DEF Sums
      <3>4. IsFiniteSet(s) /\ IsFiniteSet(r)
        <4>1. s \in SUBSET S /\ r \in SUBSET S
          BY <3>1
        <4> QED BY <4>1, FS_Subset
      <3>5. Sol(s)[r] = Sol(r)[r]
        BY <2>1, <3>1, <3>2, <3>4, SumsAgree
      <3> QED BY <2>3, <3>3, <3>5
    <2> QED BY <2>2, <2>3
  <1>5. Sums(f, V, g)
    <2>1. ASSUME NEW s \in SUBSET V, s # {} PROVE g[s] = f[One(s)] + g[s \ {One(s)}]
      <3>1. One(s) \in s /\ s \ {One(s)} \in SUBSET V /\ s \ {One(s)} # V
        BY <2>1, OneIsIn
      <3>2. g[s \ {One(s)}] = Sol(s \ {One(s)})[s \ {One(s)}]
        BY <1>4, <3>1
      <3> QED BY <2>1, <3>2
    <2>2. g[{}] = 0
      OBVIOUS
    <2>3. g = [s \in SUBSET V |-> g[s]]
      OBVIOUS
    <2> HIDE DEF g
    <2> QED BY <2>1, <2>2, <2>3 DEF Sums
  <1> QED BY <1>2, <1>5

(* A sum is the value of such a recursion.                                 *)
LEMMA SumOfSums ==
    ASSUME NEW f, NEW S, IsFiniteSet(S)
    PROVE \E g : Sums(f, S, g) /\ SumFunctionOnSet(f, S) = g[S]
  <1> DEFINE h == CHOOSE g : Sums(f, S, g)
  <1>1. Sums(f, S, h)
    BY SumsExist
  <1>2. SumFunctionOnSet(f, S) = h[S]
    BY DEF SumFunctionOnSet, FoldFunctionOnSet, MapThenFoldSet, Sums, One
  <1> QED BY <1>1, <1>2

LEMMA SumOfNothing == ASSUME NEW f PROVE SumFunctionOnSet(f, {}) = 0
  <1>1. IsFiniteSet({})
    BY FS_EmptySet
  <1>2. PICK g : Sums(f, {}, g) /\ SumFunctionOnSet(f, {}) = g[{}]
    BY <1>1, SumOfSums
  <1> QED BY <1>2 DEF Sums

(* The sum is a number, and does not depend on the order.                  *)
LEMMA SumTakes ==
    ASSUME NEW f, NEW S, IsFiniteSet(S), \A s \in S : f[s] \in Nat
    PROVE  /\ SumFunctionOnSet(f, S) \in Nat
           /\ \A x \in S : SumFunctionOnSet(f, S) = f[x] + SumFunctionOnSet(f, S \ {x})
  <1> DEFINE Takes(V) == /\ SumFunctionOnSet(f, V) \in Nat
                         /\ \A x \in V : SumFunctionOnSet(f, V) = f[x] + SumFunctionOnSet(f, V \ {x})
             B == {V \in SUBSET S : ~ Takes(V)}
  <1>1. SUFFICES ASSUME B # {} PROVE FALSE
    OBVIOUS
  <1>2. PICK V \in B : \A W \in B : W \subseteq V => W = V
    <2>1. B \subseteq SUBSET S
      OBVIOUS
    <2> HIDE DEF B
    <2> QED BY <1>1, <2>1, SmallestSet
  <1>3. ASSUME NEW W \in SUBSET V, W # V PROVE Takes(W)
    BY <1>2, <1>3
  <1>4. ~Takes(V) /\ V \subseteq S
    OBVIOUS
  <1> HIDE DEF Takes, B
  <1>5. V # {}
    BY <1>4, SumOfNothing DEF Takes
  <1> DEFINE y == One(V)
             R == V \ {y}
  <1>6. y \in V /\ R \in SUBSET V /\ R # V
    BY <1>5, OneIsIn
  <1>7. SumFunctionOnSet(f, V) = f[y] + SumFunctionOnSet(f, R)
    <2>1. IsFiniteSet(V) /\ IsFiniteSet(R)
      <3>1. V \in SUBSET S /\ R \in SUBSET S
        BY <1>4, <1>6
      <3> QED BY <3>1, FS_Subset
    <2>2. PICK g : Sums(f, V, g) /\ SumFunctionOnSet(f, V) = g[V]
      BY <2>1, SumOfSums
    <2>3. PICK h : Sums(f, R, h) /\ SumFunctionOnSet(f, R) = h[R]
      BY <2>1, SumOfSums
    <2>4. g[R] = h[R]
      <3>1. R \subseteq V /\ R \subseteq R
        BY <1>6
      <3> QED BY <2>1, <2>2, <2>3, <3>1, SumsAgree
    <2>5. g[V] = f[y] + g[R]
      BY <1>5, <2>2 DEF Sums
    <2> QED BY <2>2, <2>3, <2>4, <2>5
  <1> HIDE DEF y, R
  <1>8. f[y] \in Nat /\ SumFunctionOnSet(f, R) \in Nat
    BY <1>3, <1>4, <1>6 DEF Takes
  <1>9. ASSUME NEW x \in V PROVE SumFunctionOnSet(f, V) = f[x] + SumFunctionOnSet(f, V \ {x})
    <2>1. CASE x = y
      BY <1>7, <2>1 DEF R
    <2>2. CASE x # y
      <3> DEFINE Q == V \ {x}
                 P == V \ {x, y}
      <3>1. P = R \ {x} /\ P = Q \ {y} /\ x \in R /\ y \in Q /\ Q \in SUBSET V /\ Q # V
            /\ P \in SUBSET V /\ P # V
        BY <1>6, <2>2 DEF R
      <3>2. SumFunctionOnSet(f, R) = f[x] + SumFunctionOnSet(f, P)
        BY <1>3, <1>6, <3>1 DEF Takes
      <3>3. SumFunctionOnSet(f, Q) = f[y] + SumFunctionOnSet(f, P)
        BY <1>3, <3>1 DEF Takes
      <3>4. f[x] \in Nat /\ SumFunctionOnSet(f, P) \in Nat
        BY <1>3, <1>4, <3>1 DEF Takes
      <3> QED BY <1>7, <1>8, <3>2, <3>3, <3>4
    <2> QED BY <2>1, <2>2
  <1>10. SumFunctionOnSet(f, V) \in Nat
    BY <1>7, <1>8
  <1> QED BY <1>4, <1>9, <1>10 DEF Takes

(* Sums of equal numbers are equal, and a sum is at most its largest       *)
(* summand times their number.                                             *)
LEMMA SumOfSame ==
    ASSUME NEW f, NEW g, NEW S, IsFiniteSet(S), \A s \in S : f[s] \in Nat /\ g[s] = f[s]
    PROVE  SumFunctionOnSet(f, S) = SumFunctionOnSet(g, S)
  <1> DEFINE Same(V) == SumFunctionOnSet(f, V) = SumFunctionOnSet(g, V)
             B == {V \in SUBSET S : ~ Same(V)}
  <1>1. SUFFICES ASSUME B # {} PROVE FALSE
    OBVIOUS
  <1>2. PICK V \in B : \A W \in B : W \subseteq V => W = V
    <2>1. B \subseteq SUBSET S
      OBVIOUS
    <2> HIDE DEF B
    <2> QED BY <1>1, <2>1, SmallestSet
  <1>3. ASSUME NEW W \in SUBSET V, W # V PROVE Same(W)
    BY <1>2, <1>3
  <1>4. ~Same(V) /\ V \in SUBSET S
    OBVIOUS
  <1> HIDE DEF Same, B
  <1>5. V # {}
    BY <1>4, SumOfNothing DEF Same
  <1>6. PICK y \in V : TRUE
    BY <1>5
  <1>7. IsFiniteSet(V) /\ \A s \in V : f[s] \in Nat /\ g[s] = f[s]
    BY <1>4, FS_Subset
  <1>8. SumFunctionOnSet(f, V) = f[y] + SumFunctionOnSet(f, V \ {y})
    BY <1>7, SumTakes
  <1>9. SumFunctionOnSet(g, V) = g[y] + SumFunctionOnSet(g, V \ {y})
    BY <1>7, SumTakes
  <1>10. Same(V \ {y})
    <2>1. V \ {y} \in SUBSET V /\ V \ {y} # V
      OBVIOUS
    <2> QED BY <1>3, <2>1
  <1> QED BY <1>4, <1>7, <1>8, <1>9, <1>10 DEF Same

(* A sum is at most its largest summand times their number.                *)
LEMMA SumOfBounded ==
    ASSUME NEW f, NEW S, IsFiniteSet(S), NEW m \in Nat, \A s \in S : f[s] \in Nat /\ f[s] <= m
    PROVE  SumFunctionOnSet(f, S) <= Cardinality(S) * m
  <1> DEFINE Bounded(V) == SumFunctionOnSet(f, V) <= Cardinality(V) * m
             B == {V \in SUBSET S : ~ Bounded(V)}
  <1>1. SUFFICES ASSUME B # {} PROVE FALSE
    OBVIOUS
  <1>2. PICK V \in B : \A W \in B : W \subseteq V => W = V
    <2>1. B \subseteq SUBSET S
      OBVIOUS
    <2> HIDE DEF B
    <2> QED BY <1>1, <2>1, SmallestSet
  <1>3. ASSUME NEW W \in SUBSET V, W # V PROVE Bounded(W)
    BY <1>2, <1>3
  <1>4. ~Bounded(V) /\ V \in SUBSET S
    OBVIOUS
  <1> HIDE DEF Bounded, B
  <1>5. V # {}
    <2>1. 0 <= Cardinality({}) * m
      BY FS_EmptySet
    <2> QED BY <1>4, <2>1, SumOfNothing DEF Bounded
  <1>6. PICK y \in V : TRUE
    BY <1>5
  <1> DEFINE R == V \ {y}
             k == Cardinality(R)
  <1>7. IsFiniteSet(V) /\ \A s \in V : f[s] \in Nat /\ f[s] <= m
    BY <1>4, FS_Subset
  <1>8. IsFiniteSet(R) /\ k \in Nat /\ Cardinality(V) = k + 1
    <2>1. Cardinality(V) \in Nat /\ Cardinality(R) = Cardinality(V) - 1 /\ IsFiniteSet(R)
      BY <1>7, FS_RemoveElement, FS_CardinalityType
    <2> QED BY <2>1, FS_CardinalityType
  <1>9. SumFunctionOnSet(f, V) = f[y] + SumFunctionOnSet(f, R) /\ SumFunctionOnSet(f, R) \in Nat
    <2>1. \A s \in R : f[s] \in Nat
      BY <1>7
    <2> QED BY <1>7, <1>8, <2>1, SumTakes
  <1>10. SumFunctionOnSet(f, R) <= k * m
    <2>1. R \in SUBSET V /\ R # V
      OBVIOUS
    <2> QED BY <1>3, <2>1 DEF Bounded
  <1> HIDE DEF k, R
  <1>11. (k + 1) * m = k * m + m /\ k * m \in Nat
    BY <1>8
  <1>12. f[y] \in Nat /\ f[y] <= m
    BY <1>7
  <1> QED BY <1>4, <1>8, <1>9, <1>10, <1>11, <1>12 DEF Bounded

(* The bytes of a chain grow by the record appended to it.                 *)
Originals == [kind : {"accept", "event", "seal"}, seq : Nat, prev : Nat, size : Sizes,
              status : {"COMPLETE", "FAILED", None}, outcome : Outcomes \cup {None}, events : Nat]

LEMMA SizesAreNats == Sizes \subseteq Nat
  BY SizesEncode, RequestBudgets

(* The bytes of a chain are a sum over its positions.                      *)
LEMMA BytesOfSum ==
    ASSUME NEW c \in Seq(Originals)
    PROVE  /\ Bytes(c) = SumFunctionOnSet([i \in DOMAIN c |-> c[i].size], 1..Len(c))
           /\ IsFiniteSet(1..Len(c))
           /\ \A i \in 1..Len(c) : [k \in DOMAIN c |-> c[k].size][i] = c[i].size /\ c[i].size \in Nat
  <1>1. DOMAIN c = 1..Len(c) /\ Len(c) \in Nat
    OBVIOUS
  <1>2. DOMAIN [i \in DOMAIN c |-> c[i].size] = 1..Len(c)
    BY <1>1
  <1>3. \A i \in 1..Len(c) : c[i] \in Originals
    OBVIOUS
  <1>4. \A i \in 1..Len(c) : c[i].size \in Nat
    BY <1>3, SizesAreNats DEF Originals
  <1> QED BY <1>1, <1>2, <1>4, FS_Interval DEF Bytes, SumFunction

(* They grow by the record appended.                                       *)
LEMMA BytesAppend ==
    ASSUME NEW c \in Seq(Originals), NEW r \in Originals
    PROVE  Bytes(c) \in Nat /\ Bytes(Append(c, r)) = Bytes(c) + r.size
  <1> DEFINE d == Append(c, r)
             n == Len(c)
             f == [i \in DOMAIN c |-> c[i].size]
             g == [i \in DOMAIN d |-> d[i].size]
  <1>1. /\ d \in Seq(Originals) /\ Len(d) = n + 1 /\ n \in Nat /\ d[n + 1] = r
        /\ \A i \in 1..n : d[i] = c[i]
    OBVIOUS
  <1>2. /\ Bytes(c) = SumFunctionOnSet(f, 1..n) /\ IsFiniteSet(1..n)
        /\ \A i \in 1..n : f[i] = c[i].size /\ c[i].size \in Nat
    BY BytesOfSum
  <1>3. /\ Bytes(d) = SumFunctionOnSet(g, 1..Len(d)) /\ IsFiniteSet(1..Len(d))
        /\ \A i \in 1..Len(d) : g[i] = d[i].size /\ d[i].size \in Nat
    <2> HIDE DEF d
    <2> QED BY <1>1, BytesOfSum
  <1> HIDE DEF d, f, g
  <1>4. \A i \in 1..n : f[i] \in Nat /\ g[i] = f[i]
    BY <1>1, <1>2, <1>3
  <1>5. SumFunctionOnSet(f, 1..n) \in Nat
    BY <1>2, <1>4, SumTakes
  <1>6. SumFunctionOnSet(f, 1..n) = SumFunctionOnSet(g, 1..n)
    BY <1>2, <1>4, SumOfSame
  <1>7. SumFunctionOnSet(g, 1..(n + 1)) = g[n + 1] + SumFunctionOnSet(g, (1..(n + 1)) \ {n + 1})
    <2>1. \A i \in 1..(n + 1) : g[i] \in Nat
      BY <1>1, <1>3
    <2> QED BY <1>1, <1>3, <2>1, SumTakes
  <1>8. (1..(n + 1)) \ {n + 1} = 1..n
    BY <1>1
  <1>9. g[n + 1] = r.size /\ r.size \in Nat
    BY <1>1, <1>3
  <1>10. Bytes(d) = SumFunctionOnSet(g, 1..(n + 1))
    BY <1>1, <1>3
  <1>11. Bytes(c) = SumFunctionOnSet(g, 1..n) /\ Bytes(c) \in Nat
    BY <1>2, <1>5, <1>6
  <1>12. Bytes(d) = r.size + Bytes(c)
    BY <1>7, <1>8, <1>9, <1>10, <1>11
  <1>13. Bytes(d) = Bytes(c) + r.size
    BY <1>9, <1>11, <1>12
  <1> QED BY <1>11, <1>13 DEF d

LEMMA BytesOfNone == \A c \in Seq(Originals) : Len(c) = 0 => Bytes(c) = 0
  <1> SUFFICES ASSUME NEW c \in Seq(Originals), Len(c) = 0 PROVE Bytes(c) = 0
    OBVIOUS
  <1> DEFINE f == [i \in DOMAIN c |-> c[i].size]
  <1>1. 1..Len(c) = {}
    OBVIOUS
  <1>2. Bytes(c) = SumFunctionOnSet(f, 1..Len(c))
    BY BytesOfSum
  <1> HIDE DEF f
  <1> QED BY <1>1, <1>2, SumOfNothing

(***************************************************************************)
(* Where an attempt can be                                                 *)
(***************************************************************************)
(* An attempt occupies a slot from begin to retire, ...                    *)
Slotted == {"begun", "create", "ack", "acknowledge", "accepted", "business", "seal", "close",
            "finish", "read", "end", "publish", "ended", "retire", "stuck"}

(* ... and holds the catalog lock around its publications.                 *)
Locking == {"begin", "reject", "acknowledge", "publish"}

Lives == {"open", "closing", "published", "closed"}

(* Place p, state st and slot sl of a request that was (not) admitted, in  *)
(* a ledger that may be lost.                                              *)
Suits(p, st, sl, new, lost) ==
    /\ st = "ENDED" => p \in {"retire", "done"}
    /\ st = "UNKNOWN" => p \in {"retire", "failed"}
    /\ p = "done" => st = "ENDED"
    /\ p = "retire" => st \in {"ENDED", "UNKNOWN"}
    /\ p = "failed" \/ st = "UNKNOWN" => lost
    /\ p \in Slotted => sl /\ new
    /\ p = "begin" => sl = new
    /\ p = "reject" => ~sl /\ ~new
    /\ p \in {"done", "failed"} => ~sl

Suited == \A a \in Begun :
             Suits(att[a].pc, att[a].state, att[a].active, att[a].reason = "NONE", unknown)

SlotsCounted == active = Cardinality({a \in Begun : att[a].active})

LockFits ==
    /\ lock \in Begun \cup {None, Closer} /\ unknown \in BOOLEAN /\ life \in Lives
    /\ \A a \in Begun : att[a].pc \in Locking <=> lock = a
    /\ lock = Closer <=> life \in {"closing", "published"}

(* Only the last attempt begun can be in begin; close waits for the others. *)
InOrder ==
    /\ \A a \in Begun : att[a].pc = "begin" => a = Len(att)
    /\ life # "open" => \A a \in Begun : att[a].pc \in {"done", "failed"}

(* A key is a duplicate if an earlier attempt brought it.                  *)
Duplicates == \A a \in Begun :
    att[a].reason = "DUPLICATE" <=> (\E b \in Begun : b < a /\ att[b].key = att[a].key)

Placed == Suited /\ SlotsCounted /\ LockFits /\ InOrder /\ Duplicates

(* Attempt a goes on; its key and its reason stay, and so do the others.   *)
Going(a, p, st, sl, o) ==
    /\ a \in Begun
    /\ att' \in Seq(AttemptRecords) /\ Len(att') = Len(att) /\ Begun' = Begun
    /\ att'[a].key = att[a].key /\ att'[a].reason = att[a].reason
    /\ att'[a].pc = p /\ att'[a].state = st /\ att'[a].active = sl /\ att'[a].outcome = o
    /\ \A b \in Begun : b # a => att'[b] = att[b]

(* How the actions move an attempt.                                        *)
LEMMA BecomesGoes ==
    ASSUME TypeOK, NEW a \in Begun, NEW p \in Pcs, NEW st \in States,
           NEW sl \in BOOLEAN, NEW o \in Outcomes \cup {None}, Becomes(a, p, st, sl, o)
    PROVE  Going(a, p, st, sl, o)
  <1> DEFINE r == [key |-> att[a].key, reason |-> att[a].reason, state |-> st,
                   active |-> sl, pc |-> p, outcome |-> o]
  <1>1. r \in AttemptRecords
    BY AttemptFields DEF AttemptRecords
  <1>2. att' = [att EXCEPT ![a] = r]
    BY DEF Becomes
  <1>3. /\ r.key = att[a].key /\ r.reason = att[a].reason /\ r.pc = p /\ r.state = st
        /\ r.active = sl /\ r.outcome = o
    OBVIOUS
  <1> HIDE DEF r
  <1> QED BY <1>1, <1>2, <1>3 DEF Begun, Going, TypeOK

LEMMA MoveGoes ==
    ASSUME TypeOK, NEW a \in Begun, NEW p \in Pcs, Move(a, p)
    PROVE  Going(a, p, att[a].state, att[a].active, att[a].outcome)
  <1>1. /\ att[a].state \in States /\ att[a].active \in BOOLEAN
        /\ att[a].outcome \in Outcomes \cup {None}
    BY AttemptFields
  <1>2. Becomes(a, p, att[a].state, att[a].active, att[a].outcome)
    BY DEF Move
  <1> QED BY <1>1, <1>2, BecomesGoes

LEMMA MoveAsGoes ==
    ASSUME TypeOK, NEW a \in Begun, NEW p \in Pcs, NEW st \in States, MoveAs(a, p, st)
    PROVE  Going(a, p, st, att[a].active, att[a].outcome)
  <1>1. att[a].active \in BOOLEAN /\ att[a].outcome \in Outcomes \cup {None}
    BY AttemptFields
  <1>2. Becomes(a, p, st, att[a].active, att[a].outcome)
    BY DEF MoveAs
  <1> QED BY <1>1, <1>2, BecomesGoes

LEMMA RetiredGoes ==
    ASSUME TypeOK, NEW a \in Begun, NEW p \in Pcs, Retired(a, p)
    PROVE  /\ Going(a, p, att[a].state, FALSE, att[a].outcome)
           /\ active' = active - (IF att[a].active THEN 1 ELSE 0)
  <1>1. att[a].state \in States /\ att[a].outcome \in Outcomes \cup {None}
    BY AttemptFields
  <1>2. Becomes(a, p, att[a].state, FALSE, att[a].outcome)
    BY DEF Retired
  <1> QED BY <1>1, <1>2, BecomesGoes DEF Retired

LEMMA BegunIsFinite ==
    ASSUME TypeOK
    PROVE  /\ Len(att) \in Nat /\ Begun = 1..Len(att) /\ IsFiniteSet(Begun)
           /\ \A a \in Begun : a \in Nat /\ a # None /\ a # Closer
  <1>1. Len(att) \in Nat /\ Begun = 1..Len(att)
    BY DEF TypeOK, Begun
  <1>2. IsFiniteSet(1..Len(att))
    BY <1>1, FS_Interval
  <1>3. \A a \in 1..Len(att) : a \in Nat /\ a # None /\ a # Closer
    BY <1>1, NoneIsNoLock DEF Closer
  <1> QED BY <1>1, <1>2, <1>3

(* The slots in use are finitely many.                                     *)
LEMMA CountsAreInts ==
    ASSUME TypeOK
    PROVE  /\ IsFiniteSet({b \in Begun : att[b].active})
           /\ Cardinality({b \in Begun : att[b].active}) \in Nat
  <1>1. IsFiniteSet({b \in Begun : att[b].active})
    BY BegunIsFinite, FS_Subset
  <1> QED BY <1>1, FS_CardinalityType

(* A step of a request.                                                    *)
LEMMA PlacedStep ==
    ASSUME TypeOK, Placed, NEW a \in Begun, NEW p, NEW st, NEW sl \in BOOLEAN, NEW o,
           Going(a, p, st, sl, o), Suits(p, st, sl, att[a].reason = "NONE", unknown'),
           att[a].pc \notin {"done", "failed"}, p # "begin",
           unknown => unknown', unknown' \in BOOLEAN, life' = life,
           sl => att[a].active,
           active' = active - (IF att[a].active /\ ~sl THEN 1 ELSE 0),
           p \in Locking => lock \in {None, a},
           lock' = IF p \in Locking THEN a ELSE IF lock = a THEN None ELSE lock
    PROVE  Placed'
  <1>0. /\ Len(att) \in Nat /\ Begun = 1..Len(att) /\ Begun' = Begun /\ Len(att') = Len(att)
        /\ \A b \in Begun : b \in Nat /\ b # None /\ b # Closer
    BY BegunIsFinite DEF Going
  <1>1. /\ att'[a].key = att[a].key /\ att'[a].reason = att[a].reason
        /\ att'[a].pc = p /\ att'[a].state = st /\ att'[a].active = sl
        /\ \A b \in Begun : b # a => att'[b] = att[b]
    BY DEF Going
  <1>2. life = "open"
    BY DEF Placed, InOrder
  <1>3. Suited'
    <2> SUFFICES ASSUME NEW b \in Begun
                 PROVE  Suits(att'[b].pc, att'[b].state, att'[b].active, att'[b].reason = "NONE", unknown')
      BY <1>0 DEF Suited, Suits
    <2>1. CASE b = a
      BY <1>1, <2>1
    <2>2. CASE b # a
      BY <1>1, <2>2 DEF Placed, Suited, Suits
    <2> QED BY <2>1, <2>2
  <1>4. SlotsCounted'
    <2> DEFINE S == {b \in Begun : att[b].active}
               T == {b \in Begun' : att'[b].active}
    <2>1. IsFiniteSet(S) /\ Cardinality(S) \in Nat /\ active = Cardinality(S)
      BY CountsAreInts DEF Placed, SlotsCounted
    <2>2. T = IF sl THEN S ELSE S \ {a}
      <3>1. a \in S <=> att[a].active
        OBVIOUS
      <3>2. \A b \in Begun : b # a => (b \in T <=> b \in S)
        BY <1>0, <1>1
      <3>3. a \in T <=> sl
        BY <1>0, <1>1
      <3>4. T \subseteq Begun /\ S \subseteq Begun
        BY <1>0
      <3> HIDE DEF S, T
      <3> QED BY <3>1, <3>2, <3>3, <3>4
    <2>3. Cardinality(T) = IF sl THEN Cardinality(S)
                           ELSE IF a \in S THEN Cardinality(S) - 1 ELSE Cardinality(S)
      <3> HIDE DEF S, T
      <3> QED BY <2>1, <2>2, FS_RemoveElement
    <2>4. a \in S <=> att[a].active
      OBVIOUS
    <2>5. active' = Cardinality(T)
      <3> HIDE DEF S, T
      <3> QED BY <2>1, <2>3, <2>4
    <2> QED BY <2>5 DEF SlotsCounted
  <1>5. LockFits'
    <2>1. /\ lock \in Begun \cup {None, Closer} /\ (lock = Closer <=> life \in {"closing", "published"})
          /\ \A b \in Begun : att[b].pc \in Locking <=> lock = b
      BY DEF Placed, LockFits
    <2>2. lock # Closer /\ None # Closer
      BY <1>2, <2>1, NoneIsNoLock DEF Closer
    <2>3. lock' \in Begun \cup {None} /\ lock' # Closer
      BY <1>0, <2>1, <2>2
    <2>4. ASSUME NEW b \in Begun PROVE att'[b].pc \in Locking <=> lock' = b
      BY <1>0, <1>1, <2>1, <2>4
    <2> QED BY <1>0, <1>2, <2>3, <2>4 DEF LockFits, Lives
  <1>6. InOrder'
    BY <1>0, <1>1, <1>2 DEF Placed, InOrder
  <1>7. Duplicates'
    <2> SUFFICES ASSUME NEW b \in Begun
                 PROVE  att'[b].reason = "DUPLICATE" <=> (\E c \in Begun : c < b /\ att'[c].key = att'[b].key)
      BY <1>0 DEF Duplicates
    <2>1. \A c \in Begun : att'[c].key = att[c].key /\ att'[c].reason = att[c].reason
      BY <1>1
    <2>2. att[b].reason = "DUPLICATE" <=> (\E c \in Begun : c < b /\ att[c].key = att[b].key)
      BY DEF Placed, Duplicates
    <2> QED BY <2>1, <2>2
  <1> QED BY <1>3, <1>4, <1>5, <1>6, <1>7 DEF Placed

(* A step that moves no request and no lock.                               *)
LEMMA PlacedStill ==
    ASSUME Placed, UNCHANGED <<att, active, lock, life>>, unknown => unknown', unknown' \in BOOLEAN
    PROVE  Placed'
  <1>1. Suited'
    BY DEF Placed, Suited, Suits, Begun
  <1> QED BY <1>1 DEF Placed, SlotsCounted, LockFits, InOrder, Duplicates, Begun

(* ... which most steps leave to it.                                       *)
LEMMA PlacedGoes ==
    ASSUME TypeOK, Placed, NEW a \in Begun, NEW p, NEW st, NEW o,
           Going(a, p, st, att[a].active, o),
           Suits(p, st, att[a].active, att[a].reason = "NONE", unknown'),
           att[a].pc \notin {"done", "failed"}, p # "begin",
           unknown => unknown', unknown' \in BOOLEAN, life' = life, active' = active,
           p \in Locking => lock \in {None, a},
           lock' = IF p \in Locking THEN a ELSE IF lock = a THEN None ELSE lock
    PROVE  Placed'
  <1>1. PICK sl \in BOOLEAN : sl = att[a].active
    BY AttemptFields
  <1>2. active' = active - (IF att[a].active /\ ~sl THEN 1 ELSE 0)
    BY <1>1 DEF TypeOK
  <1>3. Going(a, p, st, sl, o) /\ Suits(p, st, sl, att[a].reason = "NONE", unknown')
    BY <1>1
  <1>4. sl => att[a].active
    BY <1>1
  <1> QED BY <1>2, <1>3, <1>4, PlacedStep

(* The path of a request: attempt a goes from one place to another.        *)
Walks(a, from, to, st) ==
    a \in Begun /\ att[a].pc = from /\ Going(a, to, st, att[a].active, att[a].outcome)

(* Where each action of a request takes it, and what it leaves alone.      *)
LEMMA RejectPublishWalks ==
    ASSUME TypeOK, NEW a \in Attempts, RejectPublish(a)
    PROVE  Walks(a, "reject", "done", "ENDED")
  <1>1. a \in Begun /\ att[a].pc = "reject"
    BY DEF RejectPublish, At
  <1>2. MoveAs(a, "done", "ENDED")
    BY DEF RejectPublish
  <1> QED BY <1>1, <1>2, MoveAsGoes DEF Walks, Pcs, States

LEMMA AcceptStartWalks ==
    ASSUME TypeOK, NEW a \in Attempts, AcceptStart(a)
    PROVE  \/ Walks(a, "begun", "create", "ACCEPTING")
           \/ Walks(a, "begun", "stuck", att[a].state)
  <1>1. a \in Begun /\ att[a].pc = "begun"
    BY DEF AcceptStart, At
  <1>2. MoveAs(a, "create", "ACCEPTING") \/ Move(a, "stuck")
    BY DEF AcceptStart
  <1> QED BY <1>1, <1>2, MoveAsGoes, MoveGoes DEF Walks, Pcs, States

LEMMA AcceptCreateWalks ==
    ASSUME TypeOK, NEW a \in Attempts, AcceptCreate(a)
    PROVE  Walks(a, "create", "ack", att[a].state)
  <1>1. a \in Begun /\ att[a].pc = "create"
    BY DEF AcceptCreate, At
  <1>2. Move(a, "ack")
    BY DEF AcceptCreate
  <1> QED BY <1>1, <1>2, MoveGoes DEF Walks, Pcs, States

LEMMA AcceptLockWalks ==
    ASSUME TypeOK, NEW a \in Attempts, AcceptLock(a)
    PROVE  Walks(a, "ack", "acknowledge", att[a].state)
  <1>1. a \in Begun /\ att[a].pc = "ack"
    BY DEF AcceptLock, At
  <1>2. Move(a, "acknowledge")
    BY DEF AcceptLock
  <1> QED BY <1>1, <1>2, MoveGoes DEF Walks, Pcs, States

LEMMA AcceptPublishWalks ==
    ASSUME TypeOK, NEW a \in Attempts, AcceptPublish(a)
    PROVE  Walks(a, "acknowledge", "accepted", "ACCEPTED")
  <1>1. a \in Begun /\ att[a].pc = "acknowledge"
    BY DEF AcceptPublish, At
  <1>2. MoveAs(a, "accepted", "ACCEPTED")
    BY DEF AcceptPublish
  <1> QED BY <1>1, <1>2, MoveAsGoes DEF Walks, Pcs, States

LEMMA ClaimWalks ==
    ASSUME TypeOK, NEW a \in Attempts, Claim(a)
    PROVE  Walks(a, "accepted", "business", att[a].state)
  <1>1. a \in Begun /\ att[a].pc = "accepted"
    BY DEF Claim, At
  <1>2. Move(a, "business")
    BY DEF Claim
  <1> QED BY <1>1, <1>2, MoveGoes DEF Walks, Pcs, States

LEMMA ClaimSkippedWalks ==
    ASSUME TypeOK, NEW a \in Attempts, ClaimSkipped(a)
    PROVE  Walks(a, "accepted", "stuck", att[a].state)
  <1>1. a \in Begun /\ att[a].pc = "accepted"
    BY DEF ClaimSkipped, At
  <1>2. Move(a, "stuck")
    BY DEF ClaimSkipped
  <1> QED BY <1>1, <1>2, MoveGoes DEF Walks, Pcs, States

LEMMA SealWalks ==
    ASSUME TypeOK, NEW a \in Attempts, Seal(a)
    PROVE  Walks(a, "seal", "close", att[a].state)
  <1>1. a \in Begun /\ att[a].pc = "seal"
    BY DEF Seal, At
  <1>2. Move(a, "close")
    BY DEF Seal
  <1> QED BY <1>1, <1>2, MoveGoes DEF Walks, Pcs, States

LEMMA SealFailsWalks ==
    ASSUME TypeOK, NEW a \in Attempts, SealFails(a)
    PROVE  Walks(a, "seal", "close", att[a].state)
  <1>1. a \in Begun /\ att[a].pc = "seal"
    BY DEF SealFails, At
  <1>2. Move(a, "close")
    BY DEF SealFails
  <1> QED BY <1>1, <1>2, MoveGoes DEF Walks, Pcs, States

LEMMA CloseJournalWalks ==
    ASSUME TypeOK, NEW a \in Attempts, CloseJournal(a)
    PROVE  \/ Walks(a, "close", "finish", att[a].state)
           \/ Walks(a, "close", "stuck", att[a].state)
  <1>1. a \in Begun /\ att[a].pc = "close"
    BY DEF CloseJournal, At
  <1>2. Move(a, "finish") \/ Move(a, "stuck")
    BY DEF CloseJournal
  <1> QED BY <1>1, <1>2, MoveGoes DEF Walks, Pcs, States

LEMMA FinishStartWalks ==
    ASSUME TypeOK, NEW a \in Attempts, FinishStart(a)
    PROVE  Walks(a, "finish", "read", "FINISHING")
  <1>1. a \in Begun /\ att[a].pc = "finish"
    BY DEF FinishStart, At
  <1>2. MoveAs(a, "read", "FINISHING")
    BY DEF FinishStart
  <1> QED BY <1>1, <1>2, MoveAsGoes DEF Walks, Pcs, States

LEMMA FinishReadWalks ==
    ASSUME TypeOK, NEW a \in Attempts, FinishRead(a)
    PROVE  Walks(a, "read", "end", att[a].state)
  <1>1. a \in Begun /\ att[a].pc = "read"
    BY DEF FinishRead, At
  <1>2. Move(a, "end")
    BY DEF FinishRead
  <1> QED BY <1>1, <1>2, MoveGoes DEF Walks, Pcs, States

LEMMA FinishLockWalks ==
    ASSUME TypeOK, NEW a \in Attempts, FinishLock(a)
    PROVE  Walks(a, "end", "publish", att[a].state)
  <1>1. a \in Begun /\ att[a].pc = "end"
    BY DEF FinishLock, At
  <1>2. Move(a, "publish")
    BY DEF FinishLock
  <1> QED BY <1>1, <1>2, MoveGoes DEF Walks, Pcs, States

LEMMA FinishPublishWalks ==
    ASSUME TypeOK, NEW a \in Attempts, FinishPublish(a)
    PROVE  Walks(a, "publish", "ended", att[a].state)
  <1>1. a \in Begun /\ att[a].pc = "publish"
    BY DEF FinishPublish, At
  <1>2. Move(a, "ended")
    BY DEF FinishPublish
  <1> QED BY <1>1, <1>2, MoveGoes DEF Walks, Pcs, States

LEMMA FinishEndedWalks ==
    ASSUME TypeOK, NEW a \in Attempts, FinishEnded(a)
    PROVE  Walks(a, "ended", "retire", "ENDED")
  <1>1. a \in Begun /\ att[a].pc = "ended"
    BY DEF FinishEnded, At
  <1>2. MoveAs(a, "retire", "ENDED")
    BY DEF FinishEnded
  <1> QED BY <1>1, <1>2, MoveAsGoes DEF Walks, Pcs, States

(* Where the path of an admitted request leads, slot and lock follow.      *)
LEMMA PlacedPath ==
    ASSUME TypeOK, Placed, NEW a, NEW from \in Slotted \ {"retire"}, NEW to \in Slotted, NEW st,
           Walks(a, from, to, st), UNCHANGED <<active, life>>, unknown' = unknown \/ unknown' = TRUE,
           \/ to # "retire" /\ st \in {att[a].state, "ACCEPTING", "ACCEPTED", "FINISHING"}
           \/ to = "retire" /\ (st = "ENDED" \/ (st = "UNKNOWN" /\ unknown' = TRUE)),
           to \in Locking => lock = None,
           lock' = IF to \in Locking THEN a ELSE IF from \in Locking THEN None ELSE lock
    PROVE  Placed'
  <1>1. /\ a \in Begun /\ att[a].pc = from /\ Going(a, to, st, att[a].active, att[a].outcome)
        /\ Suits(att[a].pc, att[a].state, att[a].active, att[a].reason = "NONE", unknown)
        /\ att[a].pc \in Locking <=> lock = a
        /\ unknown \in BOOLEAN
    BY DEF Walks, Placed, Suited, LockFits
  <1>2. unknown' \in BOOLEAN /\ (unknown => unknown')
    BY <1>1
  <1>3. Suits(to, st, att[a].active, att[a].reason = "NONE", unknown')
    BY <1>1, <1>2 DEF Suits, Slotted
  <1>4. from \notin {"done", "failed"} /\ to # "begin"
    BY DEF Slotted
  <1>5. lock' = IF to \in Locking THEN a ELSE IF lock = a THEN None ELSE lock
    BY <1>1
  <1> QED BY <1>1, <1>2, <1>3, <1>4, <1>5, PlacedGoes

(* The actions that walk keep the attempts placed.                         *)
LEMMA PlacedMoves ==
    ASSUME TypeOK, Placed, NEW a \in Attempts,
           \/ AcceptStart(a) \/ AcceptCreate(a) \/ AcceptLock(a) \/ AcceptPublish(a) \/ Claim(a)
           \/ ClaimSkipped(a) \/ Seal(a) \/ SealFails(a) \/ CloseJournal(a) \/ FinishStart(a)
           \/ FinishRead(a) \/ FinishLock(a) \/ FinishPublish(a) \/ FinishEnded(a)
    PROVE  Placed'
  <1>1. CASE AcceptStart(a)
    <2>1. UNCHANGED <<active, life>> /\ lock' = lock
      BY <1>1 DEF AcceptStart, budgets
    <2>2. unknown' = unknown
      BY <1>1 DEF AcceptStart
    <2> QED BY <1>1, <2>1, <2>2, AcceptStartWalks, PlacedPath DEF Slotted, Locking
  <1>2. CASE AcceptCreate(a)
    <2>1. UNCHANGED <<active, life>> /\ lock' = lock
      BY <1>2 DEF AcceptCreate, budgets
    <2>2. unknown' = unknown
      BY <1>2 DEF AcceptCreate, Wrote
    <2> QED BY <1>2, <2>1, <2>2, AcceptCreateWalks, PlacedPath DEF Slotted, Locking
  <1>3. CASE AcceptLock(a)
    <2>1. UNCHANGED <<active, life>> /\ lock = None /\ lock' = a
      BY <1>3 DEF AcceptLock, budgets
    <2>2. unknown' = unknown
      BY <1>3 DEF AcceptLock
    <2> QED BY <1>3, <2>1, <2>2, AcceptLockWalks, PlacedPath DEF Slotted, Locking
  <1>4. CASE AcceptPublish(a)
    <2>1. UNCHANGED <<active, life>> /\ lock' = None
      BY <1>4 DEF AcceptPublish, budgets
    <2>2. unknown' = unknown
      BY <1>4 DEF AcceptPublish, Published
    <2> QED BY <1>4, <2>1, <2>2, AcceptPublishWalks, PlacedPath DEF Slotted, Locking
  <1>5. CASE Claim(a)
    <2>1. UNCHANGED <<active, life>> /\ lock' = lock
      BY <1>5 DEF Claim, budgets
    <2>2. unknown' = unknown
      BY <1>5 DEF Claim
    <2> QED BY <1>5, <2>1, <2>2, ClaimWalks, PlacedPath DEF Slotted, Locking
  <1>6. CASE ClaimSkipped(a)
    <2>1. UNCHANGED <<active, life>> /\ lock' = lock
      BY <1>6 DEF ClaimSkipped, budgets
    <2>2. unknown' = unknown
      BY <1>6 DEF ClaimSkipped
    <2> QED BY <1>6, <2>1, <2>2, ClaimSkippedWalks, PlacedPath DEF Slotted, Locking
  <1>7. CASE Seal(a)
    <2>1. UNCHANGED <<active, life>> /\ lock' = lock
      BY <1>7 DEF Seal, budgets
    <2>2. unknown' = unknown
      BY <1>7 DEF Seal, Wrote
    <2> QED BY <1>7, <2>1, <2>2, SealWalks, PlacedPath DEF Slotted, Locking
  <1>8. CASE SealFails(a)
    <2>1. UNCHANGED <<active, life>> /\ lock' = lock
      BY <1>8 DEF SealFails, budgets
    <2>2. unknown' = unknown \/ unknown' = TRUE
      BY <1>8 DEF SealFails, WriteFails
    <2> QED BY <1>8, <2>1, <2>2, SealFailsWalks, PlacedPath DEF Slotted, Locking
  <1>9. CASE CloseJournal(a)
    <2>1. UNCHANGED <<active, life>> /\ lock' = lock
      BY <1>9 DEF CloseJournal, budgets
    <2>2. unknown' = unknown \/ unknown' = TRUE
      BY <1>9 DEF CloseJournal
    <2> QED BY <1>9, <2>1, <2>2, CloseJournalWalks, PlacedPath DEF Slotted, Locking
  <1>10. CASE FinishStart(a)
    <2>1. UNCHANGED <<active, life>> /\ lock' = lock
      BY <1>10 DEF FinishStart, budgets
    <2>2. unknown' = unknown
      BY <1>10 DEF FinishStart
    <2> QED BY <1>10, <2>1, <2>2, FinishStartWalks, PlacedPath DEF Slotted, Locking
  <1>11. CASE FinishRead(a)
    <2>1. UNCHANGED <<active, life>> /\ lock' = lock
      BY <1>11 DEF FinishRead, budgets
    <2>2. unknown' = unknown
      BY <1>11 DEF FinishRead
    <2> QED BY <1>11, <2>1, <2>2, FinishReadWalks, PlacedPath DEF Slotted, Locking
  <1>12. CASE FinishLock(a)
    <2>1. UNCHANGED <<active, life>> /\ lock = None /\ lock' = a
      BY <1>12 DEF FinishLock, budgets
    <2>2. unknown' = unknown
      BY <1>12 DEF FinishLock
    <2> QED BY <1>12, <2>1, <2>2, FinishLockWalks, PlacedPath DEF Slotted, Locking
  <1>13. CASE FinishPublish(a)
    <2>1. UNCHANGED <<active, life>> /\ lock' = None
      BY <1>13 DEF FinishPublish, budgets
    <2>2. unknown' = unknown
      BY <1>13 DEF FinishPublish, Published
    <2> QED BY <1>13, <2>1, <2>2, FinishPublishWalks, PlacedPath DEF Slotted, Locking
  <1>14. CASE FinishEnded(a)
    <2>1. UNCHANGED <<active, life>> /\ lock' = lock
      BY <1>14 DEF FinishEnded, budgets
    <2>2. unknown' = unknown
      BY <1>14 DEF FinishEnded
    <2> QED BY <1>14, <2>1, <2>2, FinishEndedWalks, PlacedPath DEF Slotted, Locking
  <1> QED BY <1>1, <1>2, <1>3, <1>4, <1>5, <1>6, <1>7, <1>8, <1>9, <1>10, <1>11, <1>12, <1>13, <1>14

LEMMA BeginPublishWalks ==
    ASSUME TypeOK, NEW a \in Attempts, BeginPublish(a)
    PROVE  \/ att[a].reason = "NONE" /\ lock' = None /\ Walks(a, "begin", "begun", att[a].state)
           \/ att[a].reason # "NONE" /\ lock' = lock /\ Walks(a, "begin", "reject", att[a].state)
  <1>1. a \in Begun /\ att[a].pc = "begin"
    BY DEF BeginPublish, At
  <1>2. \/ att[a].reason = "NONE" /\ lock' = None /\ Move(a, "begun")
        \/ att[a].reason # "NONE" /\ lock' = lock /\ Move(a, "reject")
    BY DEF BeginPublish
  <1> QED BY <1>1, <1>2, MoveGoes DEF Walks, Pcs

LEMMA AcceptFailsWalks ==
    ASSUME TypeOK, NEW a \in Attempts, AcceptFails(a)
    PROVE  /\ UNCHANGED <<active, life>> /\ unknown' = TRUE
           /\ \/ Walks(a, "create", "retire", "UNKNOWN") /\ lock' = lock
              \/ Walks(a, "ack", "retire", "UNKNOWN") /\ lock' = lock
              \/ Walks(a, "acknowledge", "retire", "UNKNOWN") /\ lock' = None
  <1>1. UNCHANGED <<active, life>> /\ MoveAs(a, "retire", "UNKNOWN") /\ unknown' = TRUE
    BY DEF AcceptFails, budgets, WriteFails, Unpublished
  <1>2. /\ a \in Begun
        /\ \/ att[a].pc = "create" /\ lock' = lock
           \/ att[a].pc = "ack" /\ lock' = lock
           \/ att[a].pc = "acknowledge" /\ lock' = None
    BY DEF AcceptFails, At
  <1>3. Going(a, "retire", "UNKNOWN", att[a].active, att[a].outcome)
    BY <1>1, <1>2, MoveAsGoes DEF Pcs, States
  <1> QED BY <1>1, <1>2, <1>3 DEF Walks

LEMMA FinishFailsWalks ==
    ASSUME TypeOK, NEW a \in Attempts, FinishFails(a)
    PROVE  /\ UNCHANGED <<active, life>> /\ unknown' = TRUE
           /\ \/ Walks(a, "read", "retire", "UNKNOWN") /\ lock' = lock
              \/ Walks(a, "end", "retire", "UNKNOWN") /\ lock' = lock
              \/ Walks(a, "publish", "retire", "UNKNOWN") /\ lock' = None
  <1>1. UNCHANGED <<active, life>> /\ MoveAs(a, "retire", "UNKNOWN") /\ unknown' = TRUE
    BY DEF FinishFails, budgets, Unpublished
  <1>2. /\ a \in Begun
        /\ \/ att[a].pc = "read" /\ lock' = lock
           \/ att[a].pc = "end" /\ lock' = lock
           \/ att[a].pc = "publish" /\ lock' = None
    BY DEF FinishFails, At
  <1>3. Going(a, "retire", "UNKNOWN", att[a].active, att[a].outcome)
    BY <1>1, <1>2, MoveAsGoes DEF Pcs, States
  <1> QED BY <1>1, <1>2, <1>3 DEF Walks

LEMMA BusinessEndsGoes ==
    ASSUME TypeOK, NEW a \in Attempts, BusinessEnds(a)
    PROVE  /\ a \in Begun /\ att[a].pc = "business"
           /\ \E o \in Outcomes : Going(a, "seal", att[a].state, att[a].active, o)
  <1>1. a \in Begun /\ att[a].pc = "business"
    BY DEF BusinessEnds, At
  <1>2. PICK o \in Outcomes : Becomes(a, "seal", att[a].state, att[a].active, o)
    BY DEF BusinessEnds
  <1>3. att[a].state \in States /\ att[a].active \in BOOLEAN
    BY <1>1, AttemptFields
  <1>4. Going(a, "seal", att[a].state, att[a].active, o)
    BY <1>1, <1>2, <1>3, BecomesGoes DEF Pcs
  <1> QED BY <1>1, <1>4

(* A slot is given back by a request that failed to begin or retires.      *)
LEMMA BeginFailsGoes ==
    ASSUME TypeOK, NEW a \in Attempts, BeginFails(a)
    PROVE  /\ a \in Begun /\ att[a].pc \in {"begin", "reject"}
           /\ Going(a, "failed", att[a].state, FALSE, att[a].outcome)
           /\ active' = active - (IF att[a].active THEN 1 ELSE 0)
           /\ unknown' = TRUE /\ lock' = None /\ life' = life
  <1>1. a \in Begun /\ att[a].pc \in {"begin", "reject"}
    BY DEF BeginFails, At
  <1>2. unknown' = TRUE /\ lock' = None /\ life' = life /\ Retired(a, "failed")
    BY DEF BeginFails, Unpublished
  <1> QED BY <1>1, <1>2, RetiredGoes DEF Pcs

LEMMA RetireGoes ==
    ASSUME TypeOK, NEW a \in Attempts, Retire(a)
    PROVE  /\ a \in Begun /\ att[a].pc = "retire"
           /\ Going(a, IF att[a].state = "ENDED" THEN "done" ELSE "failed", att[a].state, FALSE, att[a].outcome)
           /\ active' = active - (IF att[a].active THEN 1 ELSE 0)
           /\ UNCHANGED <<unknown, lock, life>>
  <1>1. a \in Begun /\ att[a].pc = "retire" /\ UNCHANGED <<unknown, lock, life>>
    BY DEF Retire, At
  <1>2. Retired(a, IF att[a].state = "ENDED" THEN "done" ELSE "failed")
    BY DEF Retire
  <1>3. (IF att[a].state = "ENDED" THEN "done" ELSE "failed") \in Pcs
    BY DEF Pcs
  <1> QED BY <1>1, <1>2, <1>3, RetiredGoes

(* So do those that retire, fail or end.                                   *)
LEMMA PlacedOthers ==
    ASSUME TypeOK, Placed, NEW a \in Attempts,
           \/ BeginPublish(a) \/ RejectPublish(a) \/ BeginFails(a) \/ AcceptFails(a) \/ FinishFails(a)
           \/ BusinessEnds(a) \/ Retire(a)
    PROVE  Placed'
  <1>0. ASSUME a \in Begun
        PROVE  /\ Suits(att[a].pc, att[a].state, att[a].active, att[a].reason = "NONE", unknown)
               /\ att[a].pc \in Locking <=> lock = a
               /\ att[a].active \in BOOLEAN /\ unknown \in BOOLEAN
    BY <1>0, AttemptFields DEF Placed, Suited, LockFits
  <1>2. CASE BeginPublish(a)
    <2>1. UNCHANGED <<active, life>> /\ unknown' = unknown
      BY <1>2 DEF BeginPublish, budgets, Published
    <2>2. CASE att[a].reason = "NONE" /\ lock' = None /\ Walks(a, "begin", "begun", att[a].state)
      <3>1. /\ a \in Begun /\ att[a].pc = "begin" /\ lock = a
            /\ Going(a, "begun", att[a].state, att[a].active, att[a].outcome)
        BY <1>0, <2>2 DEF Walks, Locking
      <3>2. Suits("begun", att[a].state, att[a].active, att[a].reason = "NONE", unknown')
        BY <1>0, <2>1, <2>2, <3>1 DEF Suits, Slotted
      <3> QED BY <1>0, <2>1, <2>2, <3>1, <3>2, PlacedGoes DEF Locking
    <2>3. CASE att[a].reason # "NONE" /\ lock' = lock /\ Walks(a, "begin", "reject", att[a].state)
      <3>1. /\ a \in Begun /\ att[a].pc = "begin" /\ lock = a
            /\ Going(a, "reject", att[a].state, att[a].active, att[a].outcome)
        BY <1>0, <2>3 DEF Walks, Locking
      <3>2. Suits("reject", att[a].state, att[a].active, att[a].reason = "NONE", unknown')
        BY <1>0, <2>1, <2>3, <3>1 DEF Suits, Slotted
      <3> QED BY <1>0, <2>1, <2>3, <3>1, <3>2, PlacedGoes DEF Locking
    <2> QED BY <1>2, <2>2, <2>3, BeginPublishWalks
  <1>8. CASE RejectPublish(a)
    <2>1. UNCHANGED <<active, life>> /\ lock' = None
      BY <1>8 DEF RejectPublish, budgets
    <2>2. unknown' = unknown
      BY <1>8 DEF RejectPublish, Published
    <2>3. Walks(a, "reject", "done", "ENDED")
      BY <1>8, RejectPublishWalks
    <2>4. a \in Begun /\ att[a].pc = "reject" /\ Going(a, "done", "ENDED", att[a].active, att[a].outcome)
      BY <2>3 DEF Walks
    <2>5. Suits("done", "ENDED", att[a].active, att[a].reason = "NONE", unknown')
      BY <1>0, <2>4 DEF Suits, Slotted
    <2> QED BY <1>0, <2>1, <2>2, <2>4, <2>5, PlacedGoes DEF Locking
  <1>3. CASE BeginFails(a)
    <2>1. /\ a \in Begun /\ att[a].pc \in {"begin", "reject"}
          /\ Going(a, "failed", att[a].state, FALSE, att[a].outcome)
          /\ active' = active - (IF att[a].active /\ ~FALSE THEN 1 ELSE 0)
          /\ unknown' = TRUE /\ lock' = None /\ life' = life
      BY <1>3, BeginFailsGoes
    <2>2. Suits("failed", att[a].state, FALSE, att[a].reason = "NONE", unknown')
      BY <1>0, <2>1 DEF Suits, Slotted
    <2>3. lock' = IF "failed" \in Locking THEN a ELSE IF lock = a THEN None ELSE lock
      BY <1>0, <2>1 DEF Locking
    <2> QED BY <1>0, <2>1, <2>2, <2>3, PlacedStep DEF Locking
  <1>4. CASE AcceptFails(a)
    <2>1. UNCHANGED <<active, life>> /\ unknown' = TRUE
      BY <1>4, AcceptFailsWalks
    <2> QED BY <1>4, <2>1, AcceptFailsWalks, PlacedPath DEF Slotted, Locking
  <1>5. CASE FinishFails(a)
    <2>1. UNCHANGED <<active, life>> /\ unknown' = TRUE
      BY <1>5, FinishFailsWalks
    <2> QED BY <1>5, <2>1, FinishFailsWalks, PlacedPath DEF Slotted, Locking
  <1>6. CASE BusinessEnds(a)
    <2>1. life' = life /\ active' = active /\ unknown' = unknown /\ lock' = lock
      BY <1>6 DEF BusinessEnds, budgets
    <2>2. a \in Begun /\ att[a].pc = "business"
      BY <1>6, BusinessEndsGoes
    <2>3. PICK o \in Outcomes : Going(a, "seal", att[a].state, att[a].active, o)
      BY <1>6, BusinessEndsGoes
    <2>4. Suits("seal", att[a].state, att[a].active, att[a].reason = "NONE", unknown')
      BY <1>0, <2>1, <2>2 DEF Suits, Slotted
    <2>5. lock' = IF "seal" \in Locking THEN a ELSE IF lock = a THEN None ELSE lock
      BY <1>0, <2>1, <2>2 DEF Locking
    <2> QED BY <1>0, <2>1, <2>2, <2>3, <2>4, <2>5, PlacedGoes DEF Locking
  <1>7. CASE Retire(a)
    <2>1. /\ a \in Begun /\ att[a].pc = "retire" /\ UNCHANGED <<unknown, lock, life>>
          /\ active' = active - (IF att[a].active /\ ~FALSE THEN 1 ELSE 0)
      BY <1>7, RetireGoes
    <2>2. PICK p : /\ p = IF att[a].state = "ENDED" THEN "done" ELSE "failed"
                   /\ Going(a, p, att[a].state, FALSE, att[a].outcome)
      BY <1>7, RetireGoes
    <2>3. Suits(p, att[a].state, FALSE, att[a].reason = "NONE", unknown')
      BY <1>0, <2>1, <2>2 DEF Suits, Slotted
    <2>4. /\ p \notin Locking /\ p # "begin"
          /\ lock' = IF p \in Locking THEN a ELSE IF lock = a THEN None ELSE lock
      BY <1>0, <2>1, <2>2 DEF Locking
    <2> QED BY <1>0, <2>1, <2>2, <2>3, <2>4, PlacedStep
  <1> QED BY <1>2, <1>3, <1>4, <1>5, <1>6, <1>7, <1>8

(* begin puts one more attempt in front of the lock.                       *)
LEMMA PlacedBegin ==
    ASSUME TypeOK, Placed, NEW k \in Keys, BeginReserve(k)
    PROVE  Placed'
  <1> DEFINE n == Len(att) + 1
             r == [key |-> k, reason |-> Reason(k), state |-> "BEGUN", active |-> Reason(k) = "NONE",
                   pc |-> "begin", outcome |-> None]
  <1>1. /\ Len(att) \in Nat /\ Begun = 1..Len(att) /\ IsFiniteSet(Begun)
        /\ \A b \in Begun : b \in Nat /\ b # None /\ b # Closer
    BY BegunIsFinite
  <1>2. /\ lock = None /\ life = "open" /\ ~unknown /\ lock' = n /\ life' = life /\ unknown' = unknown
        /\ att' = Append(att, r)
        /\ active' = active + (IF Reason(k) = "NONE" THEN 1 ELSE 0)
    BY DEF BeginReserve, LedgerAvailable
  <1>3. /\ r.key = k /\ r.reason = Reason(k) /\ r.state = "BEGUN" /\ r.active = (Reason(k) = "NONE")
        /\ r.pc = "begin"
    OBVIOUS
  <1>4. Len(att') = n /\ Begun' = 1..n /\ att'[n] = r /\ \A b \in Begun : att'[b] = att[b]
    <2> HIDE DEF r
    <2> QED BY <1>1, <1>2 DEF TypeOK, Begun
  <1> HIDE DEF r
  <1>5. /\ n \notin Begun /\ Begun' = Begun \cup {n} /\ n \in Nat
        /\ \A b \in Begun : b < n
    BY <1>1, <1>4
  <1>6. /\ att'[n].key = k /\ att'[n].reason = Reason(k) /\ att'[n].state = "BEGUN"
        /\ att'[n].active = (Reason(k) = "NONE") /\ att'[n].pc = "begin"
    BY <1>3, <1>4
  <1> HIDE DEF n
  <1>7. Suited'
    <2>1. ASSUME NEW b \in Begun
          PROVE  Suits(att'[b].pc, att'[b].state, att'[b].active, att'[b].reason = "NONE", unknown')
      BY <1>2, <1>4, <2>1 DEF Placed, Suited
    <2>2. Suits(att'[n].pc, att'[n].state, att'[n].active, att'[n].reason = "NONE", unknown')
      BY <1>6 DEF Suits, Slotted
    <2> QED BY <1>5, <2>1, <2>2 DEF Suited
  <1>8. SlotsCounted'
    <2> DEFINE S == {b \in Begun : att[b].active}
               T == {b \in Begun' : att'[b].active}
    <2>1. IsFiniteSet(S) /\ Cardinality(S) \in Nat /\ active = Cardinality(S)
      BY CountsAreInts DEF Placed, SlotsCounted
    <2>2. T = IF Reason(k) = "NONE" THEN S \cup {n} ELSE S
      <3>1. \A b \in Begun : b \in T <=> b \in S
        BY <1>4, <1>5
      <3>2. n \in T <=> Reason(k) = "NONE"
        BY <1>5, <1>6
      <3>3. T \subseteq Begun \cup {n} /\ S \subseteq Begun
        BY <1>5
      <3> HIDE DEF S, T
      <3> QED BY <1>5, <3>1, <3>2, <3>3
    <2>3. n \notin S
      BY <1>5
    <2>4. Cardinality(T) = IF Reason(k) = "NONE" THEN Cardinality(S) + 1 ELSE Cardinality(S)
      <3> HIDE DEF S, T
      <3> QED BY <2>1, <2>2, <2>3, FS_AddElement
    <2>5. active' = Cardinality(T)
      <3> HIDE DEF S, T
      <3> QED BY <1>2, <2>1, <2>4
    <2> QED BY <2>5 DEF SlotsCounted
  <1>9. LockFits'
    <2>1. \A b \in Begun : att[b].pc \notin Locking
      BY <1>1, <1>2 DEF Placed, LockFits
    <2>2. n # Closer
      BY <1>1 DEF n, Closer
    <2>3. \A b \in Begun' : att'[b].pc \in Locking <=> lock' = b
      BY <1>2, <1>4, <1>5, <1>6, <2>1 DEF Locking
    <2>4. lock' \in Begun' /\ lock' # Closer
      BY <1>2, <1>5, <2>2
    <2>5. unknown' \in BOOLEAN /\ life' = "open"
      BY <1>2 DEF Placed, LockFits
    <2> QED BY <2>3, <2>4, <2>5 DEF LockFits, Lives
  <1>10. InOrder'
    <2>1. \A b \in Begun : att[b].pc # "begin"
      BY <1>1, <1>2 DEF Placed, LockFits, Locking
    <2> QED BY <1>2, <1>4, <1>5, <1>6, <2>1 DEF InOrder, n
  <1>11. Duplicates'
    <2>1. ASSUME NEW b \in Begun
          PROVE  att'[b].reason = "DUPLICATE" <=> (\E c \in Begun' : c < b /\ att'[c].key = att'[b].key)
      <3>1. att[b].reason = "DUPLICATE" <=> (\E c \in Begun : c < b /\ att[c].key = att[b].key)
        BY DEF Placed, Duplicates
      <3>2. ~(n < b) /\ b \in Begun
        BY <1>1, <1>5
      <3> QED BY <1>4, <1>5, <3>1, <3>2
    <2>2. Reason(k) = "DUPLICATE" <=> Seen(k)
      BY DEF Reason
    <2>3. Seen(k) <=> \E c \in Begun' : c < n /\ att'[c].key = k
      <3>1. ~(n < n)
        BY <1>5
      <3> QED BY <1>4, <1>5, <3>1 DEF Seen
    <2>4. att'[n].reason = "DUPLICATE" <=> (\E c \in Begun' : c < n /\ att'[c].key = att'[n].key)
      BY <1>6, <2>2, <2>3
    <2> QED BY <1>5, <2>1, <2>4 DEF Duplicates
  <1> QED BY <1>7, <1>8, <1>9, <1>10, <1>11 DEF Placed

(* close begins when no slot is in use and no publication under way.       *)
LEMMA PlacedClose ==
    ASSUME TypeOK, Placed, CloseStart \/ ClosePublish \/ CloseRefused \/ CloseCleanup
    PROVE  Placed'
  <1>0. /\ IsFiniteSet({b \in Begun : att[b].active}) /\ None # Closer
        /\ \A b \in Begun : b # None /\ b # Closer
    BY BegunIsFinite, CountsAreInts, NoneIsNoLock DEF Closer
  <1>1. CASE CloseStart
    <2>1. /\ life = "open" /\ life' = "closing" /\ lock = None /\ lock' = Closer /\ active = 0
          /\ UNCHANGED <<att, active, unknown>>
      BY <1>1 DEF CloseStart, budgets
    <2>2. {b \in Begun : att[b].active} = {}
      <3> DEFINE S == {b \in Begun : att[b].active}
      <3>1. Cardinality(S) = 0 /\ IsFiniteSet(S)
        BY <1>0, <2>1 DEF Placed, SlotsCounted
      <3> HIDE DEF S
      <3>2. S = {}
        BY <3>1, FS_EmptySet
      <3> QED BY <3>2 DEF S
    <2>3. ASSUME NEW b \in Begun PROVE att[b].pc \in {"done", "failed"}
      <3>1. att[b].pc \in Pcs /\ ~att[b].active /\ att[b].pc \notin Locking
        BY <1>0, <2>1, <2>2, AttemptFields DEF Placed, LockFits
      <3>2. att[b].pc \notin Slotted
        BY <3>1 DEF Placed, Suited, Suits
      <3> QED BY <3>1, <3>2 DEF Pcs, Locking, Slotted
    <2>4. Suited' /\ SlotsCounted' /\ Duplicates'
      BY <2>1 DEF Placed, Suited, SlotsCounted, Duplicates, Begun
    <2>5. LockFits'
      BY <1>0, <2>1, <2>3 DEF Placed, LockFits, Lives, Locking, Begun
    <2>6. InOrder'
      BY <2>1, <2>3 DEF InOrder, Begun
    <2> QED BY <2>4, <2>5, <2>6 DEF Placed
  <1>2. CASE ClosePublish \/ CloseRefused \/ CloseCleanup
    <2>1. /\ life \in {"closing", "published"} /\ UNCHANGED <<att, active>>
          /\ unknown' = unknown \/ unknown' = TRUE
          /\ \/ life' = "published" /\ lock' = lock
             \/ life' = "closed" /\ lock' = None
      BY <1>2 DEF ClosePublish, CloseRefused, CloseCleanup, Published, Unpublished, budgets
    <2>2. lock = Closer /\ \A b \in Begun : att[b].pc \in {"done", "failed"}
      BY <2>1 DEF Placed, LockFits, InOrder
    <2>3. Suited' /\ SlotsCounted' /\ Duplicates'
      BY <2>1 DEF Placed, Suited, Suits, SlotsCounted, Duplicates, LockFits, Begun
    <2>4. LockFits'
      BY <1>0, <2>1, <2>2 DEF Placed, LockFits, Lives, Locking, Begun
    <2>5. InOrder'
      BY <2>1, <2>2 DEF InOrder, Begun
    <2> QED BY <2>3, <2>4, <2>5 DEF Placed
  <1> QED BY <1>1, <1>2

(* Nothing is begun in the first state.                                    *)
LEMMA PlacedFirst == Init => Placed
  <1> SUFFICES ASSUME Init PROVE Placed
    OBVIOUS
  <1>1. Begun = {} /\ lock = None /\ life = "open" /\ unknown = FALSE /\ active = 0
    BY DEF Init, Begun
  <1>2. {a \in Begun : att[a].active} = {}
    BY <1>1
  <1>3. SlotsCounted
    BY <1>1, <1>2, FS_EmptySet DEF SlotsCounted
  <1>4. None # Closer
    BY NoneIsNoLock DEF Closer
  <1> QED BY <1>1, <1>3, <1>4 DEF Placed, Suited, LockFits, InOrder, Duplicates, Lives

(***************************************************************************)
(* The journals and what lies on disk                                      *)
(***************************************************************************)
Fresh   == {"begin", "reject", "begun", "create"}
Open    == {"ack", "acknowledge", "accepted", "business", "seal"}
Known   == {"finish", "read", "end", "publish", "ended"}
Claimed == {"business", "seal", "close"} \cup Known
Written == Open \cup {"close"} \cup Known

(* Each original names its predecessor, a seal is the last one.            *)
Linked(c) == \A i \in 1..Len(c) :
    /\ c[i].seq = i - 1 /\ c[i].prev = i - 1 /\ (c[i].kind = "accept" <=> i = 1)
    /\ c[i].kind = "seal" => i = Len(c) /\ c[i].events = i - 2 /\ c[i].status \in {"COMPLETE", "FAILED"}

(* What lies on disk is what the journal believes.                         *)
Follows(c, j) ==
    /\ Len(c) = j.count /\ Len(c) >= 1 /\ Bytes(c) = j.bytes /\ Linked(c)
    /\ IF "sealed" \in j.flags THEN c[Len(c)].kind = "seal" /\ c[Len(c)].events = j.events
                               ELSE c[Len(c)].kind # "seal" /\ j.count = j.events + 1

(* Journal j and chain c of a request at place p with outcome o.           *)
Journaled(p, o, j, c) ==
    /\ c \in Seq(Originals) /\ Len(c) <= MaxRecords /\ Bytes(c) <= MaxTotalBytes
    /\ p \in Fresh => j = None /\ c = <<>>
    /\ p \in Written => j # None
    /\ j # None /\ "poisoned" \notin j.flags => Follows(c, j)
    /\ p \in Claimed => "claimed" \in j.flags
    /\ p \in Open => {"sealed", "closeFailed", "closed"} \cap j.flags = {}
    /\ p = "close" => "closeFailed" \notin j.flags /\
          ("sealed" \in j.flags => "poisoned" \notin j.flags /\ c[Len(c)].outcome = o)
    /\ p \in Known => /\ {"sealed", "closed"} \subseteq j.flags
                      /\ {"poisoned", "closeFailed"} \cap j.flags = {} /\ c[Len(c)].outcome = o

Journals ==
    /\ chain \in [Attempts -> Seq(Originals)]
    /\ \A a \in Begun : Journaled(att[a].pc, att[a].outcome, jn[a], chain[a])
    /\ \A a \in Attempts \ Begun : jn[a] = None /\ chain[a] = <<>>

(* A step that journals its own request keeps the others journaled.        *)
LEMMA JournalsStep ==
    ASSUME TypeOK, Journals, NEW a \in Begun, NEW p, NEW st, NEW sl, NEW o, Going(a, p, st, sl, o),
           chain' \in [Attempts -> Seq(Originals)], Journaled(p, o, jn'[a], chain'[a]),
           \A b \in Attempts \ {a} : jn'[b] = jn[b] /\ chain'[b] = chain[b]
    PROVE  Journals'
  <1>1. Begun' = Begun /\ Begun \subseteq Attempts
    BY BegunAttempts DEF Going
  <1>2. ASSUME NEW b \in Begun
        PROVE  Journaled(att'[b].pc, att'[b].outcome, jn'[b], chain'[b])
    <2>1. CASE b = a
      BY <2>1 DEF Going
    <2>2. CASE b # a
      <3>1. att'[b] = att[b] /\ jn'[b] = jn[b] /\ chain'[b] = chain[b]
        BY <1>1, <2>2 DEF Going
      <3>2. Journaled(att[b].pc, att[b].outcome, jn[b], chain[b])
        BY DEF Journals
      <3> QED BY <3>1, <3>2
    <2> QED BY <2>1, <2>2
  <1>3. \A b \in Attempts \ Begun : jn'[b] = None /\ chain'[b] = <<>>
    BY DEF Journals
  <1> QED BY <1>1, <1>2, <1>3 DEF Journals, Journaled

LEMMA EmptyChain == <<>> \in Seq(Originals) /\ Len(<<>>) = 0 /\ Bytes(<<>>) = 0
  <1>1. <<>> \in Seq(Originals) /\ Len(<<>>) = 0
    OBVIOUS
  <1> QED BY <1>1, BytesOfNone

(* One more original, confirmed, keeps journal and disk together.          *)
LEMMA FollowsMore ==
    ASSUME NEW j \in Journal, NEW c \in Seq(Originals), NEW r \in Originals, NEW k,
           Follows(c, j), "sealed" \notin j.flags,
           r.kind # "accept", r.prev = j.count, r.events = j.events, r.seq = j.events + 1,
           r.kind = "seal" => r.status \in {"COMPLETE", "FAILED"},
           k.count = j.count + 1, k.bytes = j.bytes + r.size,
           k.events = j.events + (IF r.kind = "event" THEN 1 ELSE 0),
           "sealed" \in k.flags <=> r.kind = "seal"
    PROVE  /\ Append(c, r) \in Seq(Originals) /\ Len(Append(c, r)) = j.count + 1
           /\ Bytes(Append(c, r)) = j.bytes + r.size
           /\ Follows(Append(c, r), k) /\ Append(c, r)[Len(Append(c, r))] = r
  <1> DEFINE d == Append(c, r)
             n == Len(c) + 1
  <1>1. /\ j.count \in Nat /\ j.bytes \in Nat /\ j.events \in Nat /\ r.size \in Nat /\ Len(c) \in Nat
        /\ r.kind \in {"accept", "event", "seal"}
    <2>1. r.kind \in {"accept", "event", "seal"} /\ r.size \in Sizes
      BY DEF Originals
    <2>2. j.count \in Nat /\ j.bytes \in Nat /\ j.events \in Nat
      BY DEF Journal
    <2>3. Len(c) \in Nat
      OBVIOUS
    <2>4. r.size \in Nat
      BY <2>1, SizesAreNats
    <2> QED BY <2>1, <2>2, <2>3, <2>4
  <1>2. Len(c) = j.count /\ Bytes(c) = j.bytes
    BY DEF Follows
  <1>3. r.seq = n - 1 /\ j.count = j.events + 1 /\ Len(c) >= 1
    BY <1>1, <1>2 DEF Follows
  <1>5. /\ d \in Seq(Originals) /\ Len(d) = n /\ d[n] = r /\ n \in Nat /\ n >= 1
        /\ \A i \in 1..Len(c) : d[i] = c[i]
    BY <1>1
  <1>6. Bytes(d) = j.bytes + r.size
    BY <1>2, BytesAppend
  <1> HIDE DEF d
  <1>7. Linked(d)
    <2> SUFFICES ASSUME NEW i \in 1..Len(d)
                 PROVE  /\ d[i].seq = i - 1 /\ d[i].prev = i - 1 /\ (d[i].kind = "accept" <=> i = 1)
                        /\ d[i].kind = "seal" => i = Len(d) /\ d[i].events = i - 2
                                                 /\ d[i].status \in {"COMPLETE", "FAILED"}
      BY DEF Linked
    <2>1. CASE i = n
      <3>1. d[i] = r /\ i = Len(d) /\ i - 1 = Len(c) /\ i # 1
        BY <1>1, <1>3, <1>5, <2>1 DEF n
      <3>2. r.seq = i - 1 /\ r.prev = i - 1
        BY <1>1, <1>2, <1>3, <2>1, <3>1
      <3>3. ASSUME r.kind = "seal" PROVE r.events = i - 2 /\ r.status \in {"COMPLETE", "FAILED"}
        BY <1>1, <1>2, <1>3, <3>1, <3>3
      <3> QED BY <3>1, <3>2, <3>3
    <2>2. CASE i # n
      <3>1. i \in 1..Len(c) /\ d[i] = c[i]
        BY <1>1, <1>5, <2>2
      <3>2. Linked(c) /\ c[Len(c)].kind # "seal"
        BY <3>1 DEF Follows
      <3>3. c[i].kind # "seal"
        BY <3>1, <3>2 DEF Linked
      <3> QED BY <3>1, <3>2, <3>3 DEF Linked
    <2> QED BY <2>1, <2>2
  <1>8. IF "sealed" \in k.flags THEN d[n].kind = "seal" /\ d[n].events = k.events
                                 ELSE d[n].kind # "seal" /\ k.count = k.events + 1
    <2>1. CASE r.kind = "seal"
      BY <1>1, <1>5, <2>1
    <2>2. CASE r.kind = "event"
      BY <1>1, <1>3, <1>5, <2>2
    <2> QED BY <1>1, <2>1, <2>2
  <1>9. Follows(d, k)
    BY <1>1, <1>2, <1>5, <1>6, <1>7, <1>8 DEF Follows
  <1> QED BY <1>1, <1>2, <1>5, <1>6, <1>9 DEF d

(* A mark changes neither records nor seal.                                *)
LEMMA FollowsMarked ==
    ASSUME NEW j \in Journal, NEW c, NEW fs, "sealed" \notin fs, Follows(c, j)
    PROVE  Follows(c, Marked(j, fs))
  BY DEF Follows, Marked

(* Where journal and disk stay, the place may change.                      *)
LEMMA JournaledOn ==
    ASSUME NEW from, NEW to, NEW o, NEW j, NEW c, Journaled(from, o, j, c), to # "close",
           to \in Fresh => from \in Fresh, to \in Open => from \in Open,
           to \in Claimed => from \in Claimed, to \in Known => from \in Known
    PROVE  Journaled(to, o, j, c)
  BY DEF Journaled, Written

(* A request that goes on without writing stays journaled.                 *)
LEMMA JournalsWalk ==
    ASSUME TypeOK, Journals, NEW a, NEW from, NEW to, NEW st, Walks(a, from, to, st),
           UNCHANGED <<jn, chain>>, to # "close",
           to \in Fresh => from \in Fresh, to \in Open => from \in Open,
           to \in Claimed => from \in Claimed, to \in Known => from \in Known
    PROVE  Journals'
  <1>1. a \in Begun /\ att[a].pc = from /\ Going(a, to, st, att[a].active, att[a].outcome)
    BY DEF Walks
  <1>2. Journaled(from, att[a].outcome, jn[a], chain[a])
    BY <1>1 DEF Journals
  <1>3. Journaled(to, att[a].outcome, jn[a], chain[a])
    BY <1>2, JournaledOn
  <1>4. /\ chain' \in [Attempts -> Seq(Originals)] /\ jn'[a] = jn[a] /\ chain'[a] = chain[a]
        /\ \A b \in Attempts \ {a} : jn'[b] = jn[b] /\ chain'[b] = chain[b]
    BY DEF Journals
  <1> QED BY <1>1, <1>3, <1>4, JournalsStep

(* The actions that write nothing.                                         *)
LEMMA JournalsRest ==
    ASSUME TypeOK, Journals, NEW a \in Attempts,
           \/ BeginPublish(a) \/ RejectPublish(a) \/ BeginFails(a) \/ AcceptStart(a) \/ AcceptLock(a)
           \/ AcceptPublish(a) \/ ClaimSkipped(a) \/ FinishStart(a) \/ FinishRead(a) \/ FinishLock(a)
           \/ FinishPublish(a) \/ FinishEnded(a) \/ FinishFails(a)
    PROVE  Journals'
  <1>1. CASE BeginPublish(a)
    <2>1. UNCHANGED <<jn, chain>>
      BY <1>1 DEF BeginPublish
    <2> QED BY <1>1, <2>1, BeginPublishWalks, JournalsWalk DEF Fresh, Open, Claimed, Known
  <1>2. CASE RejectPublish(a)
    <2>1. UNCHANGED <<jn, chain>>
      BY <1>2 DEF RejectPublish
    <2> QED BY <1>2, <2>1, RejectPublishWalks, JournalsWalk DEF Fresh, Open, Claimed, Known
  <1>3. CASE BeginFails(a)
    <2>1. UNCHANGED <<jn, chain>>
      BY <1>3 DEF BeginFails
    <2>2. a \in Begun /\ Going(a, "failed", att[a].state, FALSE, att[a].outcome)
      BY <1>3, BeginFailsGoes
    <2>3. Journaled(att[a].pc, att[a].outcome, jn[a], chain[a])
      BY <2>2 DEF Journals
    <2>4. Journaled("failed", att[a].outcome, jn[a], chain[a])
      BY <2>3, JournaledOn DEF Fresh, Open, Claimed, Known
    <2>5. /\ chain' \in [Attempts -> Seq(Originals)] /\ jn'[a] = jn[a] /\ chain'[a] = chain[a]
          /\ \A b \in Attempts \ {a} : jn'[b] = jn[b] /\ chain'[b] = chain[b]
      BY <2>1 DEF Journals
    <2> QED BY <2>2, <2>4, <2>5, JournalsStep
  <1>4. CASE AcceptStart(a)
    <2>1. UNCHANGED <<jn, chain>>
      BY <1>4 DEF AcceptStart
    <2> QED BY <1>4, <2>1, AcceptStartWalks, JournalsWalk DEF Fresh, Open, Claimed, Known
  <1>5. CASE AcceptLock(a)
    <2>1. UNCHANGED <<jn, chain>>
      BY <1>5 DEF AcceptLock
    <2> QED BY <1>5, <2>1, AcceptLockWalks, JournalsWalk DEF Fresh, Open, Claimed, Known
  <1>6. CASE AcceptPublish(a)
    <2>1. UNCHANGED <<jn, chain>>
      BY <1>6 DEF AcceptPublish
    <2> QED BY <1>6, <2>1, AcceptPublishWalks, JournalsWalk DEF Fresh, Open, Claimed, Known
  <1>7. CASE ClaimSkipped(a)
    <2>1. UNCHANGED <<jn, chain>>
      BY <1>7 DEF ClaimSkipped
    <2> QED BY <1>7, <2>1, ClaimSkippedWalks, JournalsWalk DEF Fresh, Open, Claimed, Known
  <1>8. CASE FinishStart(a)
    <2>1. UNCHANGED <<jn, chain>>
      BY <1>8 DEF FinishStart
    <2> QED BY <1>8, <2>1, FinishStartWalks, JournalsWalk DEF Fresh, Open, Claimed, Known
  <1>9. CASE FinishRead(a)
    <2>1. UNCHANGED <<jn, chain>>
      BY <1>9 DEF FinishRead
    <2> QED BY <1>9, <2>1, FinishReadWalks, JournalsWalk DEF Fresh, Open, Claimed, Known
  <1>10. CASE FinishLock(a)
    <2>1. UNCHANGED <<jn, chain>>
      BY <1>10 DEF FinishLock
    <2> QED BY <1>10, <2>1, FinishLockWalks, JournalsWalk DEF Fresh, Open, Claimed, Known
  <1>11. CASE FinishPublish(a)
    <2>1. UNCHANGED <<jn, chain>>
      BY <1>11 DEF FinishPublish
    <2> QED BY <1>11, <2>1, FinishPublishWalks, JournalsWalk DEF Fresh, Open, Claimed, Known
  <1>12. CASE FinishEnded(a)
    <2>1. UNCHANGED <<jn, chain>>
      BY <1>12 DEF FinishEnded
    <2> QED BY <1>12, <2>1, FinishEndedWalks, JournalsWalk DEF Fresh, Open, Claimed, Known
  <1>13. CASE FinishFails(a)
    <2>1. UNCHANGED <<jn, chain>>
      BY <1>13 DEF FinishFails
    <2> QED BY <1>13, <2>1, FinishFailsWalks, JournalsWalk DEF Fresh, Open, Claimed, Known
  <1> QED BY <1>1, <1>2, <1>3, <1>4, <1>5, <1>6, <1>7, <1>8, <1>9, <1>10, <1>11, <1>12, <1>13

(* One journal or one directory changes.                                   *)
LEMMA JnSet ==
    ASSUME TypeOK, NEW a \in Attempts, NEW x, jn' = [jn EXCEPT ![a] = x]
    PROVE  jn'[a] = x /\ \A b \in Attempts \ {a} : jn'[b] = jn[b]
  BY DEF TypeOK

LEMMA ChainSet ==
    ASSUME Journals, NEW a \in Attempts, NEW r, Append(chain[a], r) \in Seq(Originals),
           chain' = [chain EXCEPT ![a] = Append(@, r)]
    PROVE  /\ chain' \in [Attempts -> Seq(Originals)] /\ chain'[a] = Append(chain[a], r)
           /\ \A b \in Attempts \ {a} : chain'[b] = chain[b]
  BY DEF Journals

LEMMA OriginalTyped ==
    ASSUME NEW j \in Journal, NEW kind \in {"accept", "event", "seal"}, NEW size \in Sizes,
           NEW status \in {"COMPLETE", "FAILED", None}, NEW o \in Outcomes \cup {None}
    PROVE  Original(j, kind, size, status, o) \in Originals /\ Original(j, kind, size, status, o).size = size
  <1>1. j.count \in Nat /\ j.events \in Nat
    BY DEF Journal
  <1> QED BY <1>1 DEF Original, Originals

(* A write that fails leaves the directory as it was or with one more.     *)
LEMMA WriteFailed ==
    ASSUME Journals, NEW a \in Attempts, NEW r \in Originals, WriteFails(a, r),
           Len(chain[a]) + 1 <= MaxRecords, Bytes(chain[a]) + r.size <= MaxTotalBytes,
           Len(chain[a]) <= MaxRecords, Bytes(chain[a]) <= MaxTotalBytes
    PROVE  /\ chain' \in [Attempts -> Seq(Originals)] /\ \A b \in Attempts \ {a} : chain'[b] = chain[b]
           /\ chain'[a] \in Seq(Originals)
           /\ Len(chain'[a]) <= MaxRecords /\ Bytes(chain'[a]) <= MaxTotalBytes
           /\ unknown' = TRUE
  <1>1. chain[a] \in Seq(Originals) /\ chain \in [Attempts -> Seq(Originals)]
    BY DEF Journals
  <1>2. CASE chain' = chain
    BY <1>1, <1>2 DEF WriteFails
  <1>3. CASE chain' = [chain EXCEPT ![a] = Append(@, r)]
    <2>1. Append(chain[a], r) \in Seq(Originals) /\ Len(Append(chain[a], r)) = Len(chain[a]) + 1
      BY <1>1
    <2>2. Bytes(Append(chain[a], r)) = Bytes(chain[a]) + r.size
      BY <1>1, BytesAppend
    <2>3. unknown' = TRUE
      BY DEF WriteFails
    <2> QED BY <1>3, <2>1, <2>2, <2>3, ChainSet
  <1> QED BY <1>2, <1>3 DEF WriteFails

LEMMA NewJournalIs ==
    /\ NewJournal \in Journal /\ NewJournal.flags = {} /\ NewJournal.count = 0
    /\ NewJournal.bytes = 0 /\ NewJournal.events = 0
  BY DEF NewJournal, Journal

(* The acceptance alone follows the new journal.                           *)
LEMMA FirstFollows ==
    ASSUME NEW r \in Originals, NEW k,
           r.kind = "accept", r.prev = NewJournal.count, r.events = NewJournal.events, r.seq = 0,
           k.count = NewJournal.count + 1, k.bytes = NewJournal.bytes + r.size, k.events = NewJournal.events + 0,
           k.flags = {}
    PROVE  LET d == Append(<<>>, r)
           IN  /\ d \in Seq(Originals) /\ Len(d) = NewJournal.count + 1
               /\ Bytes(d) = NewJournal.bytes + r.size /\ Follows(d, k)
  <1> DEFINE d == Append(<<>>, r)
  <1>1. d \in Seq(Originals) /\ Len(d) = 1 /\ d[1] = r
    OBVIOUS
  <1>2. r.size \in Nat
    <2>1. r.size \in Sizes
      BY DEF Originals
    <2> QED BY <2>1, SizesAreNats
  <1>3. Bytes(d) = r.size
    <2>1. Bytes(d) = 0 + r.size
      BY EmptyChain, BytesAppend
    <2> QED BY <1>2, <2>1
  <1> HIDE DEF d
  <1>4. k.count = 1 /\ k.bytes = r.size /\ k.events = 0
    BY <1>2, NewJournalIs
  <1>5. Linked(d)
    BY <1>1, NewJournalIs DEF Linked
  <1>6. Follows(d, k)
    BY <1>1, <1>3, <1>4, <1>5 DEF Follows
  <1> QED BY <1>1, <1>2, <1>3, <1>6, NewJournalIs DEF d

(* accept writes the acceptance, or fails to.                              *)
LEMMA AcceptCreateJournals ==
    ASSUME TypeOK, Journals, NEW a \in Attempts, AcceptCreate(a)
    PROVE  Journals'
  <1>1. a \in Begun /\ att[a].pc = "create" /\ Going(a, "ack", att[a].state, att[a].active, att[a].outcome)
    BY AcceptCreateWalks DEF Walks
  <1>2. Journaled("create", att[a].outcome, jn[a], chain[a])
    BY <1>1 DEF Journals
  <1>3. chain[a] = <<>>
    BY <1>2 DEF Journaled, Fresh
  <1>4. PICK size \in Sizes :
          /\ Reserved(NewJournal, size)
          /\ Wrote(a, Original(NewJournal, "accept", size, None, None))
          /\ jn' = [jn EXCEPT ![a] = Confirmed(NewJournal, size, FALSE, {})]
    BY DEF AcceptCreate
  <1> DEFINE r == Original(NewJournal, "accept", size, None, None)
             k == Confirmed(NewJournal, size, FALSE, {})
             d == Append(<<>>, r)
  <1>5. /\ d \in Seq(Originals) /\ Len(d) = NewJournal.count + 1 /\ Bytes(d) = NewJournal.bytes + size
        /\ Follows(d, k)
    <2>1. r \in Originals /\ r.size = size
      BY NewJournalIs, OriginalTyped
    <2>2. /\ r.kind = "accept" /\ r.prev = NewJournal.count /\ r.events = NewJournal.events /\ r.seq = 0
      BY DEF Original
    <2>3. /\ k.count = NewJournal.count + 1 /\ k.bytes = NewJournal.bytes + size
          /\ k.events = NewJournal.events + 0 /\ k.flags = {}
      BY NewJournalIs DEF Confirmed
    <2> HIDE DEF r, k
    <2> QED BY <2>1, <2>2, <2>3, FirstFollows
  <1>6. k \in Journal /\ k.flags = {} /\ k # None
    <2>1. k \in Journal
      BY <1>4, NewJournalIs, ConfirmedKeeps
    <2>2. k.flags = {}
      BY NewJournalIs DEF Confirmed
    <2> QED BY <2>1, <2>2, NoneIsNoJournal
  <1>7. chain' = [chain EXCEPT ![a] = Append(@, r)]
    BY <1>4 DEF Wrote
  <1> HIDE DEF r, k
  <1>8. /\ chain' \in [Attempts -> Seq(Originals)] /\ chain'[a] = d
        /\ \A b \in Attempts \ {a} : chain'[b] = chain[b]
    BY <1>3, <1>5, <1>7, ChainSet
  <1>9. jn'[a] = k /\ \A b \in Attempts \ {a} : jn'[b] = jn[b]
    BY <1>4, JnSet DEF k
  <1>10. Len(d) <= MaxRecords /\ Bytes(d) <= MaxTotalBytes
    <2>1. size \in Nat
      BY SizesAreNats
    <2> QED BY <1>4, <1>5, <2>1, NewJournalIs, RequestBudgets DEF Reserved
  <1> HIDE DEF d
  <1>11. Journaled("ack", att[a].outcome, k, d)
    BY <1>5, <1>6, <1>10 DEF Journaled, Fresh, Open, Claimed, Known, Written
  <1> QED BY <1>1, <1>8, <1>9, <1>11, JournalsStep

LEMMA AcceptFailsJournals ==
    ASSUME TypeOK, Journals, NEW a \in Attempts, AcceptFails(a)
    PROVE  Journals'
  <1>1. CASE UNCHANGED chain
    <2>1. UNCHANGED <<jn, chain>>
      BY <1>1 DEF AcceptFails
    <2> QED BY <2>1, AcceptFailsWalks, JournalsWalk DEF Fresh, Open, Claimed, Known
  <1>2. CASE At(a, "create") /\ \E size \in Sizes : WriteFails(a, Original(NewJournal, "accept", size, None, None))
    <2>1. a \in Begun /\ att[a].pc = "create" /\ Going(a, "retire", "UNKNOWN", att[a].active, att[a].outcome)
      BY <1>2, AcceptFailsWalks DEF Walks, At
    <2>2. Journaled("create", att[a].outcome, jn[a], chain[a])
      BY <2>1 DEF Journals
    <2>3. jn[a] = None /\ chain[a] = <<>>
      BY <2>2 DEF Journaled, Fresh
    <2>4. PICK size \in Sizes : WriteFails(a, Original(NewJournal, "accept", size, None, None))
      BY <1>2
    <2>5. PICK r \in Originals : r.size = size /\ WriteFails(a, r)
      BY <2>4, NewJournalIs, OriginalTyped
    <2>6. /\ Len(chain[a]) + 1 <= MaxRecords /\ Bytes(chain[a]) + r.size <= MaxTotalBytes
          /\ Len(chain[a]) <= MaxRecords /\ Bytes(chain[a]) <= MaxTotalBytes
      <3>1. size \in Nat /\ size <= MaxRecordBytes
        BY SizesEncode, RequestBudgets
      <3> QED BY <2>3, <2>5, <3>1, EmptyChain, RequestBudgets
    <2>7. /\ chain' \in [Attempts -> Seq(Originals)] /\ \A b \in Attempts \ {a} : chain'[b] = chain[b]
          /\ chain'[a] \in Seq(Originals)
          /\ Len(chain'[a]) <= MaxRecords /\ Bytes(chain'[a]) <= MaxTotalBytes
      BY <2>5, <2>6, WriteFailed
    <2>8. UNCHANGED jn
      BY DEF AcceptFails
    <2>9. Journaled("retire", att[a].outcome, jn'[a], chain'[a])
      BY <2>3, <2>7, <2>8 DEF Journaled, Fresh, Open, Claimed, Known, Written
    <2> QED BY <2>1, <2>7, <2>8, <2>9, JournalsStep
  <1> QED BY <1>1, <1>2 DEF AcceptFails

(* Only the journal changes, by its marks.                                 *)
LEMMA MarkedIs ==
    ASSUME NEW j \in Journal, NEW fs \in SUBSET Flags
    PROVE  Marked(j, fs) # None /\ Marked(j, fs).flags = j.flags \cup fs
  <1>1. Marked(j, fs) \in Journal
    BY DEF Marked, Journal
  <1> QED BY <1>1, NoneIsNoJournal DEF Marked

(* A request that has written has a journal.                               *)
LEMMA JournalOf ==
    ASSUME TypeOK, Journals, NEW a \in Begun, att[a].pc \in Written
    PROVE  /\ jn[a] \in Journal /\ a \in Attempts
           /\ Journaled(att[a].pc, att[a].outcome, jn[a], chain[a])
  <1>1. Journaled(att[a].pc, att[a].outcome, jn[a], chain[a]) /\ a \in Attempts
    BY BegunAttempts DEF Journals
  <1>2. jn[a] \in Journal \cup {None}
    BY <1>1 DEF TypeOK
  <1> QED BY <1>1, <1>2 DEF Journaled

(* The scope claims the journal.                                           *)
LEMMA ClaimJournals ==
    ASSUME TypeOK, Journals, NEW a \in Attempts, Claim(a)
    PROVE  Journals'
  <1>1. a \in Begun /\ att[a].pc = "accepted" /\ Going(a, "business", att[a].state, att[a].active, att[a].outcome)
    BY ClaimWalks DEF Walks
  <1>2. jn[a] \in Journal /\ Journaled("accepted", att[a].outcome, jn[a], chain[a])
    BY <1>1, JournalOf DEF Written, Open
  <1>3. jn' = [jn EXCEPT ![a] = Marked(jn[a], {"claimed"})] /\ UNCHANGED chain
    BY DEF Claim
  <1>4. jn'[a] = Marked(jn[a], {"claimed"}) /\ \A b \in Attempts \ {a} : jn'[b] = jn[b]
    BY <1>3, JnSet
  <1>5. Marked(jn[a], {"claimed"}) # None /\ Marked(jn[a], {"claimed"}).flags = jn[a].flags \cup {"claimed"}
    BY <1>2, MarkedIs DEF Flags
  <1>6. "poisoned" \notin jn[a].flags => Follows(chain[a], Marked(jn[a], {"claimed"}))
    BY <1>2, FollowsMarked, NoneIsNoJournal DEF Journaled
  <1>7. Journaled("business", att[a].outcome, jn'[a], chain[a])
    BY <1>2, <1>4, <1>5, <1>6 DEF Journaled, Fresh, Open, Claimed, Known, Written
  <1>8. chain' \in [Attempts -> Seq(Originals)] /\ \A b \in Attempts \ {a} : chain'[b] = chain[b]
    BY <1>3 DEF Journals
  <1> QED BY <1>1, <1>3, <1>4, <1>7, <1>8, JournalsStep

(* The handler ends with an outcome.                                       *)
LEMMA BusinessEndsJournals ==
    ASSUME TypeOK, Journals, NEW a \in Attempts, BusinessEnds(a)
    PROVE  Journals'
  <1>1. a \in Begun /\ att[a].pc = "business" /\ UNCHANGED <<jn, chain>>
    BY BusinessEndsGoes DEF BusinessEnds
  <1>2. PICK o \in Outcomes : Going(a, "seal", att[a].state, att[a].active, o)
    BY BusinessEndsGoes
  <1>3. Journaled("business", att[a].outcome, jn[a], chain[a])
    BY <1>1 DEF Journals
  <1>4. Journaled("seal", o, jn[a], chain[a])
    BY <1>3 DEF Journaled, Fresh, Open, Claimed, Known, Written
  <1>5. /\ chain' \in [Attempts -> Seq(Originals)] /\ jn'[a] = jn[a] /\ chain'[a] = chain[a]
        /\ \A b \in Attempts \ {a} : jn'[b] = jn[b] /\ chain'[b] = chain[b]
    BY <1>1 DEF Journals
  <1> QED BY <1>1, <1>2, <1>4, <1>5, JournalsStep

(* The journal is closed, cleanly or not.                                  *)
LEMMA CloseJournalJournals ==
    ASSUME TypeOK, Journals, NEW a \in Attempts, CloseJournal(a)
    PROVE  Journals'
  <1>1. a \in Begun /\ att[a].pc = "close"
    BY DEF CloseJournal, At
  <1>2. jn[a] \in Journal /\ Journaled("close", att[a].outcome, jn[a], chain[a])
    BY <1>1, JournalOf DEF Written
  <1>3. UNCHANGED chain
    BY DEF CloseJournal
  <1>4. chain' \in [Attempts -> Seq(Originals)] /\ \A b \in Attempts \ {a} : chain'[b] = chain[b]
    BY <1>3 DEF Journals
  <1>5. ASSUME NEW fs \in {{"closed"}, {"closed", "failed", "closeFailed"}},
               NEW p, p \in {"finish", "stuck"}, p = "finish" => "sealed" \in jn[a].flags /\ fs = {"closed"},
               jn' = [jn EXCEPT ![a] = Marked(jn[a], fs)],
               Going(a, p, att[a].state, att[a].active, att[a].outcome)
        PROVE  Journals'
    <2>1. jn'[a] = Marked(jn[a], fs) /\ \A b \in Attempts \ {a} : jn'[b] = jn[b]
      BY <1>5, JnSet
    <2>2. Marked(jn[a], fs) # None /\ Marked(jn[a], fs).flags = jn[a].flags \cup fs
      BY <1>2, <1>5, MarkedIs DEF Flags
    <2>3. "poisoned" \notin jn[a].flags => Follows(chain[a], Marked(jn[a], fs))
      BY <1>2, <1>5, FollowsMarked, NoneIsNoJournal DEF Journaled
    <2>4. Journaled(p, att[a].outcome, jn'[a], chain[a])
      <3>1. CASE p = "finish"
        BY <1>2, <1>5, <2>1, <2>2, <2>3, <3>1 DEF Journaled, Fresh, Open, Claimed, Known, Written
      <3>2. CASE p = "stuck"
        BY <1>2, <1>5, <2>1, <2>2, <2>3, <3>2 DEF Journaled, Fresh, Open, Claimed, Known, Written
      <3> QED BY <1>5, <3>1, <3>2
    <2> QED BY <1>1, <1>3, <1>4, <1>5, <2>1, <2>4, JournalsStep
  <1>6. CASE /\ jn' = [jn EXCEPT ![a] = Marked(@, {"closed"})]
             /\ Move(a, IF "sealed" \in jn[a].flags THEN "finish" ELSE "stuck")
    <2>1. PICK p : p = IF "sealed" \in jn[a].flags THEN "finish" ELSE "stuck"
      OBVIOUS
    <2>2. Going(a, p, att[a].state, att[a].active, att[a].outcome)
      BY <1>1, <1>6, <2>1, MoveGoes DEF Pcs
    <2>3. jn' = [jn EXCEPT ![a] = Marked(jn[a], {"closed"})]
      BY <1>6
    <2> QED BY <1>5, <2>1, <2>2, <2>3
  <1>7. CASE jn' = [jn EXCEPT ![a] = Marked(@, {"closed", "failed", "closeFailed"})] /\ Move(a, "stuck")
    <2>1. Going(a, "stuck", att[a].state, att[a].active, att[a].outcome)
      BY <1>1, <1>7, MoveGoes DEF Pcs
    <2>2. jn' = [jn EXCEPT ![a] = Marked(jn[a], {"closed", "failed", "closeFailed"})]
      BY <1>7
    <2> QED BY <1>5, <2>1, <2>2
  <1> QED BY <1>6, <1>7 DEF CloseJournal

(* retire closes what is left.                                             *)
LEMMA RetireJournals ==
    ASSUME TypeOK, Journals, NEW a \in Attempts, Retire(a)
    PROVE  Journals'
  <1>1. a \in Begun /\ att[a].pc = "retire"
    BY RetireGoes
  <1>2. PICK p : p \in {"done", "failed"} /\ Going(a, p, att[a].state, FALSE, att[a].outcome)
    BY RetireGoes
  <1>3. Journaled("retire", att[a].outcome, jn[a], chain[a]) /\ jn[a] \in Journal \cup {None}
    BY <1>1 DEF Journals, TypeOK
  <1>4. jn' = [jn EXCEPT ![a] = IF jn[a] = None THEN None ELSE Marked(jn[a], {"closed"})] /\ UNCHANGED chain
    BY DEF Retire
  <1>5. /\ jn'[a] = (IF jn[a] = None THEN None ELSE Marked(jn[a], {"closed"}))
        /\ \A b \in Attempts \ {a} : jn'[b] = jn[b]
    BY <1>4, JnSet
  <1>6. Journaled(p, att[a].outcome, jn'[a], chain[a])
    <2>1. CASE jn[a] = None
      BY <1>2, <1>3, <1>5, <2>1 DEF Journaled, Fresh, Open, Claimed, Known, Written
    <2>2. CASE jn[a] \in Journal /\ jn[a] # None
      <3>1. Marked(jn[a], {"closed"}) # None /\ Marked(jn[a], {"closed"}).flags = jn[a].flags \cup {"closed"}
        BY <2>2, MarkedIs DEF Flags
      <3>2. "poisoned" \notin jn[a].flags => Follows(chain[a], Marked(jn[a], {"closed"}))
        BY <1>3, <2>2, FollowsMarked DEF Journaled
      <3> QED BY <1>2, <1>3, <1>5, <2>2, <3>1, <3>2 DEF Journaled, Fresh, Open, Claimed, Known, Written
    <2> QED BY <1>3, <2>1, <2>2
  <1>7. chain' \in [Attempts -> Seq(Originals)] /\ \A b \in Attempts \ {a} : chain'[b] = chain[b]
    BY <1>4 DEF Journals
  <1> QED BY <1>1, <1>2, <1>4, <1>5, <1>6, <1>7, JournalsStep

(* An event or a seal is written and confirmed.                            *)
LEMMA EmitJournals ==
    ASSUME TypeOK, Journals, NEW a \in Attempts, Emit(a)
    PROVE  Journals'
  <1>1. a \in Begun /\ att[a].pc = "business" /\ UNCHANGED att
    BY DEF Emit, At
  <1>2. jn[a] \in Journal /\ Journaled("business", att[a].outcome, jn[a], chain[a])
    BY <1>1, JournalOf DEF Written, Open
  <1>3. PICK size \in Sizes :
          /\ Reserved(jn[a], size)
          /\ Wrote(a, Original(jn[a], "event", size, None, None))
          /\ jn' = [jn EXCEPT ![a] = Confirmed(jn[a], size, TRUE, {})]
    BY DEF Emit
  <1>4. Follows(chain[a], jn[a]) /\ jn[a].flags \cap {"poisoned", "closed", "sealed"} = {}
    BY <1>2, NoneIsNoJournal DEF Emit, Available, Journaled
  <1> DEFINE j == jn[a]
             r == Original(j, "event", size, None, None)
             k == Confirmed(j, size, TRUE, {})
             d == Append(chain[a], r)
  <1>5. d \in Seq(Originals) /\ Len(d) = j.count + 1 /\ Bytes(d) = j.bytes + size /\ Follows(d, k)
    <2>1. r \in Originals /\ r.size = size
      BY <1>2, OriginalTyped
    <2>2. r.kind = "event" /\ r.prev = j.count /\ r.events = j.events /\ r.seq = j.events + 1
      BY DEF Original
    <2>3. k.count = j.count + 1 /\ k.bytes = j.bytes + size /\ k.events = j.events + 1 /\ k.flags = j.flags
      BY DEF Confirmed
    <2>4. chain[a] \in Seq(Originals)
      BY <1>2 DEF Journaled
    <2> HIDE DEF r, k
    <2> QED BY <1>2, <1>4, <2>1, <2>2, <2>3, <2>4, FollowsMore
  <1>6. k \in Journal /\ k.flags = j.flags
    <2>1. k \in Journal
      BY <1>2, <1>3, ConfirmedKeeps
    <2> QED BY <2>1 DEF Confirmed
  <1>7. chain' = [chain EXCEPT ![a] = Append(@, r)]
    BY <1>3 DEF Wrote
  <1>8. Len(d) <= MaxRecords /\ Bytes(d) <= MaxTotalBytes
    <2>1. size \in Nat /\ j.count \in Nat /\ j.bytes \in Nat
      BY <1>2, SizesAreNats DEF Journal
    <2>2. MaxRecordBytes \in Nat /\ MaxTotalBytes \in Nat /\ MaxRecords \in Nat
      BY RequestBudgets
    <2>3. j.count + 2 <= MaxRecords /\ j.bytes + size + MaxRecordBytes <= MaxTotalBytes
      BY <1>3 DEF Reserved
    <2>4. Len(d) = j.count + 1 /\ Bytes(d) = j.bytes + size
      BY <1>5
    <2>5. j.count + 1 <= MaxRecords /\ j.bytes + size <= MaxTotalBytes
      BY <2>1, <2>2, <2>3
    <2> QED BY <2>4, <2>5
  <1> HIDE DEF r, k
  <1>9. /\ chain' \in [Attempts -> Seq(Originals)] /\ chain'[a] = d
        /\ \A b \in Attempts \ {a} : chain'[b] = chain[b]
    BY <1>5, <1>7, ChainSet
  <1>10. jn'[a] = k /\ \A b \in Attempts \ {a} : jn'[b] = jn[b]
    BY <1>3, JnSet DEF k
  <1> HIDE DEF d
  <1>11. Journaled("business", att[a].outcome, k, d)
    BY <1>2, <1>5, <1>6, <1>8, NoneIsNoJournal DEF Journaled, Fresh, Open, Claimed, Known, Written
  <1>12. \A b \in Begun : b # a => Journaled(att[b].pc, att[b].outcome, jn'[b], chain'[b])
    BY <1>9, <1>10, BegunAttempts DEF Journals
  <1> QED BY <1>1, <1>9, <1>10, <1>11, <1>12 DEF Journals, Begun

(* The seal is the last original and carries the outcome.                  *)
LEMMA SealJournals ==
    ASSUME TypeOK, Journals, NEW a \in Attempts, Seal(a)
    PROVE  Journals'
  <1>1. a \in Begun /\ att[a].pc = "seal" /\ Going(a, "close", att[a].state, att[a].active, att[a].outcome)
    BY SealWalks DEF Walks
  <1>2. jn[a] \in Journal /\ Journaled("seal", att[a].outcome, jn[a], chain[a])
    BY <1>1, JournalOf DEF Written, Open
  <1>3. PICK size \in Sizes :
          /\ SealFits(jn[a], size)
          /\ Wrote(a, SealRecord(a, size))
          /\ jn' = [jn EXCEPT ![a] = Confirmed(jn[a], size, FALSE, {"sealed"})]
    BY DEF Seal
  <1>4. Follows(chain[a], jn[a]) /\ jn[a].flags \cap {"poisoned", "closed", "sealed"} = {}
    BY <1>2, NoneIsNoJournal DEF Seal, Available, Journaled
  <1>5. PICK status \in {"COMPLETE", "FAILED"} : status = SealStatus(jn[a])
    BY DEF SealStatus
  <1>6. att[a].outcome \in Outcomes \cup {None}
    BY <1>1, AttemptFields
  <1> DEFINE j == jn[a]
             r == Original(j, "seal", size, status, att[a].outcome)
             k == Confirmed(j, size, FALSE, {"sealed"})
             d == Append(chain[a], r)
  <1>7. /\ d \in Seq(Originals) /\ Len(d) = j.count + 1 /\ Bytes(d) = j.bytes + size /\ Follows(d, k)
        /\ d[Len(d)].outcome = att[a].outcome
    <2>1. r \in Originals /\ r.size = size
      BY <1>2, <1>5, <1>6, OriginalTyped
    <2>2. /\ r.kind = "seal" /\ r.prev = j.count /\ r.events = j.events /\ r.seq = j.events + 1
          /\ r.status = status /\ r.outcome = att[a].outcome
      BY DEF Original
    <2>3. /\ k.count = j.count + 1 /\ k.bytes = j.bytes + size /\ k.events = j.events + 0
          /\ "sealed" \in k.flags
      BY DEF Confirmed
    <2>4. chain[a] \in Seq(Originals)
      BY <1>2 DEF Journaled
    <2> HIDE DEF r, k
    <2> QED BY <1>2, <1>4, <1>5, <2>1, <2>2, <2>3, <2>4, FollowsMore
  <1>8. k \in Journal /\ k.flags = j.flags \cup {"sealed"}
    <2>1. size \in Nat /\ j.count \in Nat /\ j.bytes \in Nat /\ j.events \in Nat /\ j.flags \in SUBSET Flags
      BY <1>2, SizesAreNats DEF Journal
    <2> QED BY <2>1 DEF Confirmed, Journal, Flags
  <1>9. chain' = [chain EXCEPT ![a] = Append(@, r)]
    BY <1>3, <1>5 DEF Wrote, SealRecord
  <1>10. Len(d) <= MaxRecords /\ Bytes(d) <= MaxTotalBytes
    <2>1. size \in Nat /\ j.count \in Nat /\ j.bytes \in Nat
      BY <1>2, SizesAreNats DEF Journal
    <2> QED BY <1>3, <1>7, <2>1, RequestBudgets DEF SealFits
  <1> HIDE DEF r, k
  <1>11. /\ chain' \in [Attempts -> Seq(Originals)] /\ chain'[a] = d
         /\ \A b \in Attempts \ {a} : chain'[b] = chain[b]
    BY <1>7, <1>9, ChainSet
  <1>12. jn'[a] = k /\ \A b \in Attempts \ {a} : jn'[b] = jn[b]
    BY <1>3, JnSet DEF k
  <1> HIDE DEF d
  <1>13. Journaled("close", att[a].outcome, k, d)
    BY <1>2, <1>4, <1>7, <1>8, <1>10, NoneIsNoJournal DEF Journaled, Fresh, Open, Claimed, Known, Written
  <1> QED BY <1>1, <1>11, <1>12, <1>13, JournalsStep

(* What is refused or fails leaves a journal that cannot be sealed as      *)
(* complete.                                                               *)
LEMMA EmitRefusedJournals ==
    ASSUME TypeOK, Journals, NEW a \in Attempts, EmitRefused(a)
    PROVE  Journals'
  <1>1. a \in Begun /\ att[a].pc = "business" /\ UNCHANGED <<att, chain>>
    BY DEF EmitRefused, At
  <1>2. jn[a] \in Journal /\ Journaled("business", att[a].outcome, jn[a], chain[a])
    BY <1>1, JournalOf DEF Written, Open
  <1> DEFINE k == Marked(jn[a], {"failed", "scopeFailed"})
  <1>3. jn' = [jn EXCEPT ![a] = k]
    BY DEF EmitRefused
  <1>4. k # None /\ k.flags = jn[a].flags \cup {"failed", "scopeFailed"}
    BY <1>2, MarkedIs DEF Flags
  <1>5. "poisoned" \notin jn[a].flags => Follows(chain[a], k)
    BY <1>2, FollowsMarked, NoneIsNoJournal DEF Journaled
  <1> HIDE DEF k
  <1>6. jn'[a] = k /\ \A b \in Attempts \ {a} : jn'[b] = jn[b]
    BY <1>3, JnSet
  <1>7. Journaled("business", att[a].outcome, k, chain[a])
    BY <1>2, <1>4, <1>5 DEF Journaled, Fresh, Open, Claimed, Known, Written
  <1>8. \A b \in Begun : b # a => Journaled(att[b].pc, att[b].outcome, jn'[b], chain'[b])
    BY <1>1, <1>6, BegunAttempts DEF Journals
  <1> QED BY <1>1, <1>6, <1>7, <1>8 DEF Journals, Begun

(* An event that is not confirmed poisons the journal.                     *)
LEMMA EmitFailsJournals ==
    ASSUME TypeOK, Journals, NEW a \in Attempts, EmitFails(a)
    PROVE  Journals'
  <1>1. a \in Begun /\ att[a].pc = "business" /\ UNCHANGED att
    BY DEF EmitFails, At
  <1>2. jn[a] \in Journal /\ Journaled("business", att[a].outcome, jn[a], chain[a])
    BY <1>1, JournalOf DEF Written, Open
  <1>3. Follows(chain[a], jn[a])
    BY <1>2, NoneIsNoJournal DEF EmitFails, Available, Journaled
  <1>4. PICK size \in Sizes : /\ Reserved(jn[a], size)
                              /\ WriteFails(a, Original(jn[a], "event", size, None, None))
    BY DEF EmitFails
  <1>5. PICK r \in Originals : r.size = size /\ WriteFails(a, r)
    BY <1>2, <1>4, OriginalTyped
  <1>6. /\ Len(chain[a]) + 1 <= MaxRecords /\ Bytes(chain[a]) + r.size <= MaxTotalBytes
        /\ Len(chain[a]) <= MaxRecords /\ Bytes(chain[a]) <= MaxTotalBytes
    <2>1. size \in Nat /\ jn[a].count \in Nat /\ jn[a].bytes \in Nat
      BY <1>2, SizesAreNats DEF Journal
    <2>2. MaxRecordBytes \in Nat /\ MaxTotalBytes \in Nat /\ MaxRecords \in Nat
      BY RequestBudgets
    <2>3. jn[a].count + 2 <= MaxRecords /\ jn[a].bytes + size + MaxRecordBytes <= MaxTotalBytes
      BY <1>4 DEF Reserved
    <2>4. Len(chain[a]) = jn[a].count /\ Bytes(chain[a]) = jn[a].bytes /\ r.size = size
      BY <1>3, <1>5 DEF Follows
    <2>5. Len(chain[a]) \in Nat /\ Bytes(chain[a]) \in Nat
      BY <2>1, <2>4
    <2>6. Len(chain[a]) + 1 <= MaxRecords /\ Bytes(chain[a]) + r.size <= MaxTotalBytes
      BY <2>1, <2>2, <2>3, <2>4
    <2>7. Len(chain[a]) <= MaxRecords /\ Bytes(chain[a]) <= MaxTotalBytes
      BY <2>1, <2>2, <2>3, <2>4
    <2> QED BY <2>6, <2>7
  <1>7. /\ chain' \in [Attempts -> Seq(Originals)] /\ \A b \in Attempts \ {a} : chain'[b] = chain[b]
        /\ chain'[a] \in Seq(Originals)
        /\ Len(chain'[a]) <= MaxRecords /\ Bytes(chain'[a]) <= MaxTotalBytes
    BY <1>5, <1>6, WriteFailed
  <1> DEFINE k == Marked(jn[a], {"failed", "scopeFailed", "poisoned"})
  <1>8. k # None /\ k.flags = jn[a].flags \cup {"failed", "scopeFailed", "poisoned"}
    BY <1>2, MarkedIs DEF Flags
  <1>9. jn' = [jn EXCEPT ![a] = k]
    BY DEF EmitFails
  <1> HIDE DEF k
  <1>10. jn'[a] = k /\ \A b \in Attempts \ {a} : jn'[b] = jn[b]
    BY <1>9, JnSet
  <1>11. Journaled("business", att[a].outcome, k, chain'[a])
    BY <1>2, <1>7, <1>8 DEF Journaled, Fresh, Open, Claimed, Known, Written
  <1>12. \A b \in Begun : b # a => Journaled(att[b].pc, att[b].outcome, jn'[b], chain'[b])
    BY <1>7, <1>10, BegunAttempts DEF Journals
  <1> QED BY <1>1, <1>7, <1>10, <1>11, <1>12 DEF Journals, Begun

(* A seal that is refused or not confirmed poisons it, too.                *)
LEMMA SealFailsJournals ==
    ASSUME TypeOK, Journals, NEW a \in Attempts, SealFails(a)
    PROVE  Journals'
  <1>1. a \in Begun /\ att[a].pc = "seal" /\ Going(a, "close", att[a].state, att[a].active, att[a].outcome)
    BY SealFailsWalks DEF Walks
  <1>2. jn[a] \in Journal /\ Journaled("seal", att[a].outcome, jn[a], chain[a])
    BY <1>1, JournalOf DEF Written, Open
  <1> DEFINE k == Marked(jn[a], {"failed", "poisoned"})
  <1>3. k # None /\ k.flags = jn[a].flags \cup {"failed", "poisoned"}
    BY <1>2, MarkedIs DEF Flags
  <1>4. /\ chain \in [Attempts -> Seq(Originals)] /\ chain[a] \in Seq(Originals)
        /\ Len(chain[a]) <= MaxRecords /\ Bytes(chain[a]) <= MaxTotalBytes
    BY <1>2 DEF Journals, Journaled
  <1>5. ASSUME jn' = [jn EXCEPT ![a] = k], chain' \in [Attempts -> Seq(Originals)],
               \A b \in Attempts \ {a} : chain'[b] = chain[b], chain'[a] \in Seq(Originals),
               Len(chain'[a]) <= MaxRecords, Bytes(chain'[a]) <= MaxTotalBytes
        PROVE  Journals'
    <2> HIDE DEF k
    <2>1. jn'[a] = k /\ \A b \in Attempts \ {a} : jn'[b] = jn[b]
      BY <1>5, JnSet
    <2>2. Journaled("close", att[a].outcome, k, chain'[a])
      BY <1>2, <1>3, <1>5 DEF Journaled, Fresh, Open, Claimed, Known, Written
    <2> QED BY <1>1, <1>5, <2>1, <2>2, JournalsStep
  <1>6. CASE ~Available(jn[a]) /\ UNCHANGED <<jn, chain>>
    <2>1. Journaled("close", att[a].outcome, jn[a], chain[a])
      BY <1>2, <1>6 DEF Journaled, Fresh, Open, Claimed, Known, Written
    <2>2. /\ jn'[a] = jn[a] /\ chain'[a] = chain[a]
          /\ \A b \in Attempts \ {a} : jn'[b] = jn[b] /\ chain'[b] = chain[b]
      BY <1>6
    <2> QED BY <1>1, <1>4, <1>6, <2>1, <2>2, JournalsStep
  <1>7. CASE jn' = [jn EXCEPT ![a] = k] /\ UNCHANGED chain
    BY <1>4, <1>5, <1>7
  <1>8. CASE /\ Available(jn[a]) /\ jn' = [jn EXCEPT ![a] = k]
             /\ \E size \in Sizes : SealFits(jn[a], size) /\ WriteFails(a, SealRecord(a, size))
    <2>1. Follows(chain[a], jn[a])
      BY <1>2, <1>8, NoneIsNoJournal DEF Available, Journaled
    <2>2. PICK size \in Sizes : SealFits(jn[a], size) /\ WriteFails(a, SealRecord(a, size))
      BY <1>8
    <2>3. PICK status \in {"COMPLETE", "FAILED"} : status = SealStatus(jn[a])
      BY DEF SealStatus
    <2>4. att[a].outcome \in Outcomes \cup {None}
      BY <1>1, AttemptFields
    <2>5. PICK r \in Originals : r.size = size /\ WriteFails(a, r)
      BY <1>2, <2>2, <2>3, <2>4, OriginalTyped DEF SealRecord
    <2>6. Len(chain[a]) + 1 <= MaxRecords /\ Bytes(chain[a]) + r.size <= MaxTotalBytes
      <3>1. size \in Nat /\ jn[a].count \in Nat /\ jn[a].bytes \in Nat
        BY <1>2, SizesAreNats DEF Journal
      <3> QED BY <2>1, <2>2, <2>5, <3>1, RequestBudgets DEF SealFits, Follows
    <2> QED BY <1>4, <1>5, <1>8, <2>5, <2>6, WriteFailed
  <1> QED BY <1>6, <1>7, <1>8 DEF SealFails

(* begin appends an attempt; the others stay.                              *)
LEMMA BeginGoes ==
    ASSUME TypeOK, NEW k \in Keys, BeginReserve(k)
    PROVE  LET n == Len(att) + 1
           IN  /\ n \in Nat /\ Len(att') = n /\ Begun' = Begun \cup {n} /\ n \notin Begun
               /\ \A b \in Begun : b < n /\ att'[b] = att[b]
               /\ att'[n].key = k /\ att'[n].reason = Reason(k) /\ att'[n].pc = "begin"
               /\ att'[n].state = "BEGUN" /\ att'[n].outcome = None
               /\ Begun \subseteq Attempts /\ n \in Attempts
  <1> DEFINE n == Len(att) + 1
             r == [key |-> k, reason |-> Reason(k), state |-> "BEGUN", active |-> Reason(k) = "NONE",
                   pc |-> "begin", outcome |-> None]
  <1>1. Len(att) \in Nat /\ Begun = 1..Len(att)
    BY BegunIsFinite
  <1>2. att' = Append(att, r)
    BY DEF BeginReserve
  <1>3. /\ r.key = k /\ r.reason = Reason(k) /\ r.state = "BEGUN" /\ r.pc = "begin" /\ r.outcome = None
    OBVIOUS
  <1>4. Len(att') = n /\ Begun' = 1..n /\ att'[n] = r /\ \A b \in Begun : att'[b] = att[b]
    <2> HIDE DEF r
    <2> QED BY <1>1, <1>2 DEF TypeOK, Begun
  <1> HIDE DEF r
  <1>5. Begun \subseteq Attempts /\ n \in Attempts
    BY <1>1, LimitsAreNats DEF TypeOK, BeginReserve, Attempts
  <1>6. n \notin Begun /\ Begun' = Begun \cup {n} /\ n \in Nat /\ \A b \in Begun : b < n
    BY <1>1, <1>4
  <1> HIDE DEF n
  <1> QED BY <1>3, <1>4, <1>5, <1>6 DEF n

(* A new attempt has written nothing.                                      *)
LEMMA JournalsBegin ==
    ASSUME TypeOK, Journals, NEW k \in Keys, BeginReserve(k)
    PROVE  Journals'
  <1>1. PICK n \in Attempts : /\ n = Len(att) + 1 /\ Begun' = Begun \cup {n} /\ n \notin Begun
                              /\ \A b \in Begun : att'[b] = att[b]
                              /\ att'[n].pc = "begin" /\ att'[n].outcome = None
    BY BeginGoes
  <1>2. UNCHANGED <<jn, chain>>
    BY DEF BeginReserve
  <1>3. jn[n] = None /\ chain[n] = <<>>
    BY <1>1 DEF Journals
  <1>4. Journaled(att'[n].pc, att'[n].outcome, jn'[n], chain'[n])
    <2>1. 0 <= MaxRecords /\ 0 <= MaxTotalBytes
      BY RequestBudgets
    <2> QED BY <1>1, <1>2, <1>3, <2>1, EmptyChain DEF Journaled, Fresh, Open, Claimed, Known, Written
  <1>5. ASSUME NEW b \in Begun PROVE Journaled(att'[b].pc, att'[b].outcome, jn'[b], chain'[b])
    BY <1>1, <1>2 DEF Journals
  <1>6. \A b \in Attempts \ Begun' : jn'[b] = None /\ chain'[b] = <<>>
    BY <1>1, <1>2 DEF Journals
  <1>7. chain' \in [Attempts -> Seq(Originals)]
    BY <1>2 DEF Journals
  <1> QED BY <1>1, <1>4, <1>5, <1>6, <1>7 DEF Journals, Journaled

LEMMA JournalsStill ==
    ASSUME Journals, UNCHANGED <<att, jn, chain>>
    PROVE  Journals'
  BY DEF Journals, Journaled, Begun

LEMMA JournalsFirst == Init => Journals
  <1> SUFFICES ASSUME Init PROVE Journals
    OBVIOUS
  <1>1. Begun = {} /\ \A a \in Attempts : jn[a] = None /\ chain[a] = <<>>
    BY DEF Init, Begun
  <1>2. chain \in [Attempts -> Seq(Originals)]
    BY EmptyChain DEF Init
  <1> QED BY <1>1, <1>2 DEF Journals

(* Every step keeps journals and disk together.                            *)
LEMMA JournalsNext ==
    ASSUME TypeOK, Journals, [Next]_vars
    PROVE  Journals'
  <1>1. ASSUME NEW k \in Keys, BeginReserve(k) PROVE Journals'
    BY <1>1, JournalsBegin
  <1>2. ASSUME NEW a \in Attempts,
               \/ BeginPublish(a) \/ RejectPublish(a) \/ BeginFails(a) \/ AcceptStart(a) \/ AcceptLock(a)
               \/ AcceptPublish(a) \/ ClaimSkipped(a) \/ FinishStart(a) \/ FinishRead(a) \/ FinishLock(a)
               \/ FinishPublish(a) \/ FinishEnded(a) \/ FinishFails(a)
        PROVE  Journals'
    BY <1>2, JournalsRest
  <1>3. ASSUME NEW a \in Attempts,
               \/ AcceptCreate(a) \/ AcceptFails(a) \/ Claim(a) \/ Emit(a) \/ EmitRefused(a) \/ EmitFails(a)
               \/ BusinessEnds(a) \/ Seal(a) \/ SealFails(a) \/ CloseJournal(a) \/ Retire(a)
        PROVE  Journals'
    BY <1>3, AcceptCreateJournals, AcceptFailsJournals, ClaimJournals, EmitJournals, EmitRefusedJournals,
       EmitFailsJournals, BusinessEndsJournals, SealJournals, SealFailsJournals, CloseJournalJournals,
       RetireJournals
  <1>4. ASSUME NEW s \in Sessions, PrefixRead(s) \/ PrefixIssue(s) PROVE Journals'
    BY <1>4, JournalsStill DEF PrefixRead, PrefixIssue
  <1>5. CASE CloseStart \/ ClosePublish \/ CloseRefused \/ CloseCleanup
    BY <1>5, JournalsStill DEF CloseStart, ClosePublish, CloseRefused, CloseCleanup
  <1>6. CASE UNCHANGED vars
    BY <1>6, JournalsStill DEF vars
  <1> QED BY <1>1, <1>2, <1>3, <1>4, <1>5, <1>6 DEF Next

(* Every step keeps the attempts placed.                                   *)
LEMMA PlacedNext ==
    ASSUME TypeOK, Placed, [Next]_vars
    PROVE  Placed'
  <1>0. unknown \in BOOLEAN
    BY DEF Placed, LockFits
  <1>1. ASSUME NEW k \in Keys, BeginReserve(k) PROVE Placed'
    BY <1>1, PlacedBegin
  <1>2. ASSUME NEW a \in Attempts,
           \/ AcceptStart(a) \/ AcceptCreate(a) \/ AcceptLock(a) \/ AcceptPublish(a) \/ Claim(a)
           \/ ClaimSkipped(a) \/ Seal(a) \/ SealFails(a) \/ CloseJournal(a) \/ FinishStart(a)
           \/ FinishRead(a) \/ FinishLock(a) \/ FinishPublish(a) \/ FinishEnded(a)
        PROVE  Placed'
    BY <1>2, PlacedMoves
  <1>3. ASSUME NEW a \in Attempts,
           \/ BeginPublish(a) \/ RejectPublish(a) \/ BeginFails(a) \/ AcceptFails(a) \/ FinishFails(a)
           \/ BusinessEnds(a) \/ Retire(a)
        PROVE  Placed'
    BY <1>3, PlacedOthers
  <1>4. ASSUME NEW a \in Attempts, Emit(a) \/ EmitRefused(a) \/ EmitFails(a) PROVE Placed'
    <2>1. UNCHANGED <<att, active, lock, life>> /\ (unknown' = unknown \/ unknown' = TRUE)
      BY <1>4 DEF Emit, EmitRefused, EmitFails, Wrote, WriteFails, budgets
    <2> QED BY <1>0, <2>1, PlacedStill
  <1>5. ASSUME NEW s \in Sessions, PrefixRead(s) \/ PrefixIssue(s) PROVE Placed'
    <2>1. UNCHANGED <<att, active, lock, life>> /\ (unknown' = unknown \/ unknown' = TRUE)
      BY <1>5 DEF PrefixRead, PrefixIssue, budgets
    <2> QED BY <1>0, <2>1, PlacedStill
  <1>6. CASE CloseStart \/ ClosePublish \/ CloseRefused \/ CloseCleanup
    BY <1>6, PlacedClose
  <1>7. CASE UNCHANGED vars
    <2>1. UNCHANGED <<att, active, lock, life, unknown>>
      BY <1>7 DEF vars, budgets
    <2> QED BY <1>0, <2>1, PlacedStill
  <1> QED BY <1>1, <1>2, <1>3, <1>4, <1>5, <1>6, <1>7 DEF Next

(* What finish finds when it reads the originals of a clean request.       *)
LEMMA KnownOriginals ==
    ASSUME TypeOK, Journals, NEW a \in Begun, att[a].pc \in Known
    PROVE  OriginalsKnown(a) /\ Len(chain[a]) \in Nat
  <1> DEFINE c == chain[a]
             j == jn[a]
  <1>1. j \in Journal /\ Journaled(att[a].pc, att[a].outcome, j, c) /\ att[a].pc \in Written
    BY JournalOf DEF Written
  <1>2. c \in Seq(Originals) /\ Len(c) <= MaxRecords /\ Bytes(c) <= MaxTotalBytes /\ Len(c) \in Nat
    BY <1>1 DEF Journaled
  <1>3. /\ {"sealed", "closed"} \subseteq j.flags /\ {"poisoned", "closeFailed"} \cap j.flags = {}
        /\ c[Len(c)].outcome = att[a].outcome /\ Follows(c, j)
    BY <1>1, NoneIsNoJournal DEF Journaled
  <1> HIDE DEF c, j
  <1>4. /\ Len(c) = j.count /\ Len(c) >= 1 /\ Bytes(c) = j.bytes /\ Linked(c)
        /\ c[Len(c)].kind = "seal" /\ c[Len(c)].events = j.events
    BY <1>3 DEF Follows
  <1>5. c[Len(c)].status \in {"COMPLETE", "FAILED"} /\ Last(c) = c[Len(c)]
    <2>1. Len(c) \in 1..Len(c)
      BY <1>2, <1>4
    <2> QED BY <1>4, <2>1 DEF Linked, Last
  <1>6. Verifies(c)
    <2>1. DOMAIN c = 1..Len(c)
      BY <1>2
    <2>2. Len(c) \in 1..MaxRecords
      BY <1>2, <1>4, RequestBudgets
    <2> QED BY <1>2, <1>4, <2>1, <2>2 DEF Verifies, Linked
  <1>7. "claimed" \in j.flags
    <2>1. att[a].pc \in Claimed
      BY DEF Claimed
    <2> QED BY <1>1, <2>1 DEF Journaled
  <1>8. Status(c) = c[Len(c)].status
    BY <1>4, <1>5 DEF Status
  <1> QED BY <1>2, <1>3, <1>4, <1>5, <1>6, <1>7, <1>8 DEF OriginalsKnown, c, j

(***************************************************************************)
(* The rows of a catalog, as its reader meets them                         *)
(***************************************************************************)
RowTypes == {"INSTANCE_BEGIN", "ATTEMPT_BEGIN", "ACCEPT_ACK", "ATTEMPT_END", "INSTANCE_END"}

CatalogRows ==
    [type : RowTypes, seq : Nat, prev : Nat, attempt : Attempts \cup {None}, key : Keys \cup {None},
     reason : Reasons \cup {None}, disposition : {"REJECTED", "COMPLETE", "FAILED", None},
     outcome : Outcomes \cup {None}, records : Nat, bytes : Nat, accepted : Nat, rejected : Nat]

Among(c, type, a) == {j \in 1..Len(c) : c[j].type = type /\ c[j].attempt = a}

Opened(c) == {j \in 1..Len(c) : c[j].type = "ATTEMPT_BEGIN"}

Admitted(c, a) == \E j \in Among(c, "ATTEMPT_BEGIN", a) : c[j].reason = "NONE"

(* Row r verifies behind the rows c.                                       *)
Continues(c, r) ==
    /\ r.seq = Len(c) /\ r.prev = Len(c) /\ r.type # "INSTANCE_BEGIN"
    /\ r.type = "ATTEMPT_BEGIN" =>
          /\ r.attempt = Cardinality(Opened(c)) + 1
          /\ r.reason = "DUPLICATE" <=> (\E j \in Opened(c) : c[j].key = r.key)
    /\ r.type \in {"ACCEPT_ACK", "ATTEMPT_END"} =>
          Among(c, "ATTEMPT_BEGIN", r.attempt) # {} /\ Among(c, "ATTEMPT_END", r.attempt) = {}
    /\ r.type = "ACCEPT_ACK" => Admitted(c, r.attempt) /\ Among(c, "ACCEPT_ACK", r.attempt) = {}
    /\ r.type = "ATTEMPT_END" =>
          /\ r.disposition = "REJECTED" <=> ~Admitted(c, r.attempt)
          /\ Admitted(c, r.attempt) => Among(c, "ACCEPT_ACK", r.attempt) # {}
    /\ r.type = "INSTANCE_END" =>
          /\ \A j \in Opened(c) : Among(c, "ATTEMPT_END", c[j].attempt) # {}
          /\ r.accepted = Cardinality({j \in 1..Len(c) : c[j].type = "ACCEPT_ACK"})
          /\ r.rejected = Cardinality({j \in Opened(c) : c[j].reason # "NONE"})
          /\ r.accepted + r.rejected = Cardinality(Opened(c))

AllVerify(c) == \A i \in 1..Len(c) : RowVerifies(c, i)

Unfinished(c) == \A i \in 1..Len(c) : c[i].type # "INSTANCE_END"

(* The rows of a longer catalog.                                           *)
LEMMA RowsAppended ==
    ASSUME NEW c \in Seq(CatalogRows), NEW r \in CatalogRows
    PROVE  /\ Append(c, r) \in Seq(CatalogRows) /\ Len(Append(c, r)) = Len(c) + 1 /\ Len(c) \in Nat
           /\ Append(c, r)[Len(c) + 1] = r /\ \A i \in 1..Len(c) : Append(c, r)[i] = c[i]
           /\ \A i \in 1..(Len(c) + 1) : i \in 1..Len(c) \/ i = Len(c) + 1
  OBVIOUS

(* The reader knows the same of a row whatever comes behind it, ...        *)
LEMMA VerifiedStays ==
    ASSUME NEW c, NEW d, NEW i \in Nat, RowVerifies(c, i), c[i].type # "INSTANCE_END",
           \A j \in 1..i : d[j] = c[j], i >= 1
    PROVE  RowVerifies(d, i)
  <1>1. d[i] = c[i] /\ \A j \in 1..(i - 1) : d[j] = c[j]
    OBVIOUS
  <1>2. ASSUME NEW t, NEW a PROVE Before(d, i, t, a) = Before(c, i, t, a)
    BY <1>1 DEF Before
  <1>3. Begins(d, i) = Begins(c, i) /\ \A j \in Begins(c, i) : d[j] = c[j]
    BY <1>1 DEF Begins
  <1>4. ASSUME NEW a PROVE IsNew(d, i, a) <=> IsNew(c, i, a)
    <2>1. \A j \in Before(c, i, "ATTEMPT_BEGIN", a) : d[j] = c[j]
      BY <1>1 DEF Before
    <2> QED BY <1>2, <2>1 DEF IsNew
  <1>5. (\E j \in Begins(d, i) : d[j].key = d[i].key) <=> (\E j \in Begins(c, i) : c[j].key = c[i].key)
    BY <1>1, <1>3
  <1>6. d[i].type = "ATTEMPT_BEGIN" =>
          /\ d[i].attempt = Cardinality(Begins(d, i)) + 1
          /\ (d[i].reason = "DUPLICATE") = (\E j \in Begins(d, i) : d[j].key = d[i].key)
    BY <1>1, <1>3, <1>5 DEF RowVerifies
  <1>7. d[i].type \in {"ACCEPT_ACK", "ATTEMPT_END"} =>
          /\ Before(d, i, "ATTEMPT_BEGIN", d[i].attempt) # {} /\ Before(d, i, "ATTEMPT_END", d[i].attempt) = {}
    BY <1>1, <1>2 DEF RowVerifies
  <1>8. d[i].type = "ACCEPT_ACK" =>
          IsNew(d, i, d[i].attempt) /\ Before(d, i, "ACCEPT_ACK", d[i].attempt) = {}
    BY <1>1, <1>2, <1>4 DEF RowVerifies
  <1>9. d[i].type = "ATTEMPT_END" =>
          /\ (d[i].disposition = "REJECTED") = ~IsNew(d, i, d[i].attempt)
          /\ IsNew(d, i, d[i].attempt) => Before(d, i, "ACCEPT_ACK", d[i].attempt) # {}
    BY <1>1, <1>2, <1>4 DEF RowVerifies
  <1>10. d[i].seq = i - 1 /\ d[i].prev = i - 1 /\ (d[i].type = "INSTANCE_BEGIN") = (i = 1)
         /\ d[i].type # "INSTANCE_END"
    BY <1>1 DEF RowVerifies
  <1> QED BY <1>6, <1>7, <1>8, <1>9, <1>10 DEF RowVerifies

(* ... and the new row verifies if it continues the others.                *)
LEMMA NewRowVerifies ==
    ASSUME NEW c, NEW d, NEW r, NEW n \in Nat, Len(c) = n, n >= 1, Len(d) = n + 1, d[n + 1] = r,
           \A j \in 1..n : d[j] = c[j], Continues(c, r)
    PROVE  RowVerifies(d, n + 1)
  <1>1. (n + 1) - 1 = n /\ n + 1 # 1
    OBVIOUS
  <1>2. ASSUME NEW t, NEW a PROVE Before(d, n + 1, t, a) = Among(c, t, a)
    BY <1>1 DEF Before, Among
  <1>3. Begins(d, n + 1) = Opened(c) /\ \A j \in Opened(c) : d[j] = c[j]
    BY <1>1 DEF Begins, Opened
  <1>4. ASSUME NEW a PROVE IsNew(d, n + 1, a) <=> Admitted(c, a)
    <2>1. \A j \in Among(c, "ATTEMPT_BEGIN", a) : d[j] = c[j]
      BY DEF Among
    <2> QED BY <1>2, <2>1 DEF IsNew, Admitted
  <1>5. {j \in 1..((n + 1) - 1) : d[j].type = "ACCEPT_ACK"} = {j \in 1..Len(c) : c[j].type = "ACCEPT_ACK"}
    BY <1>1
  <1>6. {j \in Begins(d, n + 1) : d[j].reason # "NONE"} = {j \in Opened(c) : c[j].reason # "NONE"}
    BY <1>3
  <1>7. (r.reason = "DUPLICATE" <=> (\E j \in Opened(c) : c[j].key = r.key))
        => (r.reason = "DUPLICATE") = (\E j \in Begins(d, n + 1) : d[j].key = r.key)
    BY <1>3
  <1>8. r.type = "INSTANCE_END" => \A j \in Begins(d, n + 1) : Before(d, n + 1, "ATTEMPT_END", d[j].attempt) # {}
    BY <1>2, <1>3 DEF Continues
  <1>9. r.type \in {"ACCEPT_ACK", "ATTEMPT_END"} =>
          /\ Before(d, n + 1, "ATTEMPT_BEGIN", r.attempt) # {} /\ Before(d, n + 1, "ATTEMPT_END", r.attempt) = {}
    BY <1>2 DEF Continues
  <1>10. r.type = "ACCEPT_ACK" => IsNew(d, n + 1, r.attempt) /\ Before(d, n + 1, "ACCEPT_ACK", r.attempt) = {}
    BY <1>2, <1>4 DEF Continues
  <1>11. r.type = "ATTEMPT_END" =>
           /\ (r.disposition = "REJECTED") = ~IsNew(d, n + 1, r.attempt)
           /\ IsNew(d, n + 1, r.attempt) => Before(d, n + 1, "ACCEPT_ACK", r.attempt) # {}
    BY <1>2, <1>4 DEF Continues
  <1>12. r.type = "ATTEMPT_BEGIN" =>
           /\ r.attempt = Cardinality(Begins(d, n + 1)) + 1
           /\ (r.reason = "DUPLICATE") = (\E j \in Begins(d, n + 1) : d[j].key = r.key)
    BY <1>3, <1>7 DEF Continues
  <1>13. r.type = "INSTANCE_END" =>
           /\ n + 1 = Len(d)
           /\ r.accepted = Cardinality({j \in 1..((n + 1) - 1) : d[j].type = "ACCEPT_ACK"})
           /\ r.rejected = Cardinality({j \in Begins(d, n + 1) : d[j].reason # "NONE"})
           /\ r.accepted + r.rejected = Cardinality(Begins(d, n + 1))
    BY <1>3, <1>5, <1>6 DEF Continues
  <1>14. r.seq = (n + 1) - 1 /\ r.prev = (n + 1) - 1 /\ (r.type = "INSTANCE_BEGIN") = (n + 1 = 1)
    BY <1>1 DEF Continues
  <1> QED BY <1>8, <1>9, <1>10, <1>11, <1>12, <1>13, <1>14 DEF RowVerifies

(* A catalog that verifies still does with a row that continues it.        *)
LEMMA VerifiesAppend ==
    ASSUME NEW c \in Seq(CatalogRows), NEW r \in CatalogRows, Len(c) >= 1,
           AllVerify(c), Unfinished(c), Continues(c, r)
    PROVE  AllVerify(Append(c, r))
  <1> DEFINE d == Append(c, r)
             n == Len(c)
  <1>1. /\ Len(d) = n + 1 /\ n \in Nat /\ d[n + 1] = r /\ \A i \in 1..n : d[i] = c[i]
        /\ \A i \in 1..(n + 1) : i \in 1..n \/ i = n + 1
    BY RowsAppended
  <1> HIDE DEF d
  <1>2. RowVerifies(d, n + 1)
    BY <1>1, NewRowVerifies
  <1>3. ASSUME NEW i \in 1..n PROVE RowVerifies(d, i)
    <2>1. i \in Nat /\ i >= 1 /\ \A j \in 1..i : d[j] = c[j]
      BY <1>1
    <2>2. RowVerifies(c, i) /\ c[i].type # "INSTANCE_END"
      BY DEF AllVerify, Unfinished
    <2> QED BY <2>1, <2>2, VerifiedStays
  <1>4. AllVerify(d)
    BY <1>1, <1>2, <1>3 DEF AllVerify
  <1> QED BY <1>4 DEF d

(* Rows that name each attempt of a set once are as many as its attempts.  *)
NameOnce(c, I, S) ==
    /\ \A i \in I : c[i].attempt \in S
    /\ \A a \in S : \E i \in I : c[i].attempt = a
    /\ \A i, j \in I : c[i].attempt = c[j].attempt => i = j

(* Counting rows by the attempts they name.                                *)
LEMMA OncePerAttempt ==
    ASSUME NEW c, NEW I, NEW S, IsFiniteSet(S), NameOnce(c, I, S)
    PROVE  IsFiniteSet(I) /\ Cardinality(I) = Cardinality(S)
  <1> DEFINE f == [i \in I |-> c[i].attempt]
  <1>1. f \in [I -> S] /\ \A i \in I : f[i] = c[i].attempt
    BY DEF NameOnce
  <1> HIDE DEF f
  <1>2. f \in Injection(I, S)
    BY <1>1 DEF Injection, IsInjective, NameOnce
  <1>3. f \in Surjection(I, S)
    BY <1>1 DEF Surjection, NameOnce
  <1> QED BY <1>2, <1>3, FS_Injection

(***************************************************************************)
(* The catalog and the attempts it tells of                                *)
(***************************************************************************)
About    == {"ATTEMPT_BEGIN", "ACCEPT_ACK", "ATTEMPT_END"}
Acked    == {"accepted", "business", "seal", "close", "finish", "read", "end", "publish", "ended"}
AfterEnd == {"ended", "retire", "done", "failed"}
AfterAck == Acked \cup AfterEnd \cup {"stuck"}

(* A row of type t about an attempt at place p in state st is on disk.     *)
Owes(t, p, st, new) ==
    \/ t = "ATTEMPT_BEGIN" /\ p \notin {"begin", "failed"}
    \/ t = "ACCEPT_ACK" /\ (p \in Acked \/ (st = "ENDED" /\ new))
    \/ t = "ATTEMPT_END" /\ (p = "ended" \/ st = "ENDED")

(* What row r says of the attempts x in a ledger that lives as l.          *)
Says(r, x, l) ==
    /\ r.type \in About => r.attempt \in DOMAIN x
    /\ r.type = "ATTEMPT_BEGIN" => /\ r.key = x[r.attempt].key /\ r.reason = x[r.attempt].reason
                                   /\ x[r.attempt].pc # "begin"
    /\ r.type = "ACCEPT_ACK" => x[r.attempt].reason = "NONE" /\ x[r.attempt].pc \in AfterAck
    /\ r.type = "ATTEMPT_END" => /\ x[r.attempt].pc \in AfterEnd
                                 /\ r.disposition = "REJECTED" <=> x[r.attempt].reason # "NONE"
    /\ r.type = "INSTANCE_END" => l \in {"published", "closed"}

(* Only the last file can be unconfirmed, and then nothing follows it.     *)
Shape ==
    /\ catalog \in Seq(CatalogRows) /\ Len(catalog) >= 1 /\ count \in Nat /\ count >= 1
    /\ accepted \in Nat /\ rejected \in Nat
    /\ Len(catalog) = count \/ (Len(catalog) = count + 1 /\ unknown /\ lock \notin Begun)

RowsTrue == \A i \in 1..Len(catalog) : Says(catalog[i], att, life)

Once == \A i, j \in 1..Len(catalog) :
    catalog[i].type \in About /\ catalog[j].type = catalog[i].type
       /\ catalog[j].attempt = catalog[i].attempt => i = j

Presence == \A a \in Begun :
    /\ a # Len(att) => Rows("ATTEMPT_BEGIN", a, count) # {}
    /\ \A t \in About : Owes(t, att[a].pc, att[a].state, att[a].reason = "NONE") => Rows(t, a, count) # {}

AckRows == {i \in 1..count : catalog[i].type = "ACCEPT_ACK"}
RejectRows == {i \in 1..count : catalog[i].type = "ATTEMPT_END" /\ catalog[i].disposition = "REJECTED"}

Tallied == accepted = Cardinality(AckRows) /\ rejected = Cardinality(RejectRows)

Cataloged == Shape /\ RowsTrue /\ Once /\ Presence /\ Tallied /\ AllVerify(catalog)

(* Attempts only go ahead.                                                 *)
Further(x, y) ==
    /\ DOMAIN x \subseteq DOMAIN y
    /\ \A b \in DOMAIN x :
          /\ y[b].key = x[b].key /\ y[b].reason = x[b].reason
          /\ x[b].pc # "begin" => y[b].pc # "begin"
          /\ x[b].pc \in AfterAck => y[b].pc \in AfterAck
          /\ x[b].pc \in AfterEnd => y[b].pc \in AfterEnd

(* The rows owed are those owed before and, of attempt a, one of type pub. *)
Debts(pub, a) == \A b \in Begun : \A t \in About :
    Owes(t, att'[b].pc, att'[b].state, att'[b].reason = "NONE")
       => Owes(t, att[b].pc, att[b].state, att[b].reason = "NONE") \/ (b = a /\ t = pub)

Steps(pub, a) == Further(att, att') /\ Debts(pub, a) /\ Begun' = Begun /\ Len(att') = Len(att)

(* The steps of a request go ahead and owe what they publish.              *)
LEMMA GoesSteps ==
    ASSUME NEW a, NEW p, NEW st, NEW sl, NEW o, NEW pub, Going(a, p, st, sl, o),
           att[a].pc # "begin" => p # "begin", att[a].pc \in AfterAck => p \in AfterAck,
           att[a].pc \in AfterEnd => p \in AfterEnd,
           \A t \in About : Owes(t, p, st, att[a].reason = "NONE")
                               => Owes(t, att[a].pc, att[a].state, att[a].reason = "NONE") \/ t = pub
    PROVE  Steps(pub, a)
  <1>1. Further(att, att')
    BY DEF Going, Further, Begun
  <1>2. Debts(pub, a)
    <2> SUFFICES ASSUME NEW b \in Begun, NEW t \in About,
                        Owes(t, att'[b].pc, att'[b].state, att'[b].reason = "NONE")
                 PROVE  Owes(t, att[b].pc, att[b].state, att[b].reason = "NONE") \/ (b = a /\ t = pub)
      BY DEF Debts
    <2>1. CASE b = a
      BY <2>1 DEF Going
    <2>2. CASE b # a
      BY <2>2 DEF Going
    <2> QED BY <2>1, <2>2
  <1> QED BY <1>1, <1>2 DEF Steps, Going

LEMMA WalkSteps ==
    ASSUME NEW a, NEW from, NEW to, NEW st, NEW pub, Walks(a, from, to, st),
           from # "begin" => to # "begin", from \in AfterAck => to \in AfterAck,
           from \in AfterEnd => to \in AfterEnd,
           to = "failed" \/ from # "begin" \/ pub = "ATTEMPT_BEGIN",
           from # "failed" \/ to = "failed",
           to \in Acked => from \in Acked \/ pub = "ACCEPT_ACK",
           to = "ended" => pub = "ATTEMPT_END",
           st = "ENDED" => att[a].state = "ENDED" \/ from = "ended"
                             \/ (pub = "ATTEMPT_END" /\ att[a].reason # "NONE")
    PROVE  Steps(pub, a)
  <1>1. Going(a, to, st, att[a].active, att[a].outcome) /\ att[a].pc = from
    BY DEF Walks
  <1>2. ASSUME NEW t \in About, Owes(t, to, st, att[a].reason = "NONE")
        PROVE  Owes(t, from, att[a].state, att[a].reason = "NONE") \/ t = pub
    BY <1>2 DEF Owes, Acked
  <1> QED BY <1>1, <1>2, GoesSteps

LEMMA StillSteps ==
    ASSUME UNCHANGED att
    PROVE  \A pub, a : Steps(pub, a)
  BY DEF Steps, Further, Debts, Begun

(* The requests' steps that publish nothing.                               *)
LEMMA QuietSteps ==
    ASSUME TypeOK, Placed, NEW a \in Attempts,
           \/ BeginFails(a) \/ AcceptStart(a) \/ AcceptCreate(a) \/ AcceptLock(a) \/ AcceptFails(a) \/ Claim(a)
           \/ ClaimSkipped(a) \/ Emit(a) \/ EmitRefused(a) \/ EmitFails(a) \/ BusinessEnds(a) \/ Seal(a)
           \/ SealFails(a) \/ CloseJournal(a) \/ FinishStart(a) \/ FinishRead(a) \/ FinishLock(a)
           \/ FinishEnded(a) \/ FinishFails(a) \/ Retire(a)
    PROVE  Steps("nothing", a)
  <1> USE DEF Acked, AfterAck, AfterEnd
  <1>1. CASE BeginFails(a)
    <2>1. /\ a \in Begun /\ att[a].pc \in {"begin", "reject"}
          /\ Going(a, "failed", att[a].state, FALSE, att[a].outcome)
      BY <1>1, BeginFailsGoes
    <2>2. \A t \in About : Owes(t, "failed", att[a].state, att[a].reason = "NONE")
                              => Owes(t, att[a].pc, att[a].state, att[a].reason = "NONE")
      BY DEF Owes
    <2> QED BY <2>1, <2>2, GoesSteps
  <1>2. CASE AcceptStart(a)
    BY <1>2, AcceptStartWalks, WalkSteps
  <1>3. CASE AcceptCreate(a)
    BY <1>3, AcceptCreateWalks, WalkSteps
  <1>4. CASE AcceptLock(a)
    BY <1>4, AcceptLockWalks, WalkSteps
  <1>5. CASE AcceptFails(a)
    BY <1>5, AcceptFailsWalks, WalkSteps
  <1>6. CASE Claim(a)
    BY <1>6, ClaimWalks, WalkSteps
  <1>7. CASE ClaimSkipped(a)
    BY <1>7, ClaimSkippedWalks, WalkSteps
  <1>8. CASE Emit(a) \/ EmitRefused(a) \/ EmitFails(a)
    BY <1>8, StillSteps DEF Emit, EmitRefused, EmitFails
  <1>9. CASE BusinessEnds(a)
    <2>1. att[a].pc = "business"
      BY <1>9, BusinessEndsGoes
    <2>2. PICK o \in Outcomes : Going(a, "seal", att[a].state, att[a].active, o)
      BY <1>9, BusinessEndsGoes
    <2>3. \A t \in About : Owes(t, "seal", att[a].state, att[a].reason = "NONE")
                              => Owes(t, att[a].pc, att[a].state, att[a].reason = "NONE")
      BY <2>1 DEF Owes
    <2> QED BY <2>1, <2>2, <2>3, GoesSteps
  <1>10. CASE Seal(a)
    BY <1>10, SealWalks, WalkSteps
  <1>11. CASE SealFails(a)
    BY <1>11, SealFailsWalks, WalkSteps
  <1>12. CASE CloseJournal(a)
    BY <1>12, CloseJournalWalks, WalkSteps
  <1>13. CASE FinishStart(a)
    BY <1>13, FinishStartWalks, WalkSteps
  <1>14. CASE FinishRead(a)
    BY <1>14, FinishReadWalks, WalkSteps
  <1>15. CASE FinishLock(a)
    BY <1>15, FinishLockWalks, WalkSteps
  <1>16. CASE FinishEnded(a)
    BY <1>16, FinishEndedWalks, WalkSteps
  <1>17. CASE FinishFails(a)
    BY <1>17, FinishFailsWalks, WalkSteps
  <1>18. CASE Retire(a)
    <2>1. /\ att[a].pc = "retire"
          /\ Going(a, IF att[a].state = "ENDED" THEN "done" ELSE "failed", att[a].state, FALSE, att[a].outcome)
      BY <1>18, RetireGoes
    <2>2. PICK p \in {"done", "failed"} : Going(a, p, att[a].state, FALSE, att[a].outcome)
      BY <2>1
    <2>3. \A t \in About : Owes(t, p, att[a].state, att[a].reason = "NONE")
                              => Owes(t, att[a].pc, att[a].state, att[a].reason = "NONE")
      BY <2>1 DEF Owes
    <2> QED BY <2>1, <2>2, <2>3, GoesSteps
  <1> QED BY <1>1, <1>2, <1>3, <1>4, <1>5, <1>6, <1>7, <1>8, <1>9, <1>10, <1>11, <1>12, <1>13, <1>14, <1>15,
             <1>16, <1>17, <1>18

(* The steps that publish owe the row they publish.                        *)
LEMMA PublishSteps ==
    ASSUME TypeOK, Placed, NEW a \in Attempts
    PROVE  /\ BeginPublish(a) => Steps("ATTEMPT_BEGIN", a)
           /\ RejectPublish(a) => Steps("ATTEMPT_END", a)
           /\ AcceptPublish(a) => Steps("ACCEPT_ACK", a)
           /\ FinishPublish(a) => Steps("ATTEMPT_END", a)
  <1> USE DEF Acked, AfterAck, AfterEnd
  <1>1. ASSUME BeginPublish(a) PROVE Steps("ATTEMPT_BEGIN", a)
    BY <1>1, BeginPublishWalks, WalkSteps
  <1>2. ASSUME RejectPublish(a) PROVE Steps("ATTEMPT_END", a)
    <2>1. Walks(a, "reject", "done", "ENDED")
      BY <1>2, RejectPublishWalks
    <2>2. att[a].reason # "NONE"
      BY <2>1 DEF Walks, Placed, Suited, Suits
    <2> QED BY <2>1, <2>2, WalkSteps
  <1>3. ASSUME AcceptPublish(a) PROVE Steps("ACCEPT_ACK", a)
    BY <1>3, AcceptPublishWalks, WalkSteps
  <1>4. ASSUME FinishPublish(a) PROVE Steps("ATTEMPT_END", a)
    BY <1>4, FinishPublishWalks, WalkSteps
  <1> QED BY <1>1, <1>2, <1>3, <1>4

(***************************************************************************)
(* The catalog after a step                                                *)
(***************************************************************************)
LEMMA SaysStill ==
    ASSUME NEW r, NEW x, NEW y, NEW l, NEW m, Says(r, x, l), Further(x, y),
           l \in {"published", "closed"} => m \in {"published", "closed"}
    PROVE  Says(r, y, m)
  BY DEF Says, Further, About

(* Nothing is published.                                                   *)
LEMMA CatalogQuiet ==
    ASSUME TypeOK, Cataloged, NEW a, Steps("nothing", a),
           UNCHANGED <<catalog, count, accepted, rejected>>,
           life \in {"published", "closed"} => life' \in {"published", "closed"},
           Len(catalog) # count => unknown' /\ lock' \notin Begun
    PROVE  Cataloged'
  <1>1. Shape'
    BY DEF Cataloged, Shape, Steps
  <1>2. RowsTrue'
    <2>1. \A i \in 1..Len(catalog) : Says(catalog[i], att, life)
      BY DEF Cataloged, RowsTrue
    <2>2. \A i \in 1..Len(catalog) : Says(catalog[i], att', life')
      BY <2>1, SaysStill DEF Steps
    <2> QED BY <2>2 DEF RowsTrue
  <1>3. Once' /\ AllVerify(catalog)'
    BY DEF Cataloged, Once
  <1>4. ASSUME NEW t, NEW b PROVE Rows(t, b, count)' = Rows(t, b, count)
    BY DEF Rows
  <1>5. Presence'
    <2> SUFFICES ASSUME NEW b \in Begun
                 PROVE  /\ b # Len(att) => Rows("ATTEMPT_BEGIN", b, count) # {}
                        /\ \A t \in About : Owes(t, att'[b].pc, att'[b].state, att'[b].reason = "NONE")
                                               => Rows(t, b, count) # {}
      BY <1>4 DEF Presence, Steps
    <2>1. \A t \in About : Owes(t, att'[b].pc, att'[b].state, att'[b].reason = "NONE")
                              => Owes(t, att[b].pc, att[b].state, att[b].reason = "NONE")
      BY DEF Steps, Debts, About
    <2> QED BY <2>1 DEF Cataloged, Presence
  <1>6. Tallied'
    BY DEF Cataloged, Tallied, AckRows, RejectRows
  <1> QED BY <1>1, <1>2, <1>3, <1>5, <1>6 DEF Cataloged

(* What a new file at the end of the catalog leaves in order.              *)
LEMMA CatalogAppends ==
    ASSUME TypeOK, Cataloged, NEW r \in CatalogRows, catalog' = Append(catalog, r),
           Unfinished(catalog), Continues(catalog, r), Says(r, att', life'), Further(att, att'),
           r.type \in About => Among(catalog, r.type, r.attempt) = {},
           life \in {"published", "closed"} => life' \in {"published", "closed"}
    PROVE  /\ catalog' \in Seq(CatalogRows) /\ Len(catalog') = Len(catalog) + 1 /\ Len(catalog) \in Nat
           /\ catalog'[Len(catalog) + 1] = r /\ \A i \in 1..Len(catalog) : catalog'[i] = catalog[i]
           /\ RowsTrue' /\ Once' /\ AllVerify(catalog)'
  <1> DEFINE n == Len(catalog)
  <1>0. catalog \in Seq(CatalogRows) /\ n >= 1 /\ AllVerify(catalog)
    BY DEF Cataloged, Shape
  <1>1. /\ catalog' \in Seq(CatalogRows) /\ Len(catalog') = n + 1 /\ n \in Nat
        /\ catalog'[n + 1] = r /\ \A i \in 1..n : catalog'[i] = catalog[i]
        /\ \A i \in 1..(n + 1) : i \in 1..n \/ i = n + 1
    BY <1>0, RowsAppended
  <1>2. AllVerify(catalog')
    BY <1>0, VerifiesAppend
  <1>3. RowsTrue'
    <2>1. \A i \in 1..n : Says(catalog[i], att', life')
      BY SaysStill DEF Cataloged, RowsTrue
    <2>2. \A i \in 1..(n + 1) : Says(catalog'[i], att', life')
      BY <1>1, <2>1
    <2> QED BY <1>1, <2>2 DEF RowsTrue
  <1>4. Once'
    <2> SUFFICES ASSUME NEW i \in 1..(n + 1), NEW j \in 1..(n + 1), catalog'[i].type \in About,
                        catalog'[j].type = catalog'[i].type, catalog'[j].attempt = catalog'[i].attempt
                 PROVE  i = j
      BY <1>1 DEF Once
    <2>1. \A k \in 1..n : r.type \in About => ~(catalog[k].type = r.type /\ catalog[k].attempt = r.attempt)
      BY DEF Among
    <2>2. CASE i \in 1..n /\ j \in 1..n
      BY <1>1, <2>2 DEF Cataloged, Once
    <2>3. CASE i = n + 1 /\ j \in 1..n
      BY <1>1, <2>1, <2>3
    <2>4. CASE i \in 1..n /\ j = n + 1
      BY <1>1, <2>1, <2>4
    <2> QED BY <1>1, <2>2, <2>3, <2>4
  <1> QED BY <1>1, <1>2, <1>3, <1>4

(* The confirmed rows after a publication.                                 *)
LEMMA RowsOf ==
    ASSUME NEW c, NEW d, NEW n \in Nat, \A i \in 1..n : d[i] = c[i]
    PROVE  /\ \A t, a : {i \in 1..n : d[i].type = t /\ d[i].attempt = a}
                        = {i \in 1..n : c[i].type = t /\ c[i].attempt = a}
           /\ {i \in 1..n : d[i].type = "ACCEPT_ACK"} = {i \in 1..n : c[i].type = "ACCEPT_ACK"}
           /\ {i \in 1..n : d[i].type = "ATTEMPT_END" /\ d[i].disposition = "REJECTED"}
                 = {i \in 1..n : c[i].type = "ATTEMPT_END" /\ c[i].disposition = "REJECTED"}
  OBVIOUS

(* A publication fails, with or without its file.                          *)
LEMMA CatalogFails ==
    ASSUME TypeOK, Cataloged, NEW a, NEW r \in CatalogRows, Steps("nothing", a),
           catalog' = catalog \/ catalog' = Append(catalog, r),
           Unfinished(catalog), Continues(catalog, r), Says(r, att', life'),
           r.type \in About => Among(catalog, r.type, r.attempt) = {},
           life \in {"published", "closed"} => life' \in {"published", "closed"},
           Len(catalog) = count, UNCHANGED <<count, accepted, rejected>>, unknown', lock' \notin Begun
    PROVE  Cataloged'
  <1>1. CASE catalog' = catalog
    BY <1>1, CatalogQuiet
  <1>2. CASE catalog' = Append(catalog, r)
    <2>0. Further(att, att') /\ Begun' = Begun /\ Len(att') = Len(att)
      BY DEF Steps
    <2>1. /\ catalog' \in Seq(CatalogRows) /\ Len(catalog') = count + 1 /\ count \in Nat
          /\ \A i \in 1..count : catalog'[i] = catalog[i]
          /\ RowsTrue' /\ Once' /\ AllVerify(catalog)'
      BY <1>2, <2>0, CatalogAppends
    <2>2. Shape'
      BY <2>0, <2>1 DEF Cataloged, Shape
    <2>3. ASSUME NEW t, NEW b PROVE Rows(t, b, count)' = Rows(t, b, count)
      BY <2>1, RowsOf DEF Rows
    <2>4. Presence'
      <3> SUFFICES ASSUME NEW b \in Begun
                   PROVE  /\ b # Len(att) => Rows("ATTEMPT_BEGIN", b, count) # {}
                          /\ \A t \in About : Owes(t, att'[b].pc, att'[b].state, att'[b].reason = "NONE")
                                                 => Rows(t, b, count) # {}
        BY <2>0, <2>3 DEF Presence
      <3>1. \A t \in About : Owes(t, att'[b].pc, att'[b].state, att'[b].reason = "NONE")
                                => Owes(t, att[b].pc, att[b].state, att[b].reason = "NONE")
        BY DEF Steps, Debts, About
      <3> QED BY <3>1 DEF Cataloged, Presence
    <2>5. Tallied'
      <3>1. AckRows' = AckRows
        BY <2>1 DEF AckRows
      <3>2. RejectRows' = RejectRows
        BY <2>1 DEF RejectRows
      <3> QED BY <3>1, <3>2 DEF Cataloged, Tallied
    <2> QED BY <2>1, <2>2, <2>4, <2>5 DEF Cataloged
  <1> QED BY <1>1, <1>2

(* A row is published and confirmed.                                       *)
LEMMA CatalogPublishes ==
    ASSUME TypeOK, Cataloged, NEW r \in CatalogRows, Steps(r.type, r.attempt),
           catalog' = Append(catalog, r), Unfinished(catalog), Continues(catalog, r), Says(r, att', life'),
           r.type \in About => Among(catalog, r.type, r.attempt) = {},
           life \in {"published", "closed"} => life' \in {"published", "closed"},
           Len(catalog) = count, count' = count + 1,
           accepted' = accepted + (IF r.type = "ACCEPT_ACK" THEN 1 ELSE 0),
           rejected' = rejected + (IF r.type = "ATTEMPT_END" /\ r.disposition = "REJECTED" THEN 1 ELSE 0)
    PROVE  Cataloged'
  <1> DEFINE n == count
  <1>0. Further(att, att') /\ Begun' = Begun /\ Len(att') = Len(att)
    BY DEF Steps
  <1>1. /\ catalog' \in Seq(CatalogRows) /\ Len(catalog') = n + 1 /\ n \in Nat
        /\ catalog'[n + 1] = r /\ \A i \in 1..n : catalog'[i] = catalog[i]
        /\ RowsTrue' /\ Once' /\ AllVerify(catalog)'
    BY <1>0, CatalogAppends
  <1>2. /\ accepted \in Nat /\ rejected \in Nat /\ n >= 1
        /\ accepted = Cardinality(AckRows) /\ rejected = Cardinality(RejectRows)
    BY DEF Cataloged, Shape, Tallied
  <1>3. Shape'
    BY <1>1, <1>2 DEF Shape
  <1>4. 1..(n + 1) = 1..n \cup {n + 1} /\ n + 1 \notin 1..n
    BY <1>1
  <1>5. ASSUME NEW t, NEW b
        PROVE  /\ Rows(t, b, n) \subseteq Rows(t, b, count)'
               /\ r.type = t /\ r.attempt = b => n + 1 \in Rows(t, b, count)'
    BY <1>1, <1>4 DEF Rows
  <1>6. Presence'
    <2> SUFFICES ASSUME NEW b \in Begun
                 PROVE  /\ b # Len(att) => Rows("ATTEMPT_BEGIN", b, count)' # {}
                        /\ \A t \in About : Owes(t, att'[b].pc, att'[b].state, att'[b].reason = "NONE")
                                               => Rows(t, b, count)' # {}
      BY <1>0 DEF Presence
    <2>1. b # Len(att) => Rows("ATTEMPT_BEGIN", b, n) # {}
      BY DEF Cataloged, Presence
    <2>2. ASSUME NEW t \in About, Owes(t, att'[b].pc, att'[b].state, att'[b].reason = "NONE")
          PROVE  Rows(t, b, n) # {} \/ (r.attempt = b /\ r.type = t)
      <3>1. Owes(t, att[b].pc, att[b].state, att[b].reason = "NONE") \/ (r.attempt = b /\ r.type = t)
        BY <2>2 DEF Steps, Debts
      <3> QED BY <3>1 DEF Cataloged, Presence
    <2> QED BY <1>5, <2>1, <2>2
  <1>7. Tallied'
    <2>1. IsFiniteSet(AckRows) /\ IsFiniteSet(RejectRows)
      <3>1. IsFiniteSet(1..n)
        BY <1>1, FS_Interval
      <3> QED BY <3>1, FS_Subset DEF AckRows, RejectRows
    <2>2. AckRows' = (IF r.type = "ACCEPT_ACK" THEN AckRows \cup {n + 1} ELSE AckRows) /\ n + 1 \notin AckRows
      BY <1>1, <1>4 DEF AckRows
    <2>3. /\ RejectRows' = (IF r.type = "ATTEMPT_END" /\ r.disposition = "REJECTED"
                            THEN RejectRows \cup {n + 1} ELSE RejectRows)
          /\ n + 1 \notin RejectRows
      BY <1>1, <1>4 DEF RejectRows
    <2>4. Cardinality(AckRows \cup {n + 1}) = Cardinality(AckRows) + 1
          /\ Cardinality(RejectRows \cup {n + 1}) = Cardinality(RejectRows) + 1
      BY <2>1, <2>2, <2>3, FS_AddElement
    <2>5. accepted' = Cardinality(AckRows')
      BY <1>2, <2>2, <2>4
    <2>6. rejected' = Cardinality(RejectRows')
      BY <1>2, <2>3, <2>4
    <2> QED BY <2>5, <2>6 DEF Tallied
  <1> QED BY <1>1, <1>3, <1>6, <1>7 DEF Cataloged

(***************************************************************************)
(* The rows the ledger publishes                                           *)
(***************************************************************************)
(* Row r may come next.                                                    *)
Fits(r) == /\ r \in CatalogRows /\ Continues(catalog, r)
           /\ r.type \in About => Among(catalog, r.type, r.attempt) = {}
           /\ Unfinished(catalog) /\ Len(catalog) = count

(* Before the service has ended no INSTANCE_END is on disk.                *)
LEMMA Unended ==
    ASSUME Cataloged, life \in {"open", "closing"}
    PROVE  Unfinished(catalog)
  BY DEF Cataloged, RowsTrue, Says, Unfinished

(* Who holds the lock finds every file confirmed.                          *)
LEMMA HolderConfirmed ==
    ASSUME Placed, Cataloged, NEW a \in Begun, att[a].pc \in Locking
    PROVE  lock = a /\ Len(catalog) = count /\ life = "open" /\ Unfinished(catalog)
  <1>1. lock = a /\ life = "open"
    BY DEF Placed, LockFits, InOrder, Locking
  <1>2. Len(catalog) = count
    BY <1>1 DEF Cataloged, Shape
  <1> QED BY <1>1, <1>2, Unended

LEMMA AmongRows ==
    ASSUME Len(catalog) = count
    PROVE  \A t, a : Among(catalog, t, a) = Rows(t, a, count)
  BY DEF Among, Rows

(* The rows of the ledger are catalog rows.                                *)
LEMMA RowTyped ==
    ASSUME TypeOK, Cataloged, NEW t \in RowTypes, NEW a \in Begun \cup {None}, NEW re \in Reasons \cup {None},
           NEW d \in {"REJECTED", "COMPLETE", "FAILED", None}, NEW o \in Outcomes \cup {None},
           NEW n \in Nat, NEW m \in Nat
    PROVE  Row(t, a, re, d, o, n, m) \in CatalogRows
  <1>1. count \in Nat /\ accepted \in Nat /\ rejected \in Nat
    BY DEF Cataloged, Shape
  <1>2. a \in Attempts \cup {None} /\ (IF a \in Begun THEN att[a].key ELSE None) \in Keys \cup {None}
    BY BegunAttempts, AttemptFields
  <1> HIDE DEF Begun
  <1> QED BY <1>1, <1>2 DEF Row, CatalogRows

LEMMA RowSays ==
    ASSUME NEW t, NEW a, NEW re, NEW d, NEW o, NEW n, NEW m
    PROVE  LET r == Row(t, a, re, d, o, n, m)
           IN  /\ r.type = t /\ r.attempt = a /\ r.reason = re /\ r.disposition = d /\ r.seq = count
               /\ r.prev = count /\ r.accepted = accepted /\ r.rejected = rejected /\ r.outcome = o
               /\ r.records = n /\ r.bytes = m /\ a \in Begun => r.key = att[a].key
  BY DEF Row

(* A begun attempt on record was admitted if its reason says so.           *)
LEMMA AdmittedIs ==
    ASSUME Cataloged, NEW a \in Begun, Among(catalog, "ATTEMPT_BEGIN", a) # {}
    PROVE  Admitted(catalog, a) <=> att[a].reason = "NONE"
  <1>1. \A j \in Among(catalog, "ATTEMPT_BEGIN", a) : catalog[j].reason = att[a].reason
    BY DEF Cataloged, RowsTrue, Says, Among, About
  <1> QED BY <1>1 DEF Admitted

(* The attempts before the last one, or all of them, are on record once.   *)
LEMMA OpenedAre ==
    ASSUME TypeOK, Cataloged, Len(catalog) = count, NEW S, S \subseteq Begun,
           \A b \in S : Rows("ATTEMPT_BEGIN", b, count) # {},
           \A b \in Begun : b \in S \/ att[b].pc = "begin"
    PROVE  Cardinality(Opened(catalog)) = Cardinality(S)
  <1> DEFINE I == Opened(catalog)
  <1>1. IsFiniteSet(S)
    BY BegunIsFinite, FS_Subset
  <1>2. \A j \in I : catalog[j].attempt \in S
    BY DEF Cataloged, RowsTrue, Says, Opened, About, Begun
  <1>3. \A b \in S : \E j \in I : catalog[j].attempt = b
    BY AmongRows DEF Opened, Among
  <1>4. \A i, j \in I : catalog[i].attempt = catalog[j].attempt => i = j
    BY DEF Cataloged, Once, Opened, About
  <1> HIDE DEF I
  <1>5. NameOnce(catalog, I, S)
    BY <1>2, <1>3, <1>4 DEF NameOnce
  <1>6. Cardinality(I) = Cardinality(S)
    BY <1>1, <1>5, OncePerAttempt
  <1> QED BY <1>6 DEF I

(* Each row the ledger publishes may come next: the BEGIN, ...             *)
LEMMA BeginRowFits ==
    ASSUME TypeOK, Placed, Cataloged, NEW a \in Begun, att[a].pc = "begin"
    PROVE  Fits(BeginRow(a))
  <1> DEFINE r == BeginRow(a)
             S == 1..(a - 1)
  <1>1. Len(catalog) = count /\ Unfinished(catalog)
    BY HolderConfirmed DEF Locking
  <1>2. a = Len(att) /\ Len(att) \in Nat /\ Begun = 1..Len(att)
    BY BegunIsFinite DEF Placed, InOrder
  <1>3. r \in CatalogRows
    BY RowTyped, AttemptFields DEF BeginRow, RowTypes
  <1>4. /\ r.type = "ATTEMPT_BEGIN" /\ r.attempt = a /\ r.reason = att[a].reason /\ r.key = att[a].key
        /\ r.seq = count /\ r.prev = count
    BY DEF BeginRow, Row
  <1> HIDE DEF r
  <1>5. Cardinality(Opened(catalog)) = a - 1
    <2>1. S \subseteq Begun /\ (\A b \in Begun : b \in S \/ b = a) /\ \A b \in S : b # Len(att)
      BY <1>2
    <2>2. \A b \in S : Rows("ATTEMPT_BEGIN", b, count) # {}
      BY <2>1 DEF Cataloged, Presence
    <2>3. Cardinality(S) = a - 1
      BY <1>2, FS_Interval
    <2> HIDE DEF S
    <2> QED BY <1>1, <2>1, <2>2, <2>3, OpenedAre
  <1>6. att[a].reason = "DUPLICATE" <=> (\E j \in Opened(catalog) : catalog[j].key = att[a].key)
    <2>1. att[a].reason = "DUPLICATE" <=> (\E b \in Begun : b < a /\ att[b].key = att[a].key)
      BY DEF Placed, Duplicates
    <2>2. ASSUME NEW b \in Begun, b < a, att[b].key = att[a].key
          PROVE  \E j \in Opened(catalog) : catalog[j].key = att[a].key
      <3>1. PICK j \in Rows("ATTEMPT_BEGIN", b, count) : TRUE
        BY <1>2, <2>2 DEF Cataloged, Presence
      <3>2. j \in Opened(catalog) /\ catalog[j].attempt = b /\ j \in 1..Len(catalog)
        BY <1>1, <3>1 DEF Rows, Opened
      <3>3. catalog[j].key = att[b].key
        BY <3>2 DEF Cataloged, RowsTrue, Says, Opened
      <3> QED BY <2>2, <3>2, <3>3
    <2>3. ASSUME NEW j \in Opened(catalog), catalog[j].key = att[a].key
          PROVE  \E b \in Begun : b < a /\ att[b].key = att[a].key
      <3>1. Says(catalog[j], att, life) /\ catalog[j].type = "ATTEMPT_BEGIN"
        BY DEF Cataloged, RowsTrue, Opened
      <3>2. /\ catalog[j].attempt \in Begun /\ att[catalog[j].attempt].pc # "begin"
            /\ att[catalog[j].attempt].key = att[a].key
        BY <2>3, <3>1 DEF Says, About, Begun
      <3>3. catalog[j].attempt < a
        BY <1>2, <3>2
      <3> QED BY <3>2, <3>3
    <2> QED BY <2>1, <2>2, <2>3
  <1>7. Among(catalog, "ATTEMPT_BEGIN", a) = {}
    BY DEF Cataloged, RowsTrue, Says, Among
  <1>8. Continues(catalog, r)
    BY <1>1, <1>2, <1>4, <1>5, <1>6 DEF Continues
  <1>9. Fits(r)
    BY <1>1, <1>3, <1>4, <1>7, <1>8 DEF Fits
  <1> QED BY <1>9 DEF r

(* ... the END of a refused attempt, ...                                   *)
LEMMA RejectRowFits ==
    ASSUME TypeOK, Placed, Cataloged, NEW a \in Begun, att[a].pc = "reject"
    PROVE  Fits(RejectRow(a))
  <1> DEFINE r == RejectRow(a)
  <1>1. Len(catalog) = count /\ Unfinished(catalog)
    BY HolderConfirmed DEF Locking
  <1>2. att[a].reason # "NONE"
    BY DEF Placed, Suited, Suits
  <1>3. r \in CatalogRows
    BY RowTyped DEF RejectRow, RowTypes
  <1>4. /\ r.type = "ATTEMPT_END" /\ r.attempt = a /\ r.disposition = "REJECTED"
        /\ r.seq = count /\ r.prev = count
    BY RowSays DEF RejectRow
  <1> HIDE DEF r
  <1>5. Among(catalog, "ATTEMPT_BEGIN", a) # {}
    BY <1>1, AmongRows DEF Cataloged, Presence, Owes, About
  <1>6. Among(catalog, "ATTEMPT_END", a) = {}
    BY DEF Cataloged, RowsTrue, Says, Among, AfterEnd
  <1>7. ~Admitted(catalog, a)
    BY <1>2, <1>5, AdmittedIs
  <1>8. Continues(catalog, r)
    BY <1>1, <1>4, <1>5, <1>6, <1>7 DEF Continues
  <1>9. Fits(r)
    BY <1>1, <1>3, <1>4, <1>6, <1>8 DEF Fits
  <1> QED BY <1>9 DEF r

(* ... the ACK, ...                                                        *)
LEMMA AckRowFits ==
    ASSUME TypeOK, Placed, Cataloged, NEW a \in Begun, att[a].pc = "acknowledge"
    PROVE  Fits(AckRow(a))
  <1> DEFINE r == AckRow(a)
  <1>1. Len(catalog) = count /\ Unfinished(catalog)
    BY HolderConfirmed DEF Locking
  <1>2. att[a].reason = "NONE"
    BY DEF Placed, Suited, Suits, Slotted
  <1>3. r \in CatalogRows
    BY RowTyped DEF AckRow, RowTypes
  <1>4. r.type = "ACCEPT_ACK" /\ r.attempt = a /\ r.seq = count /\ r.prev = count
    BY RowSays DEF AckRow
  <1> HIDE DEF r
  <1>5. Among(catalog, "ATTEMPT_BEGIN", a) # {}
    BY <1>1, AmongRows DEF Cataloged, Presence, Owes, About
  <1>6. Among(catalog, "ATTEMPT_END", a) = {} /\ Among(catalog, "ACCEPT_ACK", a) = {}
    BY DEF Cataloged, RowsTrue, Says, Among, AfterEnd, AfterAck, Acked
  <1>7. Admitted(catalog, a)
    BY <1>2, <1>5, AdmittedIs
  <1>8. Continues(catalog, r)
    BY <1>1, <1>4, <1>5, <1>6, <1>7 DEF Continues
  <1>9. Fits(r)
    BY <1>1, <1>3, <1>4, <1>6, <1>8 DEF Fits
  <1> QED BY <1>9 DEF r

(* ... and the END of an accepted one.                                     *)
LEMMA EndRowFits ==
    ASSUME TypeOK, Placed, Journals, Cataloged, NEW a \in Begun, att[a].pc = "publish"
    PROVE  Fits(EndRow(a))
  <1> DEFINE r == EndRow(a)
  <1>1. Len(catalog) = count /\ Unfinished(catalog)
    BY HolderConfirmed DEF Locking
  <1>2. att[a].reason = "NONE"
    BY DEF Placed, Suited, Suits, Slotted
  <1>3. Status(chain[a]) \in {"COMPLETE", "FAILED"}
    BY KnownOriginals DEF OriginalsKnown, Known
  <1>4. jn[a].count \in Nat /\ jn[a].bytes \in Nat
    BY JournalOf DEF Journal, Written, Known
  <1>5. r \in CatalogRows
    BY <1>3, <1>4, AttemptFields, RowTyped DEF EndRow, RowTypes
  <1>6. /\ r.type = "ATTEMPT_END" /\ r.attempt = a /\ r.disposition = Status(chain[a])
        /\ r.seq = count /\ r.prev = count
    BY RowSays DEF EndRow
  <1> HIDE DEF r
  <1>7. Among(catalog, "ATTEMPT_BEGIN", a) # {} /\ Among(catalog, "ACCEPT_ACK", a) # {}
    BY <1>1, AmongRows DEF Cataloged, Presence, Owes, About, Acked
  <1>8. Among(catalog, "ATTEMPT_END", a) = {}
    BY DEF Cataloged, RowsTrue, Says, Among, AfterEnd
  <1>9. Admitted(catalog, a)
    BY <1>2, <1>7, AdmittedIs
  <1>10. Continues(catalog, r)
    BY <1>1, <1>3, <1>6, <1>7, <1>8, <1>9 DEF Continues
  <1>11. Fits(r)
    BY <1>1, <1>5, <1>6, <1>8, <1>10 DEF Fits
  <1> QED BY <1>11 DEF r

(* At a clean close every attempt has its rows, so the counts agree.       *)
LEMMA InstanceEndFits ==
    ASSUME TypeOK, Placed, Cataloged, life = "closing", ~unknown, AllEnded
    PROVE  Fits(InstanceEndRow)
  <1> DEFINE r == InstanceEndRow
             N == {b \in Begun : att[b].reason = "NONE"}
             R == {b \in Begun : att[b].reason # "NONE"}
             K == {j \in 1..Len(catalog) : catalog[j].type = "ACCEPT_ACK"}
             J == {j \in 1..Len(catalog) : /\ catalog[j].type = "ATTEMPT_END"
                                           /\ catalog[j].disposition = "REJECTED"}
             Q == {j \in Opened(catalog) : catalog[j].reason # "NONE"}
  <1>1. Len(catalog) = count /\ Unfinished(catalog)
    BY Unended DEF Cataloged, Shape
  <1>2. r \in CatalogRows
    BY RowTyped DEF InstanceEndRow, RowTypes
  <1>3. /\ r.type = "INSTANCE_END" /\ r.seq = count /\ r.prev = count
        /\ r.accepted = accepted /\ r.rejected = rejected
    BY DEF InstanceEndRow, Row
  <1> HIDE DEF r
  <1>4. \A b \in Begun : att[b].state = "ENDED" /\ att[b].pc = "done"
    BY DEF AllEnded, Placed, InOrder, Suited, Suits
  <1>5. ASSUME NEW b \in Begun
        PROVE  /\ Rows("ATTEMPT_BEGIN", b, count) # {} /\ Rows("ATTEMPT_END", b, count) # {}
               /\ att[b].reason = "NONE" => Rows("ACCEPT_ACK", b, count) # {}
    BY <1>4 DEF Cataloged, Presence, Owes, About
  <1>6. \A i \in 1..Len(catalog) : Says(catalog[i], att, life)
    BY DEF Cataloged, RowsTrue
  <1>7. \A t, b : Rows(t, b, count) = {i \in 1..Len(catalog) : catalog[i].type = t /\ catalog[i].attempt = b}
    BY <1>1 DEF Rows
  <1>8. \A i, j \in 1..Len(catalog) : catalog[i].type \in About /\ catalog[j].type = catalog[i].type
                                        /\ catalog[j].attempt = catalog[i].attempt => i = j
    BY DEF Cataloged, Once
  <1>9. IsFiniteSet(Begun) /\ IsFiniteSet(N) /\ IsFiniteSet(R)
    BY BegunIsFinite, FS_Subset
  <1>10. Cardinality(Opened(catalog)) = Cardinality(Begun)
    BY <1>1, <1>5, OpenedAre
  <1>11. Cardinality(K) = Cardinality(N)
    <2>1. \A i \in K : catalog[i].attempt \in N
      BY <1>6 DEF Says, About, Begun
    <2>2. \A b \in N : \E i \in K : catalog[i].attempt = b
      BY <1>5, <1>7
    <2>3. \A i, j \in K : catalog[i].attempt = catalog[j].attempt => i = j
      BY <1>8 DEF About
    <2>4. NameOnce(catalog, K, N)
      BY <2>1, <2>2, <2>3 DEF NameOnce
    <2> QED BY <1>9, <2>4, OncePerAttempt
  <1>12. Cardinality(J) = Cardinality(R)
    <2>1. \A i \in J : catalog[i].attempt \in R
      BY <1>6 DEF Says, About, Begun
    <2>2. ASSUME NEW b \in R PROVE \E i \in J : catalog[i].attempt = b
      <3>1. PICK i \in 1..Len(catalog) : catalog[i].type = "ATTEMPT_END" /\ catalog[i].attempt = b
        BY <1>5, <1>7
      <3>2. catalog[i].disposition = "REJECTED"
        BY <1>6, <3>1 DEF Says, About
      <3> QED BY <3>1, <3>2
    <2>3. \A i, j \in J : catalog[i].attempt = catalog[j].attempt => i = j
      BY <1>8 DEF About
    <2>4. NameOnce(catalog, J, R)
      BY <2>1, <2>2, <2>3 DEF NameOnce
    <2> QED BY <1>9, <2>4, OncePerAttempt
  <1>13. Cardinality(Q) = Cardinality(R)
    <2>1. \A i \in Q : catalog[i].attempt \in R
      BY <1>6 DEF Says, About, Begun, Opened
    <2>2. ASSUME NEW b \in R PROVE \E i \in Q : catalog[i].attempt = b
      <3>1. PICK i \in 1..Len(catalog) : catalog[i].type = "ATTEMPT_BEGIN" /\ catalog[i].attempt = b
        BY <1>5, <1>7
      <3>2. catalog[i].reason = att[b].reason
        BY <1>6, <3>1 DEF Says, About
      <3> QED BY <3>1, <3>2 DEF Opened
    <2>3. \A i, j \in Q : catalog[i].attempt = catalog[j].attempt => i = j
      BY <1>8 DEF About, Opened
    <2>4. NameOnce(catalog, Q, R)
      BY <2>1, <2>2, <2>3 DEF NameOnce
    <2> QED BY <1>9, <2>4, OncePerAttempt
  <1>14. Cardinality(Begun) = Cardinality(N) + Cardinality(R)
    <2>1. Begun = N \cup R /\ N \cap R = {}
      OBVIOUS
    <2>2. Cardinality(N \cup R) = Cardinality(N) + Cardinality(R) - Cardinality(N \cap R)
      <3> HIDE DEF N, R
      <3> QED BY <1>9, FS_Union
    <2>3. Cardinality(N) \in Nat /\ Cardinality(R) \in Nat
      <3> HIDE DEF N, R
      <3> QED BY <1>9, FS_CardinalityType
    <2>4. Cardinality(N \cap R) = 0
      BY <2>1, FS_EmptySet
    <2> HIDE DEF N, R
    <2> QED BY <2>1, <2>2, <2>3, <2>4
  <1>15. accepted = Cardinality(K) /\ rejected = Cardinality(J)
    BY <1>1 DEF Cataloged, Tallied, AckRows, RejectRows
  <1>16. \A j \in Opened(catalog) : Among(catalog, "ATTEMPT_END", catalog[j].attempt) # {}
    <2>1. \A j \in Opened(catalog) : catalog[j].attempt \in Begun
      BY <1>6 DEF Says, About, Begun, Opened
    <2> QED BY <1>1, <1>5, <2>1, AmongRows
  <1>17. /\ accepted = Cardinality(K) /\ rejected = Cardinality(Q)
         /\ accepted + rejected = Cardinality(Opened(catalog))
    <2> HIDE DEF K, J, Q, N, R
    <2> QED BY <1>10, <1>11, <1>12, <1>13, <1>14, <1>15
  <1>18. Continues(catalog, r)
    BY <1>1, <1>3, <1>16, <1>17 DEF Continues
  <1>19. Fits(r)
    BY <1>1, <1>2, <1>3, <1>18 DEF Fits, About
  <1> QED BY <1>19 DEF r

(***************************************************************************)
(* The catalog after each action                                           *)
(***************************************************************************)
LEMMA CatalogBegin ==
    ASSUME TypeOK, Placed, Cataloged, NEW k \in Keys, BeginReserve(k)
    PROVE  Cataloged'
  <1>1. PICK n : /\ n = Len(att) + 1 /\ n \in Nat /\ Len(att') = n /\ Begun' = Begun \cup {n} /\ n \notin Begun
                 /\ \A b \in Begun : b < n /\ att'[b] = att[b]
                 /\ att'[n].pc = "begin" /\ att'[n].state = "BEGUN"
    BY BeginGoes
  <1>2. /\ UNCHANGED <<catalog, count, accepted, rejected, life, unknown>>
        /\ lock = None /\ ~unknown
    BY DEF BeginReserve, LedgerAvailable, tallies
  <1>3. Further(att, att')
    BY <1>1 DEF Further, Begun
  <1>4. Shape'
    BY <1>2 DEF Cataloged, Shape
  <1>5. RowsTrue'
    <2>1. \A i \in 1..Len(catalog) : Says(catalog[i], att', life')
      BY <1>2, <1>3, SaysStill DEF Cataloged, RowsTrue
    <2> QED BY <1>2, <2>1 DEF RowsTrue
  <1>6. Once' /\ AllVerify(catalog)' /\ Tallied'
    BY <1>2 DEF Cataloged, Once, Tallied, AckRows, RejectRows
  <1>7. \A t, b : Rows(t, b, count)' = Rows(t, b, count)
    BY <1>2 DEF Rows
  <1>8. Presence'
    <2>1. ASSUME NEW b \in Begun PROVE Rows("ATTEMPT_BEGIN", b, count) # {}
      <3>1. att[b].pc # "begin"
        BY <1>2, BegunIsFinite DEF Placed, LockFits, Locking
      <3>2. att[b].pc # "failed"
        BY <1>2 DEF Placed, Suited, Suits
      <3> QED BY <3>1, <3>2 DEF Cataloged, Presence, Owes, About
    <2>2. ASSUME NEW b \in Begun, NEW t \in About, Owes(t, att'[b].pc, att'[b].state, att'[b].reason = "NONE")
          PROVE  Rows(t, b, count) # {}
      BY <1>1, <2>2 DEF Cataloged, Presence
    <2>3. ASSUME NEW t \in About PROVE ~Owes(t, att'[n].pc, att'[n].state, att'[n].reason = "NONE")
      BY <1>1 DEF Owes, Acked
    <2> QED BY <1>1, <1>7, <2>1, <2>2, <2>3 DEF Presence
  <1> QED BY <1>4, <1>5, <1>6, <1>8 DEF Cataloged

(* A step that moves no request and publishes nothing.                     *)
LEMMA CatalogStill ==
    ASSUME TypeOK, Cataloged, UNCHANGED <<catalog, count, accepted, rejected, att>>,
           life \in {"published", "closed"} => life' \in {"published", "closed"},
           Len(catalog) # count => unknown' /\ lock' \notin Begun
    PROVE  Cataloged'
  BY StillSteps, CatalogQuiet

(* The steps of requests that publish nothing.                             *)
LEMMA CatalogQuietly ==
    ASSUME TypeOK, Placed, Cataloged, NEW a \in Attempts,
           \/ AcceptStart(a) \/ AcceptCreate(a) \/ AcceptLock(a) \/ Claim(a) \/ ClaimSkipped(a) \/ Emit(a)
           \/ EmitRefused(a) \/ EmitFails(a) \/ BusinessEnds(a) \/ Seal(a) \/ SealFails(a) \/ CloseJournal(a)
           \/ FinishStart(a) \/ FinishRead(a) \/ FinishLock(a) \/ FinishEnded(a) \/ Retire(a)
    PROVE  Cataloged'
  <1>1. Steps("nothing", a)
    BY QuietSteps
  <1>2. /\ UNCHANGED <<catalog, count, accepted, rejected, life>> /\ (unknown' = unknown \/ unknown' = TRUE)
        /\ lock' = lock \/ ~unknown
    BY DEF AcceptStart, AcceptCreate, AcceptLock, Claim, ClaimSkipped, Emit, EmitRefused, EmitFails, BusinessEnds,
           Seal, SealFails, CloseJournal, FinishStart, FinishRead, FinishLock, FinishEnded, Retire, Wrote,
           WriteFails, LedgerAvailable, tallies
  <1>3. Len(catalog) # count => unknown' /\ lock' \notin Begun
    BY <1>2 DEF Cataloged, Shape
  <1> QED BY <1>1, <1>2, <1>3, CatalogQuiet

(* A row that fits is published, ...                                       *)
LEMMA CatalogFitting ==
    ASSUME TypeOK, Cataloged, NEW r, Fits(r), Steps(r.type, r.attempt), life' = life,
           Published(r), Says(r, att', life'),
           accepted' = accepted + (IF r.type = "ACCEPT_ACK" THEN 1 ELSE 0),
           rejected' = rejected + (IF r.type = "ATTEMPT_END" /\ r.disposition = "REJECTED" THEN 1 ELSE 0)
    PROVE  Cataloged'
  BY CatalogPublishes DEF Fits, Published

(* ... or its publication fails.                                           *)
LEMMA CatalogMissing ==
    ASSUME TypeOK, Cataloged, NEW a, NEW r, Fits(r), Steps("nothing", a), life' = life,
           Unpublished(r), Says(r, att', life'), UNCHANGED <<accepted, rejected>>, lock' \notin Begun
    PROVE  Cataloged'
  BY CatalogFails DEF Fits, Unpublished

LEMMA LockFree == TypeOK => None \notin Begun
  BY BegunIsFinite

(* The publications, one by one, ...                                       *)
LEMMA CatalogBeginPublish ==
    ASSUME TypeOK, Placed, Cataloged, NEW a \in Attempts, BeginPublish(a)
    PROVE  Cataloged'
  <1>1. a \in Begun /\ att[a].pc = "begin"
    BY DEF BeginPublish, At
  <1>2. PICK r : r = BeginRow(a)
    OBVIOUS
  <1>3. Fits(r) /\ Published(r) /\ life' = life /\ accepted' = accepted /\ rejected' = rejected
    BY <1>1, <1>2, BeginRowFits DEF BeginPublish, tallies
  <1>4. r.type = "ATTEMPT_BEGIN" /\ r.attempt = a /\ r.key = att[a].key /\ r.reason = att[a].reason
    BY <1>1, <1>2 DEF BeginRow, Row
  <1>5. Steps(r.type, r.attempt)
    BY <1>4, PublishSteps
  <1>6. Says(r, att', life')
    <2>1. a \in DOMAIN att' /\ att'[a].key = att[a].key /\ att'[a].reason = att[a].reason /\ att'[a].pc # "begin"
      BY BeginPublishWalks DEF Walks, Going, Begun
    <2> QED BY <1>4, <2>1 DEF Says
  <1>7. accepted \in Nat /\ rejected \in Nat
    BY DEF Cataloged, Shape
  <1> QED BY <1>3, <1>4, <1>5, <1>6, <1>7, CatalogFitting

LEMMA CatalogRejectPublish ==
    ASSUME TypeOK, Placed, Cataloged, NEW a \in Attempts, RejectPublish(a)
    PROVE  Cataloged'
  <1>1. a \in Begun /\ att[a].pc = "reject"
    BY DEF RejectPublish, At
  <1>2. PICK r : r = RejectRow(a)
    OBVIOUS
  <1>3. Fits(r) /\ Published(r) /\ life' = life /\ accepted' = accepted /\ rejected' = rejected + 1
    BY <1>1, <1>2, RejectRowFits DEF RejectPublish
  <1>4. r.type = "ATTEMPT_END" /\ r.attempt = a /\ r.disposition = "REJECTED"
    BY <1>2 DEF RejectRow, Row
  <1>5. Steps(r.type, r.attempt)
    BY <1>4, PublishSteps
  <1>6. Says(r, att', life')
    <2>1. a \in DOMAIN att' /\ att'[a].reason = att[a].reason /\ att'[a].pc = "done"
      BY RejectPublishWalks DEF Walks, Going, Begun
    <2>2. att[a].reason # "NONE"
      BY <1>1 DEF Placed, Suited, Suits
    <2> QED BY <1>4, <2>1, <2>2 DEF Says, AfterEnd
  <1>7. accepted \in Nat /\ rejected \in Nat
    BY DEF Cataloged, Shape
  <1> QED BY <1>3, <1>4, <1>5, <1>6, <1>7, CatalogFitting

LEMMA CatalogAcceptPublish ==
    ASSUME TypeOK, Placed, Cataloged, NEW a \in Attempts, AcceptPublish(a)
    PROVE  Cataloged'
  <1>1. a \in Begun /\ att[a].pc = "acknowledge"
    BY DEF AcceptPublish, At
  <1>2. PICK r : r = AckRow(a)
    OBVIOUS
  <1>3. Fits(r) /\ Published(r) /\ life' = life /\ accepted' = accepted + 1 /\ rejected' = rejected
    BY <1>1, <1>2, AckRowFits DEF AcceptPublish
  <1>4. r.type = "ACCEPT_ACK" /\ r.attempt = a
    BY <1>2 DEF AckRow, Row
  <1>5. Steps(r.type, r.attempt)
    BY <1>4, PublishSteps
  <1>6. Says(r, att', life')
    <2>1. a \in DOMAIN att' /\ att'[a].reason = att[a].reason /\ att'[a].pc = "accepted"
      BY AcceptPublishWalks DEF Walks, Going, Begun
    <2>2. att[a].reason = "NONE"
      BY <1>1 DEF Placed, Suited, Suits, Slotted
    <2> QED BY <1>4, <2>1, <2>2 DEF Says, AfterAck, Acked
  <1>7. accepted \in Nat /\ rejected \in Nat
    BY DEF Cataloged, Shape
  <1> QED BY <1>3, <1>4, <1>5, <1>6, <1>7, CatalogFitting

(* What the END says of its attempt.                                       *)
LEMMA EndRowSays ==
    ASSUME TypeOK, Placed, Journals, NEW a \in Begun, att[a].pc = "publish"
    PROVE  LET r == EndRow(a)
           IN  /\ r.type = "ATTEMPT_END" /\ r.attempt = a /\ r.disposition # "REJECTED"
               /\ att[a].reason = "NONE"
  <1>1. Status(chain[a]) \in {"COMPLETE", "FAILED"}
    BY KnownOriginals DEF OriginalsKnown, Known
  <1>2. att[a].reason = "NONE"
    BY DEF Placed, Suited, Suits, Slotted
  <1> QED BY <1>1, <1>2 DEF EndRow, Row

LEMMA CatalogFinishPublish ==
    ASSUME TypeOK, Placed, Journals, Cataloged, NEW a \in Attempts, FinishPublish(a)
    PROVE  Cataloged'
  <1>1. a \in Begun /\ att[a].pc = "publish"
    BY DEF FinishPublish, At
  <1>2. PICK r : r = EndRow(a)
    OBVIOUS
  <1>3. Fits(r) /\ Published(r) /\ life' = life /\ accepted' = accepted /\ rejected' = rejected
    BY <1>1, <1>2, EndRowFits DEF FinishPublish, tallies
  <1>4. r.type = "ATTEMPT_END" /\ r.attempt = a /\ r.disposition # "REJECTED" /\ att[a].reason = "NONE"
    BY <1>1, <1>2, EndRowSays
  <1>5. Steps(r.type, r.attempt)
    BY <1>4, PublishSteps
  <1>6. Says(r, att', life')
    <2>1. a \in DOMAIN att' /\ att'[a].reason = att[a].reason /\ att'[a].pc = "ended"
      BY FinishPublishWalks DEF Walks, Going, Begun
    <2> QED BY <1>4, <2>1 DEF Says, AfterEnd
  <1>7. accepted \in Nat /\ rejected \in Nat
    BY DEF Cataloged, Shape
  <1> QED BY <1>3, <1>4, <1>5, <1>6, <1>7, CatalogFitting

(* ... and their failures.                                                 *)
LEMMA CatalogBeginFails ==
    ASSUME TypeOK, Placed, Cataloged, NEW a \in Attempts, BeginFails(a)
    PROVE  Cataloged'
  <1>1. a \in Begun /\ Steps("nothing", a) /\ None \notin Begun
    BY QuietSteps, BeginFailsGoes, LockFree
  <1>2. /\ life' = life /\ lock' = None /\ UNCHANGED <<accepted, rejected>>
        /\ a \in DOMAIN att' /\ att'[a].key = att[a].key /\ att'[a].reason = att[a].reason
        /\ att'[a].pc = "failed"
    BY BeginFailsGoes DEF BeginFails, Going, Begun, tallies
  <1>3. CASE At(a, "begin") /\ Unpublished(BeginRow(a))
    <2>1. PICK r : r = BeginRow(a)
      OBVIOUS
    <2>2. Fits(r) /\ Unpublished(r)
      BY <1>1, <1>3, <2>1, BeginRowFits DEF At
    <2>3. r.type = "ATTEMPT_BEGIN" /\ r.attempt = a /\ r.key = att[a].key /\ r.reason = att[a].reason
      BY <1>1, <2>1 DEF BeginRow, Row
    <2>4. Says(r, att', life')
      BY <1>2, <2>3 DEF Says
    <2> QED BY <1>1, <1>2, <2>2, <2>4, CatalogMissing
  <1>4. CASE At(a, "reject") /\ Unpublished(RejectRow(a))
    <2>1. PICK r : r = RejectRow(a)
      OBVIOUS
    <2>2. Fits(r) /\ Unpublished(r)
      BY <1>1, <1>4, <2>1, RejectRowFits DEF At
    <2>3. r.type = "ATTEMPT_END" /\ r.attempt = a /\ r.disposition = "REJECTED" /\ att[a].reason # "NONE"
      BY <1>1, <1>4, <2>1 DEF RejectRow, Row, At, Placed, Suited, Suits
    <2>4. Says(r, att', life')
      BY <1>2, <2>3 DEF Says, AfterEnd
    <2> QED BY <1>1, <1>2, <2>2, <2>4, CatalogMissing
  <1> QED BY <1>3, <1>4 DEF BeginFails

LEMMA CatalogAcceptFails ==
    ASSUME TypeOK, Placed, Cataloged, NEW a \in Attempts, AcceptFails(a)
    PROVE  Cataloged'
  <1>1. Steps("nothing", a) /\ None \notin Begun
    BY QuietSteps, LockFree
  <1>2. /\ life' = life /\ UNCHANGED <<accepted, rejected>> /\ unknown' = TRUE
        /\ a \in Begun /\ a \in DOMAIN att' /\ att'[a].reason = att[a].reason /\ att'[a].pc = "retire"
    BY AcceptFailsWalks DEF AcceptFails, Walks, Going, Begun, tallies
  <1>3. CASE UNCHANGED <<catalog, count, lock>>
    <2>1. Len(catalog) # count => unknown' /\ lock' \notin Begun
      BY <1>2, <1>3 DEF Cataloged, Shape
    <2> QED BY <1>1, <1>2, <1>3, <2>1, CatalogQuiet
  <1>4. CASE At(a, "acknowledge") /\ Unpublished(AckRow(a)) /\ lock' = None
    <2>1. PICK r : r = AckRow(a)
      OBVIOUS
    <2>2. Fits(r) /\ Unpublished(r)
      BY <1>2, <1>4, <2>1, AckRowFits DEF At
    <2>3. r.type = "ACCEPT_ACK" /\ r.attempt = a /\ att[a].reason = "NONE"
      BY <1>2, <1>4, <2>1 DEF AckRow, Row, At, Placed, Suited, Suits, Slotted
    <2>4. Says(r, att', life')
      BY <1>2, <2>3 DEF Says, AfterAck, AfterEnd
    <2> QED BY <1>1, <1>2, <1>4, <2>2, <2>4, CatalogMissing
  <1> QED BY <1>3, <1>4 DEF AcceptFails

LEMMA CatalogFinishFails ==
    ASSUME TypeOK, Placed, Journals, Cataloged, NEW a \in Attempts, FinishFails(a)
    PROVE  Cataloged'
  <1>1. Steps("nothing", a) /\ None \notin Begun
    BY QuietSteps, LockFree
  <1>2. /\ life' = life /\ UNCHANGED <<accepted, rejected>> /\ unknown' = TRUE
        /\ a \in Begun /\ a \in DOMAIN att' /\ att'[a].reason = att[a].reason /\ att'[a].pc = "retire"
    BY FinishFailsWalks DEF FinishFails, Walks, Going, Begun, tallies
  <1>3. CASE UNCHANGED <<catalog, count, lock>>
    <2>1. Len(catalog) # count => unknown' /\ lock' \notin Begun
      BY <1>2, <1>3 DEF Cataloged, Shape
    <2> QED BY <1>1, <1>2, <1>3, <2>1, CatalogQuiet
  <1>4. CASE At(a, "publish") /\ Unpublished(EndRow(a)) /\ lock' = None
    <2>1. PICK r : r = EndRow(a)
      OBVIOUS
    <2>2. Fits(r) /\ Unpublished(r)
      BY <1>2, <1>4, <2>1, EndRowFits DEF At
    <2>3. r.type = "ATTEMPT_END" /\ r.attempt = a /\ r.disposition # "REJECTED" /\ att[a].reason = "NONE"
      BY <1>2, <1>4, <2>1, EndRowSays DEF At
    <2>4. Says(r, att', life')
      BY <1>2, <2>3 DEF Says, AfterEnd
    <2> QED BY <1>1, <1>2, <1>4, <2>2, <2>4, CatalogMissing
  <1> QED BY <1>3, <1>4 DEF FinishFails

(* close ends the catalog or leaves it.                                    *)
LEMMA CatalogClose ==
    ASSUME TypeOK, Placed, Cataloged, CloseStart \/ ClosePublish \/ CloseRefused \/ CloseCleanup
    PROVE  Cataloged'
  <1>0. None \notin Begun /\ Closer \notin Begun
    BY BegunIsFinite
  <1>1. CASE CloseStart
    <2>1. /\ UNCHANGED <<catalog, count, accepted, rejected, att, unknown>> /\ life = "open" /\ lock' = Closer
      BY <1>1 DEF CloseStart, tallies
    <2>2. Len(catalog) # count => unknown' /\ lock' \notin Begun
      BY <1>0, <2>1 DEF Cataloged, Shape
    <2> QED BY <2>1, <2>2, CatalogStill
  <1>2. CASE CloseCleanup
    <2>1. /\ UNCHANGED <<catalog, count, accepted, rejected, att>> /\ life' = "closed" /\ lock' = None
          /\ unknown' = unknown \/ unknown' = TRUE
      BY <1>2 DEF CloseCleanup, tallies
    <2>2. Len(catalog) # count => unknown' /\ lock' \notin Begun
      BY <1>0, <2>1 DEF Cataloged, Shape
    <2> QED BY <2>1, <2>2, CatalogStill
  <1>3. ASSUME life = "closing", ~unknown, AllEnded
        PROVE  \E r : /\ r = InstanceEndRow /\ Fits(r) /\ r.type = "INSTANCE_END"
    BY <1>3, InstanceEndFits DEF InstanceEndRow, Row
  <1>4. CASE ClosePublish
    <2>1. PICK r : r = InstanceEndRow /\ Fits(r) /\ r.type = "INSTANCE_END"
      BY <1>3, <1>4 DEF ClosePublish
    <2>2. Published(r) /\ life' = "published" /\ UNCHANGED <<att, accepted, rejected>>
      BY <1>4, <2>1 DEF ClosePublish, tallies
    <2>3. Says(r, att', life')
      BY <2>1, <2>2 DEF Says, About
    <2>4. Steps(r.type, r.attempt)
      BY <2>2, StillSteps
    <2>5. accepted \in Nat /\ rejected \in Nat
      BY DEF Cataloged, Shape
    <2>6. /\ r \in CatalogRows /\ Unfinished(catalog) /\ Continues(catalog, r) /\ Len(catalog) = count
          /\ catalog' = Append(catalog, r) /\ count' = count + 1 /\ r.type \notin About
      BY <2>1, <2>2 DEF Fits, Published, About
    <2>7. /\ accepted' = accepted + (IF r.type = "ACCEPT_ACK" THEN 1 ELSE 0)
          /\ rejected' = rejected + (IF r.type = "ATTEMPT_END" /\ r.disposition = "REJECTED" THEN 1 ELSE 0)
      BY <2>1, <2>2, <2>5
    <2> QED BY <2>2, <2>3, <2>4, <2>6, <2>7, CatalogPublishes
  <1>5. CASE CloseRefused
    <2>1. life' = "closed" /\ lock' = None /\ UNCHANGED <<att, accepted, rejected>> /\ life = "closing"
      BY <1>5 DEF CloseRefused, tallies
    <2>2. CASE unknown' = TRUE /\ UNCHANGED <<catalog, count>>
      <3>1. Len(catalog) # count => unknown' /\ lock' \notin Begun
        BY <1>0, <2>1, <2>2
      <3> QED BY <2>1, <2>2, <3>1, CatalogStill
    <2>3. CASE ~unknown /\ AllEnded /\ Unpublished(InstanceEndRow)
      <3>1. PICK r : r = InstanceEndRow /\ Fits(r) /\ r.type = "INSTANCE_END"
        BY <1>3, <2>1, <2>3
      <3>2. /\ r \in CatalogRows /\ Unfinished(catalog) /\ Continues(catalog, r) /\ Len(catalog) = count
            /\ catalog' = catalog \/ catalog' = Append(catalog, r)
            /\ count' = count /\ unknown' /\ r.type \notin About
        BY <2>3, <3>1 DEF Fits, Unpublished, About
      <3>3. Says(r, att', life')
        BY <2>1, <3>1 DEF Says, About
      <3>4. Steps("nothing", Closer) /\ lock' \notin Begun
        BY <1>0, <2>1, StillSteps
      <3> QED BY <2>1, <3>2, <3>3, <3>4, CatalogFails
    <2> QED BY <1>5, <2>2, <2>3 DEF CloseRefused
  <1> QED BY <1>1, <1>2, <1>4, <1>5

(* The first catalog holds the INSTANCE_BEGIN.                             *)
LEMMA CatalogFirst == Init => Cataloged
  <1> SUFFICES ASSUME Init PROVE Cataloged
    OBVIOUS
  <1> DEFINE r == [type |-> "INSTANCE_BEGIN", seq |-> 0, prev |-> 0, attempt |-> None, key |-> None,
                   reason |-> None, disposition |-> None, outcome |-> None, records |-> 0,
                   bytes |-> 0, accepted |-> 0, rejected |-> 0]
  <1>1. /\ catalog = <<r>> /\ count = 1 /\ att = <<>> /\ accepted = 0 /\ rejected = 0
    BY DEF Init
  <1>2. r \in CatalogRows /\ r.type = "INSTANCE_BEGIN" /\ r.seq = 0 /\ r.prev = 0
    BY DEF CatalogRows, RowTypes
  <1> HIDE DEF r
  <1>3. /\ catalog \in Seq(CatalogRows) /\ Len(catalog) = 1 /\ catalog[1] = r
        /\ 1..Len(catalog) = {1} /\ 1..count = {1}
    BY <1>1, <1>2
  <1>4. Begun = {}
    BY <1>1 DEF Begun
  <1>5. Shape
    <2>1. Len(catalog) >= 1 /\ Len(catalog) = count /\ count \in Nat /\ count >= 1
      BY <1>1, <1>3
    <2> QED BY <1>1, <1>3, <2>1 DEF Shape
  <1>6. RowsTrue /\ Once /\ Presence
    BY <1>2, <1>3, <1>4 DEF RowsTrue, Says, About, Once, Presence
  <1>7. AckRows = {} /\ RejectRows = {}
    BY <1>2, <1>3 DEF AckRows, RejectRows
  <1>8. Tallied
    BY <1>1, <1>7, FS_EmptySet DEF Tallied
  <1>9. AllVerify(catalog)
    <2>1. catalog[1].type = "INSTANCE_BEGIN" /\ catalog[1].seq = 1 - 1 /\ catalog[1].prev = 1 - 1
      BY <1>2, <1>3
    <2>2. (catalog[1].type = "INSTANCE_BEGIN") = (1 = 1)
      BY <2>1
    <2>3. RowVerifies(catalog, 1)
      BY <2>1, <2>2 DEF RowVerifies
    <2> QED BY <1>3, <2>3 DEF AllVerify
  <1> QED BY <1>5, <1>6, <1>8, <1>9 DEF Cataloged

(* Every step leaves a catalog its reader accepts and that tells the       *)
(* truth.                                                                  *)
LEMMA CatalogNext ==
    ASSUME TypeOK, Placed, Journals, Cataloged, [Next]_vars
    PROVE  Cataloged'
  <1>0. ASSUME UNCHANGED <<catalog, count, accepted, rejected, att, life, lock>>,
               unknown' = unknown \/ unknown' = TRUE
        PROVE  Cataloged'
    <2>1. Len(catalog) # count => unknown' /\ lock' \notin Begun
      BY <1>0 DEF Cataloged, Shape
    <2> QED BY <1>0, <2>1, CatalogStill
  <1>1. ASSUME NEW k \in Keys, BeginReserve(k) PROVE Cataloged'
    BY <1>1, CatalogBegin
  <1>2. ASSUME NEW a \in Attempts,
               \/ BeginPublish(a) \/ RejectPublish(a) \/ BeginFails(a) \/ AcceptPublish(a) \/ AcceptFails(a)
               \/ FinishPublish(a) \/ FinishFails(a)
        PROVE  Cataloged'
    BY <1>2, CatalogBeginPublish, CatalogRejectPublish, CatalogBeginFails, CatalogAcceptPublish,
       CatalogAcceptFails, CatalogFinishPublish, CatalogFinishFails
  <1>3. ASSUME NEW a \in Attempts,
               \/ AcceptStart(a) \/ AcceptCreate(a) \/ AcceptLock(a) \/ Claim(a) \/ ClaimSkipped(a) \/ Emit(a)
               \/ EmitRefused(a) \/ EmitFails(a) \/ BusinessEnds(a) \/ Seal(a) \/ SealFails(a)
               \/ CloseJournal(a) \/ FinishStart(a) \/ FinishRead(a) \/ FinishLock(a) \/ FinishEnded(a)
               \/ Retire(a)
        PROVE  Cataloged'
    BY <1>3, CatalogQuietly
  <1>4. ASSUME NEW s \in Sessions, PrefixRead(s) \/ PrefixIssue(s) PROVE Cataloged'
    BY <1>0, <1>4 DEF PrefixRead, PrefixIssue, tallies
  <1>5. CASE CloseStart \/ ClosePublish \/ CloseRefused \/ CloseCleanup
    BY <1>5, CatalogClose
  <1>6. CASE UNCHANGED vars
    BY <1>0, <1>6 DEF vars, tallies
  <1> QED BY <1>1, <1>2, <1>3, <1>4, <1>5, <1>6 DEF Next

(* Three rows of an attempt and two of the instance are all a catalog has. *)
LEMMA RowsBounded ==
    ASSUME TypeOK, Cataloged
    PROVE  Len(catalog) <= 3 * MaxAttempts + 2 /\ (Unfinished(catalog) => Len(catalog) <= 3 * MaxAttempts + 1)
  <1> DEFINE n == Len(catalog)
             K == {i \in 1..n : catalog[i].type \in About}
             T == About \X Begun
             f == [i \in K |-> <<catalog[i].type, catalog[i].attempt>>]
  <1>1. n \in Nat /\ n >= 1 /\ catalog \in Seq(CatalogRows)
    BY DEF Cataloged, Shape
  <1>2. IsFiniteSet(Begun) /\ Cardinality(Begun) <= MaxAttempts /\ Cardinality(Begun) \in Nat
    <2>1. Len(att) \in Nat /\ Begun = 1..Len(att) /\ Len(att) <= MaxAttempts
      BY BegunIsFinite DEF TypeOK
    <2>2. Cardinality(1..Len(att)) = Len(att) /\ IsFiniteSet(1..Len(att))
      BY <2>1, FS_Interval
    <2> QED BY <2>1, <2>2
  <1>3. IsFiniteSet(About) /\ Cardinality(About) = 3
    <2>1. IsFiniteSet({}) /\ Cardinality({}) = 0
      BY FS_EmptySet
    <2> DEFINE A == {} \cup {"ATTEMPT_BEGIN"}
               B == A \cup {"ACCEPT_ACK"}
               C == B \cup {"ATTEMPT_END"}
    <2>2. IsFiniteSet(A) /\ Cardinality(A) = 1
      BY <2>1, FS_AddElement
    <2>3. "ACCEPT_ACK" \notin A /\ "ATTEMPT_END" \notin B /\ About = C
      BY DEF About
    <2> HIDE DEF A
    <2>4. IsFiniteSet(B) /\ Cardinality(B) = 2
      BY <2>2, <2>3, FS_AddElement
    <2> HIDE DEF B
    <2>5. IsFiniteSet(C) /\ Cardinality(C) = 3
      BY <2>3, <2>4, FS_AddElement
    <2> QED BY <2>3, <2>5
  <1>4. IsFiniteSet(T) /\ Cardinality(T) = 3 * Cardinality(Begun)
    BY <1>2, <1>3, FS_Product
  <1>5. f \in Injection(K, T)
    <2>1. f \in [K -> T]
      BY DEF Cataloged, RowsTrue, Says, Begun
    <2>2. ASSUME NEW i \in K, NEW j \in K, f[i] = f[j] PROVE i = j
      BY <2>2 DEF Cataloged, Once
    <2> HIDE DEF f, K, T
    <2> QED BY <2>1, <2>2 DEF Injection, IsInjective
  <1>6. IsFiniteSet(K) /\ Cardinality(K) <= 3 * Cardinality(Begun)
    <2> HIDE DEF f, K, T
    <2> QED BY <1>4, <1>5, FS_Injection
  <1>7. /\ 2..(n - 1) \subseteq K
        /\ Unfinished(catalog) => 2..n \subseteq K
    <2> SUFFICES ASSUME NEW i \in 2..n, i # n \/ Unfinished(catalog) PROVE i \in K
      BY <1>1
    <2>1. i \in 1..n /\ i # 1
      BY <1>1
    <2>2. RowVerifies(catalog, i)
      BY <2>1 DEF Cataloged, AllVerify
    <2>3. catalog[i].type # "INSTANCE_BEGIN" /\ (catalog[i].type = "INSTANCE_END" => i = n)
      BY <2>1, <2>2 DEF RowVerifies
    <2>4. catalog[i].type \in RowTypes
      <3>1. catalog[i] \in CatalogRows
        BY <1>1, <2>1
      <3> QED BY <3>1 DEF CatalogRows
    <2>5. catalog[i].type # "INSTANCE_END"
      BY <2>1, <2>3 DEF Unfinished
    <2> QED BY <2>1, <2>3, <2>4, <2>5 DEF RowTypes, About
  <1>8. /\ Cardinality(2..(n - 1)) <= Cardinality(K)
        /\ Unfinished(catalog) => Cardinality(2..n) <= Cardinality(K)
    <2> HIDE DEF K
    <2> QED BY <1>6, <1>7, FS_Subset
  <1>9. /\ n <= 2 \/ Cardinality(2..(n - 1)) = n - 2
        /\ n <= 1 \/ Cardinality(2..n) = n - 1
    BY <1>1, FS_Interval
  <1>10. Cardinality(K) \in Nat
    BY <1>6, FS_CardinalityType
  <1> HIDE DEF n, K
  <1>11. n <= 3 * MaxAttempts + 2
    BY <1>1, <1>2, <1>6, <1>8, <1>9, <1>10, LimitsAreNats
  <1>12. Unfinished(catalog) => n <= 3 * MaxAttempts + 1
    BY <1>1, <1>2, <1>6, <1>8, <1>9, <1>10, LimitsAreNats
  <1> QED BY <1>11, <1>12 DEF n

(* Such a catalog is valid.                                                *)
LEMMA CatalogHolds ==
    ASSUME TypeOK, Cataloged
    PROVE  CatalogIsValid
  <1>1. catalog \in Seq(CatalogRows) /\ Len(catalog) >= 1 /\ Len(catalog) \in Nat
    BY DEF Cataloged, Shape
  <1>2. Len(catalog) \in 1..MaxCatalogRecords
    BY <1>1, RowsBounded, LedgerBudgets
  <1> QED BY <1>1, <1>2 DEF Cataloged, AllVerify, CatalogIsValid, CatalogVerifies

(***************************************************************************)
(* An END and its originals                                                *)
(***************************************************************************)
Ended(i) == catalog[i].type = "ATTEMPT_END" /\ catalog[i].disposition # "REJECTED"

EndsHold == \A i \in 1..Len(catalog) : Ended(i) =>
    EndDescribes(catalog[i].attempt, i) /\ {"sealed", "closed"} \subseteq jn[catalog[i].attempt].flags

(* Behind its END nobody touches a request's files, and a flag stays.      *)
OriginalsKept == \A b \in Begun : att[b].pc \in AfterEnd =>
    /\ chain'[b] = chain[b]
    /\ {"sealed", "closed"} \subseteq jn[b].flags => {"sealed", "closed"} \subseteq jn'[b].flags

(* A step of a request that is not so far.                                 *)
LEMMA KeptBy ==
    ASSUME TypeOK, Journals, NEW a \in Attempts, att[a].pc \notin AfterEnd, NEW x, NEW y,
           jn' = jn \/ jn' = [jn EXCEPT ![a] = x], chain' = chain \/ chain' = [chain EXCEPT ![a] = y]
    PROVE  OriginalsKept
  <1>1. /\ chain \in [Attempts -> Seq(Originals)] /\ jn \in [Attempts -> Journal \cup {None}]
        /\ Begun \subseteq Attempts
    BY BegunAttempts DEF Journals, TypeOK
  <1> HIDE DEF Begun
  <1>2. ASSUME NEW b \in Begun, b # a PROVE chain'[b] = chain[b] /\ jn'[b] = jn[b]
    BY <1>1, <1>2
  <1> QED BY <1>2 DEF OriginalsKept

(* No step touches the originals behind an END.                            *)
LEMMA KeptNext ==
    ASSUME TypeOK, Journals, [Next]_vars
    PROVE  OriginalsKept
  <1>0. ASSUME UNCHANGED <<jn, chain>> PROVE OriginalsKept
    BY <1>0 DEF OriginalsKept
  <1>1. ASSUME NEW a \in Attempts, AcceptCreate(a) PROVE OriginalsKept
    BY <1>1, KeptBy DEF AcceptCreate, Wrote, At, AfterEnd
  <1>2. ASSUME NEW a \in Attempts, AcceptFails(a) PROVE OriginalsKept
    BY <1>0, <1>2, KeptBy DEF AcceptFails, WriteFails, At, AfterEnd
  <1>3. ASSUME NEW a \in Attempts, Claim(a) \/ EmitRefused(a) PROVE OriginalsKept
    BY <1>3, KeptBy DEF Claim, EmitRefused, At, AfterEnd
  <1>4. ASSUME NEW a \in Attempts, Emit(a) PROVE OriginalsKept
    BY <1>4, KeptBy DEF Emit, Wrote, At, AfterEnd
  <1>5. ASSUME NEW a \in Attempts, EmitFails(a) PROVE OriginalsKept
    BY <1>5, KeptBy DEF EmitFails, WriteFails, At, AfterEnd
  <1>6. ASSUME NEW a \in Attempts, Seal(a) PROVE OriginalsKept
    BY <1>6, KeptBy DEF Seal, Wrote, At, AfterEnd
  <1>7. ASSUME NEW a \in Attempts, SealFails(a) PROVE OriginalsKept
    BY <1>0, <1>7, KeptBy DEF SealFails, WriteFails, At, AfterEnd
  <1>8. ASSUME NEW a \in Attempts, CloseJournal(a) PROVE OriginalsKept
    BY <1>8, KeptBy DEF CloseJournal, At, AfterEnd
  <1>9. ASSUME NEW a \in Attempts, Retire(a) PROVE OriginalsKept
    <2>1. jn' = [jn EXCEPT ![a] = IF jn[a] = None THEN None ELSE Marked(jn[a], {"closed"})] /\ UNCHANGED chain
      BY <1>9 DEF Retire
    <2>2. jn \in [Attempts -> Journal \cup {None}] /\ Begun \subseteq Attempts
      BY BegunAttempts DEF TypeOK
    <2> HIDE DEF Begun
    <2>3. ASSUME NEW b \in Begun, {"sealed", "closed"} \subseteq jn[b].flags
          PROVE  {"sealed", "closed"} \subseteq jn'[b].flags
      <3>1. CASE b # a \/ jn[a] = None
        BY <2>1, <2>2, <2>3, <3>1
      <3>2. CASE b = a /\ jn[a] # None
        <4>1. jn'[a] = Marked(jn[a], {"closed"})
          BY <2>1, <2>2, <3>2
        <4> QED BY <2>3, <3>2, <4>1 DEF Marked
      <3> QED BY <3>1, <3>2
    <2> QED BY <2>1, <2>3 DEF OriginalsKept
  <1>10. ASSUME NEW a \in Attempts,
               \/ BeginPublish(a) \/ RejectPublish(a) \/ BeginFails(a) \/ AcceptStart(a) \/ AcceptLock(a)
               \/ AcceptPublish(a) \/ ClaimSkipped(a) \/ BusinessEnds(a) \/ FinishStart(a) \/ FinishRead(a)
               \/ FinishLock(a) \/ FinishPublish(a) \/ FinishEnded(a) \/ FinishFails(a)
         PROVE  OriginalsKept
    BY <1>0, <1>10 DEF BeginPublish, RejectPublish, BeginFails, AcceptStart, AcceptLock, AcceptPublish,
       ClaimSkipped, BusinessEnds, FinishStart, FinishRead, FinishLock, FinishPublish, FinishEnded, FinishFails
  <1>11. ASSUME NEW k \in Keys, BeginReserve(k) PROVE OriginalsKept
    BY <1>0, <1>11 DEF BeginReserve
  <1>12. ASSUME NEW s \in Sessions, PrefixRead(s) \/ PrefixIssue(s) PROVE OriginalsKept
    BY <1>0, <1>12 DEF PrefixRead, PrefixIssue
  <1>13. CASE CloseStart \/ ClosePublish \/ CloseRefused \/ CloseCleanup
    BY <1>0, <1>13 DEF CloseStart, ClosePublish, CloseRefused, CloseCleanup
  <1>14. CASE UNCHANGED vars
    BY <1>0, <1>14 DEF vars
  <1> QED BY <1>1, <1>2, <1>3, <1>4, <1>5, <1>6, <1>7, <1>8, <1>9, <1>10, <1>11, <1>12, <1>13, <1>14 DEF Next

(* The catalog as it is, or one file longer behind a confirmed one; the    *)
(* END of an accepted request comes from its finish.                       *)
Finished(r) == \E a \in Begun :
    att[a].pc = "publish" /\ r = EndRow(a) /\ UNCHANGED <<jn, chain>>

Grown(r) ==
    /\ catalog' = Append(catalog, r) /\ Len(catalog) = count /\ r \in CatalogRows
    /\ count' = count \/ count' = count + 1
    /\ r.type = "ATTEMPT_END" => r.disposition = "REJECTED" \/ Finished(r)

Grows == (catalog' = catalog /\ count' = count) \/ \E r : Grown(r)

(* A publication of a fitting row.                                         *)
LEMMA FitGrows ==
    ASSUME NEW r, Fits(r), Published(r) \/ Unpublished(r),
           r.type = "ATTEMPT_END" => r.disposition = "REJECTED" \/ Finished(r)
    PROVE  Grows
  <1>1. CASE catalog' = catalog /\ count' = count
    BY <1>1 DEF Grows
  <1>2. CASE catalog' = Append(catalog, r) /\ (count' = count \/ count' = count + 1)
    <2>1. Grown(r)
      BY <1>2 DEF Grown, Fits
    <2> QED BY <2>1 DEF Grows
  <1> QED BY <1>1, <1>2 DEF Published, Unpublished

LEMMA RequestGrows ==
    ASSUME TypeOK, Placed, Journals, Cataloged, NEW a \in Attempts,
           \/ BeginPublish(a) \/ RejectPublish(a) \/ BeginFails(a) \/ AcceptPublish(a) \/ AcceptFails(a)
           \/ FinishPublish(a) \/ FinishFails(a)
    PROVE  Grows
  <1>0. ASSUME UNCHANGED <<catalog, count>> PROVE Grows
    BY <1>0 DEF Grows
  <1>1. ASSUME At(a, "begin"), Published(BeginRow(a)) \/ Unpublished(BeginRow(a)) PROVE Grows
    <2>1. BeginRow(a).type = "ATTEMPT_BEGIN"
      BY DEF BeginRow, Row
    <2>2. Fits(BeginRow(a))
      BY <1>1, BeginRowFits DEF At
    <2> QED BY <1>1, <2>1, <2>2, FitGrows
  <1>2. ASSUME At(a, "reject"), Published(RejectRow(a)) \/ Unpublished(RejectRow(a)) PROVE Grows
    <2>1. RejectRow(a).disposition = "REJECTED"
      BY DEF RejectRow, Row
    <2>2. Fits(RejectRow(a))
      BY <1>2, RejectRowFits DEF At
    <2> QED BY <1>2, <2>1, <2>2, FitGrows
  <1>3. ASSUME At(a, "acknowledge"), Published(AckRow(a)) \/ Unpublished(AckRow(a)) PROVE Grows
    <2>1. AckRow(a).type = "ACCEPT_ACK"
      BY DEF AckRow, Row
    <2>2. Fits(AckRow(a))
      BY <1>3, AckRowFits DEF At
    <2> QED BY <1>3, <2>1, <2>2, FitGrows
  <1>4. ASSUME At(a, "publish"), Published(EndRow(a)) \/ Unpublished(EndRow(a)), UNCHANGED <<jn, chain>>
        PROVE  Grows
    <2>1. Finished(EndRow(a))
      BY <1>4 DEF Finished, At
    <2>2. Fits(EndRow(a))
      BY <1>4, EndRowFits DEF At
    <2> QED BY <1>4, <2>1, <2>2, FitGrows
  <1>5. CASE BeginPublish(a) \/ RejectPublish(a) \/ BeginFails(a)
    BY <1>1, <1>2, <1>5 DEF BeginPublish, RejectPublish, BeginFails
  <1>6. CASE AcceptPublish(a) \/ AcceptFails(a)
    BY <1>0, <1>3, <1>6 DEF AcceptPublish, AcceptFails
  <1>7. CASE FinishPublish(a) \/ FinishFails(a)
    BY <1>0, <1>4, <1>7 DEF FinishPublish, FinishFails
  <1> QED BY <1>5, <1>6, <1>7

(* Every step leaves the catalog or appends to it.                         *)
LEMMA GrowsNext ==
    ASSUME TypeOK, Placed, Journals, Cataloged, [Next]_vars
    PROVE  Grows
  <1>0. ASSUME UNCHANGED <<catalog, count>> PROVE Grows
    BY <1>0 DEF Grows
  <1>1. ASSUME NEW a \in Attempts,
               \/ BeginPublish(a) \/ RejectPublish(a) \/ BeginFails(a) \/ AcceptPublish(a) \/ AcceptFails(a)
               \/ FinishPublish(a) \/ FinishFails(a)
        PROVE  Grows
    BY <1>1, RequestGrows
  <1>2. ASSUME NEW a \in Attempts,
               \/ AcceptStart(a) \/ AcceptCreate(a) \/ AcceptLock(a) \/ Claim(a) \/ ClaimSkipped(a) \/ Emit(a)
               \/ EmitRefused(a) \/ EmitFails(a) \/ BusinessEnds(a) \/ Seal(a) \/ SealFails(a)
               \/ CloseJournal(a) \/ FinishStart(a) \/ FinishRead(a) \/ FinishLock(a) \/ FinishEnded(a)
               \/ Retire(a)
        PROVE  Grows
    BY <1>0, <1>2 DEF AcceptStart, AcceptCreate, AcceptLock, Claim, ClaimSkipped, Emit, EmitRefused, EmitFails,
       BusinessEnds, Seal, SealFails, CloseJournal, FinishStart, FinishRead, FinishLock, FinishEnded, Retire
  <1>3. ASSUME NEW k \in Keys, BeginReserve(k) PROVE Grows
    BY <1>0, <1>3 DEF BeginReserve
  <1>4. ASSUME NEW s \in Sessions, PrefixRead(s) \/ PrefixIssue(s) PROVE Grows
    BY <1>0, <1>4 DEF PrefixRead, PrefixIssue
  <1>5. CASE CloseStart \/ CloseCleanup \/ UNCHANGED vars
    BY <1>0, <1>5 DEF CloseStart, CloseCleanup, vars
  <1>6. CASE ClosePublish \/ CloseRefused
    <2>1. ASSUME life = "closing", ~unknown, AllEnded,
                 Published(InstanceEndRow) \/ Unpublished(InstanceEndRow)
          PROVE  Grows
      <3>1. Fits(InstanceEndRow)
        BY <2>1, InstanceEndFits
      <3>2. InstanceEndRow.type = "INSTANCE_END"
        BY DEF InstanceEndRow, Row
      <3> QED BY <2>1, <3>1, <3>2, FitGrows
    <2> QED BY <1>0, <1>6, <2>1 DEF ClosePublish, CloseRefused
  <1> QED BY <1>1, <1>2, <1>3, <1>4, <1>5, <1>6 DEF Next

(* What was confirmed stays where it is.                                   *)
LEMMA GrowsKeeps ==
    ASSUME Cataloged, Grows
    PROVE  /\ Len(catalog') \in Nat /\ Len(catalog) \in Nat /\ Len(catalog) <= Len(catalog')
           /\ count \in Nat /\ count <= count' /\ count <= Len(catalog)
           /\ \A i \in 1..Len(catalog) : catalog'[i] = catalog[i]
           /\ \A i \in 1..Len(catalog') : i \in 1..Len(catalog) \/ i = Len(catalog) + 1
           /\ \A t, b : Rows(t, b, count) # {} => Rows(t, b, count)' # {}
  <1>0. catalog \in Seq(CatalogRows) /\ Len(catalog) \in Nat /\ count \in Nat /\ count <= Len(catalog)
    BY DEF Cataloged, Shape
  <1>1. /\ Len(catalog') \in Nat /\ Len(catalog) <= Len(catalog') /\ count' \in Nat /\ count <= count'
        /\ \A i \in 1..Len(catalog) : catalog'[i] = catalog[i]
        /\ \A i \in 1..Len(catalog') : i \in 1..Len(catalog) \/ i = Len(catalog) + 1
    <2>1. CASE catalog' = catalog /\ count' = count
      BY <1>0, <2>1
    <2>2. CASE \E r : Grown(r)
      <3>1. PICK r : Grown(r)
        BY <2>2
      <3>2. catalog' = Append(catalog, r) /\ r \in CatalogRows /\ (count' = count \/ count' = count + 1)
        BY <3>1 DEF Grown
      <3>3. count' \in Nat /\ count <= count'
        BY <1>0, <3>2
      <3> QED BY <1>0, <3>2, <3>3, RowsAppended
    <2> QED BY <2>1, <2>2 DEF Grows
  <1>2. ASSUME NEW t, NEW b, Rows(t, b, count) # {} PROVE Rows(t, b, count)' # {}
    <2>1. PICK j \in 1..count : catalog[j].type = t /\ catalog[j].attempt = b
      BY <1>2 DEF Rows
    <2>2. j \in 1..count' /\ catalog'[j] = catalog[j]
      BY <1>0, <1>1
    <2> QED BY <2>1, <2>2 DEF Rows
  <1> QED BY <1>0, <1>1, <1>2

(* Every step keeps the ENDs true.                                         *)
LEMMA EndsNext ==
    ASSUME TypeOK, Placed, Journals, Cataloged, EndsHold, [Next]_vars
    PROVE  EndsHold'
  <1>1. Grows /\ OriginalsKept
    BY GrowsNext, KeptNext
  <1>2. ASSUME NEW i \in 1..Len(catalog), Ended(i)
        PROVE  /\ EndDescribes(catalog[i].attempt, i)'
               /\ ({"sealed", "closed"} \subseteq jn[catalog[i].attempt].flags)'
    <2>1. PICK b : b = catalog[i].attempt
      OBVIOUS
    <2>2. catalog'[i] = catalog[i]
      BY <1>1, GrowsKeeps
    <2>3. EndDescribes(b, i) /\ {"sealed", "closed"} \subseteq jn[b].flags
      BY <1>2, <2>1 DEF EndsHold
    <2>4. b \in Begun /\ att[b].pc \in AfterEnd
      <3>1. Says(catalog[i], att, life) /\ catalog[i].type = "ATTEMPT_END"
        BY <1>2 DEF Cataloged, RowsTrue, Ended
      <3> QED BY <2>1, <3>1 DEF Says, About, Begun
    <2>5. chain'[b] = chain[b] /\ {"sealed", "closed"} \subseteq jn'[b].flags
      BY <1>1, <2>3, <2>4 DEF OriginalsKept
    <2>6. Rows("ACCEPT_ACK", b, count)' # {}
      BY <1>1, <2>3, GrowsKeeps DEF EndDescribes
    <2>7. EndDescribes(b, i)'
      BY <2>2, <2>3, <2>5, <2>6 DEF EndDescribes
    <2> QED BY <2>1, <2>2, <2>5, <2>7 DEF EndDescribes
  <1>3. ASSUME NEW r, Grown(r), r.type = "ATTEMPT_END", r.disposition # "REJECTED",
               NEW i, i = Len(catalog) + 1
        PROVE  /\ EndDescribes(catalog[i].attempt, i)'
               /\ ({"sealed", "closed"} \subseteq jn[catalog[i].attempt].flags)'
    <2>1. PICK b \in Begun : att[b].pc = "publish" /\ r = EndRow(b) /\ UNCHANGED <<jn, chain>>
      BY <1>3 DEF Grown, Finished
    <2>2. catalog'[i] = r
      <3>1. catalog' = Append(catalog, r) /\ r \in CatalogRows /\ catalog \in Seq(CatalogRows)
        BY <1>3 DEF Grown, Cataloged, Shape
      <3> QED BY <1>3, <3>1, RowsAppended
    <2>3. OriginalsKnown(b)
      BY <2>1, KnownOriginals DEF Known
    <2>4. /\ r.attempt = b /\ r.disposition = Status(chain[b]) /\ r.outcome = att[b].outcome
          /\ r.records = jn[b].count /\ r.bytes = jn[b].bytes
      BY <2>1 DEF EndRow, Row
    <2>5. Rows("ACCEPT_ACK", b, count) # {}
      <3>1. Owes("ACCEPT_ACK", att[b].pc, att[b].state, att[b].reason = "NONE") /\ "ACCEPT_ACK" \in About
        BY <2>1 DEF Owes, Acked, About
      <3> QED BY <3>1 DEF Cataloged, Presence
    <2>6. Rows("ACCEPT_ACK", b, count)' # {}
      BY <1>1, <2>5, GrowsKeeps
    <2>7. EndDescribes(b, i)'
      BY <2>1, <2>2, <2>3, <2>4, <2>6 DEF EndDescribes, OriginalsKnown
    <2>8. {"sealed", "closed"} \subseteq jn'[b].flags
      BY <2>1, <2>3 DEF OriginalsKnown
    <2> QED BY <2>2, <2>4, <2>7, <2>8 DEF EndDescribes
  <1>4. ASSUME NEW i \in 1..Len(catalog'), Ended(i)'
        PROVE  /\ EndDescribes(catalog[i].attempt, i)'
               /\ ({"sealed", "closed"} \subseteq jn[catalog[i].attempt].flags)'
    <2>1. CASE i \in 1..Len(catalog)
      <3>1. Ended(i)
        BY <1>1, <1>4, <2>1, GrowsKeeps DEF Ended
      <3> QED BY <1>2, <2>1, <3>1
    <2>2. CASE i \notin 1..Len(catalog)
      <3>1. i = Len(catalog) + 1
        BY <1>1, <2>2, GrowsKeeps
      <3>2. catalog' # catalog
        BY <2>2
      <3>3. PICK r : Grown(r)
        BY <1>1, <3>2 DEF Grows
      <3>4. catalog'[i] = r
        <4>1. catalog' = Append(catalog, r) /\ r \in CatalogRows /\ catalog \in Seq(CatalogRows)
          BY <3>3 DEF Grown, Cataloged, Shape
        <4> QED BY <3>1, <4>1, RowsAppended
      <3>5. r.type = "ATTEMPT_END" /\ r.disposition # "REJECTED"
        BY <1>4, <3>4 DEF Ended
      <3> QED BY <1>3, <3>1, <3>3, <3>5
    <2> QED BY <2>1, <2>2
  <1> QED BY <1>4 DEF EndsHold

LEMMA EndsFirst == Init => EndsHold
  <1> SUFFICES ASSUME Init PROVE EndsHold
    OBVIOUS
  <1>1. /\ Len(catalog) = 1 /\ catalog[1].type = "INSTANCE_BEGIN"
    BY DEF Init
  <1>2. 1..Len(catalog) = {1}
    BY <1>1
  <1> QED BY <1>1, <1>2 DEF EndsHold, Ended

(***************************************************************************)
(* The prefixes read and issued                                            *)
(***************************************************************************)
CutStates == {"open", "read", "issued", "failed"}

CutFits(s) == cut[s].state \in {"read", "issued"} =>
    /\ cut[s].count <= Len(catalog)
    /\ \A a \in OfSession(s) : Rows("ATTEMPT_END", a, cut[s].count) # {}

Cuts == /\ cut \in [Sessions -> [state : CutStates, count : Nat]]
        /\ \A s \in Sessions : CutFits(s)

(* A step begins a request or leaves the sessions' requests as they are.   *)
KeysStay == Begun' = Begun /\ \A b \in Begun : att'[b].key = att[b].key

(* No step but begin changes whose request it is.                          *)
LEMMA KeysNext ==
    ASSUME TypeOK, Placed, [Next]_vars
    PROVE  KeysStay \/ \E k \in Keys : BeginReserve(k)
  <1>1. ASSUME NEW a, NEW pub, Steps(pub, a) PROVE KeysStay
    BY <1>1 DEF Steps, Further, KeysStay, Begun
  <1>2. ASSUME UNCHANGED att PROVE KeysStay
    BY <1>2 DEF KeysStay, Begun
  <1>3. ASSUME NEW a \in Attempts,
               \/ BeginFails(a) \/ AcceptStart(a) \/ AcceptCreate(a) \/ AcceptLock(a) \/ AcceptFails(a)
               \/ Claim(a) \/ ClaimSkipped(a) \/ Emit(a) \/ EmitRefused(a) \/ EmitFails(a) \/ BusinessEnds(a)
               \/ Seal(a) \/ SealFails(a) \/ CloseJournal(a) \/ FinishStart(a) \/ FinishRead(a)
               \/ FinishLock(a) \/ FinishEnded(a) \/ FinishFails(a) \/ Retire(a)
        PROVE  KeysStay
    BY <1>1, <1>3, QuietSteps
  <1>4. ASSUME NEW a \in Attempts, BeginPublish(a) \/ RejectPublish(a) \/ AcceptPublish(a) \/ FinishPublish(a)
        PROVE  KeysStay
    BY <1>1, <1>4, PublishSteps
  <1>5. ASSUME NEW s \in Sessions, PrefixRead(s) \/ PrefixIssue(s) PROVE KeysStay
    BY <1>2, <1>5 DEF PrefixRead, PrefixIssue
  <1>6. CASE CloseStart \/ ClosePublish \/ CloseRefused \/ CloseCleanup \/ UNCHANGED vars
    BY <1>2, <1>6 DEF CloseStart, ClosePublish, CloseRefused, CloseCleanup, vars
  <1> QED BY <1>3, <1>4, <1>5, <1>6 DEF Next

(* What a prefix holds stays in the catalog.                               *)
LEMMA CutStays ==
    ASSUME Cataloged, Grows, NEW s \in Sessions, NEW n \in Nat, n <= Len(catalog),
           NEW b, Rows("ATTEMPT_END", b, n) # {}
    PROVE  \E i \in 1..n : catalog'[i].type = "ATTEMPT_END" /\ catalog'[i].attempt = b
  <1>1. PICK i \in 1..n : catalog[i].type = "ATTEMPT_END" /\ catalog[i].attempt = b
    BY DEF Rows
  <1>2. i \in 1..Len(catalog)
    BY GrowsKeeps
  <1> QED BY <1>1, <1>2, GrowsKeeps

(* A session's prefix stays what it was.                                   *)
LEMMA CutsStill ==
    ASSUME TypeOK, Cataloged, Cuts, Grows, NEW s \in Sessions, cut'[s] = cut[s],
           KeysStay \/ (cut[s].state = "open")
                    \/ OfSession(s)' = OfSession(s)
    PROVE  CutFits(s)'
  <1> SUFFICES ASSUME cut[s].state \in {"read", "issued"}
               PROVE  /\ cut[s].count <= Len(catalog')
                      /\ \A a \in OfSession(s)' : Rows("ATTEMPT_END", a, cut[s].count)' # {}
    BY DEF CutFits
  <1>1. cut[s].count \in Nat /\ CutFits(s)
    BY DEF Cuts
  <1>2. OfSession(s)' = OfSession(s)
    BY DEF KeysStay, OfSession
  <1>3. cut[s].count <= Len(catalog')
    BY <1>1, GrowsKeeps DEF CutFits
  <1>4. ASSUME NEW a \in OfSession(s) PROVE Rows("ATTEMPT_END", a, cut[s].count)' # {}
    <2>1. PICK n \in Nat : n = cut[s].count
      BY <1>1
    <2>2. n <= Len(catalog) /\ Rows("ATTEMPT_END", a, n) # {}
      BY <1>1, <2>1 DEF CutFits
    <2>3. \E i \in 1..n : catalog'[i].type = "ATTEMPT_END" /\ catalog'[i].attempt = a
      BY <2>2, CutStays
    <2> QED BY <2>1, <2>3 DEF Rows
  <1> QED BY <1>2, <1>3, <1>4

(* Every step keeps the prefixes complete.                                 *)
LEMMA CutsNext ==
    ASSUME TypeOK, Placed, Journals, Cataloged, Cuts, [Next]_vars
    PROVE  Cuts'
  <1>1. Grows
    BY GrowsNext
  <1>2. cut \in [Sessions -> [state : CutStates, count : Nat]]
    BY DEF Cuts
  <1>3. ASSUME cut' = cut, KeysStay PROVE Cuts'
    BY <1>1, <1>2, <1>3, CutsStill DEF Cuts
  <1>4. ASSUME NEW k \in Keys, BeginReserve(k) PROVE Cuts'
    <2>1. cut' = cut /\ cut[Session[k]].state = "open"
      BY <1>4 DEF BeginReserve, SessionOpen
    <2>2. ASSUME NEW s \in Sessions, s # Session[k] PROVE OfSession(s)' = OfSession(s)
      <3>1. PICK n \in Attempts : /\ Begun' = Begun \cup {n} /\ n \notin Begun
                                  /\ \A b \in Begun : att'[b] = att[b]
                                  /\ att'[n].key = k
        BY <1>4, BeginGoes
      <3> QED BY <2>2, <3>1 DEF OfSession
    <2>3. \A s \in Sessions : CutFits(s)'
      BY <1>1, <2>1, <2>2, CutsStill
    <2> QED BY <1>2, <2>1, <2>3 DEF Cuts
  <1>5. ASSUME NEW s \in Sessions, PrefixRead(s) PROVE Cuts'
    <2>1. UNCHANGED <<catalog, count, att>> /\ count \in Nat /\ count <= Len(catalog)
      BY <1>1, <1>5, GrowsKeeps DEF PrefixRead
    <2>2. KeysStay
      BY <2>1 DEF KeysStay, Begun
    <2>3. \/ PrefixHolds(s) /\ cut' = [cut EXCEPT ![s] = [state |-> "read", count |-> count]]
          \/ cut' = [cut EXCEPT ![s] = [state |-> "failed", count |-> 0]]
      BY <1>5 DEF PrefixRead
    <2>4. \A t \in Sessions : t # s => cut'[t] = cut[t]
      BY <1>2, <2>3
    <2>5. \A t \in Sessions : t # s => CutFits(t)'
      BY <1>1, <2>2, <2>4, CutsStill
    <2>6. CutFits(s)'
      <3>1. CASE cut' = [cut EXCEPT ![s] = [state |-> "failed", count |-> 0]]
        BY <1>2, <3>1 DEF CutFits
      <3>2. CASE PrefixHolds(s) /\ cut' = [cut EXCEPT ![s] = [state |-> "read", count |-> count]]
        <4>1. cut'[s].count = count
          BY <1>2, <3>2
        <4>2. \A a \in OfSession(s) : Rows("ATTEMPT_END", a, count) # {}
          BY <3>2 DEF PrefixHolds
        <4>3. OfSession(s)' = OfSession(s)
          BY <2>1 DEF OfSession, Begun
        <4>4. \A a \in OfSession(s) : Rows("ATTEMPT_END", a, cut[s].count)' # {}
          BY <2>1, <4>1, <4>2 DEF Rows
        <4> QED BY <2>1, <4>1, <4>3, <4>4 DEF CutFits
      <3> QED BY <2>3, <3>1, <3>2
    <2>7. cut' \in [Sessions -> [state : CutStates, count : Nat]]
      BY <1>2, <2>1, <2>3 DEF CutStates
    <2> QED BY <2>5, <2>6, <2>7 DEF Cuts
  <1>6. ASSUME NEW s \in Sessions, PrefixIssue(s) PROVE Cuts'
    <2>1. UNCHANGED <<catalog, count, att>> /\ cut[s].state = "read"
      BY <1>6 DEF PrefixIssue
    <2>2. KeysStay
      BY <2>1 DEF KeysStay, Begun
    <2>3. PICK st \in {"issued", "failed"} : cut' = [cut EXCEPT ![s].state = st]
      BY <1>6 DEF PrefixIssue
    <2>4. \A t \in Sessions : t # s => cut'[t] = cut[t]
      BY <1>2, <2>3
    <2>5. cut'[s].count = cut[s].count
      BY <1>2, <2>3
    <2>6. \A t \in Sessions : t # s => CutFits(t)'
      BY <1>1, <2>2, <2>4, CutsStill
    <2>7. CutFits(s)'
      <3>1. CutFits(s)
        BY DEF Cuts
      <3>2. OfSession(s)' = OfSession(s)
        BY <2>1 DEF OfSession, Begun
      <3>3. \A a : Rows("ATTEMPT_END", a, cut[s].count)' = Rows("ATTEMPT_END", a, cut[s].count)
        BY <2>1, <2>5 DEF Rows
      <3> QED BY <2>1, <2>5, <3>1, <3>2, <3>3 DEF CutFits
    <2>8. cut' \in [Sessions -> [state : CutStates, count : Nat]]
      <3>1. [cut[s] EXCEPT !.state = st] \in [state : CutStates, count : Nat]
        BY <1>2 DEF CutStates
      <3> QED BY <1>2, <2>3, <3>1
    <2> QED BY <2>6, <2>7, <2>8 DEF Cuts
  <1>7. cut' = cut \/ \E s \in Sessions : PrefixRead(s) \/ PrefixIssue(s)
    <2>1. ASSUME NEW a \in Attempts,
               \/ BeginPublish(a) \/ RejectPublish(a) \/ BeginFails(a) \/ AcceptPublish(a) \/ AcceptFails(a)
               \/ FinishPublish(a) \/ FinishFails(a)
               \/ AcceptStart(a) \/ AcceptCreate(a) \/ AcceptLock(a) \/ Claim(a) \/ ClaimSkipped(a) \/ Emit(a)
               \/ EmitRefused(a) \/ EmitFails(a) \/ BusinessEnds(a) \/ Seal(a) \/ SealFails(a)
               \/ CloseJournal(a) \/ FinishStart(a) \/ FinishRead(a) \/ FinishLock(a) \/ FinishEnded(a)
               \/ Retire(a)
          PROVE  cut' = cut
      BY <2>1 DEF BeginPublish, RejectPublish, BeginFails, AcceptPublish, AcceptFails, FinishPublish,
         FinishFails, AcceptStart, AcceptCreate, AcceptLock, Claim, ClaimSkipped, Emit, EmitRefused, EmitFails,
         BusinessEnds, Seal, SealFails, CloseJournal, FinishStart, FinishRead, FinishLock, FinishEnded, Retire
    <2>2. ASSUME \/ \E k \in Keys : BeginReserve(k)
                 \/ CloseStart \/ ClosePublish \/ CloseRefused \/ CloseCleanup \/ UNCHANGED vars
          PROVE  cut' = cut
      BY <2>2 DEF BeginReserve, CloseStart, ClosePublish, CloseRefused, CloseCleanup, vars
    <2> QED BY <2>1, <2>2 DEF Next
  <1> QED BY <1>3, <1>4, <1>5, <1>6, <1>7, KeysNext

LEMMA CutsFirst == Init => Cuts
  BY DEF Init, Cuts, CutFits, CutStates

(* Together they are what EndIsEvidence asks.                              *)
LEMMA EvidenceHolds ==
    ASSUME Cataloged, EndsHold, Cuts
    PROVE  EndIsEvidence
  <1>1. DOMAIN catalog = 1..Len(catalog)
    BY DEF Cataloged, Shape
  <1>2. \A i \in DOMAIN catalog :
          catalog[i].type = "ATTEMPT_END" /\ catalog[i].disposition # "REJECTED"
              => /\ EndDescribes(catalog[i].attempt, i)
                 /\ {"sealed", "closed"} \subseteq jn[catalog[i].attempt].flags
    BY <1>1 DEF EndsHold, Ended
  <1>3. \A s \in Sessions : cut[s].state = "issued" =>
          \A a \in OfSession(s) : Rows("ATTEMPT_END", a, cut[s].count) # {}
    BY DEF Cuts, CutFits
  <1> QED BY <1>2, <1>3 DEF EndIsEvidence

(***************************************************************************)
(* Who makes a ledger unknown                                              *)
(***************************************************************************)
NoFalse == faults \in Nat /\ NoFalseUnknown

(* The step has a failure from outside, or loses nothing.                  *)
Blameless == \/ faults' = faults + 1
             \/ faults' = faults /\ (unknown' => unknown)

(* Multiplication is monotonic.                                            *)
LEMMA ProductGrows ==
    ASSUME NEW n \in Nat, NEW m \in Nat, NEW k \in Nat, n <= m
    PROVE  n * k <= m * k
  <1>1. PICK d \in Nat : m = n + d
    <2>1. m - n \in Nat /\ m = n + (m - n)
      OBVIOUS
    <2> QED BY <2>1
  <1>2. m * k = n * k + d * k /\ n * k \in Nat /\ d * k \in Nat
    BY <1>1
  <1> QED BY <1>2

(* The catalog has room for every row that may come next.                  *)
LEMMA MissingIsFault ==
    ASSUME TypeOK, Cataloged, NEW r, Fits(r), Unpublished(r)
    PROVE  faults' = faults + 1
  <1>1. Len(catalog) = count /\ Len(catalog) <= 3 * MaxAttempts + 1 /\ count \in Nat
    BY RowsBounded DEF Fits, Cataloged, Shape
  <1>2. 3 * MaxAttempts + 2 <= MaxCatalogRecords /\ MaxCatalogRecords \in Nat /\ MaxAttempts \in Nat
    BY LedgerBudgets
  <1>3. ~(count >= MaxCatalogRecords)
    BY <1>1, <1>2
  <1> QED BY <1>3 DEF Unpublished, Fault

(* There are n numbers up to n.                                            *)
LEMMA CountsUp ==
    ASSUME NEW n \in Nat
    PROVE  IsFiniteSet(1..n) /\ Cardinality(1..n) = n
  <1>1. CASE n = 0
    BY <1>1, FS_Interval
  <1>2. CASE n # 0
    BY <1>2, FS_Interval
  <1> QED BY <1>1, <1>2

(* The session's originals and the catalog fit an export.                  *)
LEMMA FilesFit ==
    ASSUME TypeOK, Journals, Cataloged, NEW s \in Sessions
    PROVE  PrefixFiles(s) <= MaxExportFiles
  <1> DEFINE S == OfSession(s)
             f == [a \in S |-> Len(chain[a])]
  <1>1. /\ IsFiniteSet(S) /\ Cardinality(S) \in Nat /\ Cardinality(S) <= MaxAttempts
    <2>1. Len(att) \in Nat /\ Begun = 1..Len(att) /\ Len(att) <= MaxAttempts
      BY BegunIsFinite DEF TypeOK
    <2>2. IsFiniteSet(1..Len(att)) /\ Cardinality(1..Len(att)) = Len(att)
      BY <2>1, CountsUp
    <2>3. S \subseteq 1..Len(att)
      BY <2>1 DEF OfSession
    <2> HIDE DEF S
    <2>4. IsFiniteSet(S) /\ Cardinality(S) <= Len(att)
      BY <2>2, <2>3, FS_Subset
    <2>5. Cardinality(S) \in Nat
      BY <2>4, FS_CardinalityType
    <2> QED BY <2>1, <2>4, <2>5, LimitsAreNats
  <1>2. \A a \in S : f[a] \in Nat /\ f[a] <= MaxRecords
    <2> SUFFICES ASSUME NEW a \in S PROVE Len(chain[a]) \in Nat /\ Len(chain[a]) <= MaxRecords
      OBVIOUS
    <2>1. Journaled(att[a].pc, att[a].outcome, jn[a], chain[a])
      BY DEF Journals, OfSession
    <2> QED BY <2>1 DEF Journaled
  <1>3. SumFunction(f) = SumFunctionOnSet(f, S)
    BY DEF SumFunction
  <1>4. MaxRecords \in Nat /\ MaxAttempts \in Nat
    BY RequestBudgets, LimitsAreNats
  <1>5. PrefixFiles(s) = count + SumFunction(f)
    BY DEF PrefixFiles
  <1> HIDE DEF f, S
  <1>6. SumFunctionOnSet(f, S) <= Cardinality(S) * MaxRecords /\ SumFunctionOnSet(f, S) \in Nat
    BY <1>1, <1>2, <1>4, SumOfBounded, SumTakes
  <1>7. Cardinality(S) * MaxRecords <= MaxAttempts * MaxRecords
    BY <1>1, <1>4, ProductGrows
  <1>8. count \in Nat /\ count <= 3 * MaxAttempts + 2
    <2>1. count \in Nat /\ count <= Len(catalog) /\ Len(catalog) \in Nat
      BY DEF Cataloged, Shape
    <2> QED BY <1>4, <2>1, RowsBounded
  <1>9. MaxExportFiles \in Nat /\ MaxExportFiles >= 3 * MaxAttempts + 2 + MaxAttempts * MaxRecords
    BY ExportBudget
  <1> DEFINE x == SumFunctionOnSet(f, S)
             y == Cardinality(S) * MaxRecords
             z == MaxAttempts * MaxRecords
  <1>10. x \in Nat /\ y \in Nat /\ z \in Nat
    BY <1>1, <1>4, <1>6
  <1>11. x <= y /\ y <= z /\ MaxExportFiles >= 3 * MaxAttempts + 2 + z /\ PrefixFiles(s) = count + x
    BY <1>3, <1>5, <1>6, <1>7, <1>9
  <1> HIDE DEF x, y, z
  <1> QED BY <1>4, <1>8, <1>9, <1>10, <1>11

(* A known ledger whose handlers have exited holds the session's prefix.   *)
LEMMA PrefixFound ==
    ASSUME TypeOK, Placed, Journals, Cataloged, EndsHold, NEW s \in Sessions,
           ~unknown, life = "open", HandlersExited(s)
    PROVE  PrefixHolds(s)
  <1>1. LedgerAvailable /\ Len(catalog) = count
    BY DEF LedgerAvailable, Cataloged, Shape
  <1>2. CatalogVerifies(catalog)
    BY CatalogHolds DEF CatalogIsValid
  <1>3. PrefixFiles(s) <= MaxExportFiles
    BY FilesFit
  <1>4. ASSUME NEW a \in OfSession(s)
        PROVE  /\ att[a].state = "ENDED"
               /\ \E i \in Rows("ATTEMPT_END", a, count) :
                     IF att[a].reason = "NONE" THEN EndDescribes(a, i)
                                               ELSE catalog[i].disposition = "REJECTED"
    <2>1. a \in Begun /\ att[a].pc = "done" /\ att[a].state = "ENDED"
      BY DEF OfSession, HandlersExited, Placed, Suited, Suits
    <2>2. PICK i \in Rows("ATTEMPT_END", a, count) : TRUE
      <3>1. Owes("ATTEMPT_END", att[a].pc, att[a].state, att[a].reason = "NONE") /\ "ATTEMPT_END" \in About
        BY <2>1 DEF Owes, About
      <3> QED BY <2>1, <3>1 DEF Cataloged, Presence
    <2>3. i \in 1..Len(catalog) /\ catalog[i].type = "ATTEMPT_END" /\ catalog[i].attempt = a
      BY <1>1 DEF Rows
    <2>4. catalog[i].disposition = "REJECTED" <=> att[a].reason # "NONE"
      BY <2>3 DEF Cataloged, RowsTrue, Says
    <2>5. att[a].reason = "NONE" => EndDescribes(a, i)
      BY <2>3, <2>4 DEF EndsHold, Ended
    <2> QED BY <2>1, <2>4, <2>5
  <1> QED BY <1>1, <1>2, <1>3, <1>4 DEF PrefixHolds

(* The publications of requests: no row is ever refused for want of room,  *)
(* and what finish reads is always known.                                  *)
LEMMA RequestBlameless ==
    ASSUME TypeOK, Placed, Journals, Cataloged, NEW a \in Attempts,
           \/ BeginPublish(a) \/ RejectPublish(a) \/ BeginFails(a) \/ AcceptPublish(a) \/ AcceptFails(a)
           \/ FinishPublish(a) \/ FinishFails(a)
    PROVE  Blameless
  <1>1. CASE BeginPublish(a) \/ RejectPublish(a) \/ AcceptPublish(a) \/ FinishPublish(a)
    BY <1>1 DEF BeginPublish, RejectPublish, AcceptPublish, FinishPublish, Published, Quiet, Blameless
  <1>2. CASE BeginFails(a)
    <2>1. ASSUME At(a, "begin"), Unpublished(BeginRow(a)) PROVE faults' = faults + 1
      BY <2>1, BeginRowFits, MissingIsFault DEF At
    <2>2. ASSUME At(a, "reject"), Unpublished(RejectRow(a)) PROVE faults' = faults + 1
      BY <2>2, RejectRowFits, MissingIsFault DEF At
    <2> QED BY <1>2, <2>1, <2>2 DEF BeginFails, Blameless
  <1>3. ASSUME At(a, "ack") \/ At(a, "end"), ~LedgerAvailable PROVE unknown
    <2>1. life = "open"
      BY <1>3 DEF At, Placed, InOrder
    <2> QED BY <1>3, <2>1 DEF LedgerAvailable
  <1>4. CASE AcceptFails(a)
    <2>1. ASSUME At(a, "acknowledge"), Unpublished(AckRow(a)) PROVE faults' = faults + 1
      BY <2>1, AckRowFits, MissingIsFault DEF At
    <2> QED BY <1>3, <1>4, <2>1 DEF AcceptFails, WriteFails, Fault, Quiet, Blameless
  <1>5. CASE FinishFails(a)
    <2>1. ASSUME At(a, "publish"), Unpublished(EndRow(a)) PROVE faults' = faults + 1
      BY <2>1, EndRowFits, MissingIsFault DEF At
    <2>2. ASSUME At(a, "read") PROVE OriginalsKnown(a)
      BY <2>2, KnownOriginals DEF At, Known
    <2> QED BY <1>3, <1>5, <2>1, <2>2 DEF FinishFails, Fault, Quiet, Blameless
  <1> QED BY <1>1, <1>2, <1>4, <1>5

(* No step without a failure makes the ledger unknown.                     *)
LEMMA BlamelessNext ==
    ASSUME TypeOK, Placed, Journals, Cataloged, EndsHold, [Next]_vars
    PROVE  Blameless
  <1>1. ASSUME NEW a \in Attempts,
               \/ BeginPublish(a) \/ RejectPublish(a) \/ BeginFails(a) \/ AcceptPublish(a) \/ AcceptFails(a)
               \/ FinishPublish(a) \/ FinishFails(a)
        PROVE  Blameless
    BY <1>1, RequestBlameless
  <1>2. ASSUME NEW a \in Attempts,
               \/ AcceptStart(a) \/ AcceptCreate(a) \/ AcceptLock(a) \/ Claim(a) \/ ClaimSkipped(a) \/ Emit(a)
               \/ EmitRefused(a) \/ EmitFails(a) \/ BusinessEnds(a) \/ Seal(a) \/ SealFails(a)
               \/ CloseJournal(a) \/ FinishStart(a) \/ FinishRead(a) \/ FinishLock(a) \/ FinishEnded(a)
               \/ Retire(a)
        PROVE  Blameless
    BY <1>2 DEF AcceptStart, AcceptCreate, AcceptLock, Claim, ClaimSkipped, Emit, EmitRefused, EmitFails,
       BusinessEnds, Seal, SealFails, CloseJournal, FinishStart, FinishRead, FinishLock, FinishEnded, Retire,
       Wrote, WriteFails, Fault, Quiet, Blameless
  <1>3. ASSUME NEW k \in Keys, BeginReserve(k) PROVE Blameless
    BY <1>3 DEF BeginReserve, Blameless
  <1>4. ASSUME NEW s \in Sessions, PrefixRead(s) PROVE Blameless
    <2>1. unknown \/ PrefixHolds(s)
      BY <1>4, PrefixFound DEF PrefixRead
    <2> QED BY <1>4, <2>1 DEF PrefixRead, Fault, Quiet, Blameless
  <1>5. ASSUME NEW s \in Sessions, PrefixIssue(s) PROVE Blameless
    BY <1>5 DEF PrefixIssue, Fault, Quiet, Blameless
  <1>6. CASE CloseStart \/ CloseCleanup \/ UNCHANGED vars
    BY <1>6 DEF CloseStart, CloseCleanup, vars, Fault, Quiet, Blameless
  <1>7. CASE ClosePublish
    BY <1>7 DEF ClosePublish, Published, Quiet, Blameless
  <1>8. CASE CloseRefused
    <2>1. life = "closing"
      BY <1>8 DEF CloseRefused
    <2>2. unknown \/ AllEnded
      BY <2>1 DEF Placed, InOrder, Suited, Suits, AllEnded
    <2>3. ASSUME ~unknown, AllEnded, Unpublished(InstanceEndRow) PROVE faults' = faults + 1
      BY <2>1, <2>3, InstanceEndFits, MissingIsFault
    <2> QED BY <1>8, <2>2, <2>3 DEF CloseRefused, Quiet, Blameless
  <1> QED BY <1>1, <1>2, <1>3, <1>4, <1>5, <1>6, <1>7, <1>8 DEF Next

LEMMA NoFalseNext ==
    ASSUME TypeOK, Placed, Journals, Cataloged, EndsHold, NoFalse, [Next]_vars
    PROVE  NoFalse'
  <1>1. Blameless
    BY BlamelessNext
  <1> QED BY <1>1 DEF Blameless, NoFalse, NoFalseUnknown

(***************************************************************************)
(* The reserves                                                            *)
(***************************************************************************)
LEMMA BytesBounded ==
    ASSUME TypeOK, Journals, NEW a \in Attempts
    PROVE  Bytes(chain[a]) \in Nat /\ Bytes(chain[a]) <= MaxTotalBytes
  <1>1. PICK c \in Seq(Originals) : c = chain[a]
    BY DEF Journals
  <1>2. Bytes(c) \in Nat
    <2>1. PICK f : Bytes(c) = SumFunctionOnSet(f, 1..Len(c)) /\ IsFiniteSet(1..Len(c))
                   /\ \A i \in 1..Len(c) : f[i] \in Nat
      BY BytesOfSum
    <2> QED BY <2>1, SumTakes
  <1>3. CASE a \in Begun
    <2>1. Journaled(att[a].pc, att[a].outcome, jn[a], chain[a])
      BY <1>3 DEF Journals
    <2> QED BY <1>1, <1>2, <2>1 DEF Journaled
  <1>4. CASE a \notin Begun
    <2>1. c = <<>> /\ 0 <= MaxTotalBytes
      BY <1>1, <1>4, RequestBudgets DEF Journals
    <2> QED BY <1>1, <1>2, <2>1, BytesOfNone
  <1> QED BY <1>3, <1>4

(* All files fit the archive.                                              *)
LEMMA ArchiveFits ==
    ASSUME TypeOK, Journals, Cataloged
    PROVE  Len(catalog) * MaxCatalogRecordBytes
             + SumFunction([a \in Attempts |-> Bytes(chain[a])]) <= MaxArchiveBytes
  <1> DEFINE f == [a \in Attempts |-> Bytes(chain[a])]
             n == Len(catalog)
             m == 3 * MaxAttempts + 2
             x == SumFunctionOnSet(f, Attempts)
             y == MaxAttempts * MaxTotalBytes
  <1>1. /\ MaxAttempts \in Nat /\ MaxTotalBytes \in Nat /\ MaxCatalogRecordBytes \in Nat
        /\ MaxActive \in Nat /\ MaxRecordBytes \in Nat /\ MaxArchiveBytes \in Nat
    BY RequestBudgets, LimitsAreNats
  <1>2. IsFiniteSet(Attempts) /\ Cardinality(Attempts) = MaxAttempts
    BY <1>1, CountsUp DEF Attempts
  <1>3. \A a \in Attempts : f[a] \in Nat /\ f[a] <= MaxTotalBytes
    BY BytesBounded
  <1>4. SumFunction(f) = x
    BY DEF SumFunction
  <1>5. n \in Nat /\ n <= m
    BY RowsBounded DEF Cataloged, Shape
  <1> HIDE DEF f, n
  <1>6. x <= y /\ x \in Nat
    BY <1>1, <1>2, <1>3, SumOfBounded, SumTakes
  <1>7. m \in Nat
    BY <1>1
  <1>8. MaxArchiveBytes >= m * MaxCatalogRecordBytes + y
                           + MaxActive * MaxRecordBytes + MaxCatalogRecordBytes
    BY LedgerBudgets
  <1> HIDE DEF m, x, y
  <1>9. n * MaxCatalogRecordBytes <= m * MaxCatalogRecordBytes
    BY <1>1, <1>5, <1>7, ProductGrows
  <1> DEFINE u == n * MaxCatalogRecordBytes
             v == m * MaxCatalogRecordBytes
             w == MaxActive * MaxRecordBytes
  <1>10. u \in Nat /\ v \in Nat /\ w \in Nat /\ y \in Nat
    BY <1>1, <1>5, <1>7 DEF y
  <1>11. u <= v /\ MaxArchiveBytes >= v + y + w + MaxCatalogRecordBytes
    BY <1>8, <1>9
  <1> HIDE DEF u, v, w
  <1>12. u + x <= MaxArchiveBytes
    BY <1>1, <1>6, <1>10, <1>11
  <1> QED BY <1>4, <1>12 DEF u, f, n

(* The reserves suffice.                                                   *)
LEMMA ReservesHold ==
    ASSUME IInv, Placed, Journals, Cataloged
    PROVE  ReservesSuffice
  <1>1. TypeOK /\ RoomLeft /\ NoReserveMissing
    BY DEF IInv
  <1>2. SealAlwaysFits
    <2>1. jn \in [Attempts -> Journal \cup {None}]
      BY <1>1 DEF TypeOK
    <2> QED BY <1>1, <2>1 DEF RoomLeft, HasRoom, SealAlwaysFits
  <1>3. active = Cardinality({a \in Begun : att[a].active})
    BY DEF Placed, SlotsCounted
  <1>4. Len(catalog) <= 3 * MaxAttempts + 2
    BY <1>1, RowsBounded
  <1> QED BY <1>1, <1>2, <1>3, <1>4, ArchiveFits DEF ReservesSuffice

(* The whole invariant: the reserves, the attempts in their places,        *)
(* journals and disk in step, a catalog that verifies and tells the truth, *)
(* ENDs that describe their originals, complete prefixes, and no loss      *)
(* without a failure.                                                      *)
Ledger == IInv /\ Placed /\ Journals /\ Cataloged /\ EndsHold /\ Cuts /\ NoFalse

(* Every action of the ledger, its requests, its prefixes and its close    *)
(* keeps that invariant, whatever fails and however they interleave.       *)
THEOREM LedgerHolds == Spec => []Ledger
  <1>1. Init => Ledger
    <2>1. Init => NoFalse
      BY DEF Init, NoFalse, NoFalseUnknown
    <2> QED BY <2>1, InitHolds, PlacedFirst, JournalsFirst, CatalogFirst, EndsFirst, CutsFirst DEF Ledger
  <1>2. Ledger /\ [Next]_vars => Ledger'
    <2> SUFFICES ASSUME Ledger, [Next]_vars PROVE Ledger'
      OBVIOUS
    <2>1. IInv /\ TypeOK /\ Placed /\ Journals /\ Cataloged /\ EndsHold /\ Cuts /\ NoFalse
      BY DEF Ledger, IInv
    <2>2. IInv'
      BY <2>1, NextKeeps
    <2>3. Placed' /\ Journals' /\ Cataloged' /\ EndsHold' /\ Cuts' /\ NoFalse'
      BY <2>1, PlacedNext, JournalsNext, CatalogNext, EndsNext, CutsNext, NoFalseNext
    <2> QED BY <2>2, <2>3 DEF Ledger
  <1> QED BY <1>1, <1>2, PTL DEF Spec

(* _publish against CatalogCodec.verify: after every step, confirmed or    *)
(* failed, the files on disk are a catalog the reader accepts, for every   *)
(* number of attempts and every limit; MaxCatalogRecords is never met.     *)
THEOREM CatalogAlwaysValid == Spec => []CatalogIsValid
  <1>1. Ledger => CatalogIsValid
    BY CatalogHolds DEF Ledger, IInv
  <1> QED BY <1>1, LedgerHolds, PTL

(* finish and _session_prefix: an END describes the sealed and closed      *)
(* originals of its request from its publication on, a prefix issued holds *)
(* the END of every attempt of its session, and without a failure from     *)
(* outside the ledger never becomes unknown: no refusal of finish, of the  *)
(* prefix or of close is met by interleaving alone.                        *)
THEOREM EndsAreTrue == Spec => []EndIsTrue
  <1>1. Ledger => EndIsTrue
    BY EvidenceHolds DEF Ledger, NoFalse, EndIsTrue
  <1> QED BY <1>1, LedgerHolds, PTL

(* The checks of _budgets, for every configuration that passes them: seals *)
(* fit, no reserve is missing, slots are counted exactly, and catalog and  *)
(* originals stay within the archive's limits.                             *)
THEOREM ReservesAlwaysSuffice == Spec => []ReservesSuffice
  <1>1. Ledger => ReservesSuffice
    BY ReservesHold DEF Ledger
  <1> QED BY <1>1, LedgerHolds, PTL

(* _reserve in the request journal: whatever the limits and however events *)
(* and failures interleave, a journal that may still be sealed has room    *)
(* for a seal of the largest size, so no accepted request ends unsealed    *)
(* for want of room.                                                       *)
THEOREM SealsFit == Spec => []SealAlwaysFits
  <1>1. IInv => SealAlwaysFits
    BY DEF IInv, TypeOK, RoomLeft, HasRoom, SealAlwaysFits
  <1> QED BY <1>1, LedgerInvariant, PTL

(* begin in the ledger: the sums _budgets demands of a configuration make  *)
(* SEEN_LIMIT and BYTE_LIMIT unreachable, for every number of attempts,    *)
(* keys and bytes; a request can only be refused as a duplicate or because *)
(* too many are active.                                                    *)
THEOREM ReservesAreEnough == Spec => []NoReserveMissing
  <1>1. IInv => NoReserveMissing
    BY DEF IInv
  <1> QED BY <1>1, LedgerInvariant, PTL
=============================================================================
