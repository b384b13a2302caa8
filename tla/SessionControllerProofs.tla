----------------------- MODULE SessionControllerProofs -----------------------
(***************************************************************************)
(* Safety of the observed HTTP instance for every number of rows, sessions *)
(* and request ids and for every budget: a journal is claimed once, ids    *)
(* the SDK would confuse exclude each other, sessions and creations stay   *)
(* within max_sessions, and a closed session is quiescent.                 *)
(***************************************************************************)
EXTENDS SessionController, FiniteSetTheorems, WellFoundedInduction, TLAPS

-----------------------------------------------------------------------------
(* The work row: its type, and what one row alone keeps.                   *)

RowKinds == {"none", "initialize", "initialized", "call", "cancel", "get", "binary", "reply"}
Works == [at : {"idle", "slot", "sdk", "reply", "tail", "leave", "gone"}, kind : RowKinds,
          sess : Sessions \cup {NoSession}, id : Ids \cup {NoId}, re : Rows \cup {NoRow},
          creating : BOOLEAN, enqueued : BOOLEAN, sent : BOOLEAN, started : BOOLEAN,
          handled : BOOLEAN, cancelled : BOOLEAN, ok : BOOLEAN,
          journal : {"none", "begun", "open", "claimed", "sealed"}, claims : Nat,
          owner : {"none", "live", "ended"}, thread : {"none", "running", "joined"},
          child : {"none", "reserved", "live", "nospawn", "closed", "faulted"},
          out : {"none", "waiting", "over"}]

(* Once the SDK has the message, the journal waits for the handler.        *)
HandedOver(w) ==
    /\ w.at \in {"slot", "sdk"} => ~w.sent /\ ~w.handled /\ (w.started => w.kind = "binary")
    /\ w.at = "sdk" => w.enqueued
    /\ w.sent => w.enqueued /\ w.sess # NoSession /\ w.kind \notin {"get", "binary"}
    /\ w.sent /\ ~w.started => w.journal \in {"none", "open"} /\ ~w.handled

WorkOk(w) ==
    /\ w \in Works /\ HandedOver(w)
    /\ w.kind = "none" => w = NoWork
    /\ w.at = "idle" <=> w.kind = "none"
    /\ w.journal # "none" => w.kind = "call"
    /\ w.claims = IF w.journal \in {"claimed", "sealed"} THEN 1 ELSE 0
    /\ w.creating <=> w.kind = "initialize" /\ w.sess = NoSession /\ w.at # "gone"
    /\ w.at = "tail" => w.kind = "initialize"
    /\ w.at \in {"slot", "sdk"} => w.journal \in {"none", "open"}
    /\ w.at = "slot" => ~w.started
    /\ w.handled => w.journal \in {"none", "sealed"}
    /\ w.journal = "sealed" => w.handled
    /\ w.owner = "live" => w.sess # NoSession /\ w.started /\ w.journal \in {"none", "claimed"}
    /\ w.out = "waiting" => w.owner = "live" /\ w.kind = "call"

(* A row nobody can act for any more.                                      *)
Over(w) == /\ w.at = "gone" /\ w.handled /\ w.owner # "live" /\ w.thread # "running"
           /\ w.child \in {"none", "nospawn", "closed"}

-----------------------------------------------------------------------------
(* The instance.                                                           *)

SessTypes == [state : {"none", "PENDING", "OPEN", "CLOSING", "CLOSED", "UNKNOWN"}, ready : BOOLEAN,
              frozen : BOOLEAN, group : {"known", "unknown"}, term : {"no", "done"},
              run : {"none", "live", "exited"}, error : BOOLEAN]
CloseTypes == [at : {"no", "barrier", "prefix", "export", "done"},
               prefix : {"none", "running", "ok", "failed"},
               export : {"none", "start", "writing", "checked", "issued", "failed"}, cut : BOOLEAN]
TypeOK ==
    /\ phase \in {"ACQUIRED", "ENTERING", "ACTIVE", "ABORTED", "EXITED"}
    /\ inst \in {"ACTIVE", "DRAINING", "UNKNOWN", "CLOSED"} /\ lost \in BOOLEAN
    /\ sess \in [Sessions -> SessTypes] /\ close \in [Sessions -> CloseTypes]
    /\ pending \in Int /\ ledger \in {"open", "unknown", "closed"}
    /\ drain \in {"no", "closing", "over"} /\ faults \in Nat

RowsOk == row \in [Rows -> Works] /\ \A r \in Rows : WorkOk(row[r])
(* Rows are admitted one after the other.                                  *)
Numbered == \E k \in 0..MaxRows : Admitted = 1..k
(* A row's session was created.                                            *)
Owned == \A r \in Rows : row[r].sess \in Created \cup {NoSession}
(* What a reply answers was admitted.                                      *)
Replies == \A r \in Rows : row[r].re # NoRow => row[row[r].re].kind # "none" /\ row[r].re \in Rows

(* Outside of its service the instance has no HTTP task.                   *)
Stopped == drain # "no" \/ phase # "ACTIVE"
Resolved == \A r \in Rows : row[r].at \in {"idle", "gone"}
Serves == (Stopped => Resolved) /\ (ledger = "closed" => drain # "no" \/ phase = "ABORTED")

(* A journal that was claimed without a handler could not be sealed.       *)
ClaimsEnd == \A r \in Rows : row[r].journal = "claimed" => row[r].started \/ ledger = "unknown"

(* What was handed over found every earlier row it conflicts with gone.    *)
Clash(v, w) == v.sess = w.sess /\ {v.kind, w.kind} \subseteq {"call", "initialize"} /\ v.id[1] = w.id[1]
Ordered == \A r, q \in Rows : q < r /\ Clash(row[q], row[r]) /\ row[r].enqueued
                              => Left(q) /\ row[q].handled

(* A session has one initialize, which ends before the session is closed.  *)
Initializes(r, s) == row[r].kind = "initialize" /\ row[r].sess = s
OneInitialize == \A s \in Sessions : \A r, q \in Rows : Initializes(r, s) /\ Initializes(q, s) => r = q
Handshaken == \A s \in Sessions : sess[s].state = "OPEN" \/ close[s].at # "no" =>
                \A r \in Rows : Initializes(r, s) => row[r].at \in {"leave", "gone"}

Closes(s) ==
    /\ sess[s].state = "none" => close[s].at = "no"
    /\ close[s].at # "no" => sess[s].state \in {"CLOSING", "UNKNOWN", "CLOSED"}
    /\ sess[s].state = "CLOSED" => close[s].at = "done" /\ close[s].export = "issued"
    /\ close[s].at \in {"prefix", "export"} \/ sess[s].state = "CLOSED" =>
          sess[s].run = "exited" /\ \A r \in Rows : row[r].sess = s => Over(row[r])
    /\ close[s].at = "export" \/ sess[s].state = "CLOSED" =>
          \A r \in Rows : row[r].sess = s => row[r].child # "nospawn"

Creating == {r \in Rows : row[r].creating}
Counted == /\ IsFiniteSet(Created) /\ pending = Cardinality(Creating)
           /\ Cardinality(Created) + pending <= MaxSessions

Inv == /\ TypeOK /\ RowsOk /\ Numbered /\ Owned /\ Replies /\ Serves /\ ClaimsEnd /\ Ordered
       /\ OneInitialize /\ Handshaken /\ (\A s \in Sessions : Closes(s)) /\ Counted

-----------------------------------------------------------------------------
(* A mild step: each row goes on by itself and no session is created.      *)

Alters(w, n) ==
    /\ WorkOk(n) /\ n.kind = w.kind /\ n.id = w.id /\ n.sess = w.sess /\ n.re = w.re
    /\ w.at \in {"idle", "gone"} => n.at = w.at
    /\ w.at = "leave" => n.at \in {"leave", "gone"}
    /\ w.handled => n.handled
    /\ Over(w) => Over(n) /\ n.child = w.child
Becomes(r, n) ==
    /\ Alters(row[r], n)
    /\ n.enqueued => row[r].enqueued \/ Previous(r) = {}
    /\ n.journal = "claimed" => n.started \/ ledger' = "unknown"

ServesOn ==
    /\ Stopped' => Stopped \/ Resolved
    /\ drain # "no" => drain' # "no"
    /\ phase = "ABORTED" => phase' = "ABORTED"
    /\ ledger' = "closed" => ledger = "closed" \/ drain' # "no" \/ phase' = "ABORTED"

RowsGoOn ==
    /\ TypeOK' /\ row' \in [Rows -> Works] /\ (\A r \in Rows : Becomes(r, row'[r]))
    /\ Created' = Created /\ ServesOn

(* A session that is not past its barrier, or stays where it is.           *)
GoesOn(s) ==
    /\ sess[s].state = "none" <=> sess'[s].state = "none"
    /\ sess'[s].state = "CLOSED" => sess[s].state = "CLOSED"
    /\ close[s].at # "no" /\ sess[s].state \in {"CLOSING", "UNKNOWN", "CLOSED"} =>
          sess'[s].state \in {"CLOSING", "UNKNOWN", "CLOSED"}
    /\ sess[s].run = "exited" => sess'[s].run = "exited"
    /\ \/ close'[s].at = close[s].at
       \/ close[s].at # "no" /\ close'[s].at = "done"
       \/ close'[s].at = "barrier" /\ sess'[s].state = "CLOSING"
    /\ close[s].export = "issued" => close'[s].export = "issued"
NotOpened(s) ==
    /\ sess'[s].state = "OPEN" => sess[s].state = "OPEN"
    /\ close'[s].at # "no" => close[s].at # "no" \/ sess[s].state = "OPEN"
SameCreations == pending' = pending /\ \A r \in Rows : row'[r].creating = row[r].creating

LEMMA RowFields == ASSUME RowsOk, NEW r \in Rows PROVE row[r] \in Works /\ WorkOk(row[r])
BY DEF RowsOk

LEMMA RowsKeep ==
    ASSUME Inv, RowsGoOn
    PROVE  (TypeOK /\ RowsOk /\ Numbered /\ Owned /\ Replies /\ Serves /\ ClaimsEnd /\ Ordered
           /\ OneInitialize)'
<1> USE DEF Inv
<1>1. TypeOK' /\ RowsOk'
    BY DEF RowsGoOn, Becomes, Alters, RowsOk
<1>2. ASSUME NEW r \in Rows
      PROVE  row'[r].kind = row[r].kind /\ row'[r].id = row[r].id /\ row'[r].sess = row[r].sess
    BY DEF RowsGoOn, Becomes, Alters
<1>3. Admitted' = Admitted
    BY <1>2 DEF Admitted
<1>4. Numbered'
    BY <1>3 DEF Numbered
<1>5. Owned'
    BY <1>2 DEF Owned, RowsGoOn
<1>5a. Replies'
    BY <1>2 DEF Replies, RowsGoOn, Becomes, Alters
<1>6. Serves'
    BY DEF Serves, RowsGoOn, ServesOn, Resolved, Becomes, Alters
<1>7. ClaimsEnd'
    BY DEF ClaimsEnd, RowsGoOn, Becomes
<1>8. Ordered'
  <2> SUFFICES ASSUME NEW r \in Rows, NEW q \in Rows, q < r, Clash(row[q], row[r]), row'[r].enqueued
               PROVE  row'[q].at = "gone" /\ row'[q].handled
    BY <1>2 DEF Ordered, Clash, Left
  <2>1. Becomes(r, row'[r]) /\ Becomes(q, row'[q])
    BY DEF RowsGoOn
  <2>2. row[q].at = "gone" /\ row[q].handled
    <3>1. CASE row[r].enqueued
        BY <3>1 DEF Ordered, Left
    <3>2. CASE Previous(r) = {}
      <4>1. q \in Admitted /\ row[q].sess = row[r].sess /\ Conflicts(row[r], row[q])
        BY DEF Clash, Conflicts, Admitted
      <4> QED BY <3>2, <4>1 DEF Previous, Before, Left
    <3> QED BY <2>1, <3>1, <3>2 DEF Becomes
  <2> QED BY <2>1, <2>2 DEF Becomes, Alters
<1>9. OneInitialize'
    BY <1>2 DEF OneInitialize, Initializes
<1> QED BY <1>1, <1>4, <1>5, <1>5a, <1>6, <1>7, <1>8, <1>9

LEMMA ClosesKept == ASSUME Inv, RowsGoOn, NEW s \in Sessions, GoesOn(s) PROVE Closes(s)'
<1>1. Closes(s)
    BY DEF Inv
<1>2. \A r \in Rows : row'[r].sess = row[r].sess
    BY DEF RowsGoOn, Becomes, Alters
<1>3. \A r \in Rows : row'[r].sess = s /\ Over(row[r]) => Over(row'[r]) /\ row'[r].child = row[r].child
    BY DEF RowsGoOn, Becomes, Alters
<1> QED BY <1>1, <1>2, <1>3 DEF GoesOn, Closes

LEMMA HandshakenKept == ASSUME Inv, RowsGoOn, \A s \in Sessions : NotOpened(s) PROVE Handshaken'
<1>1. ASSUME NEW r \in Rows
      PROVE  /\ row'[r].kind = row[r].kind /\ row'[r].sess = row[r].sess
             /\ row[r].at \in {"leave", "gone"} => row'[r].at \in {"leave", "gone"}
    BY DEF RowsGoOn, Becomes, Alters
<1> QED BY <1>1 DEF Handshaken, Initializes, NotOpened, Inv

LEMMA CountedKept == ASSUME Inv, Created' = Created, SameCreations PROVE Counted'
<1>1. Creating' = Creating
    BY DEF Creating, SameCreations
<1> QED BY <1>1 DEF Counted, Inv, SameCreations

Mild == RowsGoOn /\ SameCreations /\ \A s \in Sessions : GoesOn(s) /\ NotOpened(s)

LEMMA MildKeeps == ASSUME Inv, Mild PROVE Inv'
<1>1. RowsGoOn /\ Created' = Created
    BY DEF Mild, RowsGoOn
<1>2. Handshaken' /\ Counted' /\ \A s \in Sessions : Closes(s)'
    BY <1>1, HandshakenKept, CountedKept, ClosesKept DEF Mild
<1> QED BY <1>1, <1>2, RowsKeep DEF Inv

-----------------------------------------------------------------------------
(* What a step is made of: rows that stay, the row that is set, and the    *)
(* sessions.                                                               *)

LedgerWorse == ledger' = ledger \/ ledger' = "unknown"

LEMMA Stays == ASSUME Inv, LedgerWorse, NEW r \in Rows PROVE Becomes(r, row[r])
<1>1. WorkOk(row[r])
    BY RowFields DEF Inv
<1>2. Alters(row[r], row[r])
    BY <1>1 DEF Alters
<1> QED BY <1>2 DEF Inv, Becomes, ClaimsEnd, LedgerWorse

LEMMA SetBecomes ==
    ASSUME Inv, LedgerWorse, NEW r \in Rows, NEW new, Becomes(r, new), Set(r, new)
    PROVE  /\ row' \in [Rows -> Works] /\ row'[r] = new
           /\ \A q \in Rows : Becomes(q, row'[q])
           /\ \A q \in Rows \ {r} : row'[q] = row[q]
<1>1. new \in Works /\ row \in [Rows -> Works]
    BY DEF Becomes, Alters, WorkOk, Inv, RowsOk
<1>2. row' \in [Rows -> Works] /\ row'[r] = new /\ \A q \in Rows \ {r} : row'[q] = row[q]
    BY <1>1 DEF Set
<1> QED BY <1>2, Stays

(* What a session becomes in a step that neither creates, opens nor closes *)
(* it.                                                                     *)
Insts == {"ACTIVE", "DRAINING", "UNKNOWN", "CLOSED"}
Sane(v, u) == /\ u \in SessTypes /\ (u.state = v.state \/ (u.state = "UNKNOWN" /\ v.state # "none"))
              /\ v.run = "exited" => u.run = "exited"
SessKept == /\ sess' \in [Sessions -> SessTypes] /\ inst' \in Insts /\ lost' \in BOOLEAN
            /\ \A s \in Sessions : Sane(sess[s], sess'[s])

LEMMA SaneUnknown == ASSUME NEW v \in SessTypes, v.state # "none"
                     PROVE  Sane(v, [v EXCEPT !.state = "UNKNOWN"])
<1> DEFINE u == [v EXCEPT !.state = "UNKNOWN"]
<1>1. u \in SessTypes
    BY DEF SessTypes
<1>2. u.state = "UNKNOWN" /\ u.run = v.run
    BY DEF SessTypes
<1> QED BY <1>1, <1>2 DEF Sane

LEMMA SaneError == ASSUME NEW v \in SessTypes, v.state # "none"
                   PROVE  Sane(v, [v EXCEPT !.state = "UNKNOWN", !.error = TRUE])
<1> DEFINE u == [v EXCEPT !.state = "UNKNOWN", !.error = TRUE]
<1>1. u \in SessTypes
    BY DEF SessTypes
<1>2. u.state = "UNKNOWN" /\ u.run = v.run
    BY DEF SessTypes
<1> QED BY <1>1, <1>2 DEF Sane

LEMMA SaneSame == ASSUME NEW v \in SessTypes PROVE Sane(v, v)
BY DEF Sane

(* One session is set.                                                     *)
LEMMA SessSet ==
    ASSUME Inv, NEW x, NEW v, x \in Sessions => Sane(sess[x], v), sess' = [sess EXCEPT ![x] = v],
           inst' \in Insts, lost' \in BOOLEAN
    PROVE  SessKept
<1>1. sess \in [Sessions -> SessTypes]
    BY DEF Inv, TypeOK
<1>2. \A s \in Sessions : sess'[s] = IF s = x THEN v ELSE sess[s]
    BY <1>1
<1>3. \A s \in Sessions : Sane(sess[s], sess'[s])
    BY <1>1, <1>2, SaneSame
<1>4. \A s \in Sessions : sess'[s] \in SessTypes
    BY <1>3 DEF Sane
<1>5. sess' \in [Sessions -> SessTypes]
    BY <1>1, <1>4
<1> QED BY <1>3, <1>5 DEF SessKept

LEMMA SessSame == ASSUME Inv, UNCHANGED sess, inst' \in Insts, lost' \in BOOLEAN PROVE SessKept
BY SaneSame DEF SessKept, Inv, TypeOK

LEMMA SessLost ==
    ASSUME Inv, NEW x \in Created \cup {NoSession}, Unknown(x)
    PROVE  SessKept
<1>1. sess \in [Sessions -> SessTypes] /\ NoSession \notin Sessions
    BY BudgetAssumption DEF Inv, TypeOK
<1>2. \A s \in Sessions : sess'[s] = IF s = x THEN [sess[s] EXCEPT !.state = "UNKNOWN"] ELSE sess[s]
    BY DEF Unknown
<1>3. x \in Sessions => sess[x].state # "none"
    BY <1>1 DEF Created
<1>4. \A s \in Sessions : Sane(sess[s], sess'[s])
    BY <1>1, <1>2, <1>3, SaneSame, SaneUnknown
<1>5. \A s \in Sessions : sess'[s] \in SessTypes
    BY <1>4 DEF Sane
<1>6. sess' \in [Sessions -> SessTypes]
    BY <1>1, <1>5 DEF Unknown
<1> QED BY <1>4, <1>6 DEF SessKept, Unknown, Insts

LEMMA SessGoesOn ==
    ASSUME Inv, SessKept, UNCHANGED close
    PROVE  Created' = Created /\ \A s \in Sessions : GoesOn(s) /\ NotOpened(s)
<1>1. \A s \in Sessions : Sane(sess[s], sess'[s]) /\ sess[s] \in SessTypes
    BY DEF SessKept, Inv, TypeOK
<1>2. Created' = Created
    BY <1>1 DEF Created, Sane
<1>3. \A s \in Sessions : GoesOn(s) /\ NotOpened(s)
    BY <1>1 DEF GoesOn, NotOpened, Sane
<1> QED BY <1>2, <1>3

(* A step of one row.                                                      *)
LEMMA RowStep ==
    ASSUME Inv, NEW r \in Rows, NEW new, Becomes(r, new), new.creating = row[r].creating, Set(r, new),
           SessKept, UNCHANGED <<phase, close, pending, drain>>, LedgerWorse, faults' \in Nat
    PROVE  Inv'
<1>1. /\ row' \in [Rows -> Works] /\ (\A q \in Rows : Becomes(q, row'[q]))
      /\ row'[r] = new /\ \A q \in Rows \ {r} : row'[q] = row[q]
    BY SetBecomes
<1>2. TypeOK'
    BY DEF Inv, TypeOK, SessKept, Insts, LedgerWorse
<1>3. ServesOn
    BY DEF ServesOn, Stopped, LedgerWorse
<1>4. SameCreations
    BY <1>1 DEF SameCreations
<1> QED BY <1>1, <1>2, <1>3, <1>4, SessGoesOn, MildKeeps DEF Mild, RowsGoOn

LEMMA RowsStay ==
    ASSUME Inv, UNCHANGED row, LedgerWorse
    PROVE  row' \in [Rows -> Works]
           /\ (\A q \in Rows : Becomes(q, row'[q]) /\ row'[q].creating = row[q].creating)
BY Stays DEF Inv, RowsOk

(* A step of no row.                                                       *)
LEMMA SessionStep ==
    ASSUME Inv, UNCHANGED <<row, phase, close, pending, drain>>, SessKept, LedgerWorse, faults' \in Nat
    PROVE  Inv'
<1>1. TypeOK'
    BY DEF Inv, TypeOK, SessKept, Insts, LedgerWorse
<1>2. ServesOn
    BY DEF ServesOn, Stopped, LedgerWorse
<1>3. SameCreations
    BY DEF SameCreations
<1> QED BY <1>1, <1>2, <1>3, RowsStay, SessGoesOn, MildKeeps DEF Mild, RowsGoOn

-----------------------------------------------------------------------------
(* What the steps make of one row.                                         *)

Kept(w, n) == Alters(w, n) /\ n.creating = w.creating /\ n.enqueued = w.enqueued
JournalKept(w, n) == n.journal = w.journal /\ n.started = w.started

LEMMA Moves ==
    ASSUME NEW w, WorkOk(w), w.at \in {"slot", "sdk", "reply", "tail"}, NEW a \in {"reply", "tail", "leave"},
           a = "tail" => w.kind = "initialize", NEW n, n = [w EXCEPT !.at = a]
    PROVE  Kept(w, n) /\ JournalKept(w, n)
BY DEF Works, WorkOk, HandedOver, Alters, Over, Kept, JournalKept

LEMMA TakesSlot ==
    ASSUME NEW w, WorkOk(w), w.at = "slot", NEW n, n = [w EXCEPT !.at = "sdk", !.enqueued = TRUE]
    PROVE  Alters(w, n) /\ n.creating = w.creating /\ JournalKept(w, n)
BY DEF Works, WorkOk, HandedOver, Alters, Over, JournalKept

LEMMA Cancels ==
    ASSUME NEW w, WorkOk(w), w.kind # "none", NEW n, n = [w EXCEPT !.cancelled = TRUE]
    PROVE  Kept(w, n) /\ JournalKept(w, n)
<1>1. n \in Works
    BY DEF Works, WorkOk
<1>2. n.cancelled = TRUE
    BY DEF Works, WorkOk
<1>3. n.at = w.at /\ n.kind = w.kind /\ n.sess = w.sess /\ n.id = w.id /\ n.re = w.re
      /\ n.creating = w.creating
    BY DEF Works, WorkOk
<1>4. n.enqueued = w.enqueued /\ n.sent = w.sent
      /\ n.started = w.started /\ n.handled = w.handled /\ n.ok = w.ok
      /\ n.journal = w.journal /\ n.claims = w.claims
    BY DEF Works, WorkOk
<1>5. n.owner = w.owner /\ n.thread = w.thread /\ n.child = w.child /\ n.out = w.out
    BY DEF Works, WorkOk
<1>6. WorkOk(n)
    BY <1>1, <1>2, <1>3, <1>4, <1>5 DEF WorkOk, HandedOver
<1> QED BY <1>1, <1>2, <1>3, <1>4, <1>5, <1>6 DEF Alters, Over, Kept, JournalKept

LEMMA StartsThread ==
    ASSUME NEW w, WorkOk(w), w.kind # "none", w.owner = "live", NEW n, n = [w EXCEPT !.thread = "running"]
    PROVE  Kept(w, n) /\ JournalKept(w, n)
<1>1. n \in Works
    BY DEF Works, WorkOk
<1>2. n.thread = "running"
    BY DEF Works, WorkOk
<1>3. n.at = w.at /\ n.kind = w.kind /\ n.sess = w.sess /\ n.id = w.id /\ n.re = w.re
      /\ n.creating = w.creating
    BY DEF Works, WorkOk
<1>4. n.enqueued = w.enqueued /\ n.sent = w.sent
      /\ n.started = w.started /\ n.handled = w.handled /\ n.cancelled = w.cancelled /\ n.ok = w.ok /\ n.journal = w.journal
    BY DEF Works, WorkOk
<1>5. n.claims = w.claims /\ n.owner = w.owner /\ n.child = w.child /\ n.out = w.out
    BY DEF Works, WorkOk
<1>6. WorkOk(n)
    BY <1>1, <1>2, <1>3, <1>4, <1>5 DEF WorkOk, HandedOver
<1> QED BY <1>1, <1>2, <1>3, <1>4, <1>5, <1>6 DEF Alters, Over, Kept, JournalKept

LEMMA JoinsThread ==
    ASSUME NEW w, WorkOk(w), w.kind # "none", w.thread = "running", NEW n, n = [w EXCEPT !.thread = "joined"]
    PROVE  Kept(w, n) /\ JournalKept(w, n)
<1>1. n \in Works
    BY DEF Works, WorkOk
<1>2. n.thread = "joined"
    BY DEF Works, WorkOk
<1>3. n.at = w.at /\ n.kind = w.kind /\ n.sess = w.sess /\ n.id = w.id /\ n.re = w.re
      /\ n.creating = w.creating
    BY DEF Works, WorkOk
<1>4. n.enqueued = w.enqueued /\ n.sent = w.sent
      /\ n.started = w.started /\ n.handled = w.handled /\ n.cancelled = w.cancelled /\ n.ok = w.ok /\ n.journal = w.journal
    BY DEF Works, WorkOk
<1>5. n.claims = w.claims /\ n.owner = w.owner /\ n.child = w.child /\ n.out = w.out
    BY DEF Works, WorkOk
<1>6. WorkOk(n)
    BY <1>1, <1>2, <1>3, <1>4, <1>5 DEF WorkOk, HandedOver
<1> QED BY <1>1, <1>2, <1>3, <1>4, <1>5, <1>6 DEF Alters, Over, Kept, JournalKept

LEMMA SetsChild ==
    ASSUME NEW w, WorkOk(w), w.kind # "none", w.thread = "running" \/ w.child = "live",
           NEW c \in {"reserved", "live", "nospawn", "closed", "faulted"}, NEW n, n = [w EXCEPT !.child = c]
    PROVE  Kept(w, n) /\ JournalKept(w, n)
<1>1. n \in Works
    BY DEF Works, WorkOk
<1>2. n.child = c
    BY DEF Works, WorkOk
<1>3. n.at = w.at /\ n.kind = w.kind /\ n.sess = w.sess /\ n.id = w.id /\ n.re = w.re
      /\ n.creating = w.creating
    BY DEF Works, WorkOk
<1>4. n.enqueued = w.enqueued /\ n.sent = w.sent
      /\ n.started = w.started /\ n.handled = w.handled /\ n.cancelled = w.cancelled /\ n.ok = w.ok /\ n.journal = w.journal
    BY DEF Works, WorkOk
<1>5. n.claims = w.claims /\ n.owner = w.owner /\ n.thread = w.thread /\ n.out = w.out
    BY DEF Works, WorkOk
<1>6. WorkOk(n)
    BY <1>1, <1>2, <1>3, <1>4, <1>5 DEF WorkOk, HandedOver
<1> QED BY <1>1, <1>2, <1>3, <1>4, <1>5, <1>6 DEF Alters, Over, Kept, JournalKept

LEMMA Asks ==
    ASSUME NEW w, WorkOk(w), w.kind # "none", w.kind = "call", w.owner = "live", NEW n,
           n = [w EXCEPT !.out = "waiting"]
    PROVE  Kept(w, n) /\ JournalKept(w, n)
<1>1. n \in Works
    BY DEF Works, WorkOk
<1>2. n.out = "waiting"
    BY DEF Works, WorkOk
<1>3. n.at = w.at /\ n.kind = w.kind /\ n.sess = w.sess /\ n.id = w.id /\ n.re = w.re
      /\ n.creating = w.creating
    BY DEF Works, WorkOk
<1>4. n.enqueued = w.enqueued /\ n.sent = w.sent
      /\ n.started = w.started /\ n.handled = w.handled /\ n.cancelled = w.cancelled /\ n.ok = w.ok /\ n.journal = w.journal
    BY DEF Works, WorkOk
<1>5. n.claims = w.claims /\ n.owner = w.owner /\ n.thread = w.thread /\ n.child = w.child
    BY DEF Works, WorkOk
<1>6. WorkOk(n)
    BY <1>1, <1>2, <1>3, <1>4, <1>5 DEF WorkOk, HandedOver
<1> QED BY <1>1, <1>2, <1>3, <1>4, <1>5, <1>6 DEF Alters, Over, Kept, JournalKept

LEMMA OutOver ==
    ASSUME NEW w, WorkOk(w), w.kind # "none", NEW n, n = [w EXCEPT !.out = "over"]
    PROVE  Kept(w, n) /\ JournalKept(w, n)
BY DEF Works, WorkOk, HandedOver, Alters, Over, Kept, JournalKept

LEMMA Consumes ==
    ASSUME NEW w, WorkOk(w), w.sent, ~w.started, w.kind = "reply",
           NEW n, n = [w EXCEPT !.started = TRUE, !.handled = TRUE]
    PROVE  Kept(w, n) /\ n.journal = "none" /\ n.kind # "none"
BY DEF Works, WorkOk, HandedOver, Alters, Over, Kept

(* The journal.                                                            *)
LEMMA Settled ==
    ASSUME NEW w, WorkOk(w), w.at \in {"slot", "sdk", "reply", "tail"}, w.journal = "open", ~w.sent,
           NEW o \in BOOLEAN,
           NEW n, n = [w EXCEPT !.at = "leave", !.claims = 1, !.journal = "sealed", !.handled = TRUE,
           !.ok = o]
    PROVE  Kept(w, n) /\ n.journal = "sealed"
BY DEF Works, WorkOk, HandedOver, Alters, Over, Kept

LEMMA ClaimedLeft ==
    ASSUME NEW w, WorkOk(w), w.at \in {"slot", "sdk", "reply", "tail"}, w.journal = "open",
           ~w.sent, NEW n, n = [w EXCEPT !.at = "leave", !.claims = 1, !.journal = "claimed"]
    PROVE  Kept(w, n)
BY DEF Works, WorkOk, HandedOver, Alters, Over, Kept

LEMMA Handled ==
    ASSUME NEW w, WorkOk(w), w.kind # "none", w.at \in {"slot", "sdk", "reply", "tail"},
           w.journal = "none", ~w.sent, NEW o \in BOOLEAN,
           NEW n, n = [w EXCEPT !.at = "leave", !.handled = TRUE, !.ok = o]
    PROVE  Kept(w, n) /\ n.journal = "none"
<1>0. w \in Works /\ o \in BOOLEAN
    BY DEF Works, WorkOk
<1>1. n \in Works
    BY <1>0 DEF Works
<1>2. n.at = "leave" /\ n.started = w.started /\ n.handled = TRUE /\ n.ok = o
    BY DEF Works, WorkOk
<1>3. n.kind = w.kind /\ n.sess = w.sess /\ n.id = w.id /\ n.re = w.re /\ n.creating = w.creating
      /\ n.enqueued = w.enqueued /\ n.sent = w.sent
    BY DEF Works, WorkOk
<1>4. n.cancelled = w.cancelled /\ n.journal = w.journal /\ n.claims = w.claims /\ n.owner = w.owner
      /\ n.thread = w.thread /\ n.child = w.child
    BY DEF Works, WorkOk
<1>5. n.out = w.out
    BY DEF Works, WorkOk
<1>6. WorkOk(n)
    BY <1>1, <1>2, <1>3, <1>4, <1>5 DEF WorkOk, HandedOver
<1> QED BY <1>1, <1>2, <1>3, <1>4, <1>5, <1>6 DEF Alters, Over, Kept

(* The handler is refused, wherever the HTTP task of its row is.           *)
LEMMA HandledThere ==
    ASSUME NEW w, WorkOk(w), w.kind # "none", w.sent, ~w.started, w.journal = "none", NEW o \in BOOLEAN,
           NEW n, n = [w EXCEPT !.started = TRUE, !.handled = TRUE, !.ok = o]
    PROVE  Kept(w, n) /\ n.journal = "none"
<1>0. w \in Works /\ o \in BOOLEAN /\ ~w.handled
    BY DEF Works, WorkOk, HandedOver
<1>1. n \in Works
    BY <1>0 DEF Works
<1>2. n.at = w.at /\ n.started = TRUE /\ n.handled = TRUE /\ n.ok = o
    BY DEF Works, WorkOk
<1>3. n.kind = w.kind /\ n.sess = w.sess /\ n.id = w.id /\ n.re = w.re /\ n.creating = w.creating
      /\ n.enqueued = w.enqueued /\ n.sent = w.sent
    BY DEF Works, WorkOk
<1>4. n.cancelled = w.cancelled /\ n.journal = w.journal /\ n.claims = w.claims /\ n.owner = w.owner
      /\ n.thread = w.thread /\ n.child = w.child
    BY DEF Works, WorkOk
<1>5. n.out = w.out
    BY DEF Works, WorkOk
<1>6. WorkOk(n)
    BY <1>1, <1>2, <1>3, <1>4, <1>5 DEF WorkOk, HandedOver
<1> QED BY <1>0, <1>1, <1>2, <1>3, <1>4, <1>5, <1>6 DEF Alters, Over, Kept

LEMMA Dispatched ==
    ASSUME NEW w, WorkOk(w), w.kind # "none", w.sent, ~w.started, NEW j, NEW c,
           NEW u \in {"live", w.owner},
           IF w.journal = "none" THEN j = "none" /\ c = 0 ELSE j = "claimed" /\ c = 1,
           NEW n, n = [w EXCEPT !.started = TRUE, !.claims = c, !.journal = j, !.owner = u]
    PROVE  Kept(w, n) /\ n.started
<1>0. w \in Works /\ j \in {"none", "claimed"} /\ c \in Nat /\ u \in {"none", "live", "ended"}
    BY DEF Works, WorkOk
<1>1. n \in Works
    BY <1>0 DEF Works
<1>2. n.started = TRUE /\ n.claims = c /\ n.journal = j /\ n.owner = u
    BY DEF Works, WorkOk
<1>3. n.at = w.at /\ n.kind = w.kind /\ n.sess = w.sess /\ n.id = w.id /\ n.re = w.re /\ n.creating = w.creating
      /\ n.enqueued = w.enqueued /\ n.sent = w.sent
    BY DEF Works, WorkOk
<1>4. n.handled = w.handled /\ n.cancelled = w.cancelled /\ n.ok = w.ok /\ n.thread = w.thread
      /\ n.child = w.child /\ n.out = w.out
    BY DEF Works, WorkOk
<1>5. WorkOk(n)
    BY <1>1, <1>2, <1>3, <1>4 DEF WorkOk, HandedOver
<1>6. ~w.handled
    BY DEF WorkOk, HandedOver
<1> QED BY <1>6, <1>1, <1>2, <1>3, <1>4, <1>5 DEF Alters, Over, Kept

LEMMA DispatchSealed ==
    ASSUME NEW w, WorkOk(w), w.sent, ~w.started, ~w.handled, w.journal = "open", NEW o \in BOOLEAN,
           NEW n, n = [w EXCEPT !.started = TRUE, !.claims = 1, !.journal = "sealed",
                                !.handled = TRUE, !.ok = o]
    PROVE  Kept(w, n) /\ n.started
BY DEF Works, WorkOk, HandedOver, Alters, Over, Kept

LEMMA Ended ==
    ASSUME NEW w, WorkOk(w), w.kind # "none", w.owner = "live", w.kind # "binary",
           ~w.handled, NEW o \in BOOLEAN,
           NEW j \in {"none", "sealed"}, j = "none" <=> w.journal = "none", NEW u \in {"none", "over"},
           NEW n, n = [w EXCEPT !.owner = "ended", !.journal = j, !.handled = TRUE, !.ok = o, !.out = u]
    PROVE  Kept(w, n) /\ n.journal # "claimed"
<1> DEFINE m == [w EXCEPT !.owner = "ended", !.out = u]
           l == [m EXCEPT !.handled = TRUE, !.ok = o]
<1>0. w \in Works
    BY DEF WorkOk
<1>1. n \in Works
  <2>1. m \in Works
    BY <1>0 DEF Works
  <2>2. n = [l EXCEPT !.journal = j]
    BY <1>0 DEF Works
  <2> HIDE DEF m
  <2>3. l \in Works
    BY <2>1 DEF Works
  <2> HIDE DEF l
  <2> QED BY <2>2, <2>3 DEF Works
<1> HIDE DEF m, l
<1>2. n.owner = "ended" /\ n.journal = j /\ n.handled = TRUE /\ n.ok = o /\ n.out = u
    BY DEF Works, WorkOk
<1>3. n.at = w.at /\ n.kind = w.kind /\ n.sess = w.sess /\ n.id = w.id /\ n.re = w.re
      /\ n.creating = w.creating
    BY DEF Works, WorkOk
<1>4. n.enqueued = w.enqueued /\ n.sent = w.sent
      /\ n.started = w.started /\ n.cancelled = w.cancelled /\ n.claims = w.claims
      /\ n.thread = w.thread /\ n.child = w.child
    BY DEF Works, WorkOk
<1>4a. w.started /\ w.at \notin {"slot", "sdk"}
    BY DEF WorkOk, HandedOver
<1>5. WorkOk(n)
  <2>1. HandedOver(n)
    BY <1>2, <1>3, <1>4, <1>4a DEF WorkOk, HandedOver
  <2> QED BY <1>1, <1>2, <1>3, <1>4, <2>1 DEF WorkOk
<1> QED BY <1>1, <1>2, <1>3, <1>4, <1>5 DEF Alters, Over, Kept

LEMMA EndFails ==
    ASSUME NEW w, WorkOk(w), w.kind # "none", w.owner = "live", ~w.handled, NEW u \in {"none", "over"},
           NEW n, n = [w EXCEPT !.owner = "ended", !.out = u]
    PROVE  Kept(w, n) /\ JournalKept(w, n)
<1>1. n \in Works
    BY DEF Works, WorkOk
<1>2. n.owner = "ended" /\ n.out = u
    BY DEF Works, WorkOk
<1>3. n.at = w.at /\ n.kind = w.kind /\ n.sess = w.sess /\ n.id = w.id /\ n.re = w.re
      /\ n.creating = w.creating
    BY DEF Works, WorkOk
<1>4. n.enqueued = w.enqueued /\ n.sent = w.sent
      /\ n.started = w.started /\ n.handled = w.handled /\ n.cancelled = w.cancelled /\ n.ok = w.ok /\ n.journal = w.journal
    BY DEF Works, WorkOk
<1>5. n.claims = w.claims /\ n.thread = w.thread /\ n.child = w.child
    BY DEF Works, WorkOk
<1>6. WorkOk(n)
    BY <1>1, <1>2, <1>3, <1>4, <1>5 DEF WorkOk, HandedOver
<1> QED BY <1>1, <1>2, <1>3, <1>4, <1>5, <1>6 DEF Alters, Over, Kept, JournalKept

(* The finally of the ingress.                                             *)
LEMMA LeavesAsIs ==
    ASSUME NEW w, WorkOk(w), w.kind # "none", w.at = "leave", NEW h \in BOOLEAN,
           NEW u \in {"none", "live", "ended"},
           u = "live" => w.owner = "live", w.owner = "live" /\ w.kind # "binary" => u = "live",
           w.handled => h, h /\ ~w.handled => w.kind # "call" /\ ~w.sent,
           NEW n, n = [w EXCEPT !.at = "gone", !.creating = FALSE, !.owner = u, !.handled = h]
    PROVE  Alters(w, n) /\ n.enqueued = w.enqueued /\ JournalKept(w, n) /\ ~n.creating
<1>1. n \in Works
    BY DEF Works, WorkOk
<1>2. n.at = "gone" /\ n.creating = FALSE /\ n.owner = u /\ n.handled = h
    BY DEF Works, WorkOk
<1>3. n.kind = w.kind /\ n.sess = w.sess /\ n.id = w.id /\ n.re = w.re /\ n.enqueued = w.enqueued
      /\ n.sent = w.sent /\ n.started = w.started
    BY DEF Works, WorkOk
<1>4. n.cancelled = w.cancelled /\ n.ok = w.ok /\ n.journal = w.journal /\ n.claims = w.claims
      /\ n.thread = w.thread /\ n.child = w.child
    BY DEF Works, WorkOk
<1>5. n.out = w.out
    BY DEF Works, WorkOk
<1>6. WorkOk(n)
    BY <1>1, <1>2, <1>3, <1>4, <1>5 DEF WorkOk, HandedOver
<1> QED BY <1>1, <1>2, <1>3, <1>4, <1>5, <1>6 DEF Alters, Over, JournalKept

-----------------------------------------------------------------------------
(* The steps of the ingress.                                               *)

LEMMA InService ==
    ASSUME Inv, NEW r \in Rows, row[r].at \notin {"idle", "gone"}
    PROVE  /\ WorkOk(row[r]) /\ row[r] \in Works /\ row[r].kind # "none"
           /\ phase = "ACTIVE" /\ drain = "no" /\ ledger # "closed"
<1>1. WorkOk(row[r]) /\ row[r] \in Works
    BY RowFields DEF Inv
<1>2. row[r].kind # "none"
    BY <1>1 DEF WorkOk
<1>3. ~Stopped
    BY DEF Inv, Serves, Resolved
<1> QED BY <1>1, <1>2, <1>3 DEF Inv, Serves, Stopped

LEMMA SessOf == ASSUME Inv, NEW r \in Rows PROVE row[r].sess \in Created \cup {NoSession}
BY DEF Inv, Owned

(* The row goes on and its journal is nobody's.                            *)
LEMMA KeptStep ==
    ASSUME Inv, NEW r \in Rows, NEW new, Kept(row[r], new), Set(r, new),
           new.journal = "claimed" => new.started \/ ledger' = "unknown",
           SessKept, UNCHANGED <<phase, close, pending, drain>>, LedgerWorse, faults' \in Nat
    PROVE  Inv'
<1>1. Becomes(r, new) /\ new.creating = row[r].creating
    BY DEF Becomes, Kept
<1> QED BY <1>1, RowStep

LEMMA ClaimStays == ASSUME Inv, LedgerWorse, NEW r \in Rows, NEW new, JournalKept(row[r], new)
                    PROVE  new.journal = "claimed" => new.started \/ ledger' = "unknown"
BY DEF JournalKept, Inv, ClaimsEnd, LedgerWorse

LEMMA PlainStep ==
    ASSUME Inv, NEW r \in Rows, NEW new, Kept(row[r], new), JournalKept(row[r], new), Set(r, new),
           SessKept, UNCHANGED <<phase, close, pending, drain>>, LedgerWorse, faults' \in Nat
    PROVE  Inv'
BY KeptStep, ClaimStays

LEMMA FaultsAreNat == ASSUME Inv PROVE faults \in Nat /\ (Fault => faults' \in Nat)
BY DEF Inv, TypeOK, Fault

LEMMA InstKept == ASSUME Inv PROVE /\ inst \in Insts /\ lost \in BOOLEAN
/\ {"DRAINING", "UNKNOWN", "CLOSED"} \subseteq Insts
                                   /\ sess \in [Sessions -> SessTypes]
BY DEF Inv, TypeOK, Insts

LEMMA ClaimedIs ==
    ASSUME NEW w, w.journal = "open", w.claims = 0
    PROVE  Claimed(w) = [w EXCEPT !.claims = 1, !.journal = "claimed"]
BY DEF Claimed

LEMMA NotClaimed == ASSUME NEW w, w.journal = "none" PROVE Claimed(w) = w
BY DEF Claimed

(* A journal nobody else has is claimed and, if the ledger takes it,       *)
(* sealed.                                                                 *)
LEMMA SettleKeeps ==
    ASSUME Inv, NEW r \in Rows, row[r].at \in {"slot", "sdk", "reply", "tail"},
           row[r].journal \in {"none", "open"}, ~row[r].sent,
           Settle(r), UNCHANGED <<phase, close, pending, drain, ledger>>, faults' \in Nat
    PROVE  Inv'
<1> DEFINE w == row[r]
           c == Claimed([w EXCEPT !.at = "leave"])
           o == w.kind = "initialize" /\ "cancelled" = "returned"
           f == Finished(c, "cancelled")
<1>1. WorkOk(w) /\ w \in Works /\ w.kind # "none" /\ ledger # "closed"
    BY InService
<1>2. ledger \in {"open", "unknown"} /\ LedgerWorse
    BY <1>1 DEF Inv, TypeOK, LedgerWorse
<1>3. c.journal = "none" \/ ledger = "open" => Set(r, f) /\ UNCHANGED <<inst, lost, sess>>
    BY DEF Settle, Finish
<1>4. ~(c.journal = "none" \/ ledger = "open") => Set(r, c) /\ Unknown(c.sess)
    BY DEF Settle, Finish
<1>5. CASE w.journal = "none"
  <2>1. c = [w EXCEPT !.at = "leave"]
    BY <1>1, <1>5 DEF Claimed, Works
  <2> HIDE DEF c
  <2>a. c \in Works /\ c.journal = "none" /\ c.kind = w.kind
    BY <1>1, <1>5, <2>1 DEF Works
  <2>b. f = [c EXCEPT !.handled = TRUE, !.ok = o]
    BY <2>a DEF Finished, Works
  <2> HIDE DEF f, o
  <2>2. f = [w EXCEPT !.at = "leave", !.handled = TRUE, !.ok = o]
    BY <1>1, <2>1, <2>b DEF Works
  <2>3. o \in BOOLEAN
    BY DEF o
  <2>4. Kept(w, f) /\ f.journal = "none"
    BY <1>1, <1>5, <2>2, <2>3, Handled
  <2> QED BY <1>2, <1>3, <2>a, <2>4, KeptStep, SessSame, InstKept
<1>6. CASE w.journal = "open"
  <2> DEFINE x == [w EXCEPT !.at = "leave"]
  <2>a. x.journal = "open" /\ x.claims = 0
    BY <1>1, <1>6 DEF Works, WorkOk
  <2>b. c = [x EXCEPT !.claims = 1, !.journal = "claimed"]
    BY <2>a, ClaimedIs
  <2>1. c = [w EXCEPT !.at = "leave", !.claims = 1, !.journal = "claimed"]
    BY <1>1, <2>b DEF Works
  <2>2. c.journal = "claimed" /\ c.sess = w.sess
    BY <1>1, <2>1 DEF Works
  <2>3. f = [w EXCEPT !.at = "leave", !.claims = 1, !.journal = "sealed", !.handled = TRUE, !.ok = o]
    BY <1>1, <2>1 DEF Finished, Works
  <2> HIDE DEF c, f, o
  <2>4. o \in BOOLEAN
    BY DEF o
  <2>5. Kept(w, f) /\ f.journal = "sealed" /\ Kept(w, c)
    BY <1>1, <1>6, <2>1, <2>3, <2>4, Settled, ClaimedLeft
  <2>6. CASE ledger = "open"
    BY <1>2, <1>3, <2>5, <2>6, KeptStep, SessSame, InstKept
  <2>7. CASE ledger = "unknown"
    BY <1>2, <1>4, <2>2, <2>5, <2>7, KeptStep, SessLost, SessOf
  <2> QED BY <1>2, <2>6, <2>7
<1> QED BY <1>5, <1>6

LEMMA SlotKeeps == ASSUME Inv, NEW r \in Rows, Slot(r) PROVE Inv'
<1>1. WorkOk(row[r]) /\ row[r] \in Works /\ row[r].at = "slot"
    BY InService DEF Slot
<1>2. faults' \in Nat /\ LedgerWorse
    BY FaultsAreNat DEF Slot, LedgerWorse
<1>3. CASE Dropped(r)
    BY <1>1, <1>2, <1>3, SettleKeeps DEF Slot, WorkOk, HandedOver
<1>4. CASE ~Dropped(r)
  <2> DEFINE n == [row[r] EXCEPT !.at = "sdk", !.enqueued = TRUE]
  <2>1. Alters(row[r], n) /\ n.creating = row[r].creating /\ JournalKept(row[r], n)
    BY <1>1, TakesSlot
  <2>2. Set(r, n) /\ Previous(r) = {} /\ UNCHANGED <<phase, inst, lost, sess, close, pending, ledger,
        drain, faults>>
    BY <1>4 DEF Slot
  <2> HIDE DEF n
  <2>3. Becomes(r, n)
    BY <1>2, <2>1, <2>2, ClaimStays DEF Becomes
  <2> QED BY <1>2, <2>1, <2>2, <2>3, RowStep, SessSame, InstKept
<1> QED BY <1>3, <1>4

LEMMA DisconnectKeeps == ASSUME Inv, NEW r \in Rows, Disconnect(r) PROVE Inv'
<1>1. WorkOk(row[r]) /\ row[r].kind # "none"
    BY InService DEF Disconnect
<1> DEFINE n == [row[r] EXCEPT !.cancelled = TRUE]
<1>2. Kept(row[r], n) /\ JournalKept(row[r], n)
    BY <1>1, Cancels
<1>3. Set(r, n) /\ UNCHANGED <<phase, inst, lost, sess, close, pending, ledger, drain, faults>>
    BY DEF Disconnect
<1> HIDE DEF n
<1> QED BY <1>2, <1>3, PlainStep, SessSame, InstKept, FaultsAreNat DEF LedgerWorse

(* A session that is ready.                                                *)
LEMMA SaneReady == ASSUME NEW v \in SessTypes PROVE Sane(v, [v EXCEPT !.ready = TRUE])
<1> DEFINE u == [v EXCEPT !.ready = TRUE]
<1>1. u \in SessTypes
    BY DEF SessTypes
<1>2. u.state = v.state /\ u.run = v.run
    BY DEF SessTypes
<1> QED BY <1>1, <1>2 DEF Sane

LEMMA SessReady ==
    ASSUME Inv, NEW x, UNCHANGED <<inst, lost>>,
           sess' = sess \/ sess' = [sess EXCEPT ![x].ready = TRUE]
    PROVE  SessKept
BY SessSame, SessSet, SaneReady, InstKept

LEMMA HttpReturnsKeeps == ASSUME Inv, NEW r \in Rows, HttpReturns(r) PROVE Inv'
<1>1. WorkOk(row[r]) /\ row[r].at = "reply"
    BY InService DEF HttpReturns
<1> DEFINE a == IF row[r].kind = "initialize" THEN "tail" ELSE "leave"
           n == [row[r] EXCEPT !.at = a]
<1>2. a \in {"reply", "tail", "leave"} /\ (a = "tail" => row[r].kind = "initialize")
    OBVIOUS
<1>3. Set(r, n) /\ UNCHANGED <<phase, inst, lost, close, pending, ledger, drain, faults>>
    BY DEF HttpReturns
<1> HIDE DEF a
<1>4. Kept(row[r], n) /\ JournalKept(row[r], n)
    BY <1>1, <1>2, Moves
<1>5. SessKept
    BY SessReady DEF HttpReturns
<1> HIDE DEF n
<1> QED BY <1>3, <1>4, <1>5, PlainStep, FaultsAreNat DEF LedgerWorse

LEMMA StreamEndsKeeps == ASSUME Inv, NEW r \in Rows, StreamEnds(r) PROVE Inv'
<1> DEFINE w == row[r]
           o == w.kind = "initialize" /\ "returned" = "returned"
           n == [w EXCEPT !.at = "leave", !.handled = TRUE, !.ok = o]
<1>1. WorkOk(w) /\ w \in Works /\ w.at = "sdk" /\ w.kind # "none"
    BY InService DEF StreamEnds
<1>2. w.journal = "none" /\ ~w.sent
    BY <1>1 DEF StreamEnds, WorkOk, HandedOver
<1>3. [Finished(w, "returned") EXCEPT !.at = "leave"] = n
    BY <1>1, <1>2 DEF Finished, Works
<1>4. Set(r, n) /\ UNCHANGED <<phase, inst, lost, sess, close, pending, ledger, drain, faults>>
    BY <1>3 DEF StreamEnds
<1>5. o \in BOOLEAN
    OBVIOUS
<1> HIDE DEF o
<1>6. Kept(w, n) /\ n.journal = "none"
    BY <1>1, <1>2, <1>5, Handled
<1> HIDE DEF n
<1> QED BY <1>4, <1>6, KeptStep, SessSame, InstKept, FaultsAreNat DEF LedgerWorse

LEMMA LeavesKeeps ==
    ASSUME Inv, NEW r \in Rows, row[r].at \in {"slot", "sdk", "reply", "tail"},
           Set(r, [row[r] EXCEPT !.at = "leave"]), SessKept,
           UNCHANGED <<phase, close, pending, ledger, drain>>, faults' \in Nat
    PROVE  Inv'
<1>1. WorkOk(row[r])
    BY InService
<1> DEFINE n == [row[r] EXCEPT !.at = "leave"]
<1>2. Kept(row[r], n) /\ JournalKept(row[r], n)
    BY <1>1, Moves
<1>3. Set(r, n)
    OBVIOUS
<1> HIDE DEF n
<1> QED BY <1>2, <1>3, PlainStep DEF LedgerWorse

LEMMA TailTimesOutKeeps == ASSUME Inv, NEW r \in Rows, TailTimesOut(r) PROVE Inv'
BY LeavesKeeps, SessLost, SessOf, FaultsAreNat DEF TailTimesOut

LEMMA HttpCancelledKeeps == ASSUME Inv, NEW r \in Rows, HttpCancelled(r) PROVE Inv'
<1>1. row[r].at \in {"slot", "sdk", "reply", "tail"} /\ faults' \in Nat
    BY FaultsAreNat DEF HttpCancelled
<1>1a. ~row[r].enqueued => ~row[r].sent
    BY RowFields DEF Inv, WorkOk, HandedOver, Works
<1>2. CASE row[r].enqueued /\ ~row[r].handled
    BY <1>1, <1>2, LeavesKeeps, SessLost, SessOf DEF HttpCancelled
<1>3. CASE ~(row[r].enqueued /\ ~row[r].handled) /\ row[r].journal = "open" /\ ~row[r].enqueued
    BY <1>1, <1>1a, <1>3, SettleKeeps DEF HttpCancelled
<1>4. CASE ~(row[r].enqueued /\ ~row[r].handled) /\ ~(row[r].journal = "open" /\ ~row[r].enqueued)
    BY <1>1, <1>4, LeavesKeeps, SessSame, InstKept DEF HttpCancelled
<1> QED BY <1>2, <1>3, <1>4

(* The tail of initialize opens its session, which nobody closes yet.      *)
LEMMA TailKeeps == ASSUME Inv, NEW r \in Rows, Tail(r) PROVE Inv'
<1> DEFINE n == [row[r] EXCEPT !.at = "leave"]
           s == row[r].sess
<1>1. WorkOk(row[r]) /\ row[r] \in Works /\ row[r].at = "tail" /\ row[r].kind = "initialize"
    BY InService DEF Tail, WorkOk
<1>2. CASE ~row[r].ok
    BY <1>1, <1>2, LeavesKeeps, SessLost, SessOf, FaultsAreNat DEF Tail
<1>3. CASE row[r].ok
  <2>1. /\ Set(r, n) /\ sess' = [sess EXCEPT ![s].state = "OPEN"]
        /\ UNCHANGED <<phase, inst, lost, close, pending, ledger, drain, faults>>
    BY <1>3 DEF Tail
  <2>2. Kept(row[r], n) /\ JournalKept(row[r], n) /\ LedgerWorse
    BY <1>1, <2>1, Moves DEF LedgerWorse
  <2>3. n.at = "leave"
    BY <1>1 DEF Works
  <2> HIDE DEF n
  <2>4. Becomes(r, n) /\ n.creating = row[r].creating
    BY <2>2, ClaimStays DEF Becomes, Kept
  <2>5. /\ row' \in [Rows -> Works] /\ (\A q \in Rows : Becomes(q, row'[q]))
        /\ row'[r] = n /\ \A q \in Rows \ {r} : row'[q] = row[q]
    BY <2>1, <2>2, <2>4, SetBecomes
  <2>6. sess \in [Sessions -> SessTypes] /\ s \in Created \cup {NoSession} /\ NoSession \notin Sessions
    BY SessOf, BudgetAssumption DEF Inv, TypeOK
  <2>7. ASSUME NEW x \in Sessions, x # s PROVE sess'[x] = sess[x]
    BY <2>1, <2>6, <2>7
  <2>8. ASSUME s \in Sessions PROVE /\ sess'[s] \in SessTypes /\ sess'[s].state = "OPEN"
                                    /\ sess'[s].run = sess[s].run /\ sess[s].state # "none"
    <3>1. sess'[s] = [sess[s] EXCEPT !.state = "OPEN"] /\ sess[s] \in SessTypes
      BY <2>1, <2>6, <2>8
    <3>2. sess[s].state # "none"
      BY <2>6, <2>8 DEF Created
    <3> QED BY <3>1, <3>2 DEF SessTypes
  <2>9. s \in Sessions => close[s].at = "no"
    BY <1>1 DEF Inv, Handshaken, Initializes
  <2>10. sess' \in [Sessions -> SessTypes]
    <3>1. \A x \in Sessions : sess'[x] \in SessTypes
      BY <2>6, <2>7, <2>8
    <3> QED BY <2>1, <2>6, <3>1
  <2>11. TypeOK' /\ ServesOn /\ SameCreations
    BY <2>1, <2>4, <2>5, <2>10 DEF Inv, TypeOK, ServesOn, Stopped, SameCreations
  <2>12. Created' = Created
    BY <2>7, <2>8 DEF Created
  <2>13. RowsGoOn
    BY <2>5, <2>11, <2>12 DEF RowsGoOn
  <2>14. ASSUME NEW x \in Sessions PROVE GoesOn(x)
    BY <2>1, <2>7, <2>8, <2>9 DEF GoesOn
  <2>15. Handshaken'
    <3> SUFFICES ASSUME NEW x \in Sessions, sess'[x].state = "OPEN" \/ close'[x].at # "no",
                        NEW q \in Rows, row'[q].kind = "initialize", row'[q].sess = x
                 PROVE  row'[q].at \in {"leave", "gone"}
      BY DEF Handshaken, Initializes
    <3>1. Initializes(q, x) /\ Alters(row[q], row'[q])
      BY <2>5 DEF Becomes, Alters, Initializes
    <3>2. CASE x = s
      <4>1. q = r
        BY <1>1, <3>1, <3>2 DEF Inv, OneInitialize, Initializes
      <4> QED BY <2>3, <2>5, <4>1
    <3>3. CASE x # s
      BY <2>1, <2>7, <3>1, <3>3 DEF Inv, Handshaken, Alters
    <3> QED BY <3>2, <3>3
  <2> QED BY <2>11, <2>12, <2>13, <2>14, <2>15, RowsKeep, ClosesKept, CountedKept DEF Inv
<1> QED BY <1>2, <1>3

(* The finally of the ingress.                                             *)
LEMMA LeaveWithIs ==
    ASSUME Inv, NEW r \in Rows, row[r].at = "leave"
    PROVE  LET w == row[r]
               l == LeaveWith(w)
           IN  \/ l = w
               \/ w.journal = "open" /\ ~w.handled /\ w.kind = "call" /\ ~w.sent
                  /\ l = [w EXCEPT !.claims = 1, !.journal = "sealed", !.handled = TRUE, !.ok = FALSE]
               \/ w.journal = "none" /\ ~w.sent /\ l = [w EXCEPT !.handled = TRUE, !.ok = FALSE]
<1> DEFINE w == row[r]
<1>1. WorkOk(w) /\ w \in Works /\ ledger # "closed"
    BY InService
<1>1a. Unclaimed(w) => ~w.sent
    BY <1>1 DEF Unclaimed, WorkOk, HandedOver, Works
<1>2. CASE Unclaimed(w) /\ w.journal \notin {"none", "begun"} /\ ledger # "unknown"
  <2>1. w.journal = "open" /\ w.claims = 0 /\ ~w.handled /\ w.kind = "call"
    BY <1>1, <1>2 DEF Unclaimed, WorkOk, Works, Inv, ClaimsEnd
  <2>1a. ~w.sent
    BY <1>1a, <1>2
  <2> DEFINE c == [w EXCEPT !.claims = 1, !.journal = "claimed"]
  <2>2. LeaveWith(w) = Finished(c, "cancelled")
    BY <1>2, <2>1, ClaimedIs DEF LeaveWith
  <2>3. c \in Works /\ c.journal = "claimed"
    BY <1>1 DEF Works
  <2>4. Finished(c, "cancelled") = [c EXCEPT !.handled = TRUE, !.ok = FALSE, !.journal = "sealed"]
    <3> HIDE DEF c
    <3> QED BY <2>3 DEF Finished
  <2>5. [c EXCEPT !.handled = TRUE, !.ok = FALSE, !.journal = "sealed"]
         = [w EXCEPT !.claims = 1, !.journal = "sealed", !.handled = TRUE, !.ok = FALSE]
    BY <1>1 DEF Works
  <2> QED BY <2>1, <2>1a, <2>2, <2>4, <2>5
<1>3. CASE ~(Unclaimed(w) /\ w.journal \notin {"none", "begun"} /\ ledger # "unknown")
  <2>1. CASE Unclaimed(w) /\ w.journal = "none"
    <3>1. LeaveWith(w) = Finished(w, "not_dispatched")
      BY <1>3, <2>1 DEF LeaveWith
    <3>2. Finished(w, "not_dispatched") = [w EXCEPT !.handled = TRUE, !.ok = FALSE]
      BY <1>1, <2>1 DEF Finished, Works
    <3> QED BY <1>1a, <2>1, <3>1, <3>2
  <2>2. CASE ~(Unclaimed(w) /\ w.journal = "none")
    BY <1>3, <2>2 DEF LeaveWith
  <2> QED BY <2>1, <2>2
<1> QED BY <1>2, <1>3

LEMMA LeaveSealed ==
    ASSUME NEW w, WorkOk(w), w.at = "leave", w.journal = "open", ~w.sent,
           NEW n, n = [w EXCEPT !.claims = 1, !.journal = "sealed", !.handled = TRUE, !.ok = FALSE]
    PROVE  Kept(w, n) /\ n.journal = "sealed" /\ n.at = "leave" /\ n.kind # "none"
BY DEF Works, WorkOk, HandedOver, Alters, Over, Kept

LEMMA LeaveHandled ==
    ASSUME NEW w, WorkOk(w), w.at = "leave", w.journal = "none", ~w.sent,
           NEW n, n = [w EXCEPT !.handled = TRUE, !.ok = FALSE]
    PROVE  Kept(w, n) /\ n.journal = "none" /\ n.at = "leave" /\ n.kind # "none"
BY DEF Works, WorkOk, HandedOver, Alters, Over, Kept

LEMMA LeaveWithOk ==
    ASSUME Inv, NEW r \in Rows, row[r].at = "leave"
    PROVE  LET w == row[r]
               l == LeaveWith(w)
           IN  /\ Kept(w, l) /\ l.at = "leave" /\ l.kind # "none" /\ WorkOk(l)
               /\ l.journal = "claimed" => w.journal = "claimed" /\ l.started = w.started
<1> DEFINE w == row[r]
           l == LeaveWith(w)
<1>1. WorkOk(w) /\ w.kind # "none"
    BY InService
<1>2. CASE l = w
    BY <1>1, <1>2 DEF Kept, Alters
<1>3. CASE w.journal = "open" /\ ~w.sent
           /\ l = [w EXCEPT !.claims = 1, !.journal = "sealed", !.handled = TRUE, !.ok = FALSE]
  <2> HIDE DEF l
  <2>1. Kept(w, l) /\ l.journal = "sealed" /\ l.at = "leave" /\ l.kind # "none"
    BY <1>1, <1>3, LeaveSealed
  <2> QED BY <2>1 DEF Kept, Alters, l
<1>4. CASE w.journal = "none" /\ ~w.sent /\ l = [w EXCEPT !.handled = TRUE, !.ok = FALSE]
  <2> HIDE DEF l
  <2>1. Kept(w, l) /\ l.journal = "none" /\ l.at = "leave" /\ l.kind # "none"
    BY <1>1, <1>4, LeaveHandled
  <2> QED BY <2>1 DEF Kept, Alters, l
<1> QED BY <1>2, <1>3, <1>4, LeaveWithIs

LEMMA CreatingFinite == IsFiniteSet(Creating) /\ Cardinality(Creating) \in Nat
<1>1. IsFiniteSet(1..MaxRows)
    BY FS_Interval, BudgetAssumption
<1>2. IsFiniteSet(Creating)
    BY <1>1, FS_Subset DEF Creating, Rows
<1> QED BY <1>2, FS_CardinalityType

LEMMA CreationEnds ==
    ASSUME NEW r \in Rows, row[r].creating, ~row'[r].creating,
           \A q \in Rows \ {r} : row'[q].creating = row[q].creating
    PROVE  Creating' = Creating \ {r} /\ Cardinality(Creating') = Cardinality(Creating) - 1
<1>1. Creating' = Creating \ {r} /\ r \in Creating
    BY DEF Creating
<1> QED BY <1>1, CreatingFinite, FS_RemoveElement

LEMMA LeaveKeeps == ASSUME Inv, NEW r \in Rows, Leave(r) PROVE Inv'
<1> DEFINE w == row[r]
           l == LeaveWith(w)
           u == IF l.kind = "binary" /\ l.owner = "live" THEN "ended" ELSE l.owner
           h == l.handled \/ l.creating \/ l.kind \in {"get", "binary"}
           n == [l EXCEPT !.at = "gone", !.creating = FALSE, !.owner = u, !.handled = h]
<1>1. /\ w.at = "leave" /\ Set(r, n)
      /\ pending' = pending - IF l.creating THEN 1 ELSE 0
      /\ IF l.creating \/ (l.kind = "get" /\ ~l.handled) THEN Unknown(l.sess) ELSE UNCHANGED <<inst, lost,
         sess>>
      /\ UNCHANGED <<phase, close, ledger, drain, faults>>
    BY DEF Leave
<1>2. /\ Kept(w, l) /\ l.at = "leave" /\ l.kind # "none" /\ WorkOk(l)
      /\ l.journal = "claimed" => w.journal = "claimed" /\ l.started = w.started
    BY <1>1, LeaveWithOk
<1> HIDE DEF l
<1>3. l.handled \in BOOLEAN /\ l.creating \in BOOLEAN /\ l.owner \in {"none", "live", "ended"}
    BY <1>2 DEF WorkOk, Works
<1>4. /\ h \in BOOLEAN /\ u \in {"none", "live", "ended"}
      /\ u = "live" => l.owner = "live"
      /\ l.owner = "live" /\ l.kind # "binary" => u = "live"
      /\ l.handled => h
    BY <1>3
<1>5. h /\ ~l.handled => l.kind # "call" /\ ~l.sent
    BY <1>2, <1>3 DEF WorkOk, HandedOver, Works
<1>6. Alters(l, n) /\ n.enqueued = l.enqueued /\ JournalKept(l, n) /\ ~n.creating
  <2> HIDE DEF u, h
  <2> QED BY <1>2, <1>4, <1>5, LeavesAsIs
<1> HIDE DEF n, u, h
<1>7. Alters(w, n) /\ LedgerWorse
    BY <1>1, <1>2, <1>6 DEF Alters, Kept, Over, LedgerWorse
<1>8. Becomes(r, n)
    BY <1>1, <1>2, <1>6, <1>7 DEF Becomes, Kept, JournalKept, Inv, ClaimsEnd
<1>9. l.sess = w.sess /\ l.creating = w.creating
    BY <1>2 DEF Kept, Alters
<1>10. SessKept
    BY <1>1, <1>9, SessLost, SessOf, SessSame, InstKept
<1>11. CASE ~l.creating
  <2>1. n.creating = w.creating
    <3>1. n.creating \in BOOLEAN
      BY <1>7 DEF Alters, WorkOk, Works
    <3> QED BY <1>3, <1>6, <1>9, <1>11, <3>1
  <2>2. pending' = pending
    BY <1>1, <1>11 DEF Inv, TypeOK
  <2> QED BY <1>1, <1>7, <1>8, <1>10, <2>1, <2>2, RowStep, FaultsAreNat
<1>12. CASE l.creating
  <2>1. /\ row' \in [Rows -> Works] /\ (\A q \in Rows : Becomes(q, row'[q]))
        /\ row'[r] = n /\ \A q \in Rows \ {r} : row'[q] = row[q]
    BY <1>1, <1>7, <1>8, SetBecomes
  <2>2. Cardinality(Creating') = Cardinality(Creating) - 1
    BY <1>6, <1>9, <1>12, <2>1, CreationEnds
  <2>3. Created' = Created /\ \A s \in Sessions : GoesOn(s) /\ NotOpened(s)
    BY <1>1, <1>10, SessGoesOn
  <2>4. pending' = pending - 1 /\ Cardinality(Created) \in Nat /\ pending \in Int
    BY <1>1, <1>12, FS_CardinalityType DEF Inv, Counted, TypeOK
  <2>5. Counted'
    BY <2>2, <2>3, <2>4, BudgetAssumption DEF Inv, Counted
  <2>6. TypeOK' /\ ServesOn
    BY <1>1, <1>10, <2>4 DEF Inv, TypeOK, SessKept, Insts, ServesOn, Stopped
  <2>7. RowsGoOn
    BY <2>1, <2>3, <2>6 DEF RowsGoOn
  <2> QED BY <2>3, <2>5, <2>7, RowsKeep, ClosesKept, HandshakenKept DEF Inv
<1> QED BY <1>3, <1>11, <1>12

-----------------------------------------------------------------------------
(* The steps of the handler.                                               *)

LEMMA RowIsAdmitted == ASSUME Inv, NEW r \in Rows, row[r].at # "idle" \/ row[r].thread # "none"
                                                   \/ row[r].child # "none" \/ row[r].owner # "none"
                       PROVE  WorkOk(row[r]) /\ row[r] \in Works /\ row[r].kind # "none"
<1>1. WorkOk(row[r]) /\ row[r] \in Works
    BY RowFields DEF Inv
<1>2. NoWork.thread = "none" /\ NoWork.child = "none" /\ NoWork.owner = "none"
    BY DEF NoWork
<1> QED BY <1>1, <1>2 DEF WorkOk

LEMMA SendRefusedKeeps == ASSUME Inv, NEW r \in Rows, SendRefused(r) PROVE Inv'
<1> DEFINE s == row[r].sess
<1>1. /\ row[r].at = "sdk" /\ Set(r, [row[r] EXCEPT !.at = "leave"]) /\ s # NoSession
      /\ UNCHANGED <<phase, close, pending, ledger, drain, faults>>
      /\ \/ UNCHANGED <<inst, lost, sess>>
         \/ /\ inst' = "UNKNOWN" /\ lost' = TRUE
            /\ sess' = [sess EXCEPT ![s].state = "UNKNOWN", ![s].error = TRUE]
    BY DEF SendRefused
<1>2. s \in Sessions /\ sess[s] \in SessTypes /\ sess[s].state # "none"
    BY <1>1, SessOf, InstKept DEF Created
<1>3. SessKept
  <2>1. CASE UNCHANGED <<inst, lost, sess>>
    BY <2>1, SessSame, InstKept
  <2>2. CASE inst' = "UNKNOWN" /\ lost' = TRUE
             /\ sess' = [sess EXCEPT ![s].state = "UNKNOWN", ![s].error = TRUE]
    <3>1. sess' = [sess EXCEPT ![s] = [sess[s] EXCEPT !.state = "UNKNOWN", !.error = TRUE]]
      BY <1>2, <2>2, InstKept
    <3>2. Sane(sess[s], [sess[s] EXCEPT !.state = "UNKNOWN", !.error = TRUE])
      BY <1>2, SaneError
    <3> QED BY <2>2, <3>1, <3>2, SessSet, InstKept
  <2> QED BY <1>1, <2>1, <2>2
<1> QED BY <1>1, <1>3, LeavesKeeps, FaultsAreNat

(* The message is with the SDK.                                            *)
LEMMA Sends ==
    ASSUME NEW w, WorkOk(w), w.at = "sdk", w.kind \notin {"get", "binary"}, w.sess # NoSession,
           NEW n, n = [w EXCEPT !.at = "reply", !.sent = TRUE]
    PROVE  Kept(w, n) /\ JournalKept(w, n)
BY DEF Works, WorkOk, HandedOver, Alters, Over, Kept, JournalKept

LEMMA SendKeeps == ASSUME Inv, NEW r \in Rows, Send(r) PROVE Inv'
<1> DEFINE n == [row[r] EXCEPT !.at = "reply", !.sent = TRUE]
<1>1. /\ row[r].at = "sdk" /\ row[r].kind \notin {"get", "binary"} /\ row[r].sess # NoSession /\ Set(r, n)
      /\ UNCHANGED <<phase, inst, lost, sess, close, pending, ledger, drain, faults>>
    BY DEF Send
<1>2. Kept(row[r], n) /\ JournalKept(row[r], n)
    BY <1>1, InService, Sends
<1> HIDE DEF n
<1> QED BY <1>1, <1>2, PlainStep, SessSame, InstKept, FaultsAreNat DEF LedgerWorse

LEMMA DispatchIs ==
    ASSUME NEW w, WorkOk(w), w.sent, ~w.started
    PROVE  LET new == Claimed([w EXCEPT !.started = TRUE])
           IN  \/ /\ w.journal = "none"
                  /\ new = [w EXCEPT !.started = TRUE, !.claims = 0, !.journal = "none",
                     !.owner = w.owner]
                  /\ Finished(new, "raised") = [w EXCEPT !.started = TRUE,
                     !.handled = TRUE, !.ok = FALSE]
               \/ /\ w.journal = "open"
                  /\ new = [w EXCEPT !.started = TRUE, !.claims = 1, !.journal = "claimed",
                     !.owner = w.owner]
                  /\ Finished(new, "raised") = [w EXCEPT !.started = TRUE, !.claims = 1,
                                                         !.journal = "sealed", !.handled = TRUE, !.ok = FALSE]
<1> DEFINE m == [w EXCEPT !.started = TRUE]
           c == [w EXCEPT !.started = TRUE, !.claims = 1, !.journal = "claimed"]
<1>1. w \in Works /\ w.claims = 0 /\ w.journal \in {"none", "open"}
    BY DEF WorkOk, HandedOver
<1>2. m \in Works /\ m.journal = w.journal /\ m.claims = 0
    BY <1>1 DEF Works
<1>3. CASE w.journal = "none"
  <2>1. Claimed(m) = m
    BY <1>2, <1>3, NotClaimed
  <2>2. m = [w EXCEPT !.started = TRUE, !.claims = 0, !.journal = "none", !.owner = w.owner]
    BY <1>1, <1>3 DEF Works
  <2>3. Finished(m, "raised") = [m EXCEPT !.handled = TRUE, !.ok = FALSE]
    <3> HIDE DEF m
    <3> QED BY <1>2, <1>3 DEF Finished, Works
  <2>4. [m EXCEPT !.handled = TRUE, !.ok = FALSE] = [w EXCEPT !.started = TRUE,
        !.handled = TRUE, !.ok = FALSE]
    BY <1>1 DEF Works
  <2> QED BY <1>3, <2>1, <2>2, <2>3, <2>4
<1>4. CASE w.journal = "open"
  <2>1. Claimed(m) = [m EXCEPT !.claims = 1, !.journal = "claimed"]
    BY <1>2, <1>4, ClaimedIs
  <2>2. [m EXCEPT !.claims = 1, !.journal = "claimed"] = c
    BY <1>1 DEF Works
  <2>3. c = [w EXCEPT !.started = TRUE, !.claims = 1, !.journal = "claimed",
        !.owner = w.owner]
    BY <1>1 DEF Works
  <2>4. c \in Works /\ c.journal = "claimed"
    BY <1>1 DEF Works
  <2>5. Finished(c, "raised") = [c EXCEPT !.handled = TRUE, !.ok = FALSE, !.journal = "sealed"]
    <3> HIDE DEF c
    <3> QED BY <2>4 DEF Finished, Works
  <2>6. [c EXCEPT !.handled = TRUE, !.ok = FALSE, !.journal = "sealed"]
         = [w EXCEPT !.started = TRUE, !.claims = 1, !.journal = "sealed",
         !.handled = TRUE, !.ok = FALSE]
    BY <1>1 DEF Works
  <2> QED BY <1>4, <2>1, <2>2, <2>3, <2>5, <2>6
<1> QED BY <1>1, <1>3, <1>4

LEMMA DispatchKeeps == ASSUME Inv, NEW r \in Rows, Dispatch(r) PROVE Inv'
<1> DEFINE w == row[r]
           new == Claimed([w EXCEPT !.started = TRUE])
           own == [new EXCEPT !.owner = "live"]
           fin == Finished(new, "raised")
<1>1. /\ w.sent /\ ~w.started /\ ~w.handled
      /\ UNCHANGED <<phase, close, pending, ledger, drain, faults>>
      /\ \/ Set(r, own) /\ UNCHANGED <<inst, lost, sess>>
         \/ Set(r, fin) /\ inst' \in {"DRAINING", inst} /\ UNCHANGED <<lost, sess>>
         \/ Set(r, new) /\ Unknown(new.sess)
    BY DEF Dispatch, Finish, Unstarted
<1>2. WorkOk(w) /\ w \in Works /\ w.kind # "none"
  <2>1. WorkOk(w) /\ w \in Works
    BY RowFields DEF Inv
  <2> QED BY <1>1, <2>1 DEF WorkOk, NoWork
<1>3. Kept(w, new) /\ new.started /\ new.sess = w.sess
  <2>1. CASE w.journal = "none"
             /\ new = [w EXCEPT !.started = TRUE, !.claims = 0, !.journal = "none",
                !.owner = w.owner]
    <3> HIDE DEF new
    <3>1. Kept(w, new) /\ new.started
      BY <1>1, <1>2, <2>1, Dispatched
    <3> QED BY <3>1 DEF Kept, Alters
  <2>2. CASE w.journal = "open"
             /\ new = [w EXCEPT !.started = TRUE, !.claims = 1, !.journal = "claimed",
                !.owner = w.owner]
    <3> HIDE DEF new
    <3>1. Kept(w, new) /\ new.started
      BY <1>1, <1>2, <2>2, Dispatched
    <3> QED BY <3>1 DEF Kept, Alters
  <2> QED BY <1>1, <1>2, <2>1, <2>2, DispatchIs
<1>4. Kept(w, own) /\ own.started
  <2>1. CASE w.journal = "none"
             /\ new = [w EXCEPT !.started = TRUE, !.claims = 0, !.journal = "none",
                !.owner = w.owner]
    <3> HIDE DEF new
    <3>1. own = [w EXCEPT !.started = TRUE, !.claims = 0, !.journal = "none",
          !.owner = "live"]
      BY <1>2, <2>1 DEF Works
    <3> HIDE DEF own
    <3> QED BY <1>1, <1>2, <2>1, <3>1, Dispatched
  <2>2. CASE w.journal = "open"
             /\ new = [w EXCEPT !.started = TRUE, !.claims = 1, !.journal = "claimed",
                !.owner = w.owner]
    <3> HIDE DEF new
    <3>1. own = [w EXCEPT !.started = TRUE, !.claims = 1, !.journal = "claimed",
          !.owner = "live"]
      BY <1>2, <2>2 DEF Works
    <3> HIDE DEF own
    <3> QED BY <1>1, <1>2, <2>2, <3>1, Dispatched
  <2> QED BY <1>1, <1>2, <2>1, <2>2, DispatchIs
<1>5. Kept(w, fin) /\ (fin.started \/ fin.journal = "none")
  <2>1. CASE w.journal = "none"
             /\ fin = [w EXCEPT !.started = TRUE, !.handled = TRUE, !.ok = FALSE]
    <3> HIDE DEF fin
    <3> QED BY <1>1, <1>2, <2>1, HandledThere
  <2>2. CASE w.journal = "open"
             /\ fin = [w EXCEPT !.started = TRUE, !.claims = 1, !.journal = "sealed",
                                                   !.handled = TRUE, !.ok = FALSE]
    <3> HIDE DEF fin
    <3> QED BY <1>1, <1>2, <2>2, DispatchSealed
  <2> QED BY <1>1, <1>2, <2>1, <2>2, DispatchIs
<1> HIDE DEF new, own, fin
<1>6. faults' \in Nat /\ LedgerWorse
    BY <1>1, FaultsAreNat DEF LedgerWorse
<1>7. CASE Set(r, own) /\ UNCHANGED <<inst, lost, sess>>
    BY <1>1, <1>4, <1>6, <1>7, KeptStep, SessSame, InstKept
<1>8. CASE Set(r, fin) /\ inst' \in {"DRAINING", inst} /\ UNCHANGED <<lost, sess>>
  <2>1. SessKept
    BY <1>8, SessSame, InstKept
  <2> QED BY <1>1, <1>5, <1>6, <1>8, <2>1, KeptStep
<1>9. CASE Set(r, new) /\ Unknown(new.sess)
    BY <1>1, <1>3, <1>6, <1>9, KeptStep, SessLost, SessOf
<1> QED BY <1>1, <1>7, <1>8, <1>9

(* A reply ends the wait of the request it answers.                        *)
LEMMA ConsumeResponseKeeps == ASSUME Inv, NEW r \in Rows, ConsumeResponse(r) PROVE Inv'
<1> DEFINE q == row[r].re
           n == [row[r] EXCEPT !.started = TRUE, !.handled = TRUE]
           m == [row[q] EXCEPT !.out = "over"]
<1>1. /\ row[r].sent /\ ~row[r].started /\ row[r].kind = "reply"
      /\ row' = [row EXCEPT ![r].started = TRUE, ![r].handled = TRUE, ![q].out = "over"]
      /\ UNCHANGED <<phase, inst, lost, sess, close, pending, ledger, drain, faults>>
    BY DEF ConsumeResponse, Unstarted
<1>2. WorkOk(row[r]) /\ row[r] \in Works /\ row \in [Rows -> Works]
    BY RowFields DEF Inv, RowsOk
<1>3. Kept(row[r], n) /\ n.journal = "none" /\ n.kind = "reply" /\ WorkOk(n)
  <2>1. Kept(row[r], n) /\ n.journal = "none"
    BY <1>1, <1>2, Consumes
  <2> HIDE DEF n
  <2> QED BY <1>1, <2>1 DEF Kept, Alters
<1>4. LedgerWorse /\ faults' \in Nat /\ SessKept
    BY <1>1, SessSame, InstKept, FaultsAreNat DEF LedgerWorse
<1>5. CASE q = r \/ q \notin Rows
  <2>1. \E k : Kept(row[r], k) /\ Set(r, k) /\ k.journal = "none"
    <3>1. CASE q \notin Rows
      <4>1. Set(r, n)
        BY <1>1, <1>2, <3>1 DEF Set
      <4> QED BY <1>3, <4>1
    <3>2. CASE q = r
      <4>1. Set(r, [n EXCEPT !.out = "over"])
        BY <1>1, <1>2, <3>2 DEF Set
      <4>2. Kept(n, [n EXCEPT !.out = "over"]) /\ JournalKept(n, [n EXCEPT !.out = "over"])
        <5> HIDE DEF n
        <5> QED BY <1>3, OutOver
      <4> HIDE DEF n
      <4>3. [n EXCEPT !.out = "over"].journal = "none"
        BY <1>3, <4>2 DEF JournalKept
      <4>4. Kept(row[r], [n EXCEPT !.out = "over"])
        BY <1>1, <1>3, <4>2 DEF Kept, Alters, Over
      <4> QED BY <4>1, <4>3, <4>4
    <3> QED BY <1>5, <3>1, <3>2
  <2> QED BY <1>1, <1>4, <2>1, KeptStep
<1>6. CASE q \in Rows \ {r}
  <2>1. row' \in [Rows -> Works] /\ row'[r] = n /\ row'[q] = m /\ \A p \in Rows \ {r, q} : row'[p] = row[p]
    <3>1. row' = [row EXCEPT ![r] = n, ![q] = m]
      BY <1>1, <1>2, <1>6
    <3>2. n \in Works
      BY <1>3 DEF WorkOk
    <3>3. m \in Works
      BY <1>2, <1>6 DEF Works
    <3> QED BY <1>2, <1>6, <3>1, <3>2, <3>3
  <2>2. Becomes(q, m) /\ m.creating = row[q].creating
    <3>1. WorkOk(row[q]) /\ row[q].kind # "none"
      BY <1>6, RowFields DEF Inv, Replies, NoRow, Rows
    <3>2. Kept(row[q], m) /\ JournalKept(row[q], m)
      BY <3>1, OutOver
    <3> HIDE DEF m
    <3> QED BY <1>4, <1>6, <3>2, ClaimStays DEF Kept, Becomes
  <2>3. Becomes(r, n) /\ n.creating = row[r].creating
    <3> HIDE DEF n
    <3> QED BY <1>3 DEF Kept, Becomes
  <2> HIDE DEF n, m
  <2>4. \A p \in Rows : Becomes(p, row'[p]) /\ row'[p].creating = row[p].creating
    BY <1>4, <2>1, <2>2, <2>3, Stays
  <2>5. TypeOK' /\ ServesOn /\ SameCreations
    BY <1>1, <2>4 DEF Inv, TypeOK, ServesOn, Stopped, SameCreations
  <2> QED BY <1>1, <1>4, <2>1, <2>4, <2>5, SessGoesOn, MildKeeps DEF Mild, RowsGoOn
<1> QED BY <1>5, <1>6

(* The instance drains, or the row goes on.                                *)
LEMMA DrainOrStep ==
    ASSUME Inv, NEW r \in Rows, NEW n, Kept(row[r], n), JournalKept(row[r], n),
           (inst' = "DRAINING" /\ UNCHANGED row) \/ (Set(r, n) /\ UNCHANGED inst),
           UNCHANGED <<phase, lost, sess, close, pending, ledger, drain, faults>>
    PROVE  Inv'
<1>1. SessKept /\ LedgerWorse /\ faults' \in Nat
    BY SessSame, InstKept, FaultsAreNat DEF LedgerWorse
<1>2. CASE inst' = "DRAINING" /\ UNCHANGED row
    BY <1>1, <1>2, SessionStep
<1>3. CASE Set(r, n)
    BY <1>1, <1>3, PlainStep
<1> QED BY <1>2, <1>3

LEMMA StartThreadKeeps == ASSUME Inv, NEW r \in Rows, StartThread(r) PROVE Inv'
<1> DEFINE n == [row[r] EXCEPT !.thread = "running"]
<1>1. /\ row[r].owner = "live"
      /\ (inst' = "DRAINING" /\ UNCHANGED row) \/ (Set(r, n) /\ UNCHANGED inst)
      /\ UNCHANGED <<phase, lost, sess, close, pending, ledger, drain, faults>>
    BY DEF StartThread
<1>2. Kept(row[r], n) /\ JournalKept(row[r], n)
    BY <1>1, RowIsAdmitted, StartsThread
<1> HIDE DEF n
<1> QED BY <1>1, <1>2, DrainOrStep

LEMMA ReserveChildKeeps == ASSUME Inv, NEW r \in Rows, ReserveChild(r) PROVE Inv'
<1> DEFINE n == [row[r] EXCEPT !.child = "reserved"]
<1>1. /\ row[r].thread = "running"
      /\ (inst' = "DRAINING" /\ UNCHANGED row) \/ (Set(r, n) /\ UNCHANGED inst)
      /\ UNCHANGED <<phase, lost, sess, close, pending, ledger, drain, faults>>
    BY DEF ReserveChild
<1>2. Kept(row[r], n) /\ JournalKept(row[r], n)
    BY <1>1, RowIsAdmitted, SetsChild
<1> HIDE DEF n
<1> QED BY <1>1, <1>2, DrainOrStep

LEMMA AskKeeps == ASSUME Inv, NEW r \in Rows, Ask(r) PROVE Inv'
<1> DEFINE n == [row[r] EXCEPT !.out = "waiting"]
<1>1. /\ row[r].owner = "live" /\ row[r].kind = "call"
      /\ (inst' = "DRAINING" /\ UNCHANGED row) \/ (Set(r, n) /\ UNCHANGED inst)
      /\ UNCHANGED <<phase, lost, sess, close, pending, ledger, drain, faults>>
    BY DEF Ask
<1>2. Kept(row[r], n) /\ JournalKept(row[r], n)
    BY <1>1, RowIsAdmitted, Asks
<1> HIDE DEF n
<1> QED BY <1>1, <1>2, DrainOrStep

LEMMA SpawnKeeps == ASSUME Inv, NEW r \in Rows, Spawn(r) PROVE Inv'
<1>1. PICK c \in {"live", "nospawn"} : Set(r, [row[r] EXCEPT !.child = c])
    BY DEF Spawn
<1> DEFINE n == [row[r] EXCEPT !.child = c]
<1>2. /\ row[r].thread = "running" /\ Set(r, n)
      /\ UNCHANGED <<phase, inst, lost, sess, close, pending, ledger, drain, faults>>
    BY <1>1 DEF Spawn
<1>3. Kept(row[r], n) /\ JournalKept(row[r], n)
    BY <1>2, RowIsAdmitted, SetsChild
<1> HIDE DEF n
<1> QED BY <1>2, <1>3, DrainOrStep

LEMMA PollChildKeeps == ASSUME Inv, NEW r \in Rows, PollChild(r) PROVE Inv'
<1>1. PICK c \in {"closed", "faulted"} : Set(r, [row[r] EXCEPT !.child = c])
    BY DEF PollChild
<1> DEFINE n == [row[r] EXCEPT !.child = c]
<1>2. /\ row[r].child = "live" /\ Set(r, n)
      /\ UNCHANGED <<inst, lost, sess>> \/ Unknown(row[r].sess)
      /\ UNCHANGED <<phase, close, pending, ledger, drain>> /\ faults' \in Nat
    BY <1>1, FaultsAreNat DEF PollChild
<1>3. Kept(row[r], n) /\ JournalKept(row[r], n)
    BY <1>2, RowIsAdmitted, SetsChild
<1> HIDE DEF n
<1>4. SessKept
    BY <1>2, SessSame, SessLost, SessOf, InstKept
<1> QED BY <1>2, <1>3, <1>4, PlainStep DEF LedgerWorse

LEMMA SaneGroup == ASSUME NEW v \in SessTypes PROVE Sane(v, [v EXCEPT !.group = "unknown", !.frozen = TRUE])
<1> DEFINE u == [v EXCEPT !.group = "unknown", !.frozen = TRUE]
<1>1. u \in SessTypes
    BY DEF SessTypes
<1>2. u.state = v.state /\ u.run = v.run
    BY DEF SessTypes
<1> QED BY <1>1, <1>2 DEF Sane

LEMMA ThreadJoinedKeeps == ASSUME Inv, NEW r \in Rows, ThreadJoined(r) PROVE Inv'
<1> DEFINE n == [row[r] EXCEPT !.thread = "joined"]
           s == row[r].sess
<1>1. /\ row[r].thread = "running" /\ Set(r, n)
      /\ UNCHANGED sess \/ sess' = [sess EXCEPT ![s].group = "unknown", ![s].frozen = TRUE]
      /\ UNCHANGED <<phase, inst, lost, close, pending, ledger, drain>> /\ faults' \in Nat
    BY FaultsAreNat DEF ThreadJoined
<1>2. Kept(row[r], n) /\ JournalKept(row[r], n)
    BY <1>1, RowIsAdmitted, JoinsThread
<1> HIDE DEF n
<1>3. SessKept
  <2>1. CASE sess' = [sess EXCEPT ![s].group = "unknown", ![s].frozen = TRUE]
    <3>1. sess' = [sess EXCEPT ![s] = [sess[s] EXCEPT !.group = "unknown", !.frozen = TRUE]]
      BY <2>1, InstKept
    <3> QED BY <1>1, <3>1, SaneGroup, SessSet, InstKept
  <2> QED BY <1>1, <2>1, SessSame, InstKept
<1> QED BY <1>1, <1>2, <1>3, PlainStep DEF LedgerWorse

LEMMA BusinessEndsKeeps == ASSUME Inv, NEW r \in Rows, BusinessEnds(r) PROVE Inv'
<1>1. PICK x \in {"returned", "raised"} :
         Set(r, [Finished(row[r], x) EXCEPT !.owner = "ended", !.out = IF @ = "waiting" THEN "over" ELSE @])
    BY DEF BusinessEnds
<1> DEFINE w == row[r]
           o == w.kind = "initialize" /\ x = "returned"
           j == IF w.journal = "none" THEN "none" ELSE "sealed"
           u == IF w.out = "waiting" THEN "over" ELSE w.out
           f == Finished(w, x)
           n == [w EXCEPT !.owner = "ended", !.journal = j, !.handled = TRUE, !.ok = o, !.out = u]
<1>2. /\ w.owner = "live" /\ w.kind # "binary" /\ ~w.handled
      /\ sess' = sess \/ sess' = [sess EXCEPT ![w.sess].ready = TRUE]
      /\ UNCHANGED <<phase, inst, lost, close, pending, ledger, drain, faults>>
    BY DEF BusinessEnds
<1>3. WorkOk(w) /\ w \in Works /\ w.kind # "none"
    BY <1>2, RowIsAdmitted
<1>4. o \in BOOLEAN /\ j \in {"none", "sealed"} /\ u \in {"none", "over"}
      /\ (j = "none" <=> w.journal = "none")
    BY <1>3 DEF Works
<1>5. f = [w EXCEPT !.journal = j, !.handled = TRUE, !.ok = o] /\ f.out = w.out
    BY <1>3 DEF Finished, Works
<1>6. [f EXCEPT !.owner = "ended", !.out = u] = n
  <2> HIDE DEF j, o, u, f
  <2> QED BY <1>3, <1>5 DEF Works
<1>7. Set(r, n)
    BY <1>1, <1>5, <1>6
<1> HIDE DEF o, j, u, f
<1>8. Kept(w, n) /\ n.journal # "claimed"
    BY <1>2, <1>3, <1>4, Ended
<1> HIDE DEF n
<1>9. SessKept
    BY <1>2, SessReady
<1> QED BY <1>2, <1>7, <1>8, <1>9, KeptStep, FaultsAreNat DEF LedgerWorse

LEMMA BusinessFailsKeeps == ASSUME Inv, NEW r \in Rows, BusinessFails(r) PROVE Inv'
<1> DEFINE w == row[r]
           u == IF w.out = "waiting" THEN "over" ELSE w.out
           n == [w EXCEPT !.owner = "ended", !.out = u]
<1>1. /\ w.owner = "live" /\ ~w.handled /\ Set(r, n) /\ Unknown(w.sess) /\ LedgerWorse
      /\ UNCHANGED <<phase, close, pending, drain>> /\ faults' \in Nat
    BY FaultsAreNat DEF BusinessFails, LedgerWorse
<1>2. WorkOk(w) /\ w \in Works /\ w.kind # "none"
    BY <1>1, RowIsAdmitted
<1>3. u \in {"none", "over"}
    BY <1>2 DEF Works
<1> HIDE DEF u
<1>4. Kept(w, n) /\ JournalKept(w, n)
    BY <1>1, <1>2, <1>3, EndFails
<1> HIDE DEF n
<1> QED BY <1>1, <1>4, PlainStep, SessLost, SessOf

LEMMA BinaryEndsKeeps == ASSUME Inv, NEW r \in Rows, BinaryEnds(r) PROVE Inv'
<1> DEFINE w == row[r]
           o == w.ok
           n == [w EXCEPT !.at = "leave", !.handled = TRUE, !.ok = o]
<1>1. /\ w.at = "sdk" /\ w.kind = "binary" /\ Set(r, Answer(w))
      /\ UNCHANGED <<phase, inst, lost, sess, close, pending, ledger, drain, faults>>
    BY DEF BinaryEnds
<1>2. WorkOk(w) /\ w \in Works /\ w.journal = "none" /\ ~w.sent /\ w.kind # "none" /\ o \in BOOLEAN
    BY <1>1, InService DEF WorkOk, HandedOver, Works
<1>3. Answer(w) = n
    BY <1>2 DEF Answer, Works
<1> HIDE DEF o
<1>4. Kept(w, n) /\ n.journal = "none"
    BY <1>1, <1>2, Handled
<1>5. Set(r, n)
    BY <1>1, <1>3
<1> HIDE DEF n
<1> QED BY <1>1, <1>4, <1>5, KeptStep, SessSame, InstKept, FaultsAreNat DEF LedgerWorse

(* initialize creates its session.                                         *)
LEMMA CreatedRow ==
    ASSUME NEW w, WorkOk(w), w.at = "sdk", w.kind = "initialize", w.sess = NoSession, NEW s \in Sessions,
           NEW n, n = [w EXCEPT !.sess = s, !.creating = FALSE]
    PROVE  /\ WorkOk(n) /\ n.sess = s /\ ~n.creating /\ n.kind = "initialize" /\ n.at = "sdk"
           /\ n.id = w.id /\ n.re = w.re /\ n.enqueued = w.enqueued /\ n.journal = "none"
              /\ n.handled = w.handled
<1>1. w \in Works /\ NoSession \notin Sessions
    BY BudgetAssumption DEF WorkOk
<1>2. n \in Works
    BY <1>1 DEF Works
<1>3. n.sess = s /\ n.creating = FALSE
    BY <1>1 DEF Works
<1>4. n.at = w.at /\ n.kind = w.kind /\ n.id = w.id /\ n.re = w.re /\ n.enqueued = w.enqueued
      /\ n.sent = w.sent
    BY <1>1 DEF Works
<1>5. n.started = w.started /\ n.handled = w.handled /\ n.journal = w.journal /\ n.claims = w.claims
    BY <1>1 DEF Works
<1>6. n.owner = w.owner /\ n.thread = w.thread /\ n.child = w.child /\ n.out = w.out
    BY <1>1 DEF Works
<1> QED BY <1>1, <1>2, <1>3, <1>4, <1>5, <1>6 DEF WorkOk, HandedOver

LEMMA CreateKeeps == ASSUME Inv, NEW r \in Rows, Create(r) PROVE Inv'
<1> DEFINE w == row[r]
<1>1. PICK s \in Sessions \ Created :
         /\ sess' = [sess EXCEPT ![s].state = "PENDING", ![s].run = "live"]
         /\ Set(r, [w EXCEPT !.sess = s, !.creating = FALSE])
    BY DEF Create
<1> DEFINE n == [w EXCEPT !.sess = s, !.creating = FALSE]
<1>2. /\ w.at = "sdk" /\ w.kind = "initialize" /\ w.sess = NoSession /\ pending' = pending - 1
      /\ UNCHANGED <<phase, inst, lost, close, ledger, drain, faults>>
    BY DEF Create
<1>3. WorkOk(w) /\ w.creating /\ s \in Sessions /\ sess[s].state = "none" /\ NoSession \notin Sessions
    BY <1>1, <1>2, InService, BudgetAssumption DEF WorkOk, Created
<1>4. /\ WorkOk(n) /\ n.sess = s /\ ~n.creating /\ n.kind = "initialize" /\ n.at = "sdk"
      /\ n.id = w.id /\ n.re = w.re /\ n.enqueued = w.enqueued /\ n.journal = "none" /\ n.handled = w.handled
    BY <1>2, <1>3, CreatedRow
<1>5. row \in [Rows -> Works] /\ sess \in [Sessions -> SessTypes]
    BY DEF Inv, RowsOk, TypeOK
<1>6. row' = [row EXCEPT ![r] = n]
    BY <1>1 DEF Set
<1> HIDE DEF n
<1>7. row' \in [Rows -> Works] /\ row'[r] = n /\ \A q \in Rows \ {r} : row'[q] = row[q]
    BY <1>4, <1>5, <1>6 DEF WorkOk
<1>8. /\ \A x \in Sessions \ {s} : sess'[x] = sess[x]
      /\ sess'[s] = [sess[s] EXCEPT !.state = "PENDING", !.run = "live"]
      /\ sess' = [sess EXCEPT ![s] = [sess[s] EXCEPT !.state = "PENDING", !.run = "live"]]
    BY <1>1, <1>3, <1>5
<1>9. sess'[s] \in SessTypes /\ sess'[s].state = "PENDING"
  <2>1. sess[s] \in SessTypes
    BY <1>3, <1>5
  <2>2. [sess[s] EXCEPT !.state = "PENDING", !.run = "live"] \in SessTypes
    BY <2>1 DEF SessTypes
  <2>3. [sess[s] EXCEPT !.state = "PENDING", !.run = "live"].state = "PENDING"
    BY <2>1 DEF SessTypes
  <2> QED BY <1>8, <2>2, <2>3
<1>10. sess' \in [Sessions -> SessTypes]
  <2>1. \A x \in Sessions : sess'[x] \in SessTypes
    BY <1>5, <1>8, <1>9
  <2> QED BY <1>1, <1>5, <2>1
<1>11. Created' = Created \cup {s}
  <2>1. \A x \in Sessions \ {s} : sess'[x] = sess[x]
    BY <1>8
  <2>2. s \in Sessions /\ sess'[s].state # "none"
    BY <1>3, <1>9
  <2> QED BY <2>1, <2>2 DEF Created
<1>12. TypeOK' /\ RowsOk'
  <2>1. TypeOK'
    BY <1>2, <1>10 DEF Inv, TypeOK
  <2>2. RowsOk'
    BY <1>4, <1>7 DEF Inv, RowsOk
  <2> QED BY <2>1, <2>2
<1>13. \A q \in Rows : row[q].sess # s
    BY <1>3, SessOf DEF Created
<1>14. Numbered' /\ Owned' /\ Replies' /\ Serves' /\ ClaimsEnd'
  <2>1. Admitted' = Admitted
    BY <1>2, <1>4, <1>7 DEF Admitted
  <2>2. Numbered'
    BY <2>1 DEF Inv, Numbered
  <2>3. Owned'
    BY <1>4, <1>7, <1>11 DEF Inv, Owned
  <2>4. Replies'
    BY <1>2, <1>4, <1>7 DEF Inv, Replies
  <2>5. Serves'
    BY <1>2, <1>7 DEF Inv, Serves, Stopped, Resolved
  <2>6. ClaimsEnd'
    BY <1>2, <1>4, <1>7 DEF Inv, ClaimsEnd
  <2> QED BY <2>2, <2>3, <2>4, <2>5, <2>6
<1>15. Ordered'
  <2> SUFFICES ASSUME NEW p \in Rows, NEW q \in Rows, q < p, Clash(row'[q], row'[p]), row'[p].enqueued
               PROVE  row'[q].at = "gone" /\ row'[q].handled
    BY DEF Ordered, Clash, Left
  <2>1. p # r /\ q # r
    BY <1>4, <1>7, <1>13 DEF Clash, Rows
  <2> QED BY <1>7, <2>1 DEF Inv, Ordered, Left
<1>16. OneInitialize'
    BY <1>4, <1>7, <1>13 DEF Inv, OneInitialize, Initializes
<1>17. close[s].at = "no"
    BY <1>3 DEF Inv, Closes
<1>18. Handshaken'
  <2> SUFFICES ASSUME NEW x \in Sessions, sess'[x].state = "OPEN" \/ close'[x].at # "no",
                      NEW q \in Rows, row'[q].kind = "initialize", row'[q].sess = x
               PROVE  row'[q].at \in {"leave", "gone"}
    BY DEF Handshaken, Initializes
  <2>1. x # s
    BY <1>2, <1>9, <1>17
  <2>2. sess'[x] = sess[x] /\ row'[q] = row[q]
    BY <1>4, <1>7, <1>8, <2>1
  <2> QED BY <1>2, <2>2 DEF Inv, Handshaken, Initializes
<1>19. ASSUME NEW x \in Sessions PROVE Closes(x)'
  <2>1. Closes(x)
    BY DEF Inv
  <2>2. CASE x = s
    BY <1>2, <1>9, <1>17, <2>2 DEF Closes
  <2>3. CASE x # s
    BY <1>2, <1>4, <1>7, <1>8, <2>1, <2>3 DEF Closes
  <2> QED BY <2>2, <2>3
<1>20. Counted'
  <2>1. Cardinality(Creating') = Cardinality(Creating) - 1
    BY <1>3, <1>4, <1>7, CreationEnds
  <2>2. IsFiniteSet(Created') /\ Cardinality(Created') = Cardinality(Created) + 1
    BY <1>1, <1>11, FS_AddElement DEF Inv, Counted
  <2>3. pending \in Int /\ Cardinality(Created) \in Nat /\ pending = Cardinality(Creating)
        /\ Cardinality(Created) + pending <= MaxSessions
    BY FS_CardinalityType DEF Inv, TypeOK, Counted
  <2> QED BY <1>2, <2>1, <2>2, <2>3, BudgetAssumption DEF Counted
<1> QED BY <1>12, <1>14, <1>15, <1>16, <1>18, <1>19, <1>20 DEF Inv

-----------------------------------------------------------------------------
(* The closes and the service.                                             *)

(* A step of the sessions, the closes and the service.                     *)
LEMMA QuietStep ==
    ASSUME Inv, UNCHANGED <<row, pending>>, LedgerWorse, TypeOK', ServesOn, Created' = Created,
           \A s \in Sessions : GoesOn(s) /\ NotOpened(s)
    PROVE  Inv'
BY RowsStay, MildKeeps DEF Mild, RowsGoOn, SameCreations

LEMMA StillServes == ASSUME Inv, LedgerWorse, UNCHANGED <<phase, drain>> PROVE ServesOn
BY DEF ServesOn, Stopped, LedgerWorse

(* A close goes on behind its barrier, without publishing.                 *)
LEMMA CloseStep ==
    ASSUME Inv, NEW s \in Sessions, NEW c \in CloseTypes, close' = [close EXCEPT ![s] = c],
           UNCHANGED <<row, pending, phase, drain>>, LedgerWorse, SessKept, faults' \in Nat,
           c.at = close[s].at \/ (close[s].at # "no" /\ c.at = "done"),
           close[s].export = "issued" => c.export = "issued"
    PROVE  Inv'
<1>1. close \in [Sessions -> CloseTypes]
    BY DEF Inv, TypeOK
<1>2. close' \in [Sessions -> CloseTypes] /\ \A x \in Sessions : close'[x] = IF x = s THEN c ELSE close[x]
    BY <1>1
<1>3. TypeOK'
    BY <1>2 DEF Inv, TypeOK, SessKept, Insts, LedgerWorse
<1>4. \A x \in Sessions : Sane(sess[x], sess'[x]) /\ sess[x] \in SessTypes
    BY DEF SessKept, Inv, TypeOK
<1>5. Created' = Created
    BY <1>4 DEF Created, Sane
<1>6. ASSUME NEW x \in Sessions PROVE GoesOn(x) /\ NotOpened(x)
    BY <1>2, <1>4 DEF GoesOn, NotOpened, Sane
<1> QED BY <1>3, <1>5, <1>6, QuietStep, StillServes

(* A close of which only the export changes.                               *)
LEMMA ExportStep ==
    ASSUME Inv, NEW s \in Sessions, NEW e \in {"start", "writing", "checked", "issued", "failed"},
           close' = [close EXCEPT ![s].export = e], close[s].export # "issued",
           UNCHANGED <<phase, inst, lost, sess, row, pending, drain, faults>>, LedgerWorse
    PROVE  Inv'
<1> DEFINE c == [close[s] EXCEPT !.export = e]
<1>1. close[s] \in CloseTypes /\ close \in [Sessions -> CloseTypes]
    BY DEF Inv, TypeOK
<1>2. c \in CloseTypes /\ c.at = close[s].at
    BY <1>1 DEF CloseTypes
<1>3. close' = [close EXCEPT ![s] = c]
    BY <1>1
<1>4. SessKept /\ faults' \in Nat
    BY SessSame, InstKept, FaultsAreNat
<1> HIDE DEF c
<1> QED BY <1>2, <1>3, <1>4, CloseStep

LEMMA PublishKeeps ==
    ASSUME Inv, NEW s \in Sessions,
           PublishStart(s) \/ PublishCheck(s) \/ PublishFails(s) \/ PublishIssue(s)
    PROVE  Inv'
BY ExportStep DEF PublishStart, PublishCheck, PublishFails, PublishIssue, LedgerWorse

LEMMA CollectKeeps == ASSUME Inv, NEW s \in Sessions, Collect(s) PROVE Inv'
<1>1. PICK p \in {"ok", "failed"} : close' = [close EXCEPT ![s].prefix = p]
    BY DEF Collect
<1> DEFINE c == [close[s] EXCEPT !.prefix = p]
<1>2. close[s] \in CloseTypes /\ close \in [Sessions -> CloseTypes]
    BY DEF Inv, TypeOK
<1>3. c \in CloseTypes /\ c.at = close[s].at /\ c.export = close[s].export
    BY <1>2 DEF CloseTypes
<1>4. close' = [close EXCEPT ![s] = c]
    BY <1>1, <1>2
<1>5. LedgerWorse /\ faults' \in Nat /\ UNCHANGED <<phase, inst, lost, sess, row, pending, drain>>
    BY FaultsAreNat DEF Collect, LedgerWorse
<1>6. SessKept
    BY <1>5, SessSame, InstKept
<1> HIDE DEF c
<1> QED BY <1>3, <1>4, <1>5, <1>6, CloseStep

LEMMA CloseDone ==
    ASSUME Inv, NEW s \in Sessions, close' = [close EXCEPT ![s].at = "done"], close[s].at # "no", SessKept,
           UNCHANGED <<phase, row, pending, ledger, drain, faults>>
    PROVE  Inv'
<1> DEFINE c == [close[s] EXCEPT !.at = "done"]
<1>1. close[s] \in CloseTypes /\ close \in [Sessions -> CloseTypes]
    BY DEF Inv, TypeOK
<1>2. c \in CloseTypes /\ c.at = "done" /\ c.export = close[s].export
    BY <1>1 DEF CloseTypes
<1>3. close' = [close EXCEPT ![s] = c]
    BY <1>1
<1> HIDE DEF c
<1> QED BY <1>2, <1>3, CloseStep, FaultsAreNat DEF LedgerWorse

LEMMA IsCreated == ASSUME Inv, NEW s \in Sessions, close[s].at # "no" PROVE s \in Created
BY DEF Inv, Closes, Created

LEMMA BarrierFailsKeeps == ASSUME Inv, NEW s \in Sessions, BarrierFails(s) PROVE Inv'
<1>1. s \in Created /\ sess[s] \in SessTypes /\ sess[s].state # "none"
    BY IsCreated, InstKept DEF BarrierFails, Created
<1>2. sess' = [sess EXCEPT ![s] = [sess[s] EXCEPT !.state = "UNKNOWN"]] /\ inst' \in Insts
      /\ lost' \in BOOLEAN
    BY InstKept DEF BarrierFails
<1>3. SessKept
    BY <1>1, <1>2, SaneUnknown, SessSet
<1> QED BY <1>3, CloseDone DEF BarrierFails

LEMMA CloseFailsKeeps == ASSUME Inv, NEW s \in Sessions, CloseFails(s) PROVE Inv'
BY CloseDone, SessLost, IsCreated DEF CloseFails

LEMMA SaneTerm == ASSUME NEW v \in SessTypes PROVE Sane(v, [v EXCEPT !.term = "done"])
<1> DEFINE u == [v EXCEPT !.term = "done"]
<1>1. u \in SessTypes
    BY DEF SessTypes
<1>2. u.state = v.state /\ u.run = v.run
    BY DEF SessTypes
<1> QED BY <1>1, <1>2 DEF Sane

LEMMA SaneRun == ASSUME NEW v \in SessTypes PROVE Sane(v, [v EXCEPT !.run = "exited"])
<1> DEFINE u == [v EXCEPT !.run = "exited"]
<1>1. u \in SessTypes
    BY DEF SessTypes
<1>2. u.state = v.state /\ u.run = "exited"
    BY DEF SessTypes
<1> QED BY <1>1, <1>2 DEF Sane

LEMMA TerminateKeeps == ASSUME Inv, NEW s \in Sessions, Terminate(s) PROVE Inv'
<1>1. sess' = [sess EXCEPT ![s] = [sess[s] EXCEPT !.term = "done"]] /\ sess[s] \in SessTypes
      /\ UNCHANGED <<phase, inst, lost, row, close, pending, ledger, drain, faults>>
    BY InstKept DEF Terminate
<1>2. SessKept
    BY <1>1, SaneTerm, SessSet, InstKept
<1> QED BY <1>1, <1>2, SessionStep, FaultsAreNat DEF LedgerWorse

LEMMA RunnerExitsKeeps == ASSUME Inv, NEW s \in Sessions, RunnerExits(s) PROVE Inv'
<1>1. sess' = [sess EXCEPT ![s] = [sess[s] EXCEPT !.run = "exited"]] /\ sess[s] \in SessTypes
      /\ UNCHANGED <<phase, inst, lost, row, close, pending, ledger, drain, faults>>
    BY InstKept DEF RunnerExits
<1>2. SessKept
    BY <1>1, SaneRun, SessSet, InstKept
<1> QED BY <1>1, <1>2, SessionStep, FaultsAreNat DEF LedgerWorse

LEMMA SdkFaultKeeps == ASSUME Inv, NEW s \in Sessions, SdkFault(s) PROVE Inv'
<1>1. sess' = [sess EXCEPT ![s] = [sess[s] EXCEPT !.state = "UNKNOWN", !.error = TRUE]]
      /\ sess[s] \in SessTypes
      /\ sess[s].state # "none" /\ inst' = "UNKNOWN" /\ lost' = TRUE /\ faults' \in Nat
      /\ UNCHANGED <<phase, row, close, pending, ledger, drain>>
    BY InstKept, FaultsAreNat DEF SdkFault, Created
<1>2. SessKept
    BY <1>1, SaneError, SessSet, InstKept
<1> QED BY <1>1, <1>2, SessionStep DEF LedgerWorse

(* The close starts: what was not handed over is cancelled.                *)
LEMMA CloseSessionKeeps == ASSUME Inv, NEW s \in Sessions, CloseSession(s) PROVE Inv'
<1> DEFINE u == [sess[s] EXCEPT !.state = "CLOSING", !.frozen = TRUE]
           c == [close[s] EXCEPT !.at = "barrier"]
<1>1. /\ sess[s].state = "OPEN"
      /\ row' = [r \in Rows |-> IF r \in Of(s)
         /\ ~row[r].enqueued THEN [row[r] EXCEPT !.cancelled = TRUE] ELSE row[r]]
      /\ UNCHANGED <<phase, inst, lost, pending, ledger, drain, faults>>
    BY DEF CloseSession
<1>2. sess[s] \in SessTypes /\ close[s] \in CloseTypes /\ sess \in [Sessions -> SessTypes]
      /\ close \in [Sessions -> CloseTypes]
    BY DEF Inv, TypeOK
<1>3. sess' = [sess EXCEPT ![s] = u] /\ close' = [close EXCEPT ![s] = c]
    BY <1>2 DEF CloseSession
<1>4. u \in SessTypes /\ u.state = "CLOSING" /\ u.run = sess[s].run
  <2>1. u \in SessTypes
    BY <1>2 DEF SessTypes
  <2>2. u.state = "CLOSING" /\ u.run = sess[s].run
    BY <1>2 DEF SessTypes
  <2> QED BY <2>1, <2>2
<1>5. c \in CloseTypes /\ c.at = "barrier" /\ c.export = close[s].export
    BY <1>2 DEF CloseTypes
<1> HIDE DEF u, c
<1>6. sess' \in [Sessions -> SessTypes] /\ close' \in [Sessions -> CloseTypes]
    BY <1>2, <1>3, <1>4, <1>5
<1>7. \A x \in Sessions : /\ sess'[x] = IF x = s THEN u ELSE sess[x]
                          /\ close'[x] = IF x = s THEN c ELSE close[x]
    BY <1>2, <1>3
<1>8. ASSUME NEW r \in Rows PROVE Becomes(r, row'[r]) /\ row'[r].creating = row[r].creating
             /\ row'[r] \in Works
  <2>1. LedgerWorse
    BY <1>1 DEF LedgerWorse
  <2>2. CASE row'[r] = row[r]
    BY <2>1, <2>2, Stays, RowFields DEF Inv
  <2>3. CASE row[r].kind # "none" /\ row'[r] = [row[r] EXCEPT !.cancelled = TRUE]
    <3>1. Kept(row[r], row'[r]) /\ JournalKept(row[r], row'[r])
      BY <2>3, Cancels, RowFields DEF Inv
    <3> QED BY <2>1, <3>1, ClaimStays DEF Becomes, Kept, Alters, WorkOk
  <2> QED BY <1>1, <2>2, <2>3 DEF Of, Admitted
<1>9. row' \in [Rows -> Works]
    BY <1>1, <1>8
<1>10. TypeOK' /\ ServesOn /\ SameCreations
    BY <1>1, <1>6, <1>8 DEF Inv, TypeOK, ServesOn, Stopped, SameCreations
<1>11. Created' = Created
    BY <1>1, <1>4, <1>7 DEF Created
<1>12. ASSUME NEW x \in Sessions PROVE GoesOn(x) /\ NotOpened(x)
  <2>1. close[s].at = "no"
    BY <1>1 DEF Inv, Closes
  <2> QED BY <1>1, <1>4, <1>5, <1>7, <2>1 DEF GoesOn, NotOpened
<1> QED BY <1>8, <1>9, <1>10, <1>11, <1>12, MildKeeps DEF Mild, RowsGoOn

(* A close goes past its barrier.                                          *)
LEMMA CloseOnly ==
    ASSUME Inv, NEW s \in Sessions, NEW c \in CloseTypes, close' = [close EXCEPT ![s] = c],
           NEW u \in SessTypes, sess' = [sess EXCEPT ![s] = u], u.state # "none", u.state # "OPEN",
           UNCHANGED <<row, pending, phase, inst, lost, ledger, drain, faults>>,
           close[s].at # "no", Closes(s)'
    PROVE  Inv'
<1>1. close \in [Sessions -> CloseTypes] /\ sess \in [Sessions -> SessTypes]
    BY DEF Inv, TypeOK
<1>2. /\ close' \in [Sessions -> CloseTypes] /\ close'[s] = c /\ sess' \in [Sessions -> SessTypes]
         /\ sess'[s] = u
      /\ \A x \in Sessions \ {s} : close'[x] = close[x] /\ sess'[x] = sess[x]
    BY <1>1
<1>3. TypeOK' /\ ServesOn /\ SameCreations
    BY <1>2 DEF Inv, TypeOK, ServesOn, Stopped, SameCreations
<1>4. Created' = Created
  <2>1. sess[s].state # "none"
    BY IsCreated DEF Created
  <2> QED BY <1>2, <2>1 DEF Created
<1>5. RowsGoOn
    BY <1>3, <1>4, RowsStay DEF RowsGoOn, LedgerWorse
<1>6. \A x \in Sessions : NotOpened(x)
    BY <1>2 DEF NotOpened
<1>7. ASSUME NEW x \in Sessions PROVE Closes(x)'
  <2>1. CASE x = s
    BY <2>1
  <2>2. CASE x # s
    BY <1>2, <2>2 DEF Inv, Closes
  <2> QED BY <2>1, <2>2
<1> QED BY <1>3, <1>4, <1>5, <1>6, <1>7, RowsKeep, HandshakenKept, CountedKept DEF Inv

(* What the barrier sees is over, and stays so.                            *)
LEMMA RowsAreOver ==
    ASSUME Inv, NEW s \in Sessions, RowsDone(s), Quiescent(s),
           \A r \in Of(s) : row[r].child \in {"none", "nospawn", "closed"}
    PROVE  \A r \in Rows : row[r].sess = s => Over(row[r])
<1> SUFFICES ASSUME NEW r \in Rows, row[r].sess = s PROVE Over(row[r])
    OBVIOUS
<1>1. r \in Of(s)
  <2>1. NoWork.sess = NoSession /\ NoSession \notin Sessions /\ WorkOk(row[r])
    BY BudgetAssumption, RowFields DEF NoWork, Inv
  <2> QED BY <2>1 DEF Of, Admitted, WorkOk
<1> QED BY <1>1 DEF RowsDone, Quiescent, Over, Left, Busy

LEMMA BarrierKeeps == ASSUME Inv, NEW s \in Sessions, Barrier(s) PROVE Inv'
<1> DEFINE c == [close[s] EXCEPT !.at = "prefix", !.prefix = "running"]
<1>1. /\ close[s].at = "barrier" /\ sess[s].state # "UNKNOWN" /\ sess[s].run = "exited"
      /\ UNCHANGED <<phase, inst, lost, sess, row, pending, ledger, drain, faults>>
    BY DEF Barrier, KnownClosed
<1>2. close[s] \in CloseTypes /\ sess[s] \in SessTypes /\ sess \in [Sessions -> SessTypes]
      /\ close \in [Sessions -> CloseTypes]
    BY DEF Inv, TypeOK
<1>3. close' = [close EXCEPT ![s] = c] /\ sess' = [sess EXCEPT ![s] = sess[s]]
    BY <1>1, <1>2 DEF Barrier
<1>4. c \in CloseTypes /\ c.at = "prefix" /\ c.export = close[s].export
    BY <1>2 DEF CloseTypes
<1> HIDE DEF c
<1>5. \A r \in Rows : row[r].sess = s => Over(row[r])
    BY RowsAreOver DEF Barrier, ChildrenClosed
<1>6. sess[s].state = "CLOSING"
    BY <1>1 DEF Inv, Closes
<1>7. close'[s] = c
    BY <1>2, <1>3
<1>8. Closes(s)'
    BY <1>1, <1>4, <1>5, <1>6, <1>7 DEF Closes
<1> QED BY <1>1, <1>2, <1>3, <1>4, <1>6, <1>8, CloseOnly

LEMMA PrefixJoinedKeeps == ASSUME Inv, NEW s \in Sessions, PrefixJoined(s) PROVE Inv'
<1> DEFINE c == [close[s] EXCEPT !.at = "export", !.export = "start"]
<1>1. /\ close[s].at = "prefix" /\ sess[s].run = "exited"
      /\ UNCHANGED <<phase, inst, lost, sess, row, pending, ledger, drain, faults>>
    BY DEF PrefixJoined, Lifecycle, KnownClosed
<1>2. close[s] \in CloseTypes /\ sess[s] \in SessTypes /\ sess \in [Sessions -> SessTypes]
      /\ close \in [Sessions -> CloseTypes]
    BY DEF Inv, TypeOK
<1>3. close' = [close EXCEPT ![s] = c] /\ sess' = [sess EXCEPT ![s] = sess[s]]
    BY <1>1, <1>2 DEF PrefixJoined
<1>4. c \in CloseTypes /\ c.at = "export"
    BY <1>2 DEF CloseTypes
<1> HIDE DEF c
<1>5. \A r \in Rows : row[r].sess = s => Over(row[r])
    BY <1>1 DEF Inv, Closes
<1>6. \A r \in Rows : row[r].sess = s => row[r].child # "nospawn"
  <2>1. NoWork.sess = NoSession /\ NoSession \notin Sessions /\ \A r \in Rows : WorkOk(row[r])
    BY BudgetAssumption, RowFields DEF NoWork, Inv
  <2>2. \A r \in Rows : row[r].sess = s => r \in Of(s)
    BY <2>1 DEF Of, Admitted, WorkOk
  <2> QED BY <2>2 DEF PrefixJoined, Lifecycle
<1>7. sess[s].state \in {"CLOSING", "UNKNOWN"}
    BY <1>1 DEF Inv, Closes
<1>8. close'[s] = c
    BY <1>2, <1>3
<1>9. Closes(s)'
    BY <1>1, <1>4, <1>5, <1>6, <1>7, <1>8 DEF Closes
<1> QED BY <1>1, <1>2, <1>3, <1>4, <1>7, <1>9, CloseOnly

LEMMA ClosedKeeps == ASSUME Inv, NEW s \in Sessions, Closed(s) PROVE Inv'
<1> DEFINE c == [close[s] EXCEPT !.at = "done", !.cut = TRUE]
           u == [sess[s] EXCEPT !.state = "CLOSED"]
<1>1. /\ close[s].at = "export" /\ close[s].export = "issued"
      /\ UNCHANGED <<phase, inst, lost, row, pending, ledger, drain, faults>>
    BY DEF Closed
<1>2. close[s] \in CloseTypes /\ sess[s] \in SessTypes /\ sess \in [Sessions -> SessTypes]
      /\ close \in [Sessions -> CloseTypes]
    BY DEF Inv, TypeOK
<1>3. close' = [close EXCEPT ![s] = c] /\ sess' = [sess EXCEPT ![s] = u]
    BY <1>2 DEF Closed
<1>4. c \in CloseTypes /\ c.at = "done" /\ c.export = "issued"
    BY <1>1, <1>2 DEF CloseTypes
<1>5. u \in SessTypes /\ u.state = "CLOSED" /\ u.run = sess[s].run
  <2>1. u \in SessTypes
    BY <1>2 DEF SessTypes
  <2>2. u.state = "CLOSED" /\ u.run = sess[s].run
    BY <1>2 DEF SessTypes
  <2> QED BY <2>1, <2>2
<1> HIDE DEF c, u
<1>6. sess[s].run = "exited" /\ \A r \in Rows : row[r].sess = s => Over(row[r]) /\ row[r].child # "nospawn"
    BY <1>1 DEF Inv, Closes
<1>7. close'[s] = c /\ sess'[s] = u
    BY <1>2, <1>3
<1>8. Closes(s)'
    BY <1>1, <1>4, <1>5, <1>6, <1>7 DEF Closes
<1> QED BY <1>1, <1>3, <1>4, <1>5, <1>8, CloseOnly

LEMMA ShutKeeps == ASSUME Inv, NEW s \in Sessions, Shut(s) PROVE Inv'
BY CloseSessionKeeps, TerminateKeeps, RunnerExitsKeeps, BarrierKeeps, BarrierFailsKeeps, CollectKeeps,
   PrefixJoinedKeeps, PublishKeeps, ClosedKeeps, CloseFailsKeeps, SdkFaultKeeps DEF Shut

(* The service.                                                            *)
LEMMA ServiceStep ==
    ASSUME Inv, UNCHANGED <<row, close, pending>>, SessKept, ServesOn, faults' \in Nat,
           phase' \in {"ACQUIRED", "ENTERING", "ACTIVE", "ABORTED", "EXITED"},
           ledger' \in {ledger, "unknown", "closed"}, drain' \in {"no", "closing", "over"},
           ledger' = "closed" => \A r \in Rows : row[r].journal # "claimed" \/ row[r].started
    PROVE  Inv'
<1>1. TypeOK'
    BY DEF Inv, TypeOK, SessKept, Insts
<1>2. \A r \in Rows : Alters(row[r], row[r])
    BY RowFields DEF Alters, Inv
<1>3. row' \in [Rows -> Works] /\ \A r \in Rows : Becomes(r, row'[r])
    BY <1>2 DEF Inv, RowsOk, Becomes, ClaimsEnd
<1>4. Created' = Created /\ \A s \in Sessions : GoesOn(s) /\ NotOpened(s)
    BY SessGoesOn
<1> QED BY <1>1, <1>3, <1>4, MildKeeps DEF Mild, RowsGoOn, SameCreations

LEMMA NotYetClosed == ASSUME Inv, ledger # "unknown" PROVE \A r \in Rows : row[r].journal # "claimed"
\/ row[r].started
BY DEF Inv, ClaimsEnd

LEMMA ServiceKeeps == ASSUME Inv, Service PROVE Inv'
<1>1. faults \in Nat /\ (Fault => faults' \in Nat) /\ inst \in Insts /\ lost \in BOOLEAN
      /\ phase \in {"ACQUIRED", "ENTERING", "ACTIVE", "ABORTED", "EXITED"}
         /\ drain \in {"no", "closing", "over"}
      /\ ledger \in {"open", "unknown", "closed"} /\ {"DRAINING", "UNKNOWN", "CLOSED"} \subseteq Insts
    BY FaultsAreNat DEF Inv, TypeOK, Insts
<1>2. CASE RetainedFull
  <2>1. inst' \in Insts /\ lost' \in BOOLEAN /\ UNCHANGED <<phase, lost, sess, row, close, pending, ledger,
        drain>> /\ faults' \in Nat
    BY <1>1, <1>2 DEF RetainedFull
  <2> QED BY <2>1, SessSame, SessionStep DEF LedgerWorse
<1>3. CASE Starting
  <2>1. phase = "ACQUIRED" /\ phase' = "ENTERING" /\ UNCHANGED <<inst, lost, sess, row, close, pending,
        ledger, drain, faults>>
    BY <1>3 DEF Starting
  <2>2. ServesOn
    BY <2>1 DEF ServesOn, Stopped
  <2> QED BY <1>1, <2>1, <2>2, SessSame, ServiceStep, NotYetClosed
<1>4. CASE LifespanEntered
  <2>1. phase = "ENTERING" /\ phase' = "ACTIVE" /\ UNCHANGED <<inst, lost, sess, row, close, pending,
        ledger, drain, faults>>
    BY <1>4 DEF LifespanEntered
  <2>2. ServesOn
    BY <2>1 DEF ServesOn, Stopped
  <2> QED BY <1>1, <2>1, <2>2, SessSame, ServiceStep, NotYetClosed
<1>5. CASE AbortStartup
  <2>1. /\ inst' = "UNKNOWN" /\ lost' = TRUE /\ UNCHANGED <<sess, row, close, pending, drain>>
           /\ faults' \in Nat
        /\ \/ UNCHANGED <<phase, ledger>>
           \/ phase \in {"ACQUIRED", "ENTERING"} /\ Admitted = {} /\ phase' = "ABORTED" /\ ledger' = "closed"
    BY <1>1, <1>5 DEF AbortStartup, AbortIsSafe
  <2>2. SessKept
    BY <1>1, <2>1, SessSame
  <2>3. CASE UNCHANGED <<phase, ledger>>
    BY <2>1, <2>2, <2>3, SessionStep DEF LedgerWorse
  <2>4. CASE phase \in {"ACQUIRED", "ENTERING"} /\ Admitted = {} /\ phase' = "ABORTED" /\ ledger' = "closed"
    <3>1. ServesOn
      BY <2>1, <2>4 DEF ServesOn, Stopped
    <3>2. \A r \in Rows : row[r].journal # "claimed"
      BY <2>4, RowFields DEF Admitted, Inv, WorkOk
    <3> QED BY <1>1, <2>1, <2>2, <2>4, <3>1, <3>2, ServiceStep
  <2> QED BY <2>1, <2>3, <2>4
<1>6. CASE DrainStart
  <2>1. /\ drain' \in {"over", "closing"} /\ inst' \in Insts /\ Resolved
        /\ UNCHANGED <<phase, lost, sess, row, close, pending, ledger, faults>>
    BY <1>1, <1>6 DEF DrainStart, Resolved
  <2>2. ServesOn
    BY <2>1 DEF ServesOn, Stopped
  <2> QED BY <1>1, <2>1, <2>2, SessSame, ServiceStep, NotYetClosed
<1>7. CASE DrainFails
  <2>1. drain = "closing" /\ drain' = "over" /\ Unknown(NoSession) /\ UNCHANGED <<phase, row, close,
        pending, ledger, faults>>
    BY <1>7 DEF DrainFails
  <2>2. ServesOn
    BY <2>1 DEF ServesOn, Stopped
  <2> QED BY <1>1, <2>1, <2>2, SessLost, ServiceStep, NotYetClosed
<1>8. CASE DrainLedger
  <2>1. /\ drain = "closing" /\ drain' = "over" /\ UNCHANGED <<phase, row, close, pending>>
        /\ \/ ledger = "open" /\ ledger' = "closed" /\ inst' = "CLOSED" /\ UNCHANGED <<lost, sess, faults>>
           \/ ledger' = "unknown" /\ Unknown(NoSession) /\ faults' \in Nat
    BY <1>1, <1>8 DEF DrainLedger
  <2>2. ServesOn
    BY <2>1 DEF ServesOn, Stopped
  <2>3. SessKept /\ faults' \in Nat
    BY <1>1, <2>1, SessSame, SessLost
  <2> QED BY <1>1, <2>1, <2>2, <2>3, ServiceStep, NotYetClosed
<1>9. CASE LifespanExited
  <2>1. drain = "over" /\ phase = "ACTIVE" /\ phase' = "EXITED" /\ UNCHANGED <<inst, lost, sess, row,
        close, pending, ledger, drain, faults>>
    BY <1>9 DEF LifespanExited
  <2>2. ServesOn
    BY <2>1 DEF ServesOn, Stopped
  <2> QED BY <1>1, <2>1, <2>2, SessSame, ServiceStep, NotYetClosed
<1> QED BY <1>2, <1>3, <1>4, <1>5, <1>6, <1>7, <1>8, <1>9 DEF Service

-----------------------------------------------------------------------------
(* The admissions.                                                         *)

LEMMA Smallest == ASSUME NEW S \in SUBSET Nat, S # {} PROVE \E x \in S : \A y \in S : x <= y
<1> DEFINE R == OpToRel(<, Nat)
<1>1. IsWellFoundedOn(R, Nat)
    BY NatLessThanWellFounded
<1>2. \A x, y \in Nat : x < y <=> <<x, y>> \in R
    BY DEF OpToRel
<1> HIDE DEF R
<1>3. PICK x \in S : \A y \in S : ~(<<y, x>> \in R)
    BY <1>1, WFMin
<1>4. ASSUME NEW y \in S PROVE x <= y
  <2>1. x \in Nat /\ y \in Nat
    OBVIOUS
  <2>2. ~(y < x)
    BY <1>2, <1>3, <2>1
  <2> QED BY <2>1, <2>2
<1> QED BY <1>4

LEMMA OldestIn == ASSUME NEW S \in SUBSET Rows, S # {} PROVE Oldest(S) \in S
<1>1. S \in SUBSET Nat
    BY BudgetAssumption DEF Rows
<1>2. \E q \in S : \A p \in S : q <= p
    BY <1>1, Smallest
<1> QED BY <1>2 DEF Oldest

(* The next row is a fresh one, behind every admitted row.                 *)
LEMMA NextIsFresh ==
    ASSUME Inv, Accepting
    PROVE  /\ NextRow \in Rows /\ row[NextRow] = NoWork /\ NextRow \notin Admitted
           /\ Admitted = 1..(NextRow - 1) /\ NextRow \in Nat
           /\ \A q \in Admitted : q < NextRow
           /\ phase = "ACTIVE" /\ drain = "no" /\ ledger # "closed"
<1>1. PICK k \in 0..MaxRows : Admitted = 1..k
    BY DEF Inv, Numbered
<1>2. Cardinality(Admitted) = k
    BY <1>1, FS_Interval, BudgetAssumption
<1>3. NextRow = k + 1 /\ NextRow \in Rows /\ NextRow \notin Admitted /\ k \in Nat
    BY <1>1, <1>2, BudgetAssumption DEF NextRow, Accepting
<1>4. WorkOk(row[NextRow])
    BY <1>3, RowFields DEF Inv
<1>5. row[NextRow] = NoWork
    BY <1>3, <1>4 DEF WorkOk, Admitted
<1>6. phase = "ACTIVE" /\ drain = "no" /\ ledger # "closed"
    BY DEF Accepting, Inv, Serves
<1> QED BY <1>1, <1>3, <1>5, <1>6

Fits(n) ==
    /\ WorkOk(n) /\ n.kind # "none" /\ n.sess \in Created \cup {NoSession}
    /\ n.kind = "initialize" => n.sess = NoSession
    /\ n.sess # NoSession => sess[n.sess].state = "OPEN"
    /\ n.re # NoRow => n.re \in Admitted
    /\ n.enqueued => Before(n, NextRow) = {}
    /\ n.journal # "claimed"

LEMMA AdmitStep ==
    ASSUME Inv, Accepting, NEW n, Fits(n),
           row' \in [Rows -> Works], row'[NextRow] = n,
           \A q \in Rows \ {NextRow} : Becomes(q, row'[q]) /\ row'[q].creating = row[q].creating,
           SessKept, UNCHANGED <<phase, close, drain>>, LedgerWorse, faults' \in Nat,
           pending' = pending + IF n.creating THEN 1 ELSE 0,
           n.creating => Cardinality(Created) + pending < MaxSessions
    PROVE  Inv'
<1> DEFINE N == NextRow
<1>1. /\ N \in Rows /\ row[N] = NoWork /\ N \notin Admitted /\ Admitted = 1..(N - 1) /\ N \in Nat
      /\ (\A q \in Admitted : q < N) /\ phase = "ACTIVE" /\ drain = "no" /\ ledger # "closed"
    BY NextIsFresh
<1>2. /\ WorkOk(n) /\ n.kind # "none" /\ n.sess \in Created \cup {NoSession}
      /\ n.kind = "initialize" => n.sess = NoSession
      /\ n.sess # NoSession => sess[n.sess].state = "OPEN"
      /\ n.re # NoRow => n.re \in Admitted
      /\ n.enqueued => Before(n, N) = {}
      /\ n.journal # "claimed"
    BY DEF Fits
<1>3. row[N].kind = "none" /\ row[N].sess = NoSession /\ ~row[N].creating /\ NoSession \notin Sessions
    BY <1>1, BudgetAssumption DEF NoWork
<1> HIDE DEF N
<1>4. row'[N] = n /\ \A q \in Rows \ {N} : Becomes(q, row'[q]) /\ row'[q].creating = row[q].creating
    BY DEF N
<1>5. ASSUME NEW q \in Rows, q # N
      PROVE  /\ row'[q].kind = row[q].kind /\ row'[q].id = row[q].id /\ row'[q].sess = row[q].sess
             /\ row'[q].re = row[q].re /\ WorkOk(row'[q])
    BY <1>4, <1>5 DEF Becomes, Alters
<1>6. Created' = Created /\ \A s \in Sessions : GoesOn(s) /\ NotOpened(s)
    BY SessGoesOn
<1>7. TypeOK' /\ RowsOk'
  <2>1. pending' \in Int
    BY DEF Inv, TypeOK
  <2>2. TypeOK'
    BY <2>1 DEF Inv, TypeOK, SessKept, Insts, LedgerWorse
  <2>3. RowsOk'
    BY <1>2, <1>4, <1>5 DEF RowsOk
  <2> QED BY <2>2, <2>3
<1>8. Admitted' = Admitted \cup {N}
  <2>1. \A q \in Rows : row'[q].kind # "none" <=> q = N \/ row[q].kind # "none"
    BY <1>2, <1>4, <1>5
  <2> QED BY <1>1, <2>1 DEF Admitted
<1>9. Numbered'
  <2>1. Admitted' = 1..N
    BY <1>1, <1>8 DEF Rows
  <2> QED BY <1>1, <2>1, BudgetAssumption DEF Numbered, Rows
<1>10. Owned' /\ Replies' /\ Serves' /\ ClaimsEnd'
  <2>1. Owned'
    BY <1>2, <1>4, <1>5, <1>6 DEF Inv, Owned
  <2>2. Replies'
    <3> SUFFICES ASSUME NEW r \in Rows, row'[r].re # NoRow
                 PROVE  row'[row'[r].re].kind # "none" /\ row'[r].re \in Rows
      BY DEF Replies
    <3>1. row'[r].re \in Admitted
      BY <1>2, <1>4, <1>5 DEF Inv, Replies, Admitted
    <3> QED BY <1>1, <1>5, <3>1 DEF Admitted
  <2>3. Serves'
    BY <1>1 DEF Serves, Stopped, LedgerWorse
  <2>4. ClaimsEnd'
    BY <1>2, <1>4 DEF ClaimsEnd, Becomes
  <2> QED BY <2>1, <2>2, <2>3, <2>4
<1>11. Ordered'
  <2> SUFFICES ASSUME NEW r \in Rows, NEW q \in Rows, q < r, Clash(row'[q], row'[r]), row'[r].enqueued
               PROVE  row'[q].at = "gone" /\ row'[q].handled
    BY DEF Ordered, Clash, Left
  <2>1. row'[q].kind # "none" /\ row'[r].kind # "none"
    BY DEF Clash
  <2>2. q # N
    <3>1. CASE q = N
      <4>1. r \in Admitted'
        BY <2>1 DEF Admitted
      <4> QED BY <1>1, <1>8, <3>1, <4>1 DEF Rows
    <3> QED BY <3>1
  <2>3. Becomes(q, row'[q])
    BY <1>4, <2>2
  <2>4. row[q].at = "gone" /\ row[q].handled
    <3>1. CASE r = N
      <4>1. Clash(row[q], n)
        BY <1>4, <1>5, <2>2, <3>1 DEF Clash
      <4>2. q \in Admitted /\ row[q].sess = n.sess /\ Conflicts(n, row[q])
        BY <4>1 DEF Clash, Conflicts, Admitted
      <4> QED BY <1>2, <1>4, <3>1, <4>2 DEF Before, Left
    <3>2. CASE r # N
      <4>1. Clash(row[q], row[r]) /\ Becomes(r, row'[r])
        BY <1>4, <1>5, <2>2, <3>2 DEF Clash
      <4>2. CASE row[r].enqueued
        BY <4>1, <4>2 DEF Inv, Ordered, Left
      <4>3. CASE Previous(r) = {}
        <5>1. q \in Admitted /\ row[q].sess = row[r].sess /\ Conflicts(row[r], row[q])
          BY <4>1 DEF Clash, Conflicts, Admitted
        <5> QED BY <4>3, <5>1 DEF Previous, Before, Left
      <4> QED BY <4>1, <4>2, <4>3 DEF Becomes
    <3> QED BY <3>1, <3>2
  <2> QED BY <2>3, <2>4 DEF Becomes, Alters
<1>12. OneInitialize'
    BY <1>2, <1>3, <1>4, <1>5 DEF Inv, OneInitialize, Initializes
<1>13. Handshaken'
  <2> SUFFICES ASSUME NEW s \in Sessions, sess'[s].state = "OPEN" \/ close'[s].at # "no",
                      NEW q \in Rows, row'[q].kind = "initialize", row'[q].sess = s
               PROVE  row'[q].at \in {"leave", "gone"}
    BY DEF Handshaken, Initializes
  <2>1. q # N
    BY <1>2, <1>3, <1>4
  <2>2. Alters(row[q], row'[q]) /\ Initializes(q, s)
    BY <1>4, <1>5, <2>1 DEF Becomes, Initializes
  <2>3. row[q].at \in {"leave", "gone"}
    BY <1>6, <2>2 DEF Inv, Handshaken, NotOpened
  <2> QED BY <2>2, <2>3 DEF Alters
<1>14. ASSUME NEW s \in Sessions PROVE Closes(s)'
  <2>1. GoesOn(s) /\ Closes(s)
    BY <1>6 DEF Inv
  <2>2. CASE n.sess = s
    <3>1. sess[s].state = "OPEN" /\ close[s].at = "no"
      BY <1>2, <1>3, <2>1, <2>2 DEF Closes
    <3> QED BY <2>1, <3>1 DEF GoesOn, Closes
  <2>3. CASE n.sess # s
    <3>1. \A r \in Rows : row'[r].sess = s => r # N /\ row[r].sess = s
      BY <1>4, <1>5, <2>3
    <3>2. \A r \in Rows : row'[r].sess = s /\ Over(row[r]) => Over(row'[r]) /\ row'[r].child = row[r].child
      BY <1>4, <3>1 DEF Becomes, Alters
    <3> QED BY <2>1, <3>1, <3>2 DEF GoesOn, Closes
  <2> QED BY <2>2, <2>3
<1>15. Counted'
  <2>1. IsFiniteSet(Created) /\ pending = Cardinality(Creating)
        /\ Cardinality(Created) + pending <= MaxSessions
        /\ Cardinality(Created) \in Nat /\ Cardinality(Creating) \in Nat /\ IsFiniteSet(Creating)
    BY CreatingFinite, FS_CardinalityType DEF Inv, Counted
  <2>2. CASE n.creating
    <3>1. Creating' = Creating \cup {N} /\ N \notin Creating
      BY <1>1, <1>3, <1>4, <2>2 DEF Creating
    <3>2. Cardinality(Creating') = Cardinality(Creating) + 1
      BY <2>1, <3>1, FS_AddElement
    <3> QED BY <1>6, <2>1, <2>2, <3>2, BudgetAssumption DEF Counted
  <2>3. CASE ~n.creating
    <3>1. Creating' = Creating
      BY <1>1, <1>3, <1>4, <2>3 DEF Creating
    <3> QED BY <1>6, <2>1, <2>3, <3>1, BudgetAssumption DEF Counted
  <2> QED BY <2>2, <2>3
<1> QED BY <1>7, <1>9, <1>10, <1>11, <1>12, <1>13, <1>14, <1>15 DEF Inv

LEMMA NoWorkIs == /\ NoWork \in Works /\ NoWork.at = "idle" /\ ~NoWork.enqueued /\ ~NoWork.started
/\ ~NoWork.handled
                  /\ NoWork.journal = "none" /\ NoWork.claims = 0 /\ NoWork.owner = "none"
                     /\ NoWork.out = "none"
                  /\ NoWork.enqueued = FALSE /\ NoWork.sent = FALSE /\ NoWork.started = FALSE
                  /\ NoWork.handled = FALSE
<1>1. NoWork \in Works
    BY DEF NoWork, Works, RowKinds
<1> QED BY <1>1 DEF NoWork

LEMMA RequestFields ==
    ASSUME Inv, NEW m \in Requests
    PROVE  /\ m.kind \in RowKinds /\ m.kind # "none"
           /\ m.sess \in Created \cup {NoSession} /\ m.sess \in Sessions \cup {NoSession}
           /\ m.id \in Ids \cup {NoId} /\ m.re \in Rows \cup {NoRow}
           /\ m.kind = "initialize" <=> m.sess = NoSession
           /\ m.re # NoRow => m.re \in Admitted
<1>1. NoSession \notin Sessions /\ NoSession \notin Created /\ Created \subseteq Sessions
    BY BudgetAssumption DEF Created
<1>2. ASSUME NEW i \in Ids, m = [kind |-> "initialize", sess |-> NoSession, id |-> i, re |-> NoRow]
      PROVE  /\ m.kind = "initialize" /\ m.sess = NoSession /\ m.id \in Ids /\ m.re = NoRow
    BY <1>2
<1>3. ASSUME m \in [kind : {"call", "cancel"}, sess : Created, id : Ids, re : {NoRow}]
      PROVE  m.kind \in {"call", "cancel"} /\ m.sess \in Created /\ m.id \in Ids /\ m.re = NoRow
    BY <1>3
<1>4. ASSUME m \in [kind : {"initialized", "get"}, sess : Created, id : {NoId}, re : {NoRow}]
      PROVE  m.kind \in {"initialized", "get"} /\ m.sess \in Created /\ m.id = NoId /\ m.re = NoRow
    BY <1>4
<1>5. ASSUME NEW s \in Created, m = [kind |-> "binary", sess |-> s, id |-> NoId, re |-> NoRow]
      PROVE  m.kind = "binary" /\ m.sess \in Created /\ m.id = NoId /\ m.re = NoRow
    BY <1>5
<1>6. ASSUME NEW q \in Admitted, row[q].out = "waiting",
             m = [kind |-> "reply", sess |-> row[q].sess, id |-> NoId, re |-> q]
      PROVE  m.kind = "reply" /\ m.sess \in Created /\ m.id = NoId /\ m.re \in Admitted /\ m.re \in Rows
  <2>1. q \in Rows /\ WorkOk(row[q])
    BY RowFields DEF Admitted, Inv
  <2>2. row[q].sess # NoSession
    BY <1>6, <2>1 DEF WorkOk
  <2>3. row[q].sess \in Created
    BY <2>1, <2>2, SessOf
  <2> QED BY <1>6, <2>1, <2>3
<1>7. \/ \E i \in Ids : m = [kind |-> "initialize", sess |-> NoSession, id |-> i, re |-> NoRow]
      \/ m \in [kind : {"call", "cancel"}, sess : Created, id : Ids, re : {NoRow}]
      \/ m \in [kind : {"initialized", "get"}, sess : Created, id : {NoId}, re : {NoRow}]
      \/ \E s \in Created : m = [kind |-> "binary", sess |-> s, id |-> NoId, re |-> NoRow]
      \/ \E q \in Admitted : row[q].out = "waiting"
         /\ m = [kind |-> "reply", sess |-> row[q].sess, id |-> NoId, re |-> q]
    BY DEF Requests
<1> QED BY <1>1, <1>2, <1>3, <1>4, <1>5, <1>6, <1>7 DEF RowKinds

(* What the admissions rewrite of a row of Works.                          *)
Written(w, a, b, t, h, j, u) ==
    [w EXCEPT !.at = a, !.enqueued = b, !.started = t, !.handled = h, !.journal = j, !.owner = u]

LEMMA WrittenIs ==
    ASSUME NEW w \in Works, NEW a, NEW b, NEW t, NEW h, NEW j, NEW u, NEW n, n = Written(w, a, b, t, h, j, u)
    PROVE  /\ n.at = a /\ n.enqueued = b /\ n.started = t /\ n.handled = h /\ n.journal = j /\ n.owner = u
           /\ n.kind = w.kind /\ n.sess = w.sess /\ n.id = w.id /\ n.re = w.re /\ n.creating = w.creating
           /\ n.claims = w.claims /\ n.out = w.out /\ n.sent = w.sent
BY DEF Written, Works

LEMMA Rewritten ==
    ASSUME NEW w \in Works, w.at = "idle", w.enqueued = FALSE, w.started = FALSE, w.handled = FALSE,
           w.journal = "none", w.owner = "none", NEW j
    PROVE  /\ w = Written(w, "idle", FALSE, FALSE, FALSE, "none", "none")
           /\ Answer(w) = Written(w, "leave", FALSE, FALSE, TRUE, "none", "none")
           /\ [w EXCEPT !.journal = j] = Written(w, "idle", FALSE, FALSE, FALSE, j, "none")
           /\ [w EXCEPT !.at = "leave", !.journal = j] = Written(w, "leave", FALSE, FALSE, FALSE, j, "none")
           /\ [[w EXCEPT !.enqueued = TRUE, !.started = TRUE] EXCEPT !.at = "leave"]
              = Written(w, "leave", TRUE, TRUE, FALSE, "none", "none")
           /\ [[w EXCEPT !.enqueued = TRUE, !.started = TRUE] EXCEPT !.at = "sdk", !.owner = "live"]
              = Written(w, "sdk", TRUE, TRUE, FALSE, "none", "live")
<1>1. w = Written(w, "idle", FALSE, FALSE, FALSE, "none", "none")
    BY DEF Written, Works
<1>2. Answer(w) = Written(w, "leave", FALSE, FALSE, TRUE, "none", "none")
    BY DEF Written, Works, Answer
<1>3. [w EXCEPT !.journal = j] = Written(w, "idle", FALSE, FALSE, FALSE, j, "none")
    BY DEF Written, Works
<1>4. [w EXCEPT !.at = "leave", !.journal = j] = Written(w, "leave", FALSE, FALSE, FALSE, j, "none")
    BY DEF Written, Works
<1>5. [[w EXCEPT !.enqueued = TRUE, !.started = TRUE] EXCEPT !.at = "leave"]
      = Written(w, "leave", TRUE, TRUE, FALSE, "none", "none")
    BY DEF Written, Works
<1>6. [[w EXCEPT !.enqueued = TRUE, !.started = TRUE] EXCEPT !.at = "sdk", !.owner = "live"]
      = Written(w, "sdk", TRUE, TRUE, FALSE, "none", "live")
    BY DEF Written, Works
<1> QED BY <1>1, <1>2, <1>3, <1>4, <1>5, <1>6

LEMMA Requeued ==
    ASSUME NEW w \in Works, NEW j
    PROVE  /\ [Written(w, "idle", FALSE, FALSE, FALSE, j, "none") EXCEPT !.at = "sdk", !.enqueued = TRUE]
              = Written(w, "sdk", TRUE, FALSE, FALSE, j, "none")
           /\ [Written(w, "idle", FALSE, FALSE, FALSE, j, "none") EXCEPT !.at = "slot"]
              = Written(w, "slot", FALSE, FALSE, FALSE, j, "none")
<1>1. [Written(w, "idle", FALSE, FALSE, FALSE, j, "none") EXCEPT !.at = "sdk", !.enqueued = TRUE]
      = Written(w, "sdk", TRUE, FALSE, FALSE, j, "none")
    BY DEF Written, Works
<1>2. [Written(w, "idle", FALSE, FALSE, FALSE, j, "none") EXCEPT !.at = "slot"]
      = Written(w, "slot", FALSE, FALSE, FALSE, j, "none")
    BY DEF Written, Works
<1> QED BY <1>1, <1>2

(* The rows the admissions write.                                          *)
Fresh(m, a, b, t, h, j, u) ==
    Written(Admission(m), a, b, t, h, j, u)

LEMMA AdmissionOk ==
    ASSUME Inv, NEW m \in Requests
    PROVE  LET w == Admission(m)
           IN  /\ w \in Works /\ w.kind = m.kind /\ w.sess = m.sess /\ w.id = m.id /\ w.re = m.re
               /\ (w.creating <=> m.sess = NoSession) /\ w.claims = 0 /\ w.out = "none" /\ w.at = "idle"
               /\ w.enqueued = FALSE /\ w.sent = FALSE /\ w.started = FALSE /\ w.handled = FALSE
               /\ w.journal = "none"
               /\ w.owner = "none"
<1> DEFINE w == Admission(m)
<1>a. /\ m.kind \in RowKinds /\ m.sess \in Sessions \cup {NoSession} /\ m.id \in Ids \cup {NoId}
      /\ m.re \in Rows \cup {NoRow}
    BY RequestFields
<1>1. w \in Works
    BY <1>a, NoWorkIs DEF Admission, Works
<1>2. /\ w.kind = m.kind /\ w.sess = m.sess /\ w.id = m.id /\ w.re = m.re
      /\ (w.creating <=> m.sess = NoSession) /\ w.claims = 0 /\ w.out = "none" /\ w.at = "idle"
      /\ w.enqueued = FALSE /\ w.sent = FALSE /\ w.started = FALSE /\ w.handled = FALSE
               /\ w.journal = "none"
      /\ w.owner = "none"
    BY NoWorkIs DEF Admission, Works
<1> QED BY <1>1, <1>2

LEMMA FreshOk ==
    ASSUME Inv, NEW m \in Requests, NEW a \in {"slot", "sdk", "leave"}, NEW b \in BOOLEAN, NEW t \in BOOLEAN,
           NEW h \in BOOLEAN, NEW j \in {"none", "begun", "open"}, NEW u \in {"none", "live"},
           a \in {"slot", "sdk"} => ~h /\ (t => m.kind = "binary"), a = "sdk" => b,
           j # "none" => m.kind = "call", a \in {"slot", "sdk"} => j \in {"none", "open"}, a = "slot" => ~t,
           h => j = "none", u = "live" => m.sess # NoSession /\ t /\ j = "none"
    PROVE  WorkOk(Fresh(m, a, b, t, h, j, u))
<1> DEFINE n == Fresh(m, a, b, t, h, j, u)
<1>1. /\ m.kind \in RowKinds /\ m.kind # "none" /\ m.sess \in Sessions \cup {NoSession}
      /\ m.id \in Ids \cup {NoId} /\ m.re \in Rows \cup {NoRow}
         /\ (m.kind = "initialize" <=> m.sess = NoSession)
    BY RequestFields
<1>2. n \in Works
  <2> DEFINE l == Admission(m)
  <2>1. l \in Works
    BY AdmissionOk
  <2>2. n = [l EXCEPT !.at = a, !.enqueued = b, !.started = t, !.handled = h, !.journal = j, !.owner = u]
    BY DEF Fresh, Written
  <2> HIDE DEF l
  <2> DEFINE k == [l EXCEPT !.at = a, !.enqueued = b, !.started = t]
  <2>3. [k EXCEPT !.handled = h, !.journal = j, !.owner = u]
         = [l EXCEPT !.at = a, !.enqueued = b, !.started = t, !.handled = h, !.journal = j, !.owner = u]
    BY <2>1 DEF Works
  <2>4. k \in Works
    BY <2>1 DEF Works
  <2> HIDE DEF k
  <2>5. [k EXCEPT !.handled = h, !.journal = j, !.owner = u] \in Works
    BY <2>4 DEF Works
  <2> QED BY <2>2, <2>3, <2>5
<1>b. PICK w \in Works : w = Admission(m) /\ w.kind = m.kind /\ w.sess = m.sess /\ w.id = m.id /\ w.re = m.re
               /\ (w.creating <=> m.sess = NoSession) /\ w.claims = 0 /\ w.out = "none" /\ w.at = "idle"
               /\ w.enqueued = FALSE /\ w.sent = FALSE /\ w.started = FALSE /\ w.handled = FALSE
               /\ w.journal = "none"
               /\ w.owner = "none"
    BY AdmissionOk
<1>c. n = Written(w, a, b, t, h, j, u)
    BY <1>b DEF Fresh
<1> HIDE DEF n
<1>3. /\ n.at = a /\ n.kind = m.kind /\ n.sess = m.sess /\ (n.creating <=> m.sess = NoSession)
      /\ n.started = t /\ n.handled = h /\ n.journal = j /\ n.claims = 0 /\ n.owner = u /\ n.out = "none"
      /\ n.enqueued = b /\ n.sent = FALSE
    BY <1>b, <1>c, WrittenIs
<1>4. WorkOk(n)
    BY <1>1, <1>2, <1>3 DEF WorkOk, HandedOver
<1> QED BY <1>4 DEF n

LEMMA NotRefused ==
    ASSUME Inv, NEW m \in Requests, ~Refuses(m)
    PROVE  /\ m.sess # NoSession => sess[m.sess].state = "OPEN"
           /\ m.sess = NoSession => Cardinality(Created) + pending < MaxSessions
<1>1. ~Draining(m) /\ ~Closing(m) /\ ~SessionsFull(m)
    BY DEF Refuses, OverBudget
<1>2. Cardinality(Created) \in Nat /\ pending \in Int /\ MaxSessions \in Int
    BY FS_CardinalityType, BudgetAssumption DEF Inv, Counted, TypeOK
<1> QED BY <1>1, <1>2 DEF Closing, SessionsFull

LEMMA FreshFits ==
    ASSUME Inv, NEW m \in Requests, ~Refuses(m), NEW a, NEW b \in BOOLEAN, NEW t, NEW h, NEW j, NEW u,
           WorkOk(Fresh(m, a, b, t, h, j, u)), j # "claimed", b => Before(m, NextRow) = {}
    PROVE  /\ Fits(Fresh(m, a, b, t, h, j, u))
           /\ Fresh(m, a, b, t, h, j, u).creating <=> m.sess = NoSession
<1> DEFINE n == Fresh(m, a, b, t, h, j, u)
<1>b. PICK w \in Works : w = Admission(m) /\ w.kind = m.kind /\ w.sess = m.sess /\ w.id = m.id /\ w.re = m.re
               /\ (w.creating <=> m.sess = NoSession) /\ w.claims = 0 /\ w.out = "none" /\ w.at = "idle"
               /\ w.enqueued = FALSE /\ w.sent = FALSE /\ w.started = FALSE /\ w.handled = FALSE
               /\ w.journal = "none"
               /\ w.owner = "none"
    BY AdmissionOk
<1>c. n = Written(w, a, b, t, h, j, u)
    BY <1>b DEF Fresh
<1> HIDE DEF n
<1>1. /\ n.kind = m.kind /\ n.sess = m.sess /\ n.id = m.id /\ n.re = m.re /\ n.enqueued = b /\ n.journal = j
      /\ (n.creating <=> m.sess = NoSession)
    BY <1>b, <1>c, WrittenIs
<1>2. Before(n, NextRow) = Before(m, NextRow)
    BY <1>1 DEF Before, Conflicts
<1>3. Fits(n)
    BY <1>1, <1>2, RequestFields, NotRefused DEF Fits, n
<1> QED BY <1>1, <1>3 DEF n

LEMMA AdmissionIs ==
    ASSUME Inv, NEW m \in Requests
    PROVE  Admission(m) = Fresh(m, "idle", FALSE, FALSE, FALSE, "none", "none")
BY AdmissionOk, Rewritten DEF Fresh

LEMMA AnswerIs ==
    ASSUME Inv, NEW m \in Requests
    PROVE  Answer(Admission(m)) = Fresh(m, "leave", FALSE, FALSE, TRUE, "none", "none")
BY AdmissionOk, Rewritten DEF Fresh

LEMMA BeginIs ==
    ASSUME Inv, NEW m \in Requests, NEW j
    PROVE  /\ [Admission(m) EXCEPT !.journal = j] = Fresh(m, "idle", FALSE, FALSE, FALSE, j, "none")
           /\ [Admission(m) EXCEPT !.at = "leave", !.journal = j] = Fresh(m, "leave", FALSE, FALSE, FALSE,
              j, "none")
<1>b. PICK w \in Works : w = Admission(m) /\ w.kind = m.kind /\ w.sess = m.sess /\ w.id = m.id /\ w.re = m.re
               /\ (w.creating <=> m.sess = NoSession) /\ w.claims = 0 /\ w.out = "none" /\ w.at = "idle"
               /\ w.enqueued = FALSE /\ w.sent = FALSE /\ w.started = FALSE /\ w.handled = FALSE
               /\ w.journal = "none"
               /\ w.owner = "none"
    BY AdmissionOk
<1> QED BY <1>b, Rewritten DEF Fresh

LEMMA QueuedIs ==
    ASSUME Inv, NEW m \in Requests, NEW j
    PROVE  LET w == Fresh(m, "idle", FALSE, FALSE, FALSE, j, "none")
           IN  \/ Before(m, NextRow) = {} /\ Queued(w) = Fresh(m, "sdk", TRUE, FALSE, FALSE, j, "none")
               \/ Queued(w) = Fresh(m, "slot", FALSE, FALSE, FALSE, j, "none")
<1> DEFINE w == Fresh(m, "idle", FALSE, FALSE, FALSE, j, "none")
<1>b. PICK v \in Works : v = Admission(m) /\ v.kind = m.kind /\ v.sess = m.sess /\ v.id = m.id /\ v.re = m.re
               /\ (v.creating <=> m.sess = NoSession) /\ v.claims = 0 /\ v.out = "none" /\ v.at = "idle"
               /\ v.enqueued = FALSE /\ v.sent = FALSE /\ v.started = FALSE /\ v.handled = FALSE
               /\ v.journal = "none"
               /\ v.owner = "none"
    BY AdmissionOk
<1>c. w = Written(v, "idle", FALSE, FALSE, FALSE, j, "none")
    BY <1>b DEF Fresh
<1> HIDE DEF w
<1>d. w.kind = v.kind /\ w.sess = v.sess /\ w.id = v.id
    BY <1>c DEF Written, Works
<1>1. w.kind = m.kind /\ w.sess = m.sess /\ w.id = m.id
    BY <1>b, <1>d
<1>2. /\ [w EXCEPT !.at = "sdk", !.enqueued = TRUE] = Fresh(m, "sdk", TRUE, FALSE, FALSE, j, "none")
      /\ [w EXCEPT !.at = "slot"] = Fresh(m, "slot", FALSE, FALSE, FALSE, j, "none")
  <2>1. /\ [Written(v, "idle", FALSE, FALSE, FALSE, j, "none") EXCEPT !.at = "sdk", !.enqueued = TRUE]
           = Written(v, "sdk", TRUE, FALSE, FALSE, j, "none")
        /\ [Written(v, "idle", FALSE, FALSE, FALSE, j, "none") EXCEPT !.at = "slot"]
           = Written(v, "slot", FALSE, FALSE, FALSE, j, "none")
    BY <1>b, Requeued
  <2>2. /\ Fresh(m, "sdk", TRUE, FALSE, FALSE, j, "none") = Written(v, "sdk", TRUE, FALSE, FALSE, j, "none")
        /\ Fresh(m, "slot", FALSE, FALSE, FALSE, j, "none") = Written(v, "slot", FALSE, FALSE, FALSE, j, "none")
    BY <1>b DEF Fresh
  <2> QED BY <1>c, <2>1, <2>2
<1>3. Before(w, NextRow) = Before(m, NextRow)
    BY <1>1 DEF Before, Conflicts
<1> QED BY <1>2, <1>3 DEF Queued, w

(* One row is admitted and nothing else moves.                             *)
LEMMA AdmitOne ==
    ASSUME Inv, Accepting, NEW m \in Requests, ~Refuses(m), NEW n, Fits(n), n.creating <=> m.sess = NoSession,
           Set(NextRow, n), SessKept, UNCHANGED <<phase, close, drain>>, LedgerWorse, faults' \in Nat,
           pending' = pending + IF m.sess = NoSession THEN 1 ELSE 0
    PROVE  Inv'
<1>1. n \in Works /\ row \in [Rows -> Works] /\ NextRow \in Rows
    BY NextIsFresh DEF Fits, WorkOk, Inv, RowsOk
<1>2. row' \in [Rows -> Works] /\ row'[NextRow] = n /\ \A q \in Rows \ {NextRow} : row'[q] = row[q]
    BY <1>1 DEF Set
<1>3. \A q \in Rows \ {NextRow} : Becomes(q, row'[q]) /\ row'[q].creating = row[q].creating
    BY <1>2, Stays
<1>4. n.creating => Cardinality(Created) + pending < MaxSessions
    BY NotRefused
<1>5. pending' = pending + IF n.creating THEN 1 ELSE 0
    OBVIOUS
<1> QED BY <1>2, <1>3, <1>4, <1>5, AdmitStep

LEMMA AdmitKeeps == ASSUME Inv, Accepting, NEW m \in Requests, Admit(m) PROVE Inv'
<1>1. /\ ~Refuses(m) /\ m.kind \notin {"binary", "cancel"}
      /\ Set(NextRow, IF m.kind # "call" THEN Queued(Admission(m))
                      ELSE IF Repeated(m) THEN Answer(Admission(m))
                      ELSE Queued([Admission(m) EXCEPT !.journal = "open"]))
      /\ pending' = pending + IF m.sess = NoSession THEN 1 ELSE 0
      /\ UNCHANGED <<phase, inst, lost, sess, close, ledger, drain, faults>>
    BY DEF Admit
<1>2. SessKept /\ LedgerWorse /\ faults' \in Nat
    BY <1>1, SessSame, InstKept, FaultsAreNat DEF LedgerWorse
<1>3. SUFFICES \E n : Fits(n) /\ (n.creating <=> m.sess = NoSession) /\ Set(NextRow, n)
    BY <1>1, <1>2, AdmitOne
<1>4. CASE m.kind = "call" /\ Repeated(m)
  <2>1. Set(NextRow, Fresh(m, "leave", FALSE, FALSE, TRUE, "none", "none"))
    BY <1>1, <1>4, AnswerIs
  <2>2. WorkOk(Fresh(m, "leave", FALSE, FALSE, TRUE, "none", "none"))
    BY FreshOk
  <2> QED BY <1>1, <2>1, <2>2, FreshFits
<1>5. CASE ~(m.kind = "call" /\ Repeated(m))
  <2> DEFINE j == IF m.kind = "call" THEN "open" ELSE "none"
  <2>1. Set(NextRow, Queued(Fresh(m, "idle", FALSE, FALSE, FALSE, j, "none")))
    BY <1>1, <1>5, AdmissionIs, BeginIs
  <2>2. j \in {"none", "begun", "open"} /\ (j # "none" => m.kind = "call") /\ j \in {"none", "open"}
        /\ j # "claimed"
    OBVIOUS
  <2> HIDE DEF j
  <2>3. WorkOk(Fresh(m, "sdk", TRUE, FALSE, FALSE, j, "none"))
        /\ WorkOk(Fresh(m, "slot", FALSE, FALSE, FALSE, j, "none"))
    BY <2>2, FreshOk
  <2>4. CASE Before(m, NextRow) = {} /\ Set(NextRow, Fresh(m, "sdk", TRUE, FALSE, FALSE, j, "none"))
    BY <1>1, <2>2, <2>3, <2>4, FreshFits
  <2>5. CASE Set(NextRow, Fresh(m, "slot", FALSE, FALSE, FALSE, j, "none"))
    BY <1>1, <2>2, <2>3, <2>5, FreshFits
  <2> QED BY <2>1, <2>4, <2>5, QueuedIs
<1> QED BY <1>4, <1>5

LEMMA CallSession == ASSUME Inv, NEW m \in Requests, m.kind # "initialize"
                     PROVE  m.sess # NoSession /\ m.sess \in Created
BY RequestFields

LEMMA BeginFailsKeeps == ASSUME Inv, Accepting, NEW m \in Requests, BeginFails(m) PROVE Inv'
<1>1. PICK j \in {"none", "begun"} : Set(NextRow, [Admission(m) EXCEPT !.at = "leave", !.journal = j])
    BY DEF BeginFails
<1> DEFINE n == Fresh(m, "leave", FALSE, FALSE, FALSE, j, "none")
<1>2. /\ m.kind = "call" /\ ~Refuses(m) /\ Set(NextRow, n) /\ Unknown(m.sess) /\ LedgerWorse
         /\ faults' \in Nat
      /\ UNCHANGED <<phase, close, pending, drain>>
    BY <1>1, BeginIs, FaultsAreNat DEF BeginFails, LedgerWorse
<1>3. SessKept
    BY <1>2, SessLost, RequestFields
<1>4. Fits(n) /\ (n.creating <=> m.sess = NoSession)
  <2>1. WorkOk(n)
    BY <1>2, FreshOk
  <2> QED BY <1>2, <2>1, FreshFits
<1> HIDE DEF n
<1>5. pending' = pending + IF m.sess = NoSession THEN 1 ELSE 0
    BY <1>2, CallSession DEF Inv, TypeOK
<1> QED BY <1>2, <1>3, <1>4, <1>5, AdmitOne

LEMMA AdmitBinaryKeeps == ASSUME Inv, Accepting, NEW m \in Requests, AdmitBinary(m) PROVE Inv'
<1> DEFINE w == [Admission(m) EXCEPT !.enqueued = TRUE, !.started = TRUE]
           l == Fresh(m, "leave", TRUE, TRUE, FALSE, "none", "none")
           d == Fresh(m, "sdk", TRUE, TRUE, FALSE, "none", "live")
<1>1. [w EXCEPT !.at = "leave"] = l /\ [w EXCEPT !.at = "sdk", !.owner = "live"] = d
    BY AdmissionOk, Rewritten DEF Fresh
<1>2. /\ m.kind = "binary" /\ ~Refuses(m) /\ UNCHANGED <<phase, close, pending, ledger, drain, faults>>
      /\ \/ Set(NextRow, l) /\ Unknown(m.sess)
         \/ Set(NextRow, d) /\ UNCHANGED <<inst, lost, sess>>
    BY <1>1 DEF AdmitBinary
<1>3. SessKept /\ LedgerWorse /\ faults' \in Nat
    BY <1>2, SessLost, SessSame, InstKept, RequestFields, FaultsAreNat DEF LedgerWorse
<1>4. Before(m, NextRow) = {}
    BY <1>2 DEF Before, Conflicts
<1>5. Fits(l) /\ (l.creating <=> m.sess = NoSession)
  <2>1. WorkOk(l)
    BY <1>2, FreshOk
  <2> QED BY <1>2, <1>4, <2>1, FreshFits
<1>6. Fits(d) /\ (d.creating <=> m.sess = NoSession)
  <2>1. WorkOk(d)
    BY <1>2, CallSession, FreshOk
  <2> QED BY <1>2, <1>4, <2>1, FreshFits
<1> HIDE DEF l, d
<1>7. pending' = pending + IF m.sess = NoSession THEN 1 ELSE 0
    BY <1>2, CallSession DEF Inv, TypeOK
<1> QED BY <1>2, <1>3, <1>5, <1>6, <1>7, AdmitOne

LEMMA AdmitCancelKeeps == ASSUME Inv, Accepting, NEW m \in Requests, AdmitCancel(m) PROVE Inv'
<1> DEFINE q == Oldest(Target(m))
           n == Fresh(m, "leave", FALSE, FALSE, TRUE, "none", "none")
<1>1. /\ m.kind = "cancel" /\ ~Refuses(m)
      /\ \/ Set(NextRow, Answer(Admission(m)))
         \/ Set(NextRow, Queued(Admission(m)))
         \/ Target(m) # {} /\ row' = [row EXCEPT ![NextRow] = Answer(Admission(m)), ![q].cancelled = TRUE]
      /\ UNCHANGED <<phase, inst, lost, sess, close, pending, ledger, drain, faults>>
    BY DEF AdmitCancel
<1>2. SessKept /\ LedgerWorse /\ faults' \in Nat
    BY <1>1, SessSame, InstKept, FaultsAreNat DEF LedgerWorse
<1>3. pending' = pending + IF m.sess = NoSession THEN 1 ELSE 0
    BY <1>1, CallSession DEF Inv, TypeOK
<1>4. Fits(n) /\ (n.creating <=> m.sess = NoSession) /\ ~n.creating
  <2>1. WorkOk(n)
    BY FreshOk
  <2> QED BY <1>1, <2>1, FreshFits, CallSession
<1>5. CASE Set(NextRow, Answer(Admission(m)))
  <2>1. Set(NextRow, n)
    BY <1>5, AnswerIs
  <2> HIDE DEF n
  <2> QED BY <1>1, <1>2, <1>3, <1>4, <2>1, AdmitOne
<1>6. CASE Set(NextRow, Queued(Admission(m)))
  <2> SUFFICES \E k : Fits(k) /\ (k.creating <=> m.sess = NoSession) /\ Set(NextRow, k)
    BY <1>1, <1>2, <1>3, AdmitOne
  <2>1. Set(NextRow, Queued(Fresh(m, "idle", FALSE, FALSE, FALSE, "none", "none")))
    BY <1>6, AdmissionIs
  <2>2. /\ WorkOk(Fresh(m, "sdk", TRUE, FALSE, FALSE, "none", "none"))
        /\ WorkOk(Fresh(m, "slot", FALSE, FALSE, FALSE, "none", "none"))
    BY FreshOk
  <2>3. CASE Before(m, NextRow) = {} /\ Set(NextRow, Fresh(m, "sdk", TRUE, FALSE, FALSE, "none", "none"))
    BY <1>1, <2>2, <2>3, FreshFits
  <2>4. CASE Set(NextRow, Fresh(m, "slot", FALSE, FALSE, FALSE, "none", "none"))
    BY <1>1, <2>2, <2>4, FreshFits
  <2> QED BY <2>1, <2>3, <2>4, QueuedIs
<1>7. CASE Target(m) # {} /\ row' = [row EXCEPT ![NextRow] = Answer(Admission(m)), ![q].cancelled = TRUE]
  <2>1. q \in Admitted /\ q \in Rows
    <3>1. Target(m) \in SUBSET Rows /\ Target(m) \subseteq Admitted
      BY DEF Target, Of, Admitted
    <3> QED BY <1>7, <3>1, OldestIn
  <2>2. NextRow \in Rows /\ q # NextRow /\ row \in [Rows -> Works] /\ n \in Works
    BY <1>4, <2>1, NextIsFresh DEF Inv, RowsOk, Fits, WorkOk
  <2>3. row' = [row EXCEPT ![NextRow] = n, ![q] = [row[q] EXCEPT !.cancelled = TRUE]]
    BY <1>7, <2>1, <2>2, AnswerIs
  <2>4. Kept(row[q], [row[q] EXCEPT !.cancelled = TRUE])
        /\ JournalKept(row[q], [row[q] EXCEPT !.cancelled = TRUE])
    BY <2>1, Cancels, RowFields DEF Admitted, Inv
  <2>5. Becomes(q, [row[q] EXCEPT !.cancelled = TRUE])
        /\ [row[q] EXCEPT !.cancelled = TRUE].creating = row[q].creating
        /\ [row[q] EXCEPT !.cancelled = TRUE] \in Works
    BY <1>2, <2>1, <2>4, ClaimStays DEF Becomes, Kept, Alters, WorkOk
  <2> HIDE DEF n, q
  <2>6. /\ row' \in [Rows -> Works] /\ row'[NextRow] = n /\ row'[q] = [row[q] EXCEPT !.cancelled = TRUE]
        /\ \A x \in Rows \ {NextRow, q} : row'[x] = row[x]
    BY <2>1, <2>2, <2>3, <2>5
  <2>7. \A x \in Rows \ {NextRow} : Becomes(x, row'[x]) /\ row'[x].creating = row[x].creating
    BY <1>2, <2>5, <2>6, Stays
  <2>8. pending' = pending + IF n.creating THEN 1 ELSE 0
    BY <1>3, <1>4
  <2> QED BY <1>1, <1>2, <1>4, <2>6, <2>7, <2>8, AdmitStep
<1> QED BY <1>1, <1>5, <1>6, <1>7

LEMMA AdmitRefusedKeeps == ASSUME Inv, NEW m \in Requests, AdmitRefused(m) PROVE Inv'
<1>1. inst' \in Insts /\ lost' \in BOOLEAN /\ UNCHANGED <<phase, lost, sess, row, close, pending, ledger,
      drain, faults>>
    BY InstKept DEF AdmitRefused
<1> QED BY <1>1, SessSame, SessionStep, FaultsAreNat DEF LedgerWorse

-----------------------------------------------------------------------------
(* The theorems.                                                           *)

LEMMA InitHolds == ASSUME Init PROVE Inv
<1>1. \A s \in Sessions : sess[s].state = "none" /\ close[s].at = "no"
    BY DEF Init
<1>2. \A r \in Rows : row[r] = NoWork /\ WorkOk(row[r])
  <2>1. WorkOk(NoWork)
    <3>1. NoWork.kind = "none" /\ ~NoWork.creating
      BY DEF NoWork
    <3> QED BY <3>1, NoWorkIs DEF WorkOk, HandedOver
  <2> QED BY <2>1 DEF Init
<1>3. \A r \in Rows : row[r].kind = "none" /\ row[r].sess = NoSession /\ row[r].re = NoRow /\ ~row[r].creating
                      /\ row[r].at = "idle" /\ row[r].journal = "none" /\ ~row[r].enqueued
    BY <1>2 DEF NoWork
<1>4. Created = {} /\ Admitted = {} /\ Creating = {}
    BY <1>1, <1>3 DEF Created, Admitted, Creating
<1>5. TypeOK
  <2>1. sess \in [Sessions -> SessTypes]
    BY DEF SessTypes, Init
  <2>2. close \in [Sessions -> CloseTypes]
    BY DEF CloseTypes, Init
  <2>3. /\ phase = "ACQUIRED" /\ inst = "ACTIVE" /\ lost = FALSE /\ pending = 0
        /\ ledger = "open" /\ drain = "no" /\ faults = 0
    BY DEF Init
  <2>4. lost \in BOOLEAN
    BY <2>3
  <2>5. pending \in Int /\ faults \in Nat
    BY <2>3
  <2>6. phase \in {"ACQUIRED", "ENTERING", "ACTIVE", "ABORTED", "EXITED"}
        /\ inst \in {"ACTIVE", "DRAINING", "UNKNOWN", "CLOSED"}
        /\ ledger \in {"open", "unknown", "closed"} /\ drain \in {"no", "closing", "over"}
    BY <2>3
  <2> QED BY <2>1, <2>2, <2>4, <2>5, <2>6 DEF TypeOK
<1>6. RowsOk
  <2>1. row = [r \in Rows |-> NoWork]
    BY DEF Init
  <2>2. row \in [Rows -> Works]
    BY <2>1, NoWorkIs
  <2> QED BY <1>2, <2>2 DEF RowsOk
<1>7. Numbered
    BY <1>4, BudgetAssumption DEF Numbered, Init
<1>8. Owned /\ Replies /\ Serves /\ ClaimsEnd
    BY <1>3 DEF Owned, Replies, Serves, Stopped, Resolved, ClaimsEnd, Init
<1>9. Ordered
    BY <1>3 DEF Ordered
<1>10. OneInitialize /\ Handshaken
    BY <1>3 DEF OneInitialize, Handshaken, Initializes, Init
<1>11. \A s \in Sessions : Closes(s)
    BY <1>1 DEF Closes
<1>12. Counted
    BY <1>4, FS_EmptySet, BudgetAssumption DEF Counted, Init
<1> QED BY <1>5, <1>6, <1>7, <1>8, <1>9, <1>10, <1>11, <1>12 DEF Inv

LEMMA ArrivalKeeps == ASSUME Inv, Accepting, NEW m \in Requests, Arrival(m) PROVE Inv'
BY AdmitKeeps, AdmitCancelKeeps, AdmitBinaryKeeps, AdmitRefusedKeeps, BeginFailsKeeps DEF Arrival

LEMMA IngressKeeps == ASSUME Inv, NEW r \in Rows, Ingress(r) PROVE Inv'
BY SlotKeeps, DisconnectKeeps, HttpReturnsKeeps, StreamEndsKeeps, TailKeeps, TailTimesOutKeeps,
   HttpCancelledKeeps, LeaveKeeps DEF Ingress

LEMMA HandlerKeeps == ASSUME Inv, NEW r \in Rows, Handler(r) PROVE Inv'
BY CreateKeeps, SendRefusedKeeps, SendKeeps, DispatchKeeps, ConsumeResponseKeeps, StartThreadKeeps,
   ThreadJoinedKeeps,
   ReserveChildKeeps, SpawnKeeps, PollChildKeeps, AskKeeps, BusinessEndsKeeps, BusinessFailsKeeps,
   BinaryEndsKeeps DEF Handler

LEMMA StutterKeeps == ASSUME Inv, UNCHANGED vars PROVE Inv'
BY SessSame, InstKept, SessionStep, FaultsAreNat DEF vars, LedgerWorse

(* The observed instance keeps its invariant: rows, sessions, closes and   *)
(* the lifecycle agree after every step.                                   *)
THEOREM InstanceHolds == Spec => []Inv
<1>1. Inv /\ [Next]_vars => Inv'
    BY ArrivalKeeps, IngressKeeps, HandlerKeeps, ShutKeeps, ServiceKeeps, StutterKeeps DEF Next
<1> QED BY InitHolds, <1>1, PTL DEF Spec

(* The HTTP task and the handler never both claim a request's journal, and *)
(* a message the SDK has waits unclaimed for its handler, wherever its     *)
(* HTTP task is (_settle_unclaimed, _claim of                              *)
(* velociraptor_observation_controller.py).                                *)
THEOREM JournalsAreClaimedOnce == Spec => []ClaimedOnce
<1>1. Inv => ClaimedOnce
  <2> SUFFICES ASSUME Inv, NEW r \in Rows
               PROVE  row[r].claims <= 1 /\ (Unstarted(r) => row[r].claims = 0 /\ ~row[r].handled)
    BY DEF ClaimedOnce
  <2>1. WorkOk(row[r])
    BY RowFields DEF Inv
  <2> QED BY <2>1 DEF WorkOk, HandedOver, Unstarted
<1> QED BY <1>1, InstanceHolds, PTL

(* Two requests whose ids the SDK would confuse are not both in its hands  *)
(* (_slot).                                                                *)
THEOREM IdsExclude == Spec => []IdsAreExclusive
<1>1. Inv => IdsAreExclusive
  <2> SUFFICES ASSUME Inv, NEW r \in Admitted, NEW q \in Admitted, r # q, row[r].sess = row[q].sess,
                      {row[r].kind, row[q].kind} \subseteq {"call", "initialize"},
                      row[r].id[1] = row[q].id[1],
                      row[r].enqueued, row[q].enqueued
               PROVE  \E x \in {r, q} : Left(x) /\ row[x].handled
    BY DEF IdsAreExclusive
  <2>1. r \in Rows /\ q \in Rows /\ r \in Nat /\ q \in Nat
    BY BudgetAssumption DEF Admitted, Rows
  <2>2. CASE q < r
    BY <2>1, <2>2 DEF Inv, Ordered, Clash
  <2>3. CASE r < q
    BY <2>1, <2>3 DEF Inv, Ordered, Clash
  <2> QED BY <2>1, <2>2, <2>3
<1> QED BY <1>1, InstanceHolds, PTL

(* Sessions and creations in flight stay within max_sessions.              *)
THEOREM SessionsStayBounded == Spec => []SessionsAreBounded
<1>1. Inv => SessionsAreBounded
  <2> SUFFICES ASSUME Inv PROVE SessionsAreBounded
    OBVIOUS
  <2>1. Creating = {r \in Admitted : row[r].creating}
    BY RowFields DEF Inv, WorkOk, Creating, Admitted
  <2> QED BY <2>1 DEF Inv, Counted, SessionsAreBounded
<1> QED BY <1>1, InstanceHolds, PTL

(* A session is CLOSED only when nothing of it can act any more (the       *)
(* barrier, the proof of the close and the publication of close_session).  *)
THEOREM ClosedSessionsAreQuiescent == Spec => []ClosedIsQuiescent
<1>1. Inv => ClosedIsQuiescent
  <2> SUFFICES ASSUME Inv, NEW s \in Sessions, sess[s].state = "CLOSED"
               PROVE  /\ close[s].export = "issued" /\ sess[s].run = "exited"
                      /\ \A r \in Of(s) : /\ Left(r) /\ row[r].handled /\ row[r].owner # "live" /\ ~Busy(r)
                                          /\ row[r].child \in {"none", "closed"} /\ row[r].out # "waiting"
                                          /\ row[r].journal \in {"none", "sealed"}
    BY DEF ClosedIsQuiescent
  <2>1. close[s].export = "issued" /\ sess[s].run = "exited"
        /\ \A r \in Rows : row[r].sess = s => Over(row[r]) /\ row[r].child # "nospawn"
    BY DEF Inv, Closes
  <2>2. ASSUME NEW r \in Of(s)
        PROVE  /\ Left(r) /\ row[r].handled /\ row[r].owner # "live" /\ ~Busy(r)
               /\ row[r].child \in {"none", "closed"} /\ row[r].out # "waiting"
               /\ row[r].journal \in {"none", "sealed"}
    <3>1. r \in Rows /\ row[r].sess = s
      BY DEF Of, Admitted
    <3>2. WorkOk(row[r])
      BY <3>1, RowFields DEF Inv
    <3> QED BY <2>1, <3>1, <3>2 DEF Over, WorkOk, Left, Busy
  <2> QED BY <2>1, <2>2
<1> QED BY <1>1, InstanceHolds, PTL
=============================================================================
