------------------------- MODULE HostPartialProofs -------------------------
(***************************************************************************)
(* The journal never loses a fact and the reception never loses a byte,    *)
(* for any number of host processes, kills, power losses and failing       *)
(* writes, and any package: HostPartial's specification implies            *)
(* FactsAreKept, AckedIsHeld and NoFalseAlarm.                             *)
(*                                                                         *)
(* FactsAreKept is about one step, the rename of a new state.json.  It     *)
(* replaces the state it was checked against only because no other process *)
(* can come in between; that needs the lock (LockHeld), and what the check *)
(* established about the pending state (CommitKeeps) has to last from the  *)
(* save to the rename.                                                     *)
(*                                                                         *)
(* The reception's Inv says, for each place a process may be at, what it   *)
(* rests on there (Able): what it loaded is on disk; what it is about to   *)
(* put in place (Pending) registers bytes and a line that are already in   *)
(* the files; and the files a process remembers (Trusts) were registered   *)
(* for good.  A process that ends rests on nothing.  A power loss leaves   *)
(* an earlier registration (DurableBehind) of files that only grew.        *)
(***************************************************************************)
EXTENDS HostPartial, SequenceTheorems, TLAPS

Places == {"idle", "initialize", "resumed", "appended"}

(* A process is at work only while it holds the lock.                      *)
LockHeld == \A h \in Hosts : pc[h] # "out" => lock = h

(* The task directory is made before the first state is written.           *)
DirectoryFirst ==
    /\ ~taskDir => disk = None /\ durable = None
    /\ \A h \in Hosts : pc[h] = "rename" => taskDir

(* The state a process is about to put in place keeps the facts of the one *)
(* it will replace.                                                        *)
CommitKeeps ==
    \A h \in Hosts : pc[h] = "rename" /\ disk # None => Keeps(disk.data.facts, want[h].facts)

ProcTypes == /\ pc = [h \in Hosts |-> pc[h]] /\ then \in [Hosts -> Places]
             /\ want = [h \in Hosts |-> want[h]] /\ taskDir \in BOOLEAN

JournalInv == ProcTypes /\ LockHeld /\ DirectoryFirst /\ CommitKeeps

-----------------------------------------------------------------------------
(* The steps of a process that leave the journal's file alone, and end     *)
(* anywhere but at a rename.                                               *)
Quiet(h) ==
    /\ pc[h] # "out"
    /\ disk' = disk /\ taskDir' = taskDir /\ lock' = lock
    /\ durable' \in {durable, disk}
    /\ \E place : place # "rename" /\ pc' = [pc EXCEPT ![h] = place]
    /\ \E w : want' = [want EXCEPT ![h] = w]
    /\ \E next \in Places : then' = [then EXCEPT ![h] = next]

(* The steps that begin to replace it.                                     *)
Saving(h) ==
    /\ pc[h] # "out"
    /\ disk' = disk /\ taskDir' = taskDir /\ lock' = lock /\ durable' = durable
    /\ pc' = [pc EXCEPT ![h] = "rename"]
    /\ taskDir /\ disk # None
    /\ \E data : want' = [want EXCEPT ![h] = data] /\ Keeps(disk.data.facts, data.facts)
    /\ \E next \in Places : then' = [then EXCEPT ![h] = next]

(* A save that meets no error has compared the facts with the state on     *)
(* disk.                                                                   *)
LEMMA SaveChecked ==
    ASSUME NEW h \in Hosts, NEW data, SaveError(h, data) = None
    PROVE  taskDir /\ disk # None /\ Keeps(disk.data.facts, data.facts)
<1>1. LoadError(h) = None
    BY CodesAssumption DEF SaveError
<1>2. taskDir /\ disk # None
    BY <1>1, CodesAssumption DEF LoadError
<1>3. Keeps(disk.data.facts, data.facts)
    BY <1>1, CodesAssumption DEF SaveError
<1> QED BY <1>2, <1>3

LEMMA QuietInv ==
    ASSUME JournalInv, NEW h \in Hosts, Quiet(h)
    PROVE  JournalInv'
<1>1. PICK place : place # "rename" /\ pc' = [pc EXCEPT ![h] = place]
    BY DEF Quiet
<1>2. PICK w : want' = [want EXCEPT ![h] = w]
    BY DEF Quiet
<1>3. PICK next \in Places : then' = [then EXCEPT ![h] = next]
    BY DEF Quiet
<1>4. /\ disk' = disk /\ taskDir' = taskDir /\ lock' = lock
      /\ durable' \in {durable, disk} /\ pc[h] # "out"
    BY DEF Quiet
<1>5. \A g \in Hosts : pc'[g] = "rename" => g # h /\ pc[g] = "rename" /\ want'[g] = want[g]
    BY <1>1, <1>2 DEF JournalInv, ProcTypes
<1>6. ProcTypes'
    BY <1>1, <1>2, <1>3, <1>4 DEF JournalInv, ProcTypes
<1>7. LockHeld'
    BY <1>1, <1>4 DEF JournalInv, ProcTypes, LockHeld
<1>8. DirectoryFirst'
    BY <1>4, <1>5 DEF JournalInv, DirectoryFirst
<1>9. CommitKeeps'
    BY <1>4, <1>5 DEF JournalInv, CommitKeeps
<1> QED BY <1>6, <1>7, <1>8, <1>9 DEF JournalInv

LEMMA SavingInv ==
    ASSUME JournalInv, NEW h \in Hosts, Saving(h)
    PROVE  JournalInv'
<1>1. PICK data : want' = [want EXCEPT ![h] = data] /\ Keeps(disk.data.facts, data.facts)
    BY DEF Saving
<1>2. PICK next \in Places : then' = [then EXCEPT ![h] = next]
    BY DEF Saving
<1>3. /\ disk' = disk /\ taskDir' = taskDir /\ lock' = lock /\ durable' = durable
      /\ pc' = [pc EXCEPT ![h] = "rename"] /\ pc[h] # "out" /\ taskDir
    BY DEF Saving
<1>4. \A g \in Hosts : g # h => pc[g] = "out"
    BY <1>3 DEF JournalInv, LockHeld
<1>5. \A g \in Hosts : pc'[g] = "rename" => g = h
    BY <1>3, <1>4 DEF JournalInv, ProcTypes
<1>6. ProcTypes'
    BY <1>1, <1>2, <1>3 DEF JournalInv, ProcTypes
<1>7. LockHeld'
    BY <1>3 DEF JournalInv, ProcTypes, LockHeld
<1>8. DirectoryFirst'
    BY <1>3 DEF JournalInv, DirectoryFirst
<1>9. CommitKeeps'
  <2>1. want'[h] = data
    BY <1>1 DEF JournalInv, ProcTypes
  <2> QED BY <1>1, <1>3, <1>5, <2>1 DEF CommitKeeps
<1> QED BY <1>6, <1>7, <1>8, <1>9 DEF JournalInv

-----------------------------------------------------------------------------
(* A save either begins to replace the state or fails without a trace.     *)
LEMMA SaveSteps ==
    ASSUME JournalInv, NEW h \in Hosts, NEW data, NEW next \in Places, Save(h, data, next), pc[h] # "out",
           UNCHANGED stores, UNCHANGED lock
    PROVE  Saving(h) \/ Quiet(h)
<1>0. disk' = disk /\ durable' = durable /\ taskDir' = taskDir /\ lock' = lock
    BY DEF stores
<1>1. CASE SaveError(h, data) # None
  <2>1. pc' = [pc EXCEPT ![h] = "failed"] /\ want' = want /\ then' = then
    BY <1>1 DEF Save, Fail, Goto
  <2>2. want' = [want EXCEPT ![h] = want[h]] /\ then' = [then EXCEPT ![h] = then[h]] /\ then[h] \in Places
    BY <2>1 DEF JournalInv, ProcTypes
  <2> QED BY <1>0, <2>1, <2>2 DEF Quiet
<1>2. CASE SaveError(h, data) = None
  <2>1. taskDir /\ disk # None /\ Keeps(disk.data.facts, data.facts)
    BY <1>2, SaveChecked
  <2>2. /\ pc' = [pc EXCEPT ![h] = "rename"] /\ want' = [want EXCEPT ![h] = data]
        /\ then' = [then EXCEPT ![h] = next]
    BY <1>2 DEF Save, Goto
  <2> QED BY <1>0, <2>1, <2>2 DEF Saving
<1> QED BY <1>1, <1>2

(* Steps of the reception and of the journal that save nothing.            *)
LEMMA QuietShapes ==
    ASSUME JournalInv, NEW h \in Hosts, pc[h] # "out"
    PROVE  /\ \A e : Refuse(h, e) => Quiet(h)
           /\ Breaks(h) => Quiet(h)
           /\ \A place : place # "rename" /\ Step(h, place) => Quiet(h)
           /\ \A o, place : place # "rename" /\ Call(h, o, place) => Quiet(h)
<1>1. want = [want EXCEPT ![h] = want[h]] /\ then = [then EXCEPT ![h] = then[h]] /\ then[h] \in Places
    BY DEF JournalInv, ProcTypes
<1>2. ASSUME NEW e, Refuse(h, e) PROVE Quiet(h)
    BY <1>1, <1>2 DEF Refuse, Raise, Goto, Quiet, stores
<1>3. ASSUME Breaks(h) PROVE Quiet(h)
    BY <1>1, <1>3 DEF Breaks, Raise, Goto, Quiet, stores
<1>4. ASSUME NEW place, place # "rename", Step(h, place) PROVE Quiet(h)
    BY <1>1, <1>4 DEF Step, Goto, Quiet, stores
<1>5. ASSUME NEW o, NEW place, place # "rename", Call(h, o, place) PROVE Quiet(h)
    BY <1>1, <1>5 DEF Call, Goto, Quiet, stores
<1> QED BY <1>2, <1>3, <1>4, <1>5

LEMMA PartialSaves ==
    ASSUME JournalInv, NEW h \in Hosts, pc[h] # "out", NEW r, NEW next \in Places, SavePartial(h, r, next)
    PROVE  Saving(h) \/ Quiet(h)
<1>1. Save(h, [env[h].data EXCEPT !.rp = r], next) /\ UNCHANGED stores /\ UNCHANGED lock
    BY DEF SavePartial
<1> QED BY <1>1, SaveSteps

-----------------------------------------------------------------------------
(* The steps of the reception.                                             *)
PartialStep(h) ==
    \/ CallInitialize(h) \/ CallResume(h) \/ CallVerify(h)
    \/ \E offset \in 0..(Size - 1) : \E bytes \in Chunks(offset) : CallAppend(h, offset, bytes)
    \/ InitializeDirectory(h) \/ InitializePart(h) \/ InitializeLedger(h) \/ Initialized(h)
    \/ ResumeCheck(h) \/ TruncateLedger(h) \/ Resumed(h)
    \/ AppendCheck(h) \/ WriteLine(h) \/ Appended(h) \/ Replay(h) \/ Hash(h)
    \/ \E n \in 0..MaxChunk : WriteBytes(h, n)

LEMMA PartialShapes ==
    ASSUME JournalInv, NEW h \in Hosts, PartialStep(h)
    PROVE  Saving(h) \/ Quiet(h)
<1>1. CASE CallInitialize(h)
    BY <1>1, QuietShapes DEF CallInitialize, Call
<1>2. CASE CallResume(h)
    BY <1>2, QuietShapes DEF CallResume, Call
<1>3. CASE CallVerify(h)
    BY <1>3, QuietShapes DEF CallVerify, Call
<1>4. ASSUME NEW offset, NEW bytes, CallAppend(h, offset, bytes) PROVE Quiet(h)
    BY <1>4, QuietShapes DEF CallAppend, Call
<1>5. CASE InitializeDirectory(h)
    BY <1>5, QuietShapes, PartialSaves DEF InitializeDirectory, At, Places
<1>6. CASE InitializePart(h)
    BY <1>6, QuietShapes, PartialSaves DEF InitializePart, At, Places
<1>7. CASE InitializeLedger(h)
    BY <1>7, QuietShapes, PartialSaves DEF InitializeLedger, At, Places
<1>8. CASE Initialized(h)
    BY <1>8, QuietShapes DEF Initialized, At
<1>9. CASE ResumeCheck(h)
    BY <1>9, QuietShapes DEF ResumeCheck, At
<1>10. CASE TruncateLedger(h)
    BY <1>10, PartialSaves DEF TruncateLedger, At, Places
<1>11. CASE Resumed(h)
    BY <1>11, QuietShapes DEF Resumed, At
<1>12. CASE AppendCheck(h)
    BY <1>12, QuietShapes DEF AppendCheck, At
<1>13. CASE WriteLine(h)
    BY <1>13, QuietShapes, PartialSaves DEF WriteLine, At, Places
<1>14. CASE Appended(h)
    BY <1>14, QuietShapes DEF Appended, At
<1>15. CASE Replay(h)
    BY <1>15, QuietShapes DEF Replay, At
<1>16. CASE Hash(h)
    BY <1>16, QuietShapes DEF Hash, At
<1>17. ASSUME NEW n, WriteBytes(h, n) PROVE Quiet(h)
    BY <1>17, QuietShapes DEF WriteBytes, At
<1> QED BY <1>1, <1>2, <1>3, <1>4, <1>5, <1>6, <1>7, <1>8, <1>9, <1>10, <1>11, <1>12, <1>13,
           <1>14, <1>15, <1>16, <1>17 DEF PartialStep

-----------------------------------------------------------------------------
(* The steps of the journal that are neither a rename nor a start.         *)
LEMMA LoadQuiet ==
    ASSUME JournalInv, NEW h \in Hosts, Load(h)
    PROVE  Quiet(h)
<1>1. want = [want EXCEPT ![h] = want[h]] /\ then = [then EXCEPT ![h] = then[h]] /\ then[h] \in Places
    BY DEF JournalInv, ProcTypes
<1> QED BY <1>1 DEF Load, At, Raise, Goto, Quiet, stores

LEMMA SyncQuiet ==
    ASSUME JournalInv, NEW h \in Hosts, Sync(h)
    PROVE  Quiet(h)
<1>1. then[h] # "rename"
    BY DEF JournalInv, ProcTypes, Places
<1>2. "idle" \in Places
    BY DEF Places
<1> QED BY <1>1, <1>2 DEF Sync, At, Goto, Quiet

LEMMA CommitFailsQuiet ==
    ASSUME JournalInv, NEW h \in Hosts, NEW seen, CommitFails(h, seen)
    PROVE  Quiet(h)
<1>1. want = [want EXCEPT ![h] = want[h]] /\ then = [then EXCEPT ![h] = then[h]] /\ then[h] \in Places
    BY DEF JournalInv, ProcTypes
<1> QED BY <1>1 DEF CommitFails, Fail, Goto, Quiet, stores

LEMMA WriteEvidenceQuiet ==
    ASSUME JournalInv, NEW h \in Hosts, NEW v, WriteEvidence(h, v)
    PROVE  Quiet(h)
<1>1. /\ want = [want EXCEPT ![h] = want[h]] /\ then = [then EXCEPT ![h] = then[h]] /\ then[h] \in Places
      /\ pc = [pc EXCEPT ![h] = pc[h]]
    BY DEF JournalInv, ProcTypes
<1>2. pc[h] = "idle" /\ \E place : place # "rename" /\ pc' = [pc EXCEPT ![h] = place]
    BY <1>1 DEF WriteEvidence, At, Raise, Goto
<1>3. \E w : want' = [want EXCEPT ![h] = w]
    BY <1>1 DEF WriteEvidence
<1> QED BY <1>1, <1>2, <1>3 DEF WriteEvidence, Quiet

LEMMA PlaceEvidenceQuiet ==
    ASSUME JournalInv, NEW h \in Hosts, PlaceEvidence(h)
    PROVE  Quiet(h)
<1>1. then = [then EXCEPT ![h] = then[h]] /\ then[h] \in Places
    BY DEF JournalInv, ProcTypes
<1>2. pc[h] = "evidence" /\ pc' = [pc EXCEPT ![h] = "idle"]
    BY DEF PlaceEvidence, At, Raise, Goto
<1> QED BY <1>1, <1>2 DEF PlaceEvidence, Quiet

LEMMA FactsSaved ==
    ASSUME JournalInv, NEW h \in Hosts, NEW f, SaveFacts(h, f)
    PROVE  Saving(h) \/ Quiet(h)
<1>1. /\ Save(h, [env[h].data EXCEPT !.facts = f], "idle") /\ UNCHANGED stores /\ UNCHANGED lock
      /\ pc[h] # "out"
    BY DEF SaveFacts, At
<1>2. "idle" \in Places
    BY DEF Places
<1> QED BY <1>1, <1>2, SaveSteps

(* A process starts only when the lock is free, that is when no process is *)
(* at work.                                                                *)
LEMMA StartInv ==
    ASSUME JournalInv, NEW h \in Hosts, NEW r, Start(h, r)
    PROVE  JournalInv' /\ disk' = disk
<1>0. disk' = disk /\ durable' = durable /\ taskDir' = taskDir /\ then' = then /\ want' = want
    BY DEF Start, stores
<1>1. CASE lock # None
  <2>1. pc' = pc /\ lock' = lock
    BY <1>1 DEF Start
  <2> QED BY <1>0, <2>1 DEF JournalInv, ProcTypes, LockHeld, DirectoryFirst, CommitKeeps
<1>2. CASE lock = None
  <2>1. pc' = [pc EXCEPT ![h] = "idle"] /\ lock' = h
    BY <1>2 DEF Start, Goto
  <2>2. \A g \in Hosts : pc[g] = "out"
    BY <1>2, NoneAssumption DEF JournalInv, LockHeld
  <2>3. \A g \in Hosts : pc'[g] = IF g = h THEN "idle" ELSE "out"
    BY <2>1, <2>2 DEF JournalInv, ProcTypes
  <2>4. ProcTypes'
    BY <1>0, <2>1 DEF JournalInv, ProcTypes
  <2>5. LockHeld' /\ CommitKeeps'
    BY <2>1, <2>3 DEF LockHeld, CommitKeeps
  <2>6. DirectoryFirst'
    BY <1>0, <2>3 DEF JournalInv, DirectoryFirst
  <2> QED BY <1>0, <2>4, <2>5, <2>6 DEF JournalInv
<1> QED BY <1>1, <1>2

(* The first state of a task keeps the facts of none.                      *)
LEMMA CreateInv ==
    ASSUME JournalInv, NEW h \in Hosts, Create(h)
    PROVE  JournalInv' /\ disk' = disk
<1>0. disk' = disk /\ durable' = durable /\ lock' = lock /\ pc[h] = "idle"
    BY DEF Create, At
<1>1. CASE resume[h] \/ taskDir
  <2>1. want = [want EXCEPT ![h] = want[h]] /\ then = [then EXCEPT ![h] = then[h]] /\ then[h] \in Places
    BY DEF JournalInv, ProcTypes
  <2>2. Quiet(h)
    BY <1>0, <1>1, <2>1 DEF Create, Raise, Goto, Quiet
  <2> QED BY <1>0, <2>2, QuietInv
<1>2. CASE ~(resume[h] \/ taskDir)
  <2>1. /\ taskDir' = TRUE /\ pc' = [pc EXCEPT ![h] = "rename"] /\ then' = [then EXCEPT ![h] = "idle"]
        /\ \E w : want' = [want EXCEPT ![h] = w]
    BY <1>2 DEF Create, Goto
  <2>2. disk' = None
    BY <1>0, <1>2 DEF JournalInv, DirectoryFirst
  <2>3. ProcTypes'
    BY <2>1 DEF JournalInv, ProcTypes, Places
  <2>4. LockHeld'
    BY <1>0, <2>1 DEF JournalInv, ProcTypes, LockHeld
  <2>5. DirectoryFirst' /\ CommitKeeps'
    BY <2>1, <2>2 DEF DirectoryFirst, CommitKeeps
  <2> QED BY <1>0, <2>3, <2>4, <2>5 DEF JournalInv
<1> QED BY <1>1, <1>2

(* The rename itself: what it replaces is the state its process loaded,    *)
(* and the save has checked the new one against it.                        *)
LEMMA RenameInv ==
    ASSUME JournalInv, NEW h \in Hosts, Rename(h)
    PROVE  JournalInv' /\ StateKept
<1>1. /\ pc[h] = "rename" /\ pc' = [pc EXCEPT ![h] = "sync"] /\ disk = env[h]
      /\ disk' = Envelope(h)
      /\ taskDir' = taskDir /\ durable' = durable /\ lock' = lock /\ want' = want /\ then' = then
    BY DEF Rename, At, Goto
<1>2. taskDir /\ taskDir'
    BY <1>1 DEF JournalInv, DirectoryFirst
<1>3. \A g \in Hosts : pc'[g] # "rename"
    BY <1>1 DEF JournalInv, ProcTypes, LockHeld
<1>4. ProcTypes'
    BY <1>1 DEF JournalInv, ProcTypes
<1>5. LockHeld'
    BY <1>1 DEF JournalInv, ProcTypes, LockHeld
<1>6. DirectoryFirst' /\ CommitKeeps'
    BY <1>2, <1>3 DEF DirectoryFirst, CommitKeeps
<1>7. StateKept
  <2>1. disk # None => Envelope(h).rev = disk.rev + 1 /\ Envelope(h).data = want[h]
    BY <1>1 DEF Envelope
  <2>2. disk # None => Keeps(disk.data.facts, want[h].facts)
    BY <1>1 DEF JournalInv, CommitKeeps
  <2> QED BY <1>1, <2>1, <2>2 DEF StateKept
<1> QED BY <1>4, <1>5, <1>6, <1>7 DEF JournalInv

LEMMA LeaveInv ==
    ASSUME JournalInv, NEW h \in Hosts, Leave(h)
    PROVE  JournalInv' /\ disk' = disk
<1>1. /\ pc[h] # "out" /\ pc' = [pc EXCEPT ![h] = "out"] /\ disk' = disk /\ durable' = durable
      /\ taskDir' = taskDir
      /\ then' = [g \in Hosts |-> IF g \in {h} THEN "idle" ELSE then[g]]
      /\ want' = [g \in Hosts |-> IF g \in {h} THEN None ELSE want[g]]
    BY DEF Leave, At, Goto, Forget
<1>2. \A g \in Hosts : pc'[g] = "out"
    BY <1>1 DEF JournalInv, ProcTypes, LockHeld
<1>3. ProcTypes'
    BY <1>1 DEF JournalInv, ProcTypes, Places
<1>4. LockHeld' /\ CommitKeeps'
    BY <1>2 DEF LockHeld, CommitKeeps
<1>5. DirectoryFirst'
    BY <1>1, <1>2 DEF JournalInv, DirectoryFirst
<1> QED BY <1>1, <1>3, <1>4, <1>5 DEF JournalInv

LEMMA PowerLossInv ==
    ASSUME JournalInv, PowerLoss
    PROVE  JournalInv' /\ StateKept
<1>1. /\ boot = 0 /\ boot' = 1 /\ disk' \in {disk, durable} /\ durable' = disk' /\ taskDir' = taskDir
      /\ pc' = [h \in Hosts |-> "out"]
      /\ then' = [g \in Hosts |-> IF g \in Hosts THEN "idle" ELSE then[g]]
      /\ want' = [g \in Hosts |-> IF g \in Hosts THEN None ELSE want[g]]
    BY DEF PowerLoss, Forget
<1>2. \A g \in Hosts : pc'[g] = "out"
    BY <1>1
<1>3. ProcTypes'
    BY <1>1 DEF JournalInv, ProcTypes, Places
<1>4. LockHeld' /\ CommitKeeps'
    BY <1>2 DEF LockHeld, CommitKeeps
<1>5. DirectoryFirst'
    BY <1>1, <1>2 DEF JournalInv, DirectoryFirst
<1>6. StateKept
    BY <1>1 DEF StateKept
<1> QED BY <1>3, <1>4, <1>5, <1>6 DEF JournalInv

LEMMA StillInv ==
    ASSUME JournalInv, UNCHANGED <<stores, lock, procs>>
    PROVE  JournalInv' /\ disk' = disk
BY DEF JournalInv, ProcTypes, LockHeld, DirectoryFirst, CommitKeeps, stores, procs

-----------------------------------------------------------------------------
(* Every step keeps the invariant and the facts.                           *)
LEMMA StepKeeps ==
    ASSUME JournalInv, [Next]_vars
    PROVE  JournalInv' /\ StateKept
<1>0. ASSUME disk' = disk PROVE StateKept
    BY <1>0 DEF StateKept
<1>1. ASSUME NEW h \in Hosts, Saving(h) \/ Quiet(h) PROVE JournalInv' /\ StateKept
  <2>1. disk' = disk
    BY <1>1 DEF Saving, Quiet
  <2> QED BY <1>0, <1>1, <2>1, SavingInv, QuietInv
<1>2. ASSUME UNCHANGED <<stores, lock, procs>> PROVE JournalInv' /\ StateKept
    BY <1>0, <1>2, StillInv
<1>3. CASE PowerLossForgets
    BY <1>3, PowerLossInv DEF PowerLossForgets
<1>4. ASSUME NEW k, Tamper(k) PROVE JournalInv' /\ StateKept
    BY <1>2, <1>4 DEF Tamper
<1>5. ASSUME NEW h \in Hosts, JournalStep(h) PROVE JournalInv' /\ StateKept
  <2>1. CASE \E r \in BOOLEAN : Start(h, r)
    BY <1>0, <2>1, StartInv
  <2>2. CASE Create(h)
    BY <1>0, <2>2, CreateInv
  <2>3. CASE Load(h) \/ Sync(h) \/ PlaceEvidence(h)
    BY <1>1, <2>3, LoadQuiet, SyncQuiet, PlaceEvidenceQuiet
  <2>4. CASE \E seen \in BOOLEAN : CommitFails(h, seen)
    BY <1>1, <2>4, CommitFailsQuiet
  <2>5. CASE \E f \in Facts : SaveFacts(h, f)
    BY <1>1, <2>5, FactsSaved
  <2>6. CASE \E v \in {"v1", "v2"} : WriteEvidence(h, v)
    BY <1>1, <2>6, WriteEvidenceQuiet
  <2> QED BY <1>5, <2>1, <2>2, <2>3, <2>4, <2>5, <2>6 DEF JournalStep
<1>6. ASSUME NEW h \in Hosts, RenameTakes(h) PROVE JournalInv' /\ StateKept
    BY <1>6, RenameInv DEF RenameTakes
<1>7. ASSUME NEW h \in Hosts, LeaveForgets(h) PROVE JournalInv' /\ StateKept
    BY <1>0, <1>7, LeaveInv DEF LeaveForgets
<1>8. ASSUME NEW h \in Hosts, TruncatePart(h) PROVE JournalInv' /\ StateKept
    BY <1>2, <1>8 DEF TruncatePart, journalVars
<1>9. ASSUME NEW h \in Hosts, PartialStep(h) PROVE JournalInv' /\ StateKept
    BY <1>1, <1>9, PartialShapes
<1>10. CASE UNCHANGED vars
    BY <1>2, <1>10 DEF vars, journalVars
<1> QED BY <1>3, <1>4, <1>5, <1>6, <1>7, <1>8, <1>9, <1>10 DEF Next, PartialStep

-----------------------------------------------------------------------------
LEMMA InitKeeps == Init => JournalInv
BY DEF Init, JournalInit, JournalInv, ProcTypes, LockHeld, DirectoryFirst, CommitKeeps, Places

(* Mutual exclusion: of all host processes of a task at most one is at     *)
(* work, and it holds the lock; its directory was made before its state.   *)
THEOREM JournalInvariance == Spec => []JournalInv
<1>1. JournalInv /\ [Next]_vars => JournalInv'
    BY StepKeeps
<1> QED BY <1>1, InitKeeps, PTL DEF Spec

(* As long as the machine runs, each state.json follows the one before it  *)
(* by one revision and keeps its facts, for any number of host processes,  *)
(* starts, failing calls and chunks.                                       *)
THEOREM FactsSurvive == Spec => FactsAreKept
<1>1. JournalInv /\ [Next]_vars => [StateKept]_journalVars
  <2> SUFFICES ASSUME JournalInv, [Next]_vars PROVE StateKept
    OBVIOUS
  <2> QED BY StepKeeps
<1> QED BY <1>1, JournalInvariance, PTL DEF Spec, FactsAreKept

-----------------------------------------------------------------------------
Datas == [facts : FactFields, rp : Receives \cup {None}]
Envelopes == [rev : Nat, boot : {0, 1}, data : Datas]
Fingerprints == Nat \X Nat \X Seq(Bytes) \X Seq(Lines)
Operations ==
    {o \in [name : {"initialize", "resume", "verify", "append"}, offset : Nat, bytes : Seq(Bytes)] :
        o.name = "append" => o.offset < Size /\ o.bytes # <<>>}

StoreTypes ==
    /\ disk \in Envelopes \cup {None} /\ durable \in Envelopes \cup {None} /\ boot \in {0, 1}
    /\ part \in Seq(Bytes) \cup {None} /\ ledger \in Seq(Lines) \cup {None}
    /\ taken \in Seq(Bytes) /\ acked \in Nat /\ verified \in BOOLEAN /\ tampered \in BOOLEAN
HostTypes ==
    /\ env \in [Hosts -> Envelopes \cup {None}]
    /\ op \in [Hosts -> Operations \cup {None}]
    /\ cont \in [Hosts -> Fingerprints \cup {None}]
    /\ code = [h \in Hosts |-> code[h]]

IsReady(r) == r # None /\ r.phase = "READY"
Live == disk # None /\ disk.boot = boot

(* What a power loss leaves is an earlier registration.                    *)
Grown(a, b) ==
    a # None => b # None /\ a.verified <= b.verified /\ (a.phase = "READY" => b.phase = "READY")
DurableBehind == durable # None => disk # None /\ Grown(durable.data.rp, disk.data.rp)
BootBehind ==
    boot = 0 => (disk # None => disk.boot = 0) /\ (durable # None => durable.boot = 0)

(* A byte of the file is the byte it was, or somebody changed it.          *)
IsByte(b, t) == b = t \/ (tampered /\ b = Noise)
(* The registered prefix of received.part is what was taken.               *)
PartHeld ==
    disk # None /\ IsReady(disk.data.rp) =>
        /\ part # None /\ disk.data.rp.verified <= Len(part) /\ disk.data.rp.verified <= Len(taken)
        /\ \A k \in 1..disk.data.rp.verified : IsByte(part[k], taken[k])

LineHeld(v, k) ==
    /\ ledger[k].torn = FALSE /\ ledger[k].bytes # <<>>
    /\ ledger[k].offset = LineEnd(k - 1) /\ LineEnd(k) <= v
    /\ \A i \in 1..Len(ledger[k].bytes) : ledger[k].bytes[i] = taken[ledger[k].offset + i]
LedgerHeld ==
    Live /\ IsReady(disk.data.rp) =>
        /\ ledger # None /\ disk.data.rp.count <= Len(ledger)
        /\ \A k \in 1..disk.data.rp.count : LineHeld(disk.data.rp.verified, k)
        /\ LineEnd(disk.data.rp.count) = disk.data.rp.verified
TakenCounts ==
    /\ ~taskDir => taken = <<>>
    /\ Live => Len(taken) = IF IsReady(disk.data.rp) THEN disk.data.rp.verified ELSE 0
    /\ Live /\ disk.data.rp # None /\ disk.data.rp.phase = "PARTIAL" => part # None
    /\ verified => taken = Package

StoreInv == DurableBehind /\ BootBehind /\ PartHeld /\ LedgerHeld /\ TakenCounts /\ AckedIsDurable

-----------------------------------------------------------------------------
Reception == {"initialize", "resume", "truncate", "resumed", "append", "replay", "bytes", "line", "appended", "hash"}
Cut(r) == IsReady(r) /\ Len(part) = r.verified /\ Len(ledger) = r.count

(* The bytes of op[h] are at the end of received.part.                     *)
Tailed(h, v) ==
    /\ Len(part) = v + Len(op[h].bytes)
    /\ \A i \in 1..Len(op[h].bytes) : IsByte(part[v + i], op[h].bytes[i])

Offered(h) == op[h] \in Operations /\ op[h].name = "append"
Adds(h) == Ready(h) /\ Offered(h) /\ op[h].offset = rp(h).verified

(* What a process is about to put in place, by where its save returns to.  *)
Pending(h) ==
    IF env[h] = None THEN then[h] = "idle" /\ want[h].rp = None /\ taken = <<>>
    ELSE /\ Live
         /\ then[h] = "idle" => want[h].rp = rp(h)
         /\ then[h] = "initialize" =>
              /\ op[h] \in Operations
              /\ \/ rp(h) = None /\ want[h].rp = Receive("DIRECTORY", 0, 0)
                 \/ rp(h) # None /\ rp(h).phase = "DIRECTORY" /\ want[h].rp = Receive("PARTIAL", 0, 0) /\ part # None
                 \/ rp(h) # None /\ rp(h).phase = "PARTIAL" /\ want[h].rp = Receive("READY", 0, 0) /\ part # None /\ ledger # None
         /\ then[h] = "resumed" => op[h] \in Operations /\ want[h].rp = rp(h) /\ Cut(rp(h))
         /\ then[h] = "appended" =>
              /\ Adds(h)
              /\ want[h].rp = Receive("READY", rp(h).verified + Len(op[h].bytes), rp(h).count + 1)
              /\ Len(ledger) = rp(h).count + 1
              /\ ledger[rp(h).count + 1] = Line(op[h].offset, op[h].bytes)
              /\ Tailed(h, rp(h).verified)

Verdicts(h) ==
    /\ code[h] = "storage_durability_unknown" => disk = Envelope(h)
    /\ code[h] = "storage_write_failed" => disk = env[h]

(* What a process at a place rests on.                                     *)
Able(h, p) ==
    /\ p = "out" => env[h] = None /\ cont[h] = None
    /\ p \in {"idle", "evidence"} \cup Reception => (env[h] # None => env[h] = disk /\ Live)
    /\ p \in Reception => env[h] # None /\ op[h] \in Operations
    /\ p \in {"truncate", "hash", "replay", "bytes", "line", "resumed", "appended"} => Ready(h)
    /\ p \in {"resumed", "appended"} => durable = disk /\ Cut(rp(h))
    /\ p \in {"append", "bytes", "line", "replay"} => Offered(h)
    /\ p = "replay" => durable # None /\ durable.data.rp # None /\ rp(h).verified <= durable.data.rp.verified
    /\ p = "bytes" => Adds(h) /\ Cut(rp(h))
    /\ p = "line" => Adds(h) /\ Len(ledger) = rp(h).count /\ Tailed(h, rp(h).verified)
    /\ p = "rename" => env[h] = disk /\ want[h] \in Datas /\ Pending(h)
    /\ p = "sync" => /\ disk # None /\ disk = Envelope(h) /\ Live
                     /\ then[h] # "idle" => op[h] \in Operations
                     /\ then[h] \in {"resumed", "appended"} => Cut(disk.data.rp)
    /\ p = "failed" => Verdicts(h)

(* The files as the process left them were registered for good.            *)
Trusts(c) ==
    c # None => /\ Len(c[3]) = c[1] /\ Len(c[4]) = c[2]
                /\ durable # None /\ durable.data.rp # None /\ c[1] <= durable.data.rp.verified

NoAlarm == ~tampered => \A h \in Hosts : code[h] \notin {"partial_corrupt", "stale_revision"}

HostInv == \A h \in Hosts : Able(h, pc[h]) /\ Trusts(cont[h])
Inv == JournalInv /\ StoreTypes /\ HostTypes /\ StoreInv /\ HostInv /\ NoAlarm

-----------------------------------------------------------------------------
(* The fields of what the journal holds.                                   *)
LEMMA ReceiveFields ==
    ASSUME NEW r \in Receives
    PROVE  /\ r # None /\ r.verified \in Nat /\ r.count \in Nat /\ r.phase \in {"DIRECTORY", "PARTIAL", "READY"}
           /\ r.phase # "READY" => r.verified = 0 /\ r.count = 0
BY AbsentAssumption DEF Receives

(* What an envelope of state.json consists of.                             *)
LEMMA EnvelopeFields ==
    ASSUME NEW e \in Envelopes
    PROVE  /\ e # None /\ e.rev \in Nat /\ e.boot \in {0, 1} /\ e.data \in Datas
           /\ e.data.facts \in FactFields /\ e.data.rp \in Receives \cup {None}
           /\ e = [rev |-> e.rev, boot |-> e.boot, data |-> e.data]
<1>1. e # None
    BY AbsentAssumption DEF Envelopes, Datas
<1>2. /\ e.rev \in Nat /\ e.boot \in {0, 1} /\ e.data \in Datas
      /\ e = [rev |-> e.rev, boot |-> e.boot, data |-> e.data]
    BY DEF Envelopes
<1>3. e.data.facts \in FactFields /\ e.data.rp \in Receives \cup {None}
    BY <1>2 DEF Datas
<1> QED BY <1>1, <1>2, <1>3

(* What the reception registers is of the registered kind.                 *)
LEMMA ReceiptTypes ==
    ASSUME NEW phase \in {"DIRECTORY", "PARTIAL", "READY"}
    PROVE  /\ Receive(phase, 0, 0) \in Receives
           /\ \A v, c \in Nat : Receive("READY", v, c) \in Receives
           /\ Receive(phase, 0, 0).phase = phase
           /\ \A v, c : Receive("READY", v, c).phase = "READY" /\ Receive("READY", v, c).verified = v
                        /\ Receive("READY", v, c).count = c
BY DEF Receive, Receives

(* What an operation in progress consists of.                              *)
LEMMA OperationFields ==
    ASSUME NEW o \in Operations
    PROVE  /\ o # None /\ o.name \in {"initialize", "resume", "verify", "append"}
           /\ o.offset \in Nat /\ o.bytes \in Seq(Bytes)
           /\ o.name = "append" => o.offset < Size /\ o.bytes # <<>>
BY AbsentAssumption DEF Operations

(* The package is a sequence of bytes.                                     *)
LEMMA SizeType == Package \in Seq(Bytes) /\ Size \in Nat
<1>1. Package \in Seq(Bytes)
    BY BytesAssumption
<1>2. Len(Package) \in Nat
    BY <1>1, LenProperties
<1> QED BY <1>1, <1>2 DEF Size

(* A cut of a sequence.                                                    *)
LEMMA CutSeq ==
    ASSUME NEW S, NEW s \in Seq(S), NEW n \in Nat, n <= Len(s)
    PROVE  /\ SubSeq(s, 1, n) \in Seq(S) /\ Len(SubSeq(s, 1, n)) = n
           /\ \A i \in 1..n : SubSeq(s, 1, n)[i] = s[i]
<1>1. Len(s) \in Nat /\ \A i \in 1..n : s[i] \in S
    BY LenProperties, ElementOfSeq
<1>2. /\ SubSeq(s, 1, n) \in Seq(S)
      /\ Len(SubSeq(s, 1, n)) = IF 1 <= n THEN n - 1 + 1 ELSE 0
      /\ \A i \in 1 .. n - 1 + 1 : SubSeq(s, 1, n)[i] = s[1 + i - 1]
    BY <1>1, SubSeqProperties
<1>3. \A i \in 1..n : SubSeq(s, 1, n)[i] = s[i]
  <2> TAKE i \in 1..n
  <2>1. i \in 1 .. n - 1 + 1 /\ 1 + i - 1 = i
    OBVIOUS
  <2> QED BY <1>2, <2>1
<1> QED BY <1>2, <1>3

-----------------------------------------------------------------------------
(* The types of the state, in the form the steps use them.                 *)
LEMMA StateFacts ==
    ASSUME Inv, disk # None
    PROVE  /\ disk \in Envelopes /\ disk.rev \in Nat /\ disk.boot \in {0, 1} /\ disk.data \in Datas
           /\ disk.data.rp \in Receives \cup {None}
BY EnvelopeFields DEF Inv, StoreTypes

(* What the invariant says of one process.                                 *)
LEMMA HostFacts ==
    ASSUME Inv, NEW h \in Hosts
    PROVE  /\ env[h] \in Envelopes \cup {None} /\ op[h] \in Operations \cup {None}
           /\ cont[h] \in Fingerprints \cup {None} /\ then[h] \in Places
           /\ Able(h, pc[h]) /\ Trusts(cont[h])
           /\ env[h] # None => env[h].rev \in Nat /\ env[h].data \in Datas /\ rp(h) \in Receives \cup {None}
<1>1. /\ env[h] \in Envelopes \cup {None} /\ op[h] \in Operations \cup {None}
      /\ cont[h] \in Fingerprints \cup {None} /\ then[h] \in Places
    BY DEF Inv, HostTypes, JournalInv, ProcTypes
<1>2. Able(h, pc[h]) /\ Trusts(cont[h])
    BY DEF Inv, HostInv
<1>3. env[h] # None => env[h].rev \in Nat /\ env[h].data \in Datas /\ rp(h) \in Receives \cup {None}
    BY <1>1, EnvelopeFields DEF rp
<1> QED BY <1>1, <1>2, <1>3

(* The store keeps its invariant while nothing of it changes.              *)
LEMMA StoreSame ==
    ASSUME Inv, disk' = disk, durable' = durable, boot' = boot, taskDir' = taskDir, part' = part, ledger' = ledger,
           taken' = taken, acked' = acked, verified' = verified, tampered' = tampered
    PROVE  StoreTypes' /\ StoreInv'
<1>1. StoreTypes'
    BY DEF Inv, StoreTypes
<1>2. DurableBehind' /\ BootBehind' /\ AckedIsDurable'
    BY DEF Inv, StoreInv, DurableBehind, BootBehind, AckedIsDurable
<1>3. PartHeld' /\ TakenCounts'
    BY DEF Inv, StoreInv, PartHeld, TakenCounts, Live, IsByte
<1>4. LedgerHeld'
    BY DEF Inv, StoreInv, LedgerHeld, LineHeld, LineEnd, Live
<1> QED BY <1>1, <1>2, <1>3, <1>4 DEF StoreInv

(* Processes other than the one at work rest on nothing.                   *)
LEMMA OthersRest ==
    ASSUME Inv, NEW h \in Hosts, pc[h] # "out", NEW g \in Hosts, g # h,
           pc'[g] = pc[g], env'[g] = env[g], cont'[g] = cont[g]
    PROVE  Able(g, pc[g])' /\ Trusts(cont[g])'
<1>1. pc[g] = "out"
    BY DEF Inv, JournalInv, LockHeld
<1>2. env[g] = None /\ cont[g] = None
    BY <1>1, HostFacts DEF Able
<1>3. Trusts(cont[g])'
    BY <1>2 DEF Trusts
<1>4. pc'[g] = "out" /\ env'[g] = None /\ cont'[g] = None
    BY <1>1, <1>2
<1>5. Able(g, pc[g])'
    BY <1>4 DEF Able, Reception
<1> QED BY <1>3, <1>5

(* What only a step of process h changes.                                  *)
Alarms == {"partial_corrupt", "stale_revision"}
Turn(h) == \A g \in Hosts : g # h => pc'[g] = pc[g] /\ env'[g] = env[g] /\ cont'[g] = cont[g] /\ code'[g] = code[g]

(* A step of one process keeps the invariant if it keeps its own part.     *)
LEMMA Landed ==
    ASSUME Inv, NEW h \in Hosts, pc[h] # "out", JournalInv', StoreTypes', HostTypes', StoreInv', Turn(h),
           Able(h, pc[h])', Trusts(cont[h])', tampered => tampered',
           tampered' \/ code'[h] \notin Alarms
    PROVE  Inv'
<1>1. ASSUME NEW g \in Hosts PROVE Able(g, pc[g])' /\ Trusts(cont[g])'
  <2>1. CASE g = h
    BY <2>1
  <2>2. CASE g # h
    BY <2>2, OthersRest DEF Turn
  <2> QED BY <2>1, <2>2
<1>2. HostInv'
    BY <1>1 DEF HostInv
<1>3. NoAlarm'
    BY DEF Inv, NoAlarm, Turn, Alarms
<1> QED BY <1>2, <1>3 DEF Inv

-----------------------------------------------------------------------------
(* What a process holds between two operations is what is on disk.         *)
Holds(h) == env[h] # None => env[h] = disk /\ Live
Working == {"idle", "evidence"} \cup Reception

(* A process at work holds the state on disk.                              *)
LEMMA WorkingHolds ==
    ASSUME Inv, NEW h \in Hosts, pc[h] \in Working
    PROVE  /\ Holds(h) /\ pc[h] # "out"
           /\ pc[h] \in Reception => env[h] # None /\ env[h] = disk /\ Live /\ op[h] \in Operations
<1>1. Able(h, pc[h]) /\ pc[h] # "out"
    BY HostFacts DEF Working, Reception
<1>2. Holds(h)
    BY <1>1 DEF Able, Holds, Working
<1>3. pc[h] \in Reception => env[h] # None /\ op[h] \in Operations
    BY <1>1 DEF Able
<1> QED BY <1>1, <1>2, <1>3 DEF Holds

(* ... and that is all an idle one rests on.                               *)
LEMMA AbleIdle ==
    ASSUME NEW h \in Hosts, NEW place \in {"idle", "evidence"}, Holds(h)
    PROVE  Able(h, place)
BY DEF Able, Holds, Reception

(* The operation goes on, or returns.                                      *)
LEMMA StepLands ==
    ASSUME Inv, NEW h \in Hosts, NEW place \in {"idle"} \cup Reception, pc[h] \in Reception, Step(h, place),
           JournalInv', StoreTypes', StoreInv', cont' \in [Hosts -> Fingerprints \cup {None}],
           \A g \in Hosts : g # h => cont'[g] = cont[g], Trusts(cont[h])', tampered' = tampered,
           place # "idle" => Able(h, place)'
    PROVE  Inv'
<1>1. /\ pc' = [pc EXCEPT ![h] = place] /\ op' = (IF place = "idle" THEN [op EXCEPT ![h] = None] ELSE op)
      /\ env' = env /\ code' = code /\ disk' = disk /\ boot' = boot
    BY DEF Step, Goto, stores
<1>2. pc'[h] = place
    BY <1>1 DEF Inv, JournalInv, ProcTypes
<1>3. HostTypes'
    BY <1>1 DEF Inv, HostTypes
<1>4. Turn(h)
    BY <1>1 DEF Turn, Inv, JournalInv, ProcTypes
<1>5. Able(h, pc[h])'
  <2>1. CASE place = "idle"
    <3>1. Holds(h)'
        BY <1>1, WorkingHolds DEF Holds, Live, Working
    <3>2. Able(h, "idle")'
        BY <3>1 DEF Able, Holds, Reception
    <3> QED BY <1>2, <2>1, <3>2 DEF Able
  <2>2. CASE place # "idle"
    <3>1. Able(h, place)'
        BY <2>2
    <3> QED BY <1>2, <3>1 DEF Able
  <2> QED BY <2>1, <2>2
<1>6. code'[h] = code[h] /\ (tampered' \/ code[h] \notin Alarms)
    BY <1>1 DEF Inv, NoAlarm, Alarms
<1>7. pc[h] # "out"
    BY DEF Reception
<1> QED BY <1>3, <1>4, <1>5, <1>6, <1>7, Landed

(* ... without a change of the files.                                      *)
LEMMA StepStays ==
    ASSUME Inv, NEW h \in Hosts, NEW place \in {"idle"} \cup Reception, pc[h] \in Reception, Step(h, place),
           JournalInv', UNCHANGED files, cont' = cont, verified' = verified, taken' = taken, acked' = acked,
           tampered' = tampered, place # "idle" => Able(h, place)
    PROVE  Inv'
<1>1. /\ disk' = disk /\ durable' = durable /\ boot' = boot /\ taskDir' = taskDir /\ part' = part /\ ledger' = ledger
      /\ env' = env /\ want' = want /\ then' = then /\ code' = code
      /\ op' = (IF place = "idle" THEN [op EXCEPT ![h] = None] ELSE op)
    BY DEF Step, stores, files
<1>2. StoreTypes' /\ StoreInv'
    BY <1>1, StoreSame
<1>3. cont' \in [Hosts -> Fingerprints \cup {None}] /\ Trusts(cont[h])
    BY HostFacts DEF Inv, HostTypes
<1>4. Trusts(cont[h])'
    BY <1>1, <1>3 DEF Trusts
<1>5. ASSUME place # "idle" PROVE Able(h, place)'
  <2>1. Able(h, place) /\ op' = op
    BY <1>1, <1>5
  <2> QED BY ZenonT(60), <1>1, <2>1
        DEF Able, Offered, Adds, Ready, rp, Cut, IsReady, Live, Tailed, IsByte, Pending, Verdicts, Envelope, LineEnd
<1> QED BY <1>2, <1>3, <1>4, <1>5, StepLands

(* The operation ends with an error that wrote nothing to the journal.     *)
LEMMA EndLands ==
    ASSUME Inv, NEW h \in Hosts, NEW e, pc[h] \in Working, Raise(h, e), e \notin Alarms \/ tampered,
           op' \in [Hosts -> Operations \cup {None}],
           disk' = disk, boot' = boot, durable' = durable, env' = env, cont' = cont, tampered' = tampered,
           JournalInv', StoreTypes', StoreInv'
    PROVE  Inv'
<1>1. pc' = [pc EXCEPT ![h] = "idle"] /\ code' = [code EXCEPT ![h] = e]
    BY DEF Raise, Goto
<1>2. pc'[h] = "idle" /\ code'[h] = e
    BY <1>1 DEF Inv, JournalInv, ProcTypes, HostTypes
<1>3. HostTypes'
    BY <1>1 DEF Inv, HostTypes
<1>4. Turn(h)
    BY <1>1 DEF Turn, Inv, JournalInv, ProcTypes, HostTypes
<1>5. Able(h, pc[h])'
  <2>1. Holds(h)'
    BY WorkingHolds DEF Holds, Live
  <2>2. Able(h, "idle")'
    BY <2>1 DEF Able, Holds, Reception
  <2> QED BY <1>2, <2>2 DEF Able
<1>6. Trusts(cont[h])'
    BY HostFacts DEF Trusts
<1> QED BY <1>2, <1>3, <1>4, <1>5, <1>6, WorkingHolds, Landed

(* A refusal writes nothing.                                               *)
LEMMA RefuseLands ==
    ASSUME Inv, NEW h \in Hosts, NEW e, pc[h] \in Reception, Refuse(h, e), e \notin Alarms \/ tampered,
           JournalInv', UNCHANGED files, cont' = cont, verified' = verified, taken' = taken, acked' = acked,
           tampered' = tampered
    PROVE  Inv'
<1>1. /\ disk' = disk /\ durable' = durable /\ boot' = boot /\ taskDir' = taskDir /\ part' = part /\ ledger' = ledger
      /\ env' = env /\ Raise(h, e) /\ op' = [op EXCEPT ![h] = None]
    BY DEF Refuse, stores, files
<1>2. StoreTypes' /\ StoreInv'
    BY <1>1, StoreSame
<1>3. op' \in [Hosts -> Operations \cup {None}]
    BY <1>1 DEF Inv, HostTypes
<1> QED BY <1>1, <1>2, <1>3, EndLands DEF Working

(* A failing write ends the operation.                                     *)
LEMMA BreaksLands ==
    ASSUME Inv, NEW h \in Hosts, pc[h] \in Reception, Breaks(h), JournalInv', StoreTypes', StoreInv',
           cont' = cont, tampered' = tampered
    PROVE  Inv'
<1>1. /\ disk' = disk /\ durable' = durable /\ boot' = boot
      /\ env' = env /\ Raise(h, "partial_io_failed") /\ op' = [op EXCEPT ![h] = None]
    BY DEF Breaks, stores
<1>2. op' \in [Hosts -> Operations \cup {None}]
    BY <1>1 DEF Inv, HostTypes
<1>3. "partial_io_failed" \notin Alarms
    BY DEF Alarms
<1> QED BY <1>1, <1>2, <1>3, EndLands DEF Working

-----------------------------------------------------------------------------
(* A save by a process that holds what is on disk.                         *)
LEMMA SaveCodes ==
    ASSUME Inv, NEW h \in Hosts, NEW data, env[h] = disk, SaveError(h, data) # None
    PROVE  SaveError(h, data) \in {"resume_required", "task_not_found", "task_incomplete", "host_identity_mismatch",
                                   "completion_unproven", "immutable_fact_changed"}
BY DEF SaveError, LoadError

(* A save leads to the rename it prepared, or to an error.                 *)
LEMMA SaveLands ==
    ASSUME Inv, NEW h \in Hosts, NEW data \in Datas, NEW next \in Places, pc[h] \in Working, env[h] # None,
           Save(h, data, next), disk' = disk, durable' = durable, boot' = boot, env' = env, op' = op, cont' = cont,
           tampered' = tampered, JournalInv', StoreTypes', StoreInv',
           (want'[h] = data /\ then'[h] = next) => Pending(h)'
    PROVE  Inv'
<1>0. env[h] = disk /\ Live /\ pc[h] # "out"
    BY WorkingHolds DEF Holds
<1>1. Trusts(cont[h])'
    BY HostFacts DEF Trusts
<1>2. HostTypes' /\ Able(h, pc[h])' /\ Turn(h) /\ (tampered' \/ code'[h] \notin Alarms)
  <2>1. CASE SaveError(h, data) # None
    <3>1. pc' = [pc EXCEPT ![h] = "failed"] /\ code' = [code EXCEPT ![h] = SaveError(h, data)]
        BY <2>1 DEF Save, Fail, Goto
    <3>2. pc'[h] = "failed" /\ code'[h] = SaveError(h, data)
        BY <3>1 DEF Inv, JournalInv, ProcTypes, HostTypes
    <3>3. code'[h] \in {"resume_required", "task_not_found", "task_incomplete", "host_identity_mismatch",
                        "completion_unproven", "immutable_fact_changed"}
        BY <1>0, <2>1, <3>2, SaveCodes
    <3>4. Able(h, "failed")'
        BY <3>3 DEF Able, Verdicts, Reception
    <3>5. HostTypes' /\ Turn(h)
        BY <3>1 DEF Inv, HostTypes, Turn, JournalInv, ProcTypes
    <3> QED BY <3>2, <3>3, <3>4, <3>5 DEF Able, Alarms
  <2>2. CASE SaveError(h, data) = None
    <3>1. /\ pc' = [pc EXCEPT ![h] = "rename"] /\ code' = [code EXCEPT ![h] = None]
          /\ want' = [want EXCEPT ![h] = data] /\ then' = [then EXCEPT ![h] = next]
        BY <2>2 DEF Save, Goto
    <3>2. pc'[h] = "rename" /\ code'[h] = None /\ want'[h] = data /\ then'[h] = next
        BY <3>1 DEF Inv, JournalInv, ProcTypes, HostTypes
    <3>3. Able(h, "rename")'
        BY <1>0, <3>2 DEF Able, Reception
    <3>4. HostTypes' /\ Turn(h)
        BY <3>1 DEF Inv, HostTypes, Turn, JournalInv, ProcTypes
    <3>5. None \notin Alarms \/ tampered
        BY CodesAssumption, AbsentAssumption DEF Alarms
    <3> QED BY <3>2, <3>3, <3>4, <3>5 DEF Able
  <2> QED BY <2>1, <2>2
<1> QED BY <1>0, <1>1, <1>2, Landed

-----------------------------------------------------------------------------
(* The store while one of its files changes: what is registered of it is   *)
(* left alone.                                                             *)
LEMMA PartChanges ==
    ASSUME Inv, disk' = disk, durable' = durable, boot' = boot, taskDir' = taskDir, ledger' = ledger,
           taken' = taken, acked' = acked, verified' = verified, tampered' \in BOOLEAN, tampered => tampered',
           part' \in Seq(Bytes),
           disk # None /\ IsReady(disk.data.rp) =>
              disk.data.rp.verified <= Len(part') /\ \A k \in 1..disk.data.rp.verified : IsByte(part[k], taken[k])'
    PROVE  StoreTypes' /\ StoreInv'
<1>0. part' # None
    BY AbsentAssumption
<1>1. StoreTypes'
    BY DEF Inv, StoreTypes
<1>2. DurableBehind' /\ BootBehind' /\ AckedIsDurable'
    BY DEF Inv, StoreInv, DurableBehind, BootBehind, AckedIsDurable
<1>3. PartHeld'
    BY <1>0 DEF Inv, StoreInv, PartHeld
<1>4. TakenCounts'
    BY <1>0 DEF Inv, StoreInv, TakenCounts, Live
<1>5. LedgerHeld'
    BY DEF Inv, StoreInv, LedgerHeld, LineHeld, LineEnd, Live
<1> QED BY <1>1, <1>2, <1>3, <1>4, <1>5 DEF StoreInv

(* A change of chunks.jsonl behind its registered lines.                   *)
LEMMA LedgerChanges ==
    ASSUME Inv, disk' = disk, durable' = durable, boot' = boot, taskDir' = taskDir, part' = part,
           taken' = taken, acked' = acked, verified' = verified, tampered' = tampered, ledger' \in Seq(Lines),
           Live /\ IsReady(disk.data.rp) =>
              disk.data.rp.count <= Len(ledger') /\ \A k \in 1..disk.data.rp.count : ledger'[k] = ledger[k]
    PROVE  StoreTypes' /\ StoreInv'
<1>0. ledger' # None
    BY AbsentAssumption
<1>1. StoreTypes'
    BY DEF Inv, StoreTypes
<1>2. DurableBehind' /\ BootBehind' /\ AckedIsDurable'
    BY DEF Inv, StoreInv, DurableBehind, BootBehind, AckedIsDurable
<1>3. PartHeld' /\ TakenCounts'
    BY DEF Inv, StoreInv, PartHeld, TakenCounts, Live, IsByte
<1>4. ASSUME Live, IsReady(disk.data.rp) PROVE
        /\ ledger' # None /\ disk.data.rp.count <= Len(ledger')
        /\ \A k \in 1..disk.data.rp.count : LineHeld(disk.data.rp.verified, k)'
        /\ LineEnd(disk.data.rp.count)' = disk.data.rp.verified
  <2> DEFINE n == disk.data.rp.count
             v == disk.data.rp.verified
  <2>1. n \in Nat /\ v \in Nat
    BY <1>4, StateFacts, ReceiveFields DEF Live, IsReady
  <2>2. \A k \in 0..n : LineEnd(k)' = LineEnd(k)
    BY <1>4, <2>1 DEF LineEnd
  <2>3. (\A k \in 1..n : LineHeld(v, k)) /\ LineEnd(n) = v
    BY <1>4 DEF Inv, StoreInv, LedgerHeld
  <2>4. ASSUME NEW k \in 1..n PROVE LineHeld(v, k)'
    <3>1. k - 1 \in 0..n /\ k \in 0..n
        BY <2>1
    <3>2. LineEnd(k - 1)' = LineEnd(k - 1) /\ LineEnd(k)' = LineEnd(k)
        BY <2>2, <3>1
    <3>3. ledger'[k] = ledger[k] /\ LineHeld(v, k)
        BY <1>4, <2>3
    <3> QED BY <3>2, <3>3 DEF LineHeld
  <2>5. LineEnd(n)' = v
    BY <2>1, <2>2, <2>3
  <2> QED BY <1>0, <1>4, <2>4, <2>5
<1>5. LedgerHeld'
    BY <1>4 DEF LedgerHeld, Live
<1> QED BY <1>1, <1>2, <1>3, <1>5 DEF StoreInv

-----------------------------------------------------------------------------
(* The calls.                                                              *)
LEMMA LoadedLive ==
    ASSUME NEW h \in Hosts, LoadError(h) = None
    PROVE  Live
BY CodesAssumption DEF LoadError, Live

(* A call begins with what is on disk.                                     *)
LEMMA CallLands ==
    ASSUME Inv, NEW h \in Hosts, NEW o \in Operations, NEW place \in {"initialize", "resume", "append"},
           Call(h, o, place), JournalInv', place = "append" => o.name = "append"
    PROVE  Inv'
<1>1. /\ pc[h] \in {"idle", "failed"} /\ LoadError(h) = None
      /\ env' = [env EXCEPT ![h] = disk] /\ op' = [op EXCEPT ![h] = o]
      /\ pc' = [pc EXCEPT ![h] = place] /\ code' = [code EXCEPT ![h] = None]
      /\ disk' = disk /\ durable' = durable /\ boot' = boot /\ taskDir' = taskDir /\ part' = part /\ ledger' = ledger
      /\ cont' = cont /\ verified' = verified /\ taken' = taken /\ acked' = acked /\ tampered' = tampered
    BY DEF Call, Goto, stores, files
<1>2. StoreTypes' /\ StoreInv'
    BY <1>1, StoreSame
<1>3. pc'[h] = place /\ env'[h] = disk /\ op'[h] = o /\ code'[h] = None
    BY <1>1 DEF Inv, JournalInv, ProcTypes, HostTypes
<1>4. HostTypes' /\ Turn(h)
    BY <1>1 DEF Inv, HostTypes, StoreTypes, Turn, JournalInv, ProcTypes
<1>5. Live /\ disk # None
    BY <1>1, LoadedLive DEF Live
<1>6. Able(h, place)'
    BY <1>1, <1>3, <1>5 DEF Able, Offered, Live, Reception
<1>7. Able(h, pc[h])'
    BY <1>3, <1>6 DEF Able
<1>8. Trusts(cont[h])'
    BY <1>1, HostFacts DEF Trusts
<1>9. code'[h] \notin Alarms /\ pc[h] # "out"
    BY <1>1, <1>3, CodesAssumption, AbsentAssumption DEF Alarms
<1> QED BY <1>1, <1>2, <1>4, <1>7, <1>8, <1>9, Landed

(* The chunks the guest may send are operations.                           *)
LEMMA ChunkTypes ==
    ASSUME NEW offset \in 0..(Size - 1), NEW bytes \in Chunks(offset)
    PROVE  Operation("append", offset, bytes) \in Operations /\ Operation("append", offset, bytes).name = "append"
<1>1. offset \in Nat /\ offset < Size
    BY SizeType
<1>2. bytes \in Seq(Bytes) /\ bytes # <<>>
  <2>1. CASE bytes = <<Noise>>
    <3>1. Noise \in Bytes
        BY DEF Bytes
    <3> QED BY <2>1, <3>1
  <2>2. ASSUME NEW n \in 1..MaxChunk, offset + n <= Size, bytes = SubSeq(Package, offset + 1, offset + n)
        PROVE  bytes \in Seq(Bytes) /\ bytes # <<>>
    <3>1. offset + 1 \in Int /\ offset + n \in Int /\ offset + 1 <= offset + n
        BY <1>1, <2>2, ChunkAssumption
    <3>2. \A i \in offset + 1 .. offset + n : Package[i] \in Bytes
      <4> TAKE i \in offset + 1 .. offset + n
      <4>1. i \in 1..Len(Package)
        BY <1>1, <2>2, SizeType, ChunkAssumption DEF Size
      <4> QED BY <4>1, SizeType, ElementOfSeq
    <3>3. /\ SubSeq(Package, offset + 1, offset + n) \in Seq(Bytes)
          /\ Len(SubSeq(Package, offset + 1, offset + n)) = IF offset + 1 <= offset + n THEN (offset + n) - (offset + 1) + 1 ELSE 0
        BY <3>1, <3>2, SubSeqProperties
    <3>4. Len(bytes) = n /\ n # 0 /\ bytes \in Seq(Bytes)
        BY <1>1, <2>2, <3>1, <3>3, ChunkAssumption
    <3>5. Len(<<>>) = 0
        BY EmptySeq
    <3> QED BY <3>4, <3>5
  <2> QED BY <2>1, <2>2 DEF Chunks
<1> QED BY <1>1, <1>2 DEF Operations, Operation

(* Every call of the reception keeps the invariant.                        *)
LEMMA CallsLand ==
    ASSUME Inv, NEW h \in Hosts, JournalInv',
           \/ CallInitialize(h) \/ CallResume(h) \/ CallVerify(h)
           \/ \E offset \in 0..(Size - 1) : \E bytes \in Chunks(offset) : CallAppend(h, offset, bytes)
    PROVE  Inv'
<1>0. \A name \in {"initialize", "resume", "verify"} : Operation(name, 0, <<>>) \in Operations
  <2>1. <<>> \in Seq(Bytes)
    BY EmptySeq
  <2> QED BY <2>1 DEF Operation, Operations
<1>1. CASE CallInitialize(h)
    BY <1>0, <1>1, CallLands DEF CallInitialize
<1>2. CASE CallResume(h)
    BY <1>0, <1>2, CallLands DEF CallResume
<1>3. CASE CallVerify(h)
    BY <1>0, <1>3, CallLands DEF CallVerify
<1>4. ASSUME NEW offset \in 0..(Size - 1), NEW bytes \in Chunks(offset), CallAppend(h, offset, bytes)
      PROVE  Inv'
  <2>1. PICK o \in Operations : o.name = "append" /\ Call(h, o, "append")
    BY <1>4, ChunkTypes DEF CallAppend
  <2> QED BY <2>1, CallLands
<1> QED BY <1>1, <1>2, <1>3, <1>4

-----------------------------------------------------------------------------
(* A save of receive_partial.                                              *)
LEMMA PartialLands ==
    ASSUME Inv, NEW h \in Hosts, NEW r \in Receives, NEW next \in Places, pc[h] \in Reception,
           SavePartial(h, r, next), cont' = cont, tampered' = tampered, JournalInv', StoreTypes', StoreInv',
           /\ want'[h].rp = r /\ then'[h] = next /\ env'[h] = env[h] /\ op'[h] = op[h]
           /\ disk' = disk /\ boot' = boot
           => Pending(h)'
    PROVE  Inv'
<1>1. env[h] # None
    BY WorkingHolds DEF Working
<1>2. PICK data : data = [env[h].data EXCEPT !.rp = r]
    OBVIOUS
<1>3. data \in Datas /\ data.rp = r
    BY <1>1, <1>2, HostFacts DEF Datas
<1>4. /\ Save(h, data, next) /\ env' = env /\ op' = op
      /\ disk' = disk /\ durable' = durable /\ boot' = boot
    BY <1>2 DEF SavePartial, stores
<1>5. (want'[h] = data /\ then'[h] = next) => Pending(h)'
    BY <1>3, <1>4
<1> QED BY <1>1, <1>3, <1>4, <1>5, SaveLands DEF Working

(* A save of the reception leaves the journal's file alone.                *)
LEMMA SavedStores ==
    ASSUME NEW h, NEW r, NEW next, SavePartial(h, r, next)
    PROVE  disk' = disk /\ durable' = durable /\ boot' = boot /\ taskDir' = taskDir /\ env' = env
BY DEF SavePartial, stores

(* The steps of initialize keep the invariant.                             *)
LEMMA InitializeDirectoryHolds ==
    ASSUME Inv, NEW h \in Hosts, InitializeDirectory(h), JournalInv'
    PROVE  Inv'
<1>1. /\ pc[h] = "initialize" /\ rp(h) = None /\ part' = part /\ ledger' = ledger /\ cont' = cont
      /\ verified' = verified /\ taken' = taken /\ acked' = acked /\ tampered' = tampered
    BY DEF InitializeDirectory, At
<1>2. pc[h] \in Reception /\ "partial_reconcile_required" \notin Alarms /\ "initialize" \in Places
    BY <1>1 DEF Reception, Alarms, Places
<1>3. CASE receiveDir
  <2>1. Refuse(h, "partial_reconcile_required") /\ UNCHANGED files
    BY <1>1, <1>3 DEF InitializeDirectory, files
  <2> QED BY <1>1, <1>2, <2>1, RefuseLands
<1>4. CASE ~receiveDir
  <2>1. PICK r : r = Receive("DIRECTORY", 0, 0)
    OBVIOUS
  <2>2. r \in Receives /\ SavePartial(h, r, "initialize")
    BY <1>4, <2>1, ReceiptTypes DEF InitializeDirectory
  <2>3. StoreTypes' /\ StoreInv'
    BY <1>1, <2>2, SavedStores, StoreSame
  <2>4. env[h] # None /\ Live /\ op[h] \in Operations
    BY <1>2, WorkingHolds DEF Working
  <2>5. /\ want'[h].rp = r /\ then'[h] = "initialize" /\ env'[h] = env[h] /\ op'[h] = op[h]
        /\ disk' = disk /\ boot' = boot
        => Pending(h)'
    BY <1>1, <2>1, <2>4 DEF Pending, rp, Live, Receive
  <2> QED BY <1>1, <1>2, <2>2, <2>3, <2>5, PartialLands
<1> QED BY <1>3, <1>4

(* What the journal tells a process of its reception at work.              *)
LEMMA AtWork ==
    ASSUME Inv, NEW h \in Hosts, pc[h] \in Reception
    PROVE  /\ env[h] # None /\ env[h] = disk /\ Live /\ op[h] \in Operations /\ rp(h) = disk.data.rp
           /\ rp(h) \in Receives \cup {None} /\ Able(h, pc[h])
BY WorkingHolds, HostFacts DEF Working, rp

(* ... received.part.                                                      *)
LEMMA InitializePartHolds ==
    ASSUME Inv, NEW h \in Hosts, InitializePart(h), JournalInv'
    PROVE  Inv'
<1>1. /\ pc[h] = "initialize" /\ rp(h) # None /\ rp(h).phase = "DIRECTORY" /\ receiveDir' = receiveDir
      /\ ledger' = ledger /\ cont' = cont
      /\ verified' = verified /\ taken' = taken /\ acked' = acked /\ tampered' = tampered
    BY DEF InitializePart, At
<1>2. pc[h] \in Reception /\ "partial_reconcile_required" \notin Alarms /\ "initialize" \in Places
    BY <1>1 DEF Reception, Alarms, Places
<1>3. CASE part # None
  <2>1. Refuse(h, "partial_reconcile_required") /\ UNCHANGED files
    BY <1>1, <1>3 DEF InitializePart, files
  <2> QED BY <1>1, <1>2, <2>1, RefuseLands
<1>4. CASE part = None
  <2>1. PICK r : r = Receive("PARTIAL", 0, 0)
    OBVIOUS
  <2>2. r \in Receives /\ SavePartial(h, r, "initialize") /\ part' = <<>>
    BY <1>4, <2>1, ReceiptTypes DEF InitializePart
  <2>3. part' \in Seq(Bytes) /\ part' # None
    BY <2>2, EmptySeq, AbsentAssumption
  <2>4. ~IsReady(disk.data.rp)
    BY <1>1, <1>2, AtWork DEF IsReady
  <2>5. StoreTypes' /\ StoreInv'
    BY <1>1, <2>2, <2>3, <2>4, SavedStores, PartChanges DEF Inv, StoreTypes
  <2>6. env[h] # None /\ Live /\ op[h] \in Operations
    BY <1>2, AtWork
  <2>7. /\ want'[h].rp = r /\ then'[h] = "initialize" /\ env'[h] = env[h] /\ op'[h] = op[h]
        /\ disk' = disk /\ boot' = boot
        => Pending(h)'
    BY <1>1, <2>1, <2>3, <2>6 DEF Pending, rp, Live, Receive
  <2> QED BY <1>1, <1>2, <2>2, <2>5, <2>7, PartialLands
<1> QED BY <1>3, <1>4

(* ... chunks.jsonl.                                                       *)
LEMMA InitializeLedgerHolds ==
    ASSUME Inv, NEW h \in Hosts, InitializeLedger(h), JournalInv'
    PROVE  Inv'
<1>1. /\ pc[h] = "initialize" /\ rp(h) # None /\ rp(h).phase = "PARTIAL" /\ receiveDir' = receiveDir
      /\ part' = part /\ cont' = cont
      /\ verified' = verified /\ taken' = taken /\ acked' = acked /\ tampered' = tampered
    BY DEF InitializeLedger, At
<1>2. pc[h] \in Reception /\ "partial_reconcile_required" \notin Alarms /\ "initialize" \in Places
    BY <1>1 DEF Reception, Alarms, Places
<1>3. CASE ledger # None
  <2>1. Refuse(h, "partial_reconcile_required") /\ UNCHANGED files
    BY <1>1, <1>3 DEF InitializeLedger, files
  <2> QED BY <1>1, <1>2, <2>1, RefuseLands
<1>4. CASE ledger = None
  <2>1. PICK r : r = Receive("READY", 0, 0)
    OBVIOUS
  <2>2. r \in Receives /\ SavePartial(h, r, "initialize") /\ ledger' = <<>>
    BY <1>4, <2>1, ReceiptTypes DEF InitializeLedger
  <2>3. ledger' \in Seq(Lines) /\ ledger' # None
    BY <2>2, EmptySeq, AbsentAssumption
  <2>4. ~IsReady(disk.data.rp)
    BY <1>1, <1>2, AtWork DEF IsReady
  <2>5. StoreTypes' /\ StoreInv'
    BY <1>1, <2>2, <2>3, <2>4, SavedStores, LedgerChanges
  <2>6. env[h] # None /\ env[h] = disk /\ Live /\ op[h] \in Operations
    BY <1>2, AtWork
  <2>8. part # None
    BY <1>1, <2>6 DEF Inv, StoreInv, TakenCounts, rp
  <2>7. /\ want'[h].rp = r /\ then'[h] = "initialize" /\ env'[h] = env[h] /\ op'[h] = op[h]
        /\ disk' = disk /\ boot' = boot
        => Pending(h)'
    BY <1>1, <2>1, <2>3, <2>6, <2>8 DEF Pending, rp, Live, Receive
  <2> QED BY <1>1, <1>2, <2>2, <2>5, <2>7, PartialLands
<1> QED BY <1>3, <1>4

(* ... and the end of it.                                                  *)
LEMMA InitializedHolds ==
    ASSUME Inv, NEW h \in Hosts, Initialized(h), JournalInv'
    PROVE  Inv'
<1>1. /\ pc[h] = "initialize" /\ Step(h, "resume") /\ UNCHANGED files /\ cont' = cont
      /\ verified' = verified /\ taken' = taken /\ acked' = acked /\ tampered' = tampered
    BY DEF Initialized, At
<1>2. pc[h] \in Reception /\ "resume" \in {"idle"} \cup Reception
    BY <1>1 DEF Reception
<1>3. Able(h, "resume")
    BY <1>2, AtWork DEF Able
<1> QED BY <1>1, <1>2, <1>3, StepStays

-----------------------------------------------------------------------------
(* Resume accepts the lines as they were written, unless somebody changed  *)
(* the file.                                                               *)
LEMMA SubSeqIs ==
    ASSUME NEW S, NEW s \in Seq(S), NEW t \in Seq(S), NEW a \in Nat, a + Len(t) <= Len(s),
           \A i \in 1..Len(t) : s[a + i] = t[i]
    PROVE  SubSeq(s, a + 1, a + Len(t)) = t
<1>1. Len(t) \in Nat /\ Len(s) \in Nat
    BY LenProperties
<1>2. a + 1 \in Int /\ a + Len(t) \in Int
    BY <1>1
<1>3. \A i \in a + 1 .. a + Len(t) : s[i] \in S
  <2> TAKE i \in a + 1 .. a + Len(t)
  <2>1. i \in 1..Len(s)
    BY <1>1
  <2> QED BY <2>1, ElementOfSeq
<1>4. PICK n : n = a + Len(t)
    OBVIOUS
<1>5. PICK m : m = a + 1
    OBVIOUS
<1>6. /\ SubSeq(s, m, n) \in Seq(S)
      /\ Len(SubSeq(s, m, n)) = IF m <= n THEN n - m + 1 ELSE 0
      /\ \A i \in 1 .. n - m + 1 : SubSeq(s, m, n)[i] = s[m + i - 1]
    BY <1>2, <1>3, <1>4, <1>5, SubSeqProperties
<1>7. Len(SubSeq(s, m, n)) = Len(t)
    BY <1>1, <1>4, <1>5, <1>6
<1>8. \A i \in 1..Len(SubSeq(s, m, n)) : SubSeq(s, m, n)[i] = t[i]
  <2> TAKE i \in 1..Len(SubSeq(s, m, n))
  <2>1. i \in 1 .. n - m + 1 /\ m + i - 1 = a + i /\ i \in 1..Len(t)
    BY <1>1, <1>4, <1>5, <1>7
  <2> QED BY <1>6, <2>1
<1>9. SubSeq(s, m, n) = t
    BY <1>6, <1>7, <1>8, SeqEqual
<1> QED BY <1>4, <1>5, <1>9

(* What a line of chunks.jsonl consists of.                                *)
LEMMA LineFields ==
    ASSUME NEW s \in Seq(Lines), NEW k \in 1..Len(s)
    PROVE  s[k] \in Lines /\ s[k].offset \in Nat /\ s[k].bytes \in Seq(Bytes) /\ Len(s[k].bytes) \in Nat
           /\ s[k].torn \in BOOLEAN
<1>1. s[k] \in Lines
    BY ElementOfSeq
<1>2. s[k].offset \in Nat /\ s[k].bytes \in Seq(Bytes) /\ s[k].torn \in BOOLEAN
    BY <1>1 DEF Lines
<1> QED BY <1>1, <1>2, LenProperties

(* The check of resume passes unless somebody else changed the file.       *)
LEMMA LinesDoHold ==
    ASSUME Inv, NEW h \in Hosts, pc[h] \in Reception, Ready(h), ~tampered
    PROVE  LinesHold(rp(h))
<1> DEFINE n == disk.data.rp.count
           v == disk.data.rp.verified
<1>1. rp(h) = disk.data.rp /\ disk # None /\ Live /\ IsReady(disk.data.rp) /\ n \in Nat /\ v \in Nat
    BY AtWork, ReceiveFields DEF Ready, IsReady, Live
<1>2. /\ part # None /\ v <= Len(part) /\ v <= Len(taken) /\ \A k \in 1..v : part[k] = taken[k]
    BY <1>1 DEF Inv, StoreInv, PartHeld, IsByte
<1>3. /\ ledger # None /\ n <= Len(ledger) /\ (\A k \in 1..n : LineHeld(v, k)) /\ LineEnd(n) = v
    BY <1>1 DEF Inv, StoreInv, LedgerHeld
<1>4. part \in Seq(Bytes) /\ ledger \in Seq(Lines) /\ Len(part) \in Nat /\ Len(ledger) \in Nat
    BY <1>2, <1>3, LenProperties DEF Inv, StoreTypes
<1>5. ASSUME NEW k \in 1..n
      PROVE  /\ ~ledger[k].torn /\ ledger[k].bytes # <<>>
             /\ ledger[k].offset = LineEnd(k - 1)
             /\ LineEnd(k) <= Len(part)
             /\ SubSeq(part, ledger[k].offset + 1, LineEnd(k)) = ledger[k].bytes
  <2>1. k \in 1..Len(ledger)
    BY <1>1, <1>3, <1>4
  <2>2. PICK a \in Nat : a = ledger[k].offset
    BY <1>4, <2>1, LineFields
  <2>3. PICK t \in Seq(Bytes) : t = ledger[k].bytes /\ Len(t) \in Nat
    BY <1>4, <2>1, LineFields
  <2>4. LineEnd(k) = a + Len(t)
    BY <1>1, <2>2, <2>3 DEF LineEnd
  <2>5. LineHeld(v, k)
    BY <1>3
  <2>6. a + Len(t) <= v
    BY <2>4, <2>5 DEF LineHeld
  <2>7. \A i \in 1..Len(t) : part[a + i] = t[i]
    <3> TAKE i \in 1..Len(t)
    <3>1. a + i \in 1..v
        BY SMTT(30), <1>1, <2>2, <2>3, <2>6
    <3>2. t[i] = taken[a + i]
        BY <2>2, <2>3, <2>5 DEF LineHeld
    <3> QED BY <1>2, <3>1, <3>2
  <2>8. SubSeq(part, a + 1, a + Len(t)) = t
    BY <1>1, <1>2, <1>4, <2>3, <2>6, <2>7, SubSeqIs
  <2>9. LineEnd(k) <= Len(part)
    BY <1>1, <1>2, <1>4, <2>3, <2>4, <2>6
  <2> QED BY <2>2, <2>3, <2>4, <2>5, <2>8, <2>9 DEF LineHeld
<1> QED BY <1>1, <1>2, <1>3, <1>5 DEF LinesHold

(* resume's check keeps the invariant.                                     *)
LEMMA ResumeCheckHolds ==
    ASSUME Inv, NEW h \in Hosts, ResumeCheck(h), JournalInv'
    PROVE  Inv'
<1>1. /\ pc[h] = "resume" /\ UNCHANGED files /\ cont' = cont
      /\ verified' = verified /\ taken' = taken /\ acked' = acked /\ tampered' = tampered
    BY DEF ResumeCheck, At
<1>2. pc[h] \in Reception /\ "truncate" \in {"idle"} \cup Reception
    BY <1>1 DEF Reception
<1>3. CASE ~Ready(h)
  <2>1. Refuse(h, "partial_not_initialized") /\ "partial_not_initialized" \notin Alarms
    BY <1>3 DEF ResumeCheck, Alarms
  <2> QED BY <1>1, <1>2, <2>1, RefuseLands
<1>4. CASE Ready(h) /\ ~LinesHold(rp(h))
  <2>1. Refuse(h, "partial_corrupt") /\ tampered
    BY <1>2, <1>4, LinesDoHold DEF ResumeCheck
  <2> QED BY <1>1, <1>2, <2>1, RefuseLands
<1>5. CASE Ready(h) /\ LinesHold(rp(h))
  <2>1. Step(h, "truncate")
    BY <1>5 DEF ResumeCheck
  <2>2. Able(h, "truncate")
    BY <1>2, <1>5, AtWork DEF Able
  <2> QED BY <1>1, <1>2, <2>1, <2>2, StepStays
<1> QED BY <1>3, <1>4, <1>5

-----------------------------------------------------------------------------
(* What is registered of the files while a process that may go on looks.   *)
LEMMA ReadyFacts ==
    ASSUME Inv, NEW h \in Hosts, pc[h] \in Reception, Ready(h)
    PROVE  /\ rp(h) = disk.data.rp /\ disk # None /\ rp(h) \in Receives /\ rp(h) # None /\ rp(h).phase = "READY"
           /\ rp(h).verified \in Nat /\ rp(h).count \in Nat
           /\ part \in Seq(Bytes) /\ Len(part) \in Nat /\ rp(h).verified <= Len(part)
           /\ ledger \in Seq(Lines) /\ Len(ledger) \in Nat /\ rp(h).count <= Len(ledger)
           /\ taken \in Seq(Bytes) /\ Len(taken) = rp(h).verified
           /\ \A k \in 1..rp(h).verified : IsByte(part[k], taken[k])
           /\ \A k \in 1..rp(h).count : LineHeld(rp(h).verified, k)
           /\ LineEnd(rp(h).count) = rp(h).verified
<1>1. /\ rp(h) = disk.data.rp /\ disk # None /\ Live /\ IsReady(disk.data.rp) /\ rp(h) \in Receives
      /\ rp(h) # None /\ rp(h).phase = "READY" /\ rp(h).verified \in Nat /\ rp(h).count \in Nat
    BY AtWork, ReceiveFields DEF Ready, IsReady, Live
<1>2. /\ part # None /\ rp(h).verified <= Len(part)
      /\ \A k \in 1..rp(h).verified : IsByte(part[k], taken[k])
    BY <1>1 DEF Inv, StoreInv, PartHeld
<1>3. /\ ledger # None /\ rp(h).count <= Len(ledger) /\ (\A k \in 1..rp(h).count : LineHeld(rp(h).verified, k))
      /\ LineEnd(rp(h).count) = rp(h).verified
    BY <1>1 DEF Inv, StoreInv, LedgerHeld
<1>4. part \in Seq(Bytes) /\ ledger \in Seq(Lines) /\ taken \in Seq(Bytes)
    BY <1>2, <1>3 DEF Inv, StoreTypes
<1>5. Len(taken) = rp(h).verified
    BY <1>1 DEF Inv, StoreInv, TakenCounts
<1> QED BY <1>1, <1>2, <1>3, <1>4, <1>5, LenProperties

(* Cutting the unregistered bytes keeps what is registered.                *)
LEMMA TruncatePartHolds ==
    ASSUME Inv, NEW h \in Hosts, TruncatePart(h), JournalInv'
    PROVE  Inv'
<1>1. /\ pc[h] = "truncate" /\ Len(part) > rp(h).verified /\ part' = SubSeq(part, 1, rp(h).verified)
      /\ UNCHANGED journalVars /\ ledger' = ledger /\ op' = op /\ cont' = cont
      /\ verified' = verified /\ taken' = taken /\ acked' = acked /\ tampered' = tampered
    BY DEF TruncatePart, At
<1>2. /\ disk' = disk /\ durable' = durable /\ boot' = boot /\ taskDir' = taskDir
      /\ pc' = pc /\ env' = env /\ code' = code
    BY <1>1 DEF journalVars, stores, procs
<1>3. pc[h] \in Reception /\ Able(h, "truncate")
    BY <1>1, HostFacts DEF Reception
<1>4. Ready(h)
    BY <1>3 DEF Able
<1>5. PICK v \in Nat : v = rp(h).verified /\ v <= Len(part)
    BY <1>3, <1>4, ReadyFacts
<1>6. /\ part' \in Seq(Bytes) /\ Len(part') = v /\ \A i \in 1..v : part'[i] = part[i]
    BY <1>1, <1>3, <1>4, <1>5, ReadyFacts, CutSeq
<1>7. v = disk.data.rp.verified /\ \A k \in 1..v : IsByte(part[k], taken[k])'
    BY <1>1, <1>3, <1>4, <1>5, <1>6, ReadyFacts DEF IsByte
<1>8. StoreTypes' /\ StoreInv'
    BY <1>1, <1>2, <1>5, <1>6, <1>7, PartChanges DEF Inv, StoreTypes
<1>9. HostTypes' /\ Turn(h)
    BY <1>1, <1>2 DEF Inv, HostTypes, Turn
<1>10. Able(h, pc[h])'
    BY <1>1, <1>2, <1>3 DEF Able, Reception, Live, Ready, rp
<1>11. Trusts(cont[h])'
    BY <1>1, <1>2, HostFacts DEF Trusts
<1>12. tampered' \/ code'[h] \notin Alarms
    BY <1>1, <1>2 DEF Inv, NoAlarm, Alarms
<1>13. pc[h] # "out"
    BY <1>1
<1> QED BY <1>1, <1>8, <1>9, <1>10, <1>11, <1>12, <1>13, Landed

(* Cutting the unregistered lines keeps what is registered.                *)
LEMMA TruncateLedgerHolds ==
    ASSUME Inv, NEW h \in Hosts, TruncateLedger(h), JournalInv'
    PROVE  Inv'
<1>1. /\ pc[h] = "truncate" /\ Len(part) <= rp(h).verified /\ ledger' = SubSeq(ledger, 1, rp(h).count)
      /\ SavePartial(h, rp(h), "resumed") /\ part' = part /\ cont' = cont
      /\ verified' = verified /\ taken' = taken /\ acked' = acked /\ tampered' = tampered
    BY DEF TruncateLedger, At
<1>2. disk' = disk /\ durable' = durable /\ boot' = boot /\ taskDir' = taskDir /\ env' = env
    BY <1>1, SavedStores
<1>3. pc[h] \in Reception /\ Able(h, "truncate") /\ "resumed" \in Places
    BY <1>1, HostFacts DEF Reception, Places
<1>4. Ready(h)
    BY <1>3 DEF Able
<1>5. PICK n \in Nat : n = rp(h).count /\ n <= Len(ledger)
    BY <1>3, <1>4, ReadyFacts
<1>6. ledger' \in Seq(Lines) /\ Len(ledger') = n /\ \A k \in 1..n : ledger'[k] = ledger[k]
    BY <1>1, <1>3, <1>4, <1>5, ReadyFacts, CutSeq
<1>7. n = disk.data.rp.count
    BY <1>3, <1>4, <1>5, ReadyFacts
<1>8. StoreTypes' /\ StoreInv'
    BY <1>1, <1>2, <1>5, <1>6, <1>7, LedgerChanges
<1>9. rp(h) \in Receives /\ rp(h) # None /\ rp(h).phase = "READY" /\ Len(part) = rp(h).verified
    BY <1>1, <1>3, <1>4, ReadyFacts
<1>10. env[h] # None /\ Live /\ op[h] \in Operations
    BY <1>3, AtWork
<1>11. PICK r \in Receives : r = rp(h)
    BY <1>9
<1>12. /\ want'[h].rp = r /\ then'[h] = "resumed" /\ env'[h] = env[h] /\ op'[h] = op[h]
       /\ disk' = disk /\ boot' = boot
       => Pending(h)'
    BY <1>1, <1>5, <1>6, <1>9, <1>10, <1>11 DEF Pending, Live, rp, Cut, IsReady
<1> QED BY <1>1, <1>3, <1>8, <1>11, <1>12, PartialLands

-----------------------------------------------------------------------------
(* A caller is told what is registered for good.                           *)
LEMMA AckLands ==
    ASSUME Inv, NEW h \in Hosts, pc[h] \in Reception, Ready(h),
           durable # None, durable.data.rp # None, rp(h).verified <= durable.data.rp.verified,
           disk' = disk, durable' = durable, boot' = boot, taskDir' = taskDir, part' = part, ledger' = ledger,
           taken' = taken, verified' = verified, tampered' = tampered,
           acked' = IF acked < rp(h).verified THEN rp(h).verified ELSE acked
    PROVE  StoreTypes' /\ StoreInv'
<1>0. rp(h).verified \in Nat /\ acked \in Nat
    BY ReadyFacts DEF Inv, StoreTypes
<1>1. StoreTypes'
    BY <1>0 DEF Inv, StoreTypes
<1>2. AckedIsDurable'
    BY <1>0 DEF Inv, StoreInv, AckedIsDurable
<1>3. DurableBehind' /\ BootBehind'
    BY DEF Inv, StoreInv, DurableBehind, BootBehind
<1>4. PartHeld' /\ TakenCounts'
    BY DEF Inv, StoreInv, PartHeld, TakenCounts, Live, IsByte
<1>5. LedgerHeld'
    BY DEF Inv, StoreInv, LedgerHeld, LineHeld, LineEnd, Live
<1> QED BY <1>1, <1>2, <1>3, <1>4, <1>5 DEF StoreInv

(* What a process remembers of files that match the journal.               *)
LEMMA FingerprintTrusted ==
    ASSUME Inv, NEW h \in Hosts, pc[h] \in Reception, Ready(h), durable = disk, Cut(rp(h))
    PROVE  Fingerprint(rp(h)) \in Fingerprints /\ Trusts(Fingerprint(rp(h)))
<1>1. PICK c : c = Fingerprint(rp(h))
    OBVIOUS
<1>2. c = <<rp(h).verified, rp(h).count, part, ledger>>
    BY <1>1 DEF Fingerprint
<1>3. c \in Fingerprints
    BY <1>2, ReadyFacts DEF Fingerprints
<1>4. c[1] = rp(h).verified /\ c[2] = rp(h).count /\ c[3] = part /\ c[4] = ledger
    BY <1>2
<1>5. Trusts(c)
    BY <1>4, ReadyFacts DEF Trusts, Cut
<1> QED BY <1>1, <1>3, <1>5

(* A process that fingerprints the files trusts what is there.             *)
LEMMA TrustLands ==
    ASSUME Inv, NEW h \in Hosts, NEW c \in Fingerprints, Trusts(c), cont' = [cont EXCEPT ![h] = c], durable' = durable
    PROVE  /\ cont' \in [Hosts -> Fingerprints \cup {None}] /\ \A g \in Hosts : g # h => cont'[g] = cont[g]
           /\ Trusts(cont[h])'
<1>1. cont' \in [Hosts -> Fingerprints \cup {None}] /\ \A g \in Hosts : g # h => cont'[g] = cont[g]
    BY DEF Inv, HostTypes
<1>2. cont'[h] = c
    BY DEF Inv, HostTypes
<1>3. Trusts(cont[h])'
    BY <1>2 DEF Trusts
<1> QED BY <1>1, <1>3

(* A place stays as able as it was when only the trust changes.            *)
LEMMA AbleSame ==
    ASSUME NEW h \in Hosts, NEW p \in Reception, Able(h, p),
           disk' = disk, durable' = durable, boot' = boot, part' = part, ledger' = ledger,
           taken' = taken, tampered' = tampered, env' = env, op' = op
    PROVE  Able(h, p)'
BY DEF Able, Reception, Offered, Adds, Ready, rp, Cut, IsReady, Live, Tailed, IsByte

(* The end of resume tells only what is durable.                           *)
LEMMA ResumedHolds ==
    ASSUME Inv, NEW h \in Hosts, Resumed(h), JournalInv'
    PROVE  Inv'
<1>1. /\ pc[h] = "resumed" /\ cont' = [cont EXCEPT ![h] = Fingerprint(rp(h))] /\ part' = part /\ ledger' = ledger
      /\ verified' = verified /\ taken' = taken /\ tampered' = tampered
    BY DEF Resumed, At, files
<1>2. pc[h] \in Reception /\ Able(h, "resumed")
    BY <1>1, HostFacts DEF Reception
<1>3. Ready(h) /\ durable = disk /\ Cut(rp(h)) /\ op[h] \in Operations
    BY <1>2 DEF Able, Reception
<1>4. PICK c \in Fingerprints : c = Fingerprint(rp(h)) /\ Trusts(c)
    BY <1>2, <1>3, FingerprintTrusted
<1>5. ASSUME NEW place \in {"append", "hash"}, Step(h, place), acked' = acked, op[h].name = "append" \/ place = "hash"
      PROVE  Inv'
  <2>1. /\ disk' = disk /\ durable' = durable /\ boot' = boot /\ taskDir' = taskDir /\ env' = env /\ op' = op
    BY <1>5 DEF Step, stores
  <2>2. StoreTypes' /\ StoreInv'
    BY <1>1, <1>5, <2>1, StoreSame
  <2>3. place \in Reception
    BY DEF Reception
  <2>4. env[h] # None /\ env[h] = disk /\ Live
    BY <1>2, AtWork
  <2>5. Able(h, place)
    BY <1>3, <1>5, <2>4 DEF Able, Reception, Offered
  <2>6. Able(h, place)'
    BY <1>1, <2>1, <2>3, <2>5, AbleSame
  <2>7. /\ cont' \in [Hosts -> Fingerprints \cup {None}] /\ (\A g \in Hosts : g # h => cont'[g] = cont[g])
        /\ Trusts(cont[h])'
    BY <1>1, <1>4, <2>1, TrustLands
  <2> QED BY <1>1, <1>2, <1>5, <2>2, <2>3, <2>6, <2>7, StepLands
<1>6. ASSUME Step(h, "idle"), acked' = (IF acked < rp(h).verified THEN rp(h).verified ELSE acked)
      PROVE  Inv'
  <2>1. /\ disk' = disk /\ durable' = durable /\ boot' = boot /\ taskDir' = taskDir
    BY <1>6 DEF Step, stores
  <2>2. durable # None /\ durable.data.rp # None /\ rp(h).verified <= durable.data.rp.verified
    BY <1>2, <1>3, ReadyFacts
  <2>3. StoreTypes' /\ StoreInv'
    BY <1>1, <1>2, <1>3, <1>6, <2>1, <2>2, AckLands
  <2>4. /\ cont' \in [Hosts -> Fingerprints \cup {None}] /\ (\A g \in Hosts : g # h => cont'[g] = cont[g])
        /\ Trusts(cont[h])'
    BY <1>1, <1>4, <2>1, TrustLands
  <2> QED BY <1>1, <1>2, <1>6, <2>3, <2>4, StepLands
<1>7. \/ op[h].name = "append" /\ Step(h, "append") /\ acked' = acked
      \/ Step(h, "hash") /\ acked' = acked
      \/ Step(h, "idle") /\ acked' = (IF acked < rp(h).verified THEN rp(h).verified ELSE acked)
    BY DEF Resumed
<1> QED BY <1>5, <1>6, <1>7

(* The end of append tells only what is durable.                           *)
LEMMA AppendedHolds ==
    ASSUME Inv, NEW h \in Hosts, Appended(h), JournalInv'
    PROVE  Inv'
<1>1. /\ pc[h] = "appended" /\ cont' = [cont EXCEPT ![h] = Fingerprint(rp(h))] /\ part' = part /\ ledger' = ledger
      /\ verified' = verified /\ taken' = taken /\ tampered' = tampered /\ Step(h, "idle")
      /\ acked' = (IF acked < rp(h).verified THEN rp(h).verified ELSE acked)
    BY DEF Appended, At, files
<1>2. pc[h] \in Reception /\ Able(h, "appended")
    BY <1>1, HostFacts DEF Reception
<1>3. Ready(h) /\ durable = disk /\ Cut(rp(h))
    BY <1>2 DEF Able
<1>4. PICK c \in Fingerprints : c = Fingerprint(rp(h)) /\ Trusts(c)
    BY <1>2, <1>3, FingerprintTrusted
<1>5. /\ disk' = disk /\ durable' = durable /\ boot' = boot /\ taskDir' = taskDir
    BY <1>1 DEF Step, stores
<1>6. durable # None /\ durable.data.rp # None /\ rp(h).verified <= durable.data.rp.verified
    BY <1>2, <1>3, ReadyFacts
<1>7. StoreTypes' /\ StoreInv'
    BY <1>1, <1>2, <1>3, <1>5, <1>6, AckLands
<1>8. /\ cont' \in [Hosts -> Fingerprints \cup {None}] /\ (\A g \in Hosts : g # h => cont'[g] = cont[g])
      /\ Trusts(cont[h])'
    BY <1>1, <1>4, <1>5, TrustLands
<1> QED BY <1>1, <1>2, <1>7, <1>8, StepLands

(* A replay tells only what is durable.                                    *)
LEMMA ReplayHolds ==
    ASSUME Inv, NEW h \in Hosts, Replay(h), JournalInv'
    PROVE  Inv'
<1>1. /\ pc[h] = "replay" /\ UNCHANGED files /\ cont' = cont
      /\ verified' = verified /\ taken' = taken /\ tampered' = tampered
    BY DEF Replay, At
<1>2. pc[h] \in Reception /\ Able(h, "replay")
    BY <1>1, HostFacts DEF Reception
<1>3. /\ Ready(h) /\ durable # None /\ durable.data.rp # None /\ rp(h).verified <= durable.data.rp.verified
    BY <1>2 DEF Able
<1>4. "chunk_offset_conflict" \notin Alarms /\ "chunk_replay_conflict" \notin Alarms
    BY DEF Alarms
<1>5. ASSUME NEW e \in {"chunk_offset_conflict", "chunk_replay_conflict"}, Refuse(h, e), acked' = acked PROVE Inv'
    BY <1>1, <1>2, <1>4, <1>5, RefuseLands
<1>6. ASSUME Step(h, "idle"), acked' = (IF acked < rp(h).verified THEN rp(h).verified ELSE acked)
      PROVE  Inv'
  <2>1. /\ disk' = disk /\ durable' = durable /\ boot' = boot /\ taskDir' = taskDir /\ part' = part /\ ledger' = ledger
    BY <1>1, <1>6 DEF Step, stores, files
  <2>2. StoreTypes' /\ StoreInv'
    BY <1>1, <1>2, <1>3, <1>6, <2>1, AckLands
  <2>3. /\ cont' \in [Hosts -> Fingerprints \cup {None}] /\ (\A g \in Hosts : g # h => cont'[g] = cont[g])
    BY <1>1 DEF Inv, HostTypes
  <2>4. Trusts(cont[h])'
    BY <1>1, <2>1, HostFacts DEF Trusts
  <2> QED BY <1>1, <1>2, <1>6, <2>2, <2>3, <2>4, StepLands
<1>7. \/ \E e \in {"chunk_offset_conflict", "chunk_replay_conflict"} : Refuse(h, e) /\ acked' = acked
      \/ Step(h, "idle") /\ acked' = (IF acked < rp(h).verified THEN rp(h).verified ELSE acked)
  <2>1. \/ Refuse(h, "chunk_offset_conflict") /\ acked' = acked
        \/ Refuse(h, "chunk_replay_conflict") /\ acked' = acked
        \/ Step(h, "idle") /\ acked' = (IF acked < rp(h).verified THEN rp(h).verified ELSE acked)
    BY DEF Replay
  <2> QED BY <2>1
<1> QED BY <1>5, <1>6, <1>7

-----------------------------------------------------------------------------
(* A process whose fingerprint still fits finds the files cut to what is   *)
(* registered, and registered for good.                                    *)
LEMMA FingerprintFits ==
    ASSUME Inv, NEW h \in Hosts, pc[h] \in Reception, Ready(h), AppendContinues(h)
    PROVE  /\ Cut(rp(h))
           /\ durable # None /\ durable.data.rp # None /\ rp(h).verified <= durable.data.rp.verified
<1>1. PICK c : c = cont[h]
    OBVIOUS
<1>2. c = <<rp(h).verified, rp(h).count, part, ledger>>
    BY <1>1 DEF AppendContinues, Fingerprint
<1>3. c \in Fingerprints
    BY <1>2, ReadyFacts DEF Fingerprints
<1>4. c # None /\ Trusts(c)
    BY <1>1, <1>3, HostFacts, AbsentAssumption DEF Fingerprints
<1>5. c[1] = rp(h).verified /\ c[2] = rp(h).count /\ c[3] = part /\ c[4] = ledger
    BY <1>2
<1> QED BY <1>4, <1>5, ReadyFacts DEF Trusts, Cut, IsReady

(* append's checks keep the invariant.                                     *)
LEMMA AppendCheckHolds ==
    ASSUME Inv, NEW h \in Hosts, AppendCheck(h), JournalInv'
    PROVE  Inv'
<1>1. /\ pc[h] = "append" /\ UNCHANGED files /\ cont' = cont
      /\ verified' = verified /\ taken' = taken /\ acked' = acked /\ tampered' = tampered
    BY DEF AppendCheck, At
<1>2. pc[h] \in Reception /\ Able(h, "append")
    BY <1>1, HostFacts DEF Reception
<1>3. /\ env[h] # None /\ env[h] = disk /\ Live /\ op[h] \in Operations /\ Offered(h)
    BY <1>2, AtWork DEF Able
<1>4. ASSUME NEW e, Refuse(h, e), e \notin Alarms PROVE Inv'
    BY <1>1, <1>2, <1>4, RefuseLands
<1>5. ASSUME NEW place \in Reception, Step(h, place), Able(h, place) PROVE Inv'
    BY <1>1, <1>2, <1>5, StepStays
<1>6. /\ "partial_not_initialized" \notin Alarms /\ "chunk_offset_conflict" \notin Alarms
      /\ "metadata_budget_exceeded" \notin Alarms
    BY DEF Alarms
<1>7. CASE ~Ready(h)
    BY <1>4, <1>6, <1>7 DEF AppendCheck
<1>8. CASE Ready(h) /\ ~AppendContinues(h)
  <2>1. Step(h, "resume")
    BY <1>8 DEF AppendCheck
  <2>2. Able(h, "resume") /\ "resume" \in Reception
    BY <1>3 DEF Able, Reception
  <2> QED BY <1>5, <2>1, <2>2
<1>9. CASE Ready(h) /\ AppendContinues(h)
  <2>1. /\ Cut(rp(h)) /\ rp(h).verified \in Nat /\ op[h].offset \in Nat
        /\ durable # None /\ durable.data.rp # None /\ rp(h).verified <= durable.data.rp.verified
    BY <1>2, <1>3, <1>9, FingerprintFits, ReadyFacts, OperationFields
  <2>2. CASE op[h].offset < rp(h).verified
    <3>1. Step(h, "replay")
        BY <1>9, <2>2 DEF AppendCheck
    <3>2. Able(h, "replay") /\ "replay" \in Reception
        BY <1>3, <1>9, <2>1 DEF Able, Reception
    <3> QED BY <1>5, <3>1, <3>2
  <2>3. CASE op[h].offset > rp(h).verified
    <3>1. Refuse(h, "chunk_offset_conflict")
        BY <1>9, <2>1, <2>3 DEF AppendCheck
    <3> QED BY <1>4, <1>6, <3>1
  <2>4. CASE op[h].offset = rp(h).verified /\ rp(h).count >= MaxLines
    <3>1. Refuse(h, "metadata_budget_exceeded")
        BY <1>9, <2>1, <2>4 DEF AppendCheck
    <3> QED BY <1>4, <1>6, <3>1
  <2>5. CASE op[h].offset = rp(h).verified /\ ~(rp(h).count >= MaxLines)
    <3>1. Step(h, "bytes")
        BY <1>9, <2>1, <2>5 DEF AppendCheck
    <3>2. Able(h, "bytes") /\ "bytes" \in Reception
        BY <1>3, <1>9, <2>1, <2>5 DEF Able, Reception, Adds
    <3> QED BY <1>5, <3>1, <3>2
  <2> QED BY <2>1, <2>2, <2>3, <2>4, <2>5
<1> QED BY <1>7, <1>8, <1>9

(* verify hashes the bytes that were taken.                                *)
LEMMA HashHolds ==
    ASSUME Inv, NEW h \in Hosts, Hash(h), JournalInv'
    PROVE  Inv'
<1>1. /\ pc[h] = "hash" /\ UNCHANGED files /\ cont' = cont
      /\ taken' = taken /\ acked' = acked /\ tampered' = tampered
    BY DEF Hash, At
<1>2. pc[h] \in Reception /\ Able(h, "hash")
    BY <1>1, HostFacts DEF Reception
<1>3. Ready(h)
    BY <1>2 DEF Able
<1>4. ASSUME NEW e, Refuse(h, e), e \notin Alarms, verified' = verified PROVE Inv'
    BY <1>1, <1>2, <1>4, RefuseLands
<1>5. /\ "package_incomplete" \notin Alarms /\ "package_size_mismatch" \notin Alarms
      /\ "package_hash_mismatch" \notin Alarms
    BY DEF Alarms
<1>6. CASE /\ rp(h).verified = Size /\ part = Package /\ Step(h, "idle") /\ verified' = TRUE
  <2>1. Len(taken) = Size /\ taken \in Seq(Bytes)
    BY <1>2, <1>3, <1>6, ReadyFacts
  <2>2. \A k \in 1..Len(taken) : taken[k] = Package[k]
    <3> TAKE k \in 1..Len(taken)
    <3>1. IsByte(part[k], taken[k])
        BY <1>2, <1>3, <1>6, <2>1, ReadyFacts
    <3>2. k \in DOMAIN Package
        BY <2>1, SizeType, LenProperties DEF Size
    <3>3. Package[k] # Noise
        BY <3>2, BytesAssumption
    <3> QED BY <1>6, <3>1, <3>3 DEF IsByte
  <2>3. taken = Package
    BY <2>1, <2>2, SizeType, SeqEqual DEF Size
  <2>4. /\ disk' = disk /\ durable' = durable /\ boot' = boot /\ taskDir' = taskDir /\ part' = part /\ ledger' = ledger
    BY <1>1, <1>6 DEF Step, stores, files
  <2>5. StoreTypes'
    BY <1>1, <1>6, <2>4 DEF Inv, StoreTypes
  <2>6. DurableBehind' /\ BootBehind' /\ AckedIsDurable'
    BY <1>1, <2>4 DEF Inv, StoreInv, DurableBehind, BootBehind, AckedIsDurable
  <2>7. PartHeld' /\ LedgerHeld'
    BY <1>1, <2>4 DEF Inv, StoreInv, PartHeld, LedgerHeld, LineHeld, LineEnd, Live, IsByte
  <2>8. TakenCounts'
    BY <1>1, <2>3, <2>4 DEF Inv, StoreInv, TakenCounts, Live
  <2>9. StoreInv'
    BY <2>6, <2>7, <2>8 DEF StoreInv
  <2>10. /\ cont' \in [Hosts -> Fingerprints \cup {None}] /\ (\A g \in Hosts : g # h => cont'[g] = cont[g])
    BY <1>1 DEF Inv, HostTypes
  <2>11. Trusts(cont[h])'
    BY <1>1, <2>4, HostFacts DEF Trusts
  <2> QED BY <1>1, <1>2, <1>6, <2>5, <2>9, <2>10, <2>11, StepLands
<1>7. \/ \E e \in {"package_incomplete", "package_size_mismatch", "package_hash_mismatch"} :
            Refuse(h, e) /\ verified' = verified
      \/ /\ rp(h).verified = Size /\ part = Package /\ Step(h, "idle") /\ verified' = TRUE
  <2>1. CASE rp(h).verified # Size
    BY <2>1 DEF Hash
  <2>2. CASE rp(h).verified = Size /\ Len(part) # Size
    BY <2>2 DEF Hash
  <2>3. CASE rp(h).verified = Size /\ Len(part) = Size /\ part # Package
    BY <2>3 DEF Hash
  <2>4. CASE rp(h).verified = Size /\ Len(part) = Size /\ part = Package
    BY <2>4 DEF Hash
  <2> QED BY <2>1, <2>2, <2>3, <2>4
<1> QED BY <1>4, <1>5, <1>6, <1>7

-----------------------------------------------------------------------------
(* The bytes of a chunk, written behind what is registered.                *)
LEMMA WriteBytesHolds ==
    ASSUME Inv, NEW h \in Hosts, NEW n \in 0..MaxChunk, WriteBytes(h, n), JournalInv'
    PROVE  Inv'
<1>1. /\ pc[h] = "bytes" /\ n <= Len(op[h].bytes) /\ part' = part \o SubSeq(op[h].bytes, 1, n)
      /\ ledger' = ledger /\ cont' = cont
      /\ verified' = verified /\ taken' = taken /\ acked' = acked /\ tampered' = tampered
    BY DEF WriteBytes, At
<1>2. pc[h] \in Reception /\ Able(h, "bytes")
    BY <1>1, HostFacts DEF Reception
<1>3. Ready(h) /\ Adds(h) /\ Cut(rp(h)) /\ op[h] \in Operations
    BY <1>2 DEF Able, Reception
<1>4. PICK b \in Seq(Bytes) : b = op[h].bytes /\ Len(b) \in Nat
    BY <1>3, OperationFields, LenProperties
<1>5. PICK t \in Seq(Bytes) : t = SubSeq(b, 1, n) /\ Len(t) = n /\ \A i \in 1..n : t[i] = b[i]
  <2>1. n \in Nat /\ n <= Len(b)
    BY <1>1, <1>4, ChunkAssumption
  <2>2. /\ SubSeq(b, 1, n) \in Seq(Bytes) /\ Len(SubSeq(b, 1, n)) = n
        /\ \A i \in 1..n : SubSeq(b, 1, n)[i] = b[i]
    BY <2>1, CutSeq
  <2> QED BY <2>2
<1>6. PICK v \in Nat : v = rp(h).verified /\ Len(part) = v /\ part \in Seq(Bytes)
    BY <1>2, <1>3, ReadyFacts DEF Cut
<1>7. /\ part' \in Seq(Bytes) /\ Len(part') = v + n
      /\ \A i \in 1..v + n : part'[i] = IF i <= v THEN part[i] ELSE t[i - v]
  <2>1. part' = part \o t
    BY <1>1, <1>4, <1>5
  <2>2. /\ part \o t \in Seq(Bytes) /\ Len(part \o t) = Len(part) + Len(t)
        /\ \A i \in 1..Len(part) + Len(t) : (part \o t)[i] = IF i <= Len(part) THEN part[i] ELSE t[i - Len(part)]
    BY <1>5, <1>6, ConcatProperties
  <2> QED BY <1>5, <1>6, <2>1, <2>2
<1>8. /\ disk.data.rp.verified = v /\ v <= Len(part')
      /\ \A k \in 1..v : IsByte(part[k], taken[k])'
  <2>1. n \in Nat
    BY ChunkAssumption
  <2>2. \A k \in 1..v : IsByte(part[k], taken[k])
    BY <1>2, <1>3, <1>6, ReadyFacts
  <2>3. \A k \in 1..v : part'[k] = part[k]
    BY <1>7, <2>1
  <2>4. \A k \in 1..v : IsByte(part[k], taken[k])'
    BY <1>1, <2>2, <2>3 DEF IsByte
  <2>5. disk.data.rp.verified = v
    BY <1>2, <1>3, <1>6, ReadyFacts
  <2> QED BY <1>7, <2>1, <2>4, <2>5
<1>9. disk' = disk /\ durable' = durable /\ boot' = boot /\ taskDir' = taskDir /\ env' = env
  <2>1. Step(h, "line") \/ Breaks(h)
    BY DEF WriteBytes
  <2> QED BY <2>1 DEF Step, Breaks, stores
<1>10. StoreTypes' /\ StoreInv'
    BY <1>1, <1>7, <1>8, <1>9, PartChanges DEF Inv, StoreTypes
<1>11. CASE n = Len(op[h].bytes)
  <2>1. Step(h, "line") /\ op' = op
    BY <1>11 DEF WriteBytes, Step
  <2>2. Tailed(h, rp(h).verified)'
    <3>1. Len(part') = v + Len(b)
        BY <1>4, <1>7, <1>11
    <3>2. \A i \in 1..Len(b) : part'[v + i] = b[i]
        <4> TAKE i \in 1..Len(b)
        <4>1. v + i \in 1..v + n /\ ~(v + i <= v) /\ (v + i) - v = i /\ i \in 1..n
            BY <1>4, <1>6, <1>11
        <4> QED BY <1>5, <1>7, <4>1
    <3>3. rp(h)' = rp(h)
        BY <1>9 DEF rp
    <3> QED BY <1>4, <1>6, <2>1, <3>1, <3>2, <3>3 DEF Tailed, IsByte
  <2>3. env[h] # None /\ env[h] = disk /\ Live
    BY <1>2, AtWork
  <2>4. Adds(h)' /\ (Len(ledger) = rp(h).count)' /\ Ready(h)' /\ Offered(h)' /\ Live'
    BY <1>1, <1>3, <1>9, <2>1, <2>3 DEF Adds, Ready, rp, Offered, Cut, Live
  <2>5. Able(h, "line")'
    BY <1>3, <1>9, <2>1, <2>2, <2>3, <2>4 DEF Able, Reception
  <2>6. "line" \in Reception
    BY DEF Reception
  <2>7. /\ cont' \in [Hosts -> Fingerprints \cup {None}] /\ (\A g \in Hosts : g # h => cont'[g] = cont[g])
    BY <1>1 DEF Inv, HostTypes
  <2>8. Trusts(cont[h])'
    BY <1>1, <1>9, HostFacts DEF Trusts
  <2> QED BY <1>1, <1>2, <1>10, <2>1, <2>5, <2>6, <2>7, <2>8, StepLands
<1>12. CASE n # Len(op[h].bytes)
  <2>1. Breaks(h)
    BY <1>12 DEF WriteBytes
  <2> QED BY <1>1, <1>2, <1>10, <2>1, BreaksLands
<1> QED BY <1>11, <1>12

(* A line behind the registered ones changes none of them.                 *)
LEMMA AppendedLedger ==
    ASSUME Inv, NEW h \in Hosts, pc[h] \in Reception, Ready(h), Len(ledger) = rp(h).count,
           NEW x \in Lines, ledger' = Append(ledger, x)
    PROVE  /\ ledger' \in Seq(Lines) /\ Len(ledger') = rp(h).count + 1 /\ ledger'[rp(h).count + 1] = x
           /\ disk.data.rp.count = rp(h).count /\ rp(h).count <= Len(ledger')
           /\ \A k \in 1..rp(h).count : ledger'[k] = ledger[k]
<1>1. ledger \in Seq(Lines) /\ rp(h).count \in Nat /\ disk.data.rp.count = rp(h).count
    BY ReadyFacts
<1>2. /\ Append(ledger, x) \in Seq(Lines) /\ Len(Append(ledger, x)) = Len(ledger) + 1
      /\ \A i \in 1.. Len(ledger) : Append(ledger, x)[i] = ledger[i]
      /\ Append(ledger, x)[Len(ledger) + 1] = x
    BY <1>1, AppendProperties
<1> QED BY <1>1, <1>2

(* The line of a chunk, and the chunk is about to be registered.           *)
LEMMA WriteLineHolds ==
    ASSUME Inv, NEW h \in Hosts, WriteLine(h), JournalInv'
    PROVE  Inv'
<1>1. /\ pc[h] = "line" /\ part' = part /\ cont' = cont
      /\ verified' = verified /\ taken' = taken /\ acked' = acked /\ tampered' = tampered
    BY DEF WriteLine, At
<1>2. pc[h] \in Reception /\ Able(h, "line")
    BY <1>1, HostFacts DEF Reception
<1>3. Adds(h) /\ Ready(h) /\ Len(ledger) = rp(h).count /\ Tailed(h, rp(h).verified) /\ op[h] \in Operations
    BY <1>2 DEF Able, Reception
<1>4. PICK x \in Lines : x = Line(op[h].offset, op[h].bytes)
  <2>1. Line(op[h].offset, op[h].bytes) \in Lines
    BY <1>3, OperationFields DEF Line, Lines
  <2> QED BY <2>1
<1>5. PICK y \in Lines : y = Torn
  <2>1. Torn \in Lines
    BY EmptySeq DEF Torn, Lines
  <2> QED BY <2>1
<1>6. CASE ledger' = Append(ledger, y) /\ Breaks(h)
  <2>1. disk' = disk /\ durable' = durable /\ boot' = boot /\ taskDir' = taskDir
    BY <1>6 DEF Breaks, stores
  <2>2. StoreTypes' /\ StoreInv'
    BY <1>1, <1>2, <1>3, <1>6, <2>1, AppendedLedger, LedgerChanges
  <2> QED BY <1>1, <1>2, <1>6, <2>2, BreaksLands
<1>7. ASSUME ledger' = Append(ledger, x),
             SavePartial(h, Receive("READY", rp(h).verified + Len(op[h].bytes), rp(h).count + 1), "appended")
      PROVE  Inv'
  <2>1. disk' = disk /\ durable' = durable /\ boot' = boot /\ taskDir' = taskDir
    BY <1>7, SavedStores
  <2>2. StoreTypes' /\ StoreInv'
    BY <1>1, <1>2, <1>3, <1>7, <2>1, AppendedLedger, LedgerChanges
  <2>3. PICK r \in Receives : r = Receive("READY", rp(h).verified + Len(op[h].bytes), rp(h).count + 1)
    <3>1. rp(h).verified \in Nat /\ rp(h).count \in Nat /\ Len(op[h].bytes) \in Nat
        BY <1>2, <1>3, ReadyFacts, OperationFields, LenProperties
    <3>2. rp(h).verified + Len(op[h].bytes) \in Nat /\ rp(h).count + 1 \in Nat
        BY <3>1
    <3> QED BY <3>2, ReceiptTypes
  <2>4. "appended" \in Places
    BY DEF Places
  <2>5. env[h] # None /\ Live
    BY <1>2, AtWork
  <2>6. Len(ledger') = rp(h).count + 1 /\ ledger'[rp(h).count + 1] = x
    BY <1>2, <1>3, <1>7, AppendedLedger
  <2>7. ASSUME want'[h].rp = r, then'[h] = "appended", env'[h] = env[h], op'[h] = op[h], disk' = disk, boot' = boot
        PROVE  Pending(h)'
    <3>1. rp(h)' = rp(h) /\ Live'
        BY <2>5, <2>7 DEF rp, Live
    <3>2. Adds(h)' /\ Tailed(h, rp(h).verified)'
        BY <1>1, <1>3, <2>7, <3>1 DEF Adds, Ready, rp, Offered, Tailed, IsByte
    <3> QED BY <1>4, <2>3, <2>5, <2>6, <2>7, <3>1, <3>2 DEF Pending
  <2> QED BY <1>1, <1>2, <1>7, <2>2, <2>3, <2>4, <2>7, PartialLands
<1>8. \/ ledger' = Append(ledger, x)
            /\ SavePartial(h, Receive("READY", rp(h).verified + Len(op[h].bytes), rp(h).count + 1), "appended")
      \/ ledger' = Append(ledger, y) /\ Breaks(h)
    BY <1>4, <1>5 DEF WriteLine
<1> QED BY <1>6, <1>7, <1>8

-----------------------------------------------------------------------------
(* The rename: what was about to be registered is.                         *)
LEMMA EnvelopeIs ==
    ASSUME Inv, NEW h \in Hosts, pc[h] = "rename"
    PROVE  /\ env[h] = disk /\ want[h] \in Datas /\ Pending(h) /\ taskDir
           /\ Envelope(h) \in Envelopes /\ Envelope(h).data = want[h] /\ Envelope(h).boot = boot
           /\ disk # None => Live
<1>1. Able(h, "rename") /\ taskDir
    BY HostFacts DEF Inv, JournalInv, DirectoryFirst
<1>2. env[h] = disk /\ want[h] \in Datas /\ Pending(h)
    BY <1>1 DEF Able, Reception
<1>3. CASE env[h] = None
  <2>1. boot \in {0, 1}
    BY DEF Inv, StoreTypes
  <2> QED BY <1>1, <1>2, <1>3, <2>1 DEF Envelope, Envelopes
<1>4. CASE env[h] # None
  <2>1. Live /\ env[h].rev + 1 \in Nat /\ env[h].boot = boot /\ boot \in {0, 1}
    BY <1>2, <1>4, HostFacts DEF Pending, Live, Inv, StoreTypes
  <2> QED BY <1>1, <1>2, <1>4, <2>1 DEF Envelope, Envelopes
<1> QED BY <1>3, <1>4

(* Nothing is taken by a save that is not of a chunk.                      *)
Same(h) ==
    /\ disk # None => want[h].rp = disk.data.rp
    /\ disk = None => want[h].rp = None /\ taken = <<>>

Begins(h) ==
    /\ disk # None /\ ~IsReady(disk.data.rp)
    /\ want[h].rp \in Receives /\ want[h].rp.verified = 0 /\ want[h].rp.count = 0
    /\ disk.data.rp # None => disk.data.rp.verified = 0
    /\ want[h].rp.phase # "DIRECTORY" => part # None
    /\ want[h].rp.phase = "READY" => ledger # None

(* A pending state registers a chunk, or nothing new of the reception.     *)
LEMMA PendingKinds ==
    ASSUME Inv, NEW h \in Hosts, pc[h] = "rename"
    PROVE  /\ then[h] # "appended" => Same(h) \/ Begins(h)
           /\ then[h] = "appended" => disk # None
<1>1. env[h] = disk /\ Pending(h) /\ then[h] \in Places
    BY EnvelopeIs, HostFacts
<1>2. CASE disk = None
    BY <1>1, <1>2 DEF Pending, Same
<1>3. CASE disk # None /\ then[h] \in {"idle", "resumed"}
    BY <1>1, <1>3 DEF Pending, Same, rp
<1>4. CASE disk # None /\ then[h] = "initialize"
  <2>1. \/ rp(h) = None /\ want[h].rp = Receive("DIRECTORY", 0, 0)
        \/ rp(h) # None /\ rp(h).phase = "DIRECTORY" /\ want[h].rp = Receive("PARTIAL", 0, 0) /\ part # None
        \/ rp(h) # None /\ rp(h).phase = "PARTIAL" /\ want[h].rp = Receive("READY", 0, 0) /\ part # None /\ ledger # None
    BY <1>1, <1>4 DEF Pending
  <2>2. rp(h) = disk.data.rp /\ rp(h) \in Receives \cup {None}
    BY <1>1, <1>4, StateFacts DEF rp
  <2>3. ~IsReady(disk.data.rp) /\ (disk.data.rp # None => disk.data.rp.verified = 0)
    BY <2>1, <2>2, ReceiveFields DEF IsReady
  <2>4. \A p \in {"DIRECTORY", "PARTIAL", "READY"} :
           /\ Receive(p, 0, 0) \in Receives /\ Receive(p, 0, 0).verified = 0 /\ Receive(p, 0, 0).count = 0
           /\ Receive(p, 0, 0).phase = p
    BY ReceiptTypes DEF Receive
  <2>5. /\ want[h].rp \in Receives /\ want[h].rp.verified = 0 /\ want[h].rp.count = 0
        /\ want[h].rp.phase # "DIRECTORY" => part # None
        /\ want[h].rp.phase = "READY" => ledger # None
    BY <2>1, <2>4
  <2> QED BY <1>4, <2>3, <2>5 DEF Begins
<1> QED BY <1>1, <1>2, <1>3, <1>4 DEF Places, Pending

(* The store after a rename that takes nothing.                            *)
LEMMA RenameSame ==
    ASSUME Inv, NEW h \in Hosts, pc[h] = "rename", Same(h) \/ Begins(h),
           disk' = Envelope(h), durable' = durable, boot' = boot, taskDir' = taskDir, part' = part, ledger' = ledger,
           taken' = taken, acked' = acked, verified' = verified, tampered' = tampered
    PROVE  StoreTypes' /\ StoreInv'
<1>0. PICK r \in Receives \cup {None} : r = want[h].rp
    BY EnvelopeIs DEF Datas
<1>1. /\ disk' \in Envelopes /\ disk' # None /\ disk'.boot = boot /\ disk'.data.rp = r /\ taskDir
      /\ disk # None => Live
    BY <1>0, EnvelopeIs, EnvelopeFields
<1>2. StoreTypes'
    BY <1>1 DEF Inv, StoreTypes
<1>3. disk # None => disk.data.rp \in Receives \cup {None}
    BY StateFacts
<1>4. disk # None => Grown(disk.data.rp, r)
    BY <1>0, <1>3, ReceiveFields DEF Same, Begins, Grown, IsReady
<1>5. DurableBehind'
  <2>1. ASSUME durable # None PROVE Grown(durable.data.rp, r)
    <3>1. disk # None /\ Grown(durable.data.rp, disk.data.rp)
        BY <2>1 DEF Inv, StoreInv, DurableBehind
    <3>2. durable.data.rp \in Receives \cup {None}
        BY <2>1, EnvelopeFields DEF Inv, StoreTypes
    <3> QED BY <1>0, <1>3, <1>4, <3>1, <3>2, ReceiveFields DEF Grown
  <2> QED BY <1>1, <2>1 DEF DurableBehind
<1>6. BootBehind' /\ AckedIsDurable'
    BY <1>1 DEF Inv, StoreInv, BootBehind, AckedIsDurable
<1>7. PartHeld'
  <2>1. CASE Same(h)
    BY <1>0, <1>1, <2>1, NoneAssumption DEF Inv, StoreInv, PartHeld, IsByte, IsReady, Same
  <2>2. CASE Begins(h)
    <3>1. ASSUME IsReady(r) PROVE r.verified = 0 /\ part # None
        BY <1>0, <2>2, <3>1 DEF Begins, IsReady
    <3>2. ASSUME IsReady(r) PROVE 0 <= Len(part) /\ 0 <= Len(taken) /\ \A k \in 1..0 : IsByte(part[k], taken[k])'
        BY <3>1, <3>2, LenProperties DEF Inv, StoreTypes
    <3>3. ASSUME IsReady(r) PROVE part' # None /\ r.verified <= Len(part') /\ r.verified <= Len(taken')
                                  /\ \A k \in 1..r.verified : IsByte(part[k], taken[k])'
        BY <3>1, <3>2, <3>3
    <3> QED BY <1>1, <3>3 DEF PartHeld, IsReady
  <2> QED BY <2>1, <2>2
<1>8. LedgerHeld'
  <2>1. CASE Same(h)
    <3>1. IsReady(r) => disk # None /\ Live /\ IsReady(disk.data.rp) /\ disk.data.rp = r
        BY <1>0, <1>1, <2>1 DEF Same, IsReady
    <3>2. IsReady(r) => /\ ledger # None /\ r.count <= Len(ledger) /\ (\A k \in 1..r.count : LineHeld(r.verified, k))
                        /\ LineEnd(r.count) = r.verified
        BY <3>1 DEF Inv, StoreInv, LedgerHeld
    <3>3. IsReady(r) => /\ ledger' # None /\ r.count <= Len(ledger') /\ (\A k \in 1..r.count : LineHeld(r.verified, k)')
                        /\ LineEnd(r.count)' = r.verified
        BY <3>2 DEF LineHeld, LineEnd
    <3> QED BY <1>1, <3>3 DEF LedgerHeld, IsReady
  <2>2. CASE Begins(h)
    <3>1. ASSUME IsReady(r) PROVE r.verified = 0 /\ r.count = 0 /\ ledger # None
        BY <1>0, <2>2, <3>1 DEF Begins, IsReady
    <3>2. ASSUME IsReady(r) PROVE 0 <= Len(ledger)
        BY <3>1, <3>2, LenProperties DEF Inv, StoreTypes
    <3>3. ASSUME IsReady(r)
          PROVE  /\ ledger' # None /\ r.count <= Len(ledger') /\ (\A k \in 1..r.count : LineHeld(r.verified, k)')
                 /\ LineEnd(r.count)' = r.verified
        BY <3>1, <3>2, <3>3 DEF LineEnd
    <3> QED BY <1>1, <3>3 DEF LedgerHeld, IsReady
  <2> QED BY <2>1, <2>2
<1>9. TakenCounts'
  <2>1. Len(<<>>) = 0 /\ IsReady(None) = FALSE
    BY EmptySeq DEF IsReady
  <2>2. Len(taken) = IF IsReady(r) THEN r.verified ELSE 0
    <3>1. CASE disk = None
        BY <1>0, <2>1, <3>1 DEF Same, Begins
    <3>2. CASE disk # None /\ Same(h)
        BY <1>0, <1>1, <3>2 DEF Same, Inv, StoreInv, TakenCounts
    <3>3. CASE disk # None /\ Begins(h)
        BY <1>0, <1>1, <3>3 DEF Begins, Inv, StoreInv, TakenCounts
    <3> QED BY <3>1, <3>2, <3>3
  <2>3. r # None /\ r.phase = "PARTIAL" => part # None
    <3>1. CASE Same(h)
        BY <1>0, <1>1, <3>1 DEF Same, Inv, StoreInv, TakenCounts
    <3>2. CASE Begins(h)
        BY <1>0, <3>2 DEF Begins
    <3> QED BY <3>1, <3>2
  <2> QED BY <1>1, <2>2, <2>3 DEF Inv, StoreInv, TakenCounts, IsReady
<1> QED BY <1>2, <1>5, <1>6, <1>7, <1>8, <1>9 DEF StoreInv

-----------------------------------------------------------------------------
(* The rename that registers a chunk.                                      *)
LEMMA ReadyStore ==
    ASSUME Inv, Live, IsReady(disk.data.rp), NEW r, r = disk.data.rp
    PROVE  /\ r \in Receives /\ r.verified \in Nat /\ r.count \in Nat
           /\ part # None /\ part \in Seq(Bytes) /\ Len(part) \in Nat
           /\ ledger # None /\ ledger \in Seq(Lines) /\ Len(ledger) \in Nat /\ r.count <= Len(ledger)
           /\ taken \in Seq(Bytes) /\ Len(taken) = r.verified
           /\ \A k \in 1..r.verified : IsByte(part[k], taken[k])
           /\ \A k \in 1..r.count : LineHeld(r.verified, k)
           /\ LineEnd(r.count) = r.verified
<1>1. r \in Receives /\ r.verified \in Nat /\ r.count \in Nat /\ disk # None
    BY StateFacts, ReceiveFields DEF Live, IsReady
<1>2. part # None /\ \A k \in 1..r.verified : IsByte(part[k], taken[k])
    BY <1>1 DEF Inv, StoreInv, PartHeld
<1>3. /\ ledger # None /\ r.count <= Len(ledger) /\ (\A k \in 1..r.count : LineHeld(r.verified, k))
      /\ LineEnd(r.count) = r.verified
    BY <1>1 DEF Inv, StoreInv, LedgerHeld
<1>4. part \in Seq(Bytes) /\ ledger \in Seq(Lines) /\ taken \in Seq(Bytes)
    BY <1>2, <1>3 DEF Inv, StoreTypes
<1>5. Len(taken) = r.verified
    BY <1>1 DEF Inv, StoreInv, TakenCounts
<1> QED BY <1>1, <1>2, <1>3, <1>4, <1>5, LenProperties

(* The rename that registers a chunk takes its bytes.                      *)
LEMMA RenameAdds ==
    ASSUME Inv, NEW h \in Hosts, pc[h] = "rename", then[h] = "appended",
           disk' = Envelope(h), durable' = durable, boot' = boot, taskDir' = taskDir, part' = part, ledger' = ledger,
           taken' = taken \o op[h].bytes, acked' = acked, verified' = verified, tampered' = tampered
    PROVE  StoreTypes' /\ StoreInv'
<1>1. /\ env[h] = disk /\ disk # None /\ Live /\ taskDir /\ Pending(h) /\ Envelope(h) \in Envelopes
      /\ Envelope(h).data = want[h] /\ Envelope(h).boot = boot
    BY EnvelopeIs, PendingKinds
<1>2. PICK r : r = disk.data.rp
    OBVIOUS
<1>3. rp(h) = r
    BY <1>1, <1>2 DEF rp
<1>4. /\ Adds(h) /\ want[h].rp = Receive("READY", r.verified + Len(op[h].bytes), r.count + 1)
      /\ Len(ledger) = r.count + 1 /\ ledger[r.count + 1] = Line(op[h].offset, op[h].bytes)
      /\ Tailed(h, r.verified)
    BY <1>1, <1>3 DEF Pending
<1>5. /\ IsReady(r) /\ op[h] \in Operations /\ op[h].name = "append" /\ op[h].offset = r.verified
    BY <1>3, <1>4 DEF Adds, Ready, Offered, IsReady
<1>6. PICK b \in Seq(Bytes) : b = op[h].bytes /\ Len(b) \in Nat /\ b # <<>> /\ r.verified < Size
    BY <1>5, OperationFields, LenProperties
<1>7. PICK v \in Nat, n \in Nat : v = r.verified /\ n = r.count
    BY <1>1, <1>2, <1>5, ReadyStore
<1>8. PICK m \in Nat : m = Len(b)
    BY <1>6
<1>9. PICK s \in Receives : s = want[h].rp /\ s.phase = "READY" /\ s.verified = v + m /\ s.count = n + 1
  <2>1. v + m \in Nat /\ n + 1 \in Nat
    BY <1>7
  <2>2. want[h].rp = Receive("READY", v + m, n + 1)
    BY <1>4, <1>6, <1>7, <1>8
  <2>3. Receive("READY", v + m, n + 1) \in Receives
    BY <2>1, ReceiptTypes
  <2> QED BY <2>2, <2>3 DEF Receive
<1>10. /\ disk' \in Envelopes /\ disk' # None /\ disk'.boot = boot /\ disk'.data.rp = s /\ s # None
    BY <1>1, <1>9, EnvelopeFields, ReceiveFields
<1>11. /\ taken \in Seq(Bytes) /\ Len(taken) = v /\ taken' \in Seq(Bytes) /\ Len(taken') = v + m
       /\ \A i \in 1..v : taken'[i] = taken[i]
       /\ \A i \in 1..m : taken'[v + i] = b[i]
  <2>1. taken \in Seq(Bytes) /\ Len(taken) = v
    BY <1>1, <1>2, <1>5, <1>7, ReadyStore
  <2>2. taken' = taken \o b
    BY <1>6
  <2>3. /\ taken \o b \in Seq(Bytes) /\ Len(taken \o b) = Len(taken) + Len(b)
        /\ \A i \in 1..Len(taken) + Len(b) : (taken \o b)[i] = IF i <= Len(taken) THEN taken[i] ELSE b[i - Len(taken)]
    BY <1>6, <2>1, ConcatProperties
  <2>4. \A i \in 1..v + m : taken'[i] = IF i <= v THEN taken[i] ELSE b[i - v]
    BY <1>8, <2>1, <2>2, <2>3
  <2>5. \A i \in 1..v : taken'[i] = taken[i]
    <3> TAKE i \in 1..v
    <3>1. i \in 1..v + m /\ i <= v
        BY <1>7, <1>8
    <3> QED BY <2>4, <3>1
  <2>6. \A i \in 1..m : taken'[v + i] = b[i]
    <3> TAKE i \in 1..m
    <3>1. v + i \in 1..v + m /\ ~(v + i <= v) /\ (v + i) - v = i
        BY <1>7
    <3> QED BY <2>4, <3>1
  <2> QED BY <1>8, <2>1, <2>2, <2>3, <2>5, <2>6
<1>12. StoreTypes'
    BY <1>10, <1>11 DEF Inv, StoreTypes
<1>13. DurableBehind'
  <2>1. ASSUME durable # None PROVE Grown(durable.data.rp, s)
    <3>1. Grown(durable.data.rp, r)
        BY <1>2, <2>1 DEF Inv, StoreInv, DurableBehind
    <3>2. durable.data.rp \in Receives \cup {None}
        BY <2>1, EnvelopeFields DEF Inv, StoreTypes
    <3>3. v <= v + m
        BY <1>7
    <3>4. ASSUME durable.data.rp # None
          PROVE  s # None /\ durable.data.rp.verified <= s.verified /\ s.phase = "READY"
      <4>1. durable.data.rp.verified \in Nat /\ durable.data.rp.verified <= v
        BY <1>7, <3>1, <3>2, <3>4, ReceiveFields DEF Grown
      <4> QED BY <1>7, <1>9, <1>10, <3>3, <4>1
    <3> QED BY <3>4 DEF Grown
  <2> QED BY <1>10, <2>1 DEF DurableBehind
<1>14. BootBehind' /\ AckedIsDurable'
    BY <1>10 DEF Inv, StoreInv, BootBehind, AckedIsDurable
<1>15. PartHeld'
  <2>1. Len(part) = v + m /\ \A i \in 1..m : IsByte(part[v + i], b[i])
    BY <1>4, <1>6, <1>7, <1>8 DEF Tailed
  <2>2. \A k \in 1..v + m : IsByte(part[k], taken[k])'
    <3> TAKE k \in 1..v + m
    <3>1. CASE k <= v
      <4>1. k \in 1..v
        BY <1>7, <3>1
      <4>2. IsByte(part[k], taken[k]) /\ taken'[k] = taken[k]
        BY <1>1, <1>2, <1>5, <1>7, <1>11, <4>1, ReadyStore
      <4> QED BY <4>2 DEF IsByte
    <3>2. CASE ~(k <= v)
      <4>1. PICK i \in 1..m : k = v + i
        <5>1. k - v \in 1..m /\ k = v + (k - v)
            BY <1>7, <3>2
        <5> QED BY <5>1
      <4>2. IsByte(part[v + i], b[i]) /\ taken'[v + i] = b[i]
        BY <1>11, <2>1
      <4>3. part'[k] = part[v + i] /\ taken'[k] = b[i]
        BY <4>1, <4>2
      <4> QED BY <4>2, <4>3 DEF IsByte
    <3> QED BY <3>1, <3>2
  <2>3. part # None
    BY <1>1, <1>2, <1>5, ReadyStore
  <2>4. s.verified <= Len(part') /\ s.verified <= Len(taken')
    BY <1>7, <1>9, <1>11, <2>1
  <2> QED BY <1>9, <1>10, <2>2, <2>3, <2>4 DEF PartHeld
<1>16. LedgerHeld'
  <2>1. /\ ledger # None /\ ledger \in Seq(Lines) /\ (\A k \in 1..n : LineHeld(v, k)) /\ LineEnd(n) = v
    BY <1>1, <1>2, <1>5, <1>7, ReadyStore
  <2>2. \A k \in 0..n + 1 : LineEnd(k)' = LineEnd(k)
    BY DEF LineEnd
  <2>3. ASSUME NEW k \in 1..n PROVE LineHeld(v + m, k)'
    <3>1. LineHeld(v, k) /\ k \in 1..Len(ledger)
        BY <1>4, <1>7, <2>1
    <3>2. PICK a \in Nat, t \in Seq(Bytes) : a = ledger[k].offset /\ t = ledger[k].bytes /\ Len(t) \in Nat
        BY <2>1, <3>1, LineFields
    <3>3. LineEnd(k) = a + Len(t) /\ a + Len(t) <= v
        BY <1>7, <3>1, <3>2 DEF LineEnd, LineHeld
    <3>4. \A i \in 1..Len(t) : t[i] = taken'[a + i]
        <4> TAKE i \in 1..Len(t)
        <4>0. v \in Nat /\ a \in Nat /\ Len(t) \in Nat /\ a + Len(t) <= v
            BY <1>7, <3>2, <3>3
        <4>1. a + i \in 1..v
            BY <4>0
        <4>2. t[i] = taken[a + i]
            BY <3>1, <3>2 DEF LineHeld
        <4> QED BY <1>11, <4>1, <4>2
    <3>5. k \in 0..n + 1 /\ k - 1 \in 0..n + 1
        BY <1>7
    <3>7. a + Len(t) <= v + m
        BY SMTT(30), <1>7, <1>8, <3>2, <3>3
    <3>6. LineEnd(k)' <= v + m /\ LineEnd(k)' = LineEnd(k) /\ LineEnd(k - 1)' = LineEnd(k - 1)
        BY <2>2, <3>3, <3>5, <3>7
    <3> QED BY <3>1, <3>2, <3>4, <3>6 DEF LineHeld
  <2>4. LineHeld(v + m, n + 1)' /\ LineEnd(n + 1)' = v + m
    <3>1. ledger[n + 1].torn = FALSE /\ ledger[n + 1].offset = v /\ ledger[n + 1].bytes = b
        BY <1>4, <1>5, <1>6, <1>7 DEF Line
    <3>2. n + 1 # 0 /\ (n + 1) - 1 = n
        BY <1>7
    <3>3. LineEnd(n + 1) = v + m /\ LineEnd((n + 1) - 1) = v
        BY <1>8, <2>1, <3>1, <3>2 DEF LineEnd
    <3>4. LineEnd(n + 1)' = v + m /\ LineEnd((n + 1) - 1)' = v /\ v + m <= v + m
        BY <1>7, <3>3 DEF LineEnd
    <3>5. \A i \in 1..Len(b) : b[i] = taken'[v + i]
        BY <1>8, <1>11
    <3> QED BY <1>6, <3>1, <3>4, <3>5 DEF LineHeld
  <2>5. \A k \in 1..n + 1 : LineHeld(v + m, k)'
    <3> TAKE k \in 1..n + 1
    <3>1. k \in 1..n \/ k = n + 1
        BY <1>7
    <3> QED BY <2>3, <2>4, <3>1
  <2>6. s.count <= Len(ledger')
    BY <1>4, <1>7, <1>9
  <2> QED BY <1>9, <1>10, <2>1, <2>4, <2>5, <2>6 DEF LedgerHeld
<1>17. TakenCounts'
  <2>1. taken # Package
    BY <1>6, <1>7, <1>11, SizeType DEF Size
  <2>2. ~verified
    BY <2>1 DEF Inv, StoreInv, TakenCounts
  <2> QED BY <1>1, <1>9, <1>10, <1>11, <2>2 DEF TakenCounts, IsReady
<1> QED BY <1>12, <1>13, <1>14, <1>15, <1>16, <1>17 DEF StoreInv

(* Every rename keeps the invariant.                                       *)
LEMMA RenameHolds ==
    ASSUME Inv, NEW h \in Hosts, RenameTakes(h), JournalInv'
    PROVE  Inv'
<1>1. /\ pc[h] = "rename" /\ disk = env[h] /\ disk' = Envelope(h) /\ pc' = [pc EXCEPT ![h] = "sync"]
      /\ taskDir' = taskDir /\ durable' = durable /\ boot' = boot /\ then' = then /\ env' = env /\ want' = want
      /\ code' = code /\ part' = part /\ ledger' = ledger /\ op' = op /\ cont' = cont /\ verified' = verified
      /\ acked' = acked /\ tampered' = tampered
      /\ taken' = IF then[h] = "appended" THEN taken \o op[h].bytes ELSE taken
    BY DEF RenameTakes, Rename, At, Goto, files
<1>2. StoreTypes' /\ StoreInv'
  <2>1. CASE then[h] = "appended"
    BY <1>1, <2>1, RenameAdds
  <2>2. CASE then[h] # "appended"
    BY <1>1, <2>2, PendingKinds, RenameSame
  <2> QED BY <2>1, <2>2
<1>3. pc'[h] = "sync" /\ Turn(h) /\ HostTypes'
    BY <1>1 DEF Inv, HostTypes, JournalInv, ProcTypes, Turn
<1>4. /\ env[h] = disk /\ Pending(h) /\ Envelope(h).data = want[h] /\ Envelope(h).boot = boot /\ Envelope(h) # None
      /\ then[h] \in Places
    BY <1>1, EnvelopeIs, EnvelopeFields, HostFacts
<1>5. disk' # None /\ Live' /\ (disk = Envelope(h))'
    BY <1>1, <1>4 DEF Live, Envelope
<1>6. then[h] # "idle" => op[h] \in Operations
    BY <1>4 DEF Pending, Places, Adds, Offered
<1>7. then[h] \in {"resumed", "appended"} => Cut(disk.data.rp)'
  <2>1. CASE then[h] = "resumed"
    BY <1>1, <1>4, <2>1 DEF Pending, Cut, IsReady
  <2>2. CASE then[h] = "appended"
    <3>1. /\ want[h].rp = Receive("READY", rp(h).verified + Len(op[h].bytes), rp(h).count + 1)
          /\ Len(ledger) = rp(h).count + 1 /\ Tailed(h, rp(h).verified)
        BY <1>4, <2>2 DEF Pending
    <3>2. PICK v, n : v = rp(h).verified + Len(op[h].bytes) /\ n = rp(h).count + 1
        OBVIOUS
    <3>3. want[h].rp.phase = "READY" /\ want[h].rp.verified = v /\ want[h].rp.count = n
        BY <3>1, <3>2 DEF Receive
    <3>4. want[h].rp \in Receives \cup {None} /\ want[h] \in Datas
        BY <1>1, EnvelopeIs DEF Datas
    <3>5. Receive("READY", v, n) # None
      <4>1. /\ disk # None /\ Live /\ Adds(h) /\ rp(h) = disk.data.rp
        BY <1>1, <1>4, <2>2, PendingKinds DEF Pending, rp
      <4>2. IsReady(disk.data.rp) /\ op[h] \in Operations
        BY <4>1 DEF Adds, Ready, Offered, IsReady
      <4>3. rp(h).verified \in Nat /\ rp(h).count \in Nat
        BY <4>1, <4>2, ReadyStore
      <4>4. Len(op[h].bytes) \in Nat
        BY <4>2, OperationFields, LenProperties
      <4>5. v \in Nat /\ n \in Nat
        BY <3>2, <4>3, <4>4
      <4> QED BY <4>5, ReceiptTypes, ReceiveFields
    <3>6. Len(part) = v /\ Len(ledger) = n
        BY <3>1, <3>2 DEF Tailed
    <3>7. want[h].rp # None /\ disk'.data.rp = want[h].rp
        BY <1>1, <1>4, <3>1, <3>2, <3>5
    <3> QED BY <1>1, <3>3, <3>6, <3>7 DEF Cut, IsReady
  <2> QED BY <2>1, <2>2
<1>8. Able(h, "sync")'
    BY <1>1, <1>5, <1>6, <1>7 DEF Able, Reception
<1>9. Able(h, pc[h])'
    BY <1>3, <1>8 DEF Able
<1>10. Trusts(cont[h])'
    BY <1>1, HostFacts DEF Trusts
<1>11. code'[h] = code[h] /\ (tampered' \/ code[h] \notin Alarms) /\ pc[h] # "out"
    BY <1>1 DEF Inv, NoAlarm, Alarms
<1> QED BY <1>1, <1>2, <1>3, <1>9, <1>10, <1>11, Landed

-----------------------------------------------------------------------------
(* The directory is synced: what is registered is registered for good.     *)
LEMMA GrownSelf ==
    ASSUME NEW r \in Receives \cup {None}
    PROVE  Grown(r, r)
BY ReceiveFields DEF Grown

(* What is synced is durable.                                              *)
LEMMA SyncStore ==
    ASSUME Inv, disk # None, disk' = disk, durable' = disk, boot' = boot, taskDir' = taskDir, part' = part,
           ledger' = ledger, taken' = taken, acked' = acked, verified' = verified, tampered' = tampered
    PROVE  StoreTypes' /\ StoreInv'
<1>1. StoreTypes'
    BY DEF Inv, StoreTypes
<1>2. PICK r \in Receives \cup {None} : r = disk.data.rp
    BY StateFacts
<1>3. DurableBehind'
    BY <1>2, GrownSelf DEF DurableBehind
<1>4. BootBehind'
    BY DEF Inv, StoreInv, BootBehind
<1>5. AckedIsDurable'
  <2> SUFFICES ASSUME acked > 0 PROVE r # None /\ r.verified >= acked
    BY <1>2 DEF AckedIsDurable
  <2>1. durable # None /\ durable.data.rp # None /\ durable.data.rp.verified >= acked
    BY DEF Inv, StoreInv, AckedIsDurable
  <2>2. Grown(durable.data.rp, r) /\ durable.data.rp \in Receives
    BY <1>2, <2>1, EnvelopeFields DEF Inv, StoreInv, StoreTypes, DurableBehind
  <2> QED BY <1>2, <2>1, <2>2, ReceiveFields DEF Grown, Inv, StoreTypes
<1>6. PartHeld' /\ TakenCounts'
    BY DEF Inv, StoreInv, PartHeld, TakenCounts, Live, IsByte
<1>7. LedgerHeld'
    BY DEF Inv, StoreInv, LedgerHeld, LineHeld, LineEnd, Live
<1> QED BY <1>1, <1>3, <1>4, <1>5, <1>6, <1>7 DEF StoreInv

(* The sync of the directory keeps the invariant.                          *)
LEMMA SyncHolds ==
    ASSUME Inv, NEW h \in Hosts, Sync(h), UNCHANGED partialVars, JournalInv'
    PROVE  Inv'
<1>1. /\ pc[h] = "sync" /\ durable' = disk /\ env' = [env EXCEPT ![h] = disk] /\ pc' = [pc EXCEPT ![h] = then[h]]
      /\ disk' = disk /\ boot' = boot /\ taskDir' = taskDir /\ code' = code
      /\ part' = part /\ ledger' = ledger /\ op' = op /\ cont' = cont /\ verified' = verified
      /\ acked' = acked /\ tampered' = tampered /\ taken' = taken
    BY DEF Sync, At, Goto, partialVars, files
<1>2. Able(h, "sync") /\ then[h] \in Places
    BY <1>1, HostFacts
<1>3. /\ disk # None /\ Live /\ (then[h] # "idle" => op[h] \in Operations)
      /\ then[h] \in {"resumed", "appended"} => Cut(disk.data.rp)
    BY <1>2 DEF Able
<1>4. StoreTypes' /\ StoreInv'
    BY <1>1, <1>3, SyncStore
<1>5. pc'[h] = then[h] /\ env'[h] = disk
    BY <1>1 DEF Inv, HostTypes, JournalInv, ProcTypes
<1>6. Turn(h) /\ HostTypes'
    BY <1>1 DEF Inv, HostTypes, JournalInv, ProcTypes, StoreTypes, Turn
<1>7. Able(h, pc[h])'
  <2>1. CASE then[h] \in {"idle", "initialize"}
    BY <1>1, <1>3, <1>5, <2>1 DEF Able, Reception, Live
  <2>2. CASE then[h] \in {"resumed", "appended"}
    BY <1>1, <1>3, <1>5, <2>2 DEF Able, Reception, Live, Ready, rp, Cut, IsReady
  <2> QED BY <1>2, <2>1, <2>2 DEF Places
<1>8. Trusts(cont[h])'
  <2> SUFFICES ASSUME cont[h] # None PROVE Trusts(cont[h])'
    BY <1>1 DEF Trusts
  <2>1. PICK c \in Fingerprints : c = cont[h]
    BY HostFacts
  <2>2. /\ Len(c[3]) = c[1] /\ Len(c[4]) = c[2] /\ durable # None /\ durable.data.rp # None
        /\ c[1] <= durable.data.rp.verified /\ c[1] \in Nat
    BY <2>1, HostFacts DEF Trusts, Fingerprints
  <2>3. Grown(durable.data.rp, disk.data.rp) /\ durable.data.rp \in Receives /\ disk.data.rp \in Receives \cup {None}
    BY <2>2, StateFacts, EnvelopeFields, <1>3 DEF Inv, StoreInv, StoreTypes, DurableBehind
  <2>4. disk.data.rp # None /\ c[1] <= disk.data.rp.verified
    BY <2>2, <2>3, ReceiveFields DEF Grown
  <2> QED BY <1>1, <1>3, <2>1, <2>2, <2>4 DEF Trusts
<1>9. code'[h] = code[h] /\ (tampered' \/ code[h] \notin Alarms) /\ pc[h] # "out"
    BY <1>1 DEF Inv, NoAlarm, Alarms
<1> QED BY <1>1, <1>4, <1>6, <1>7, <1>8, <1>9, Landed

(* What a failed commit tells its caller is what happened.                 *)
LEMMA CommitFailsHolds ==
    ASSUME Inv, NEW h \in Hosts, NEW seen, CommitFails(h, seen), UNCHANGED partialVars, JournalInv'
    PROVE  Inv'
<1>1. /\ pc[h] \in {"rename", "sync"} /\ pc' = [pc EXCEPT ![h] = "failed"]
      /\ code' = [code EXCEPT ![h] = Verdict(h, seen)] /\ env' = env /\ want' = want
      /\ disk' = disk /\ durable' = durable /\ boot' = boot /\ taskDir' = taskDir
      /\ part' = part /\ ledger' = ledger /\ op' = op /\ cont' = cont /\ verified' = verified
      /\ acked' = acked /\ tampered' = tampered /\ taken' = taken
    BY DEF CommitFails, Fail, Goto, partialVars, files, stores
<1>2. StoreTypes' /\ StoreInv'
    BY <1>1, StoreSame
<1>3. pc'[h] = "failed" /\ code'[h] = Verdict(h, seen)
    BY <1>1 DEF Inv, HostTypes, JournalInv, ProcTypes
<1>4. HostTypes' /\ Turn(h)
    BY <1>1 DEF Inv, HostTypes, JournalInv, ProcTypes, Turn
<1>5. /\ Verdict(h, seen) = "storage_durability_unknown" => disk = Envelope(h)
      /\ Verdict(h, seen) = "storage_write_failed" => disk = env[h]
  <2>1. Verdict(h, seen) = "storage_durability_unknown" => disk = Envelope(h)
    BY DEF Verdict
  <2>2. CASE pc[h] = "rename"
    BY <2>1, <2>2, EnvelopeIs
  <2>3. CASE pc[h] = "sync"
    <3>1. disk = Envelope(h)
        BY <2>3, HostFacts DEF Able
    <3>2. Verdict(h, seen) # "storage_write_failed"
        BY <3>1 DEF Verdict
    <3> QED BY <2>1, <3>2
  <2> QED BY <1>1, <2>2, <2>3
<1>6. Envelope(h)' = Envelope(h)
    BY <1>1 DEF Envelope
<1>7. Able(h, "failed")'
    BY <1>1, <1>3, <1>5, <1>6 DEF Able, Verdicts, Reception
<1>8. Able(h, pc[h])'
    BY <1>3, <1>7 DEF Able
<1>9. Trusts(cont[h])'
    BY <1>1, HostFacts DEF Trusts
<1>10. code'[h] \notin Alarms /\ pc[h] # "out"
    BY <1>1, <1>3 DEF Verdict, Alarms
<1> QED BY <1>1, <1>2, <1>4, <1>8, <1>9, <1>10, Landed

-----------------------------------------------------------------------------
(* The other steps of the journal.                                         *)
LEMMA IdleLands ==
    ASSUME Inv, NEW h \in Hosts, pc[h] # "out", pc'[h] \in {"idle", "evidence"}, HostTypes', Turn(h), JournalInv',
           disk' = disk, durable' = durable, boot' = boot, taskDir' = taskDir, UNCHANGED partialVars,
           env'[h] # None => env'[h] = disk /\ Live, code'[h] \notin Alarms \/ code'[h] = code[h]
    PROVE  Inv'
<1>1. /\ part' = part /\ ledger' = ledger /\ cont' = cont /\ verified' = verified
      /\ acked' = acked /\ tampered' = tampered /\ taken' = taken
    BY DEF partialVars, files
<1>2. StoreTypes' /\ StoreInv'
    BY <1>1, StoreSame
<1>3. (env[h] # None => env[h] = disk /\ Live)'
    BY DEF Live
<1>4. Able(h, pc[h])'
    BY <1>3 DEF Able, Reception
<1>5. Trusts(cont[h])'
    BY <1>1, HostFacts DEF Trusts
<1>6. tampered' \/ code'[h] \notin Alarms
    BY <1>1 DEF Inv, NoAlarm, Alarms
<1> QED BY <1>1, <1>2, <1>4, <1>5, <1>6, Landed

(* The other steps of the journal keep it too: load, ...                   *)
LEMMA LoadHolds ==
    ASSUME Inv, NEW h \in Hosts, Load(h), UNCHANGED partialVars, JournalInv'
    PROVE  Inv'
<1>1. /\ pc[h] \in {"idle", "failed"} /\ disk' = disk /\ durable' = durable /\ boot' = boot /\ taskDir' = taskDir
      /\ pc' = [pc EXCEPT ![h] = "idle"] /\ op' = op /\ cont' = cont
    BY DEF Load, Raise, Goto, stores, At, partialVars
<1>2. pc'[h] = "idle"
    BY <1>1 DEF Inv, JournalInv, ProcTypes
<1>3. CASE LoadError(h) # None
  <2>1. env' = [env EXCEPT ![h] = None] /\ code' = [code EXCEPT ![h] = LoadError(h)]
    BY <1>3 DEF Load, Raise
  <2>2. env'[h] = None /\ code'[h] = LoadError(h)
    BY <2>1 DEF Inv, HostTypes
  <2>3. LoadError(h) \notin Alarms
    BY <1>3 DEF LoadError, Alarms
  <2>4. HostTypes' /\ Turn(h)
    BY <1>1, <2>1 DEF Inv, HostTypes, JournalInv, ProcTypes, Turn
  <2> QED BY <1>1, <1>2, <2>2, <2>3, <2>4, IdleLands
<1>4. CASE LoadError(h) = None
  <2>1. env' = [env EXCEPT ![h] = disk] /\ code' = code
    BY <1>4 DEF Load
  <2>2. env'[h] = disk /\ code'[h] = code[h] /\ Live
    BY <1>4, <2>1, LoadedLive DEF Inv, HostTypes
  <2>3. HostTypes' /\ Turn(h)
    BY <1>1, <2>1 DEF Inv, HostTypes, JournalInv, ProcTypes, Turn, StoreTypes
  <2> QED BY <1>1, <1>2, <2>2, <2>3, IdleLands
<1> QED BY <1>3, <1>4

(* ... write_evidence, ...                                                 *)
LEMMA WriteEvidenceHolds ==
    ASSUME Inv, NEW h \in Hosts, NEW v, WriteEvidence(h, v), UNCHANGED partialVars, JournalInv'
    PROVE  Inv'
<1>1. /\ pc[h] = "idle" /\ disk' = disk /\ durable' = durable /\ boot' = boot /\ taskDir' = taskDir /\ env' = env
      /\ op' = op /\ cont' = cont
    BY DEF WriteEvidence, At, partialVars
<1>2. PICK place \in {"idle", "evidence"} : pc' = [pc EXCEPT ![h] = place]
  <2>1. pc = [pc EXCEPT ![h] = "idle"]
    BY <1>1 DEF Inv, JournalInv, ProcTypes
  <2> QED BY <2>1 DEF WriteEvidence, Raise, Goto
<1>3. PICK e : e \notin Alarms /\ (code' = code \/ code' = [code EXCEPT ![h] = e])
  <2>1. /\ "evidence_conflict" \notin Alarms /\ "evidence_durability_unknown" \notin Alarms
        /\ "evidence_collection_exceeded" \notin Alarms /\ None \notin Alarms
    BY CodesAssumption, AbsentAssumption DEF Alarms
  <2> QED BY <2>1 DEF WriteEvidence, Raise
<1>4. pc'[h] = place /\ (code'[h] \notin Alarms \/ code'[h] = code[h]) /\ HostTypes' /\ Turn(h)
    BY <1>1, <1>2, <1>3 DEF Inv, HostTypes, JournalInv, ProcTypes, Turn
<1>5. env'[h] # None => env'[h] = disk /\ Live
    BY <1>1, WorkingHolds DEF Holds, Working
<1> QED BY <1>1, <1>2, <1>4, <1>5, IdleLands

(* ... its rename, ...                                                     *)
LEMMA PlaceEvidenceHolds ==
    ASSUME Inv, NEW h \in Hosts, PlaceEvidence(h), UNCHANGED partialVars, JournalInv'
    PROVE  Inv'
<1>1. /\ pc[h] = "evidence" /\ disk' = disk /\ durable' = durable /\ boot' = boot /\ taskDir' = taskDir /\ env' = env
      /\ op' = op /\ cont' = cont /\ pc' = [pc EXCEPT ![h] = "idle"]
    BY DEF PlaceEvidence, At, Raise, Goto, partialVars
<1>3. PICK e : e \notin Alarms /\ (code' = code \/ code' = [code EXCEPT ![h] = e])
  <2>1. "evidence_durability_unknown" \notin Alarms /\ "evidence_write_failed" \notin Alarms
    BY DEF Alarms
  <2> QED BY <2>1 DEF PlaceEvidence, Raise
<1>4. pc'[h] = "idle" /\ (code'[h] \notin Alarms \/ code'[h] = code[h]) /\ HostTypes' /\ Turn(h)
    BY <1>1, <1>3 DEF Inv, HostTypes, JournalInv, ProcTypes, Turn
<1>5. env'[h] # None => env'[h] = disk /\ Live
    BY <1>1, WorkingHolds DEF Holds, Working
<1> QED BY <1>1, <1>4, <1>5, IdleLands

(* ... a save of the coordinator, ...                                      *)
LEMMA SaveFactsHolds ==
    ASSUME Inv, NEW h \in Hosts, NEW f \in Facts, SaveFacts(h, f), UNCHANGED partialVars, JournalInv'
    PROVE  Inv'
<1>1. /\ pc[h] = "idle" /\ env[h] # None /\ disk' = disk /\ durable' = durable /\ boot' = boot /\ taskDir' = taskDir
      /\ env' = env /\ op' = op /\ cont' = cont /\ tampered' = tampered
      /\ part' = part /\ ledger' = ledger /\ verified' = verified /\ acked' = acked /\ taken' = taken
    BY DEF SaveFacts, At, partialVars, stores, files
<1>2. PICK data : data = [env[h].data EXCEPT !.facts = f]
    OBVIOUS
<1>3. data \in Datas /\ data.rp = rp(h) /\ Save(h, data, "idle")
    BY <1>1, <1>2, HostFacts, FactsAssumption DEF Datas, rp, SaveFacts
<1>4. StoreTypes' /\ StoreInv'
    BY <1>1, StoreSame
<1>5. Live
    BY <1>1, WorkingHolds DEF Holds, Working
<1>6. (want'[h] = data /\ then'[h] = "idle") => Pending(h)'
    BY <1>1, <1>3, <1>5 DEF Pending, rp, Live
<1>7. "idle" \in Places /\ pc[h] \in Working
    BY <1>1 DEF Places, Working
<1> QED BY <1>1, <1>3, <1>4, <1>6, <1>7, SaveLands

(* ... and create.                                                         *)
LEMMA CreateHolds ==
    ASSUME Inv, NEW h \in Hosts, Create(h), UNCHANGED partialVars, JournalInv'
    PROVE  Inv'
<1>1. /\ pc[h] = "idle" /\ env[h] = None /\ disk' = disk /\ durable' = durable /\ boot' = boot
      /\ env' = env /\ op' = op /\ cont' = cont /\ tampered' = tampered
      /\ part' = part /\ ledger' = ledger /\ verified' = verified /\ acked' = acked /\ taken' = taken
    BY DEF Create, At, partialVars, files
<1>2. CASE resume[h] \/ taskDir
  <2>1. pc' = [pc EXCEPT ![h] = "idle"] /\ code' = [code EXCEPT ![h] = "resume_required"] /\ taskDir' = taskDir
    BY <1>2 DEF Create, Raise, Goto
  <2>2. pc'[h] = "idle" /\ code'[h] = "resume_required" /\ HostTypes' /\ Turn(h)
    BY <1>1, <2>1 DEF Inv, HostTypes, JournalInv, ProcTypes, Turn
  <2>3. "resume_required" \notin Alarms
    BY DEF Alarms
  <2> QED BY <1>1, <2>1, <2>2, <2>3, IdleLands
<1>3. CASE ~(resume[h] \/ taskDir)
  <2>1. /\ taskDir' = TRUE /\ pc' = [pc EXCEPT ![h] = "rename"] /\ then' = [then EXCEPT ![h] = "idle"]
        /\ want' = [want EXCEPT ![h] = [facts |-> FirstFacts, rp |-> None]] /\ code' = code
    BY <1>3 DEF Create, Goto
  <2>2. /\ pc'[h] = "rename" /\ then'[h] = "idle" /\ want'[h] = [facts |-> FirstFacts, rp |-> None]
        /\ HostTypes' /\ Turn(h)
    BY <1>1, <2>1 DEF Inv, HostTypes, JournalInv, ProcTypes, Turn
  <2>3. disk = None /\ taken = <<>>
    BY <1>3 DEF Inv, JournalInv, DirectoryFirst, StoreInv, TakenCounts
  <2>4. StoreTypes'
    BY <1>1 DEF Inv, StoreTypes
  <2>5. StoreInv'
    <3>1. DurableBehind' /\ BootBehind' /\ AckedIsDurable'
        BY <1>1 DEF Inv, StoreInv, DurableBehind, BootBehind, AckedIsDurable
    <3>2. PartHeld' /\ LedgerHeld'
        BY <1>1, <2>3 DEF PartHeld, LedgerHeld, Live
    <3>3. TakenCounts'
        BY <1>1, <2>1, <2>3 DEF Inv, StoreInv, TakenCounts, Live
    <3> QED BY <3>1, <3>2, <3>3 DEF StoreInv
  <2>6. [facts |-> FirstFacts, rp |-> None] \in Datas
    BY FactsAssumption DEF Datas
  <2>7. Able(h, "rename")'
    BY <1>1, <2>2, <2>3, <2>6 DEF Able, Pending, Reception
  <2>8. Able(h, pc[h])'
    BY <2>2, <2>7 DEF Able
  <2>9. Trusts(cont[h])'
    BY <1>1, HostFacts DEF Trusts
  <2>10. code'[h] = code[h] /\ (tampered' \/ code[h] \notin Alarms) /\ pc[h] # "out"
    BY <1>1, <2>1 DEF Inv, NoAlarm, Alarms
  <2> QED BY <1>1, <2>2, <2>4, <2>5, <2>8, <2>9, <2>10, Landed
<1> QED BY <1>2, <1>3

-----------------------------------------------------------------------------
(* A process starts only where none is at work, or is refused.             *)
LEMMA StartHolds ==
    ASSUME Inv, NEW h \in Hosts, NEW r \in BOOLEAN, Start(h, r), UNCHANGED partialVars, JournalInv'
    PROVE  Inv'
<1>1. /\ pc[h] = "out" /\ disk' = disk /\ durable' = durable /\ boot' = boot /\ taskDir' = taskDir
      /\ env' = env /\ code' = code /\ op' = op /\ cont' = cont /\ tampered' = tampered
      /\ part' = part /\ ledger' = ledger /\ verified' = verified /\ acked' = acked /\ taken' = taken
      /\ (pc' = [pc EXCEPT ![h] = "idle"] \/ (pc' = pc /\ then' = then /\ want' = want))
    BY DEF Start, At, Goto, partialVars, files, stores
<1>2. StoreTypes' /\ StoreInv'
    BY <1>1, StoreSame
<1>3. HostTypes' /\ NoAlarm'
    BY <1>1 DEF Inv, HostTypes, NoAlarm
<1>4. ASSUME NEW g \in Hosts PROVE Trusts(cont[g])'
    BY <1>1, HostFacts DEF Trusts
<1>5. CASE lock = None
  <2>1. \A g \in Hosts : pc[g] = "out" /\ env[g] = None
    <3> TAKE g \in Hosts
    <3>1. pc[g] = "out"
        BY <1>5, NoneAssumption DEF Inv, JournalInv, LockHeld
    <3> QED BY <3>1, HostFacts DEF Able
  <2>2. pc' = [pc EXCEPT ![h] = "idle"]
    BY <1>5 DEF Start, Goto
  <2>3. ASSUME NEW g \in Hosts PROVE Able(g, pc[g])'
    <3>1. pc'[g] \in {"out", "idle"} /\ env'[g] = None /\ cont'[g] = None
        BY <1>1, <2>1, <2>2, HostFacts DEF Able, Inv, JournalInv, ProcTypes
    <3> QED BY <3>1 DEF Able, Reception
  <2> QED BY <1>2, <1>3, <1>4, <2>3 DEF Inv, HostInv
<1>6. CASE lock # None
  <2>1. pc' = pc /\ then' = then /\ want' = want
    BY <1>6 DEF Start
  <2>2. ASSUME NEW g \in Hosts PROVE Able(g, pc[g])'
    <3>1. Able(g, pc[g])
        BY HostFacts
    <3> QED BY ZenonT(60), <1>1, <2>1, <3>1 DEF Able, Reception, Offered, Adds, Ready, rp, Cut, IsReady, Live, Tailed, IsByte,
                Pending, Verdicts, Envelope
  <2> QED BY <1>2, <1>3, <1>4, <2>2 DEF Inv, HostInv
<1> QED BY <1>5, <1>6

(* A process that is gone rests on nothing.                                *)
LEMMA LeaveHolds ==
    ASSUME Inv, NEW h \in Hosts, LeaveForgets(h), JournalInv'
    PROVE  Inv'
<1>1. /\ pc[h] # "out" /\ disk' = disk /\ durable' = durable /\ boot' = boot /\ taskDir' = taskDir
      /\ tampered' = tampered /\ part' = part /\ ledger' = ledger /\ verified' = verified /\ acked' = acked
      /\ taken' = taken /\ pc' = [pc EXCEPT ![h] = "out"]
      /\ op' = [op EXCEPT ![h] = None] /\ cont' = [cont EXCEPT ![h] = None]
      /\ env' = [g \in Hosts |-> IF g \in {h} THEN None ELSE env[g]]
      /\ code' = [g \in Hosts |-> IF g \in {h} THEN None ELSE code[g]]
    BY DEF LeaveForgets, Leave, At, Goto, Forget, files
<1>2. StoreTypes' /\ StoreInv'
    BY <1>1, StoreSame
<1>3. /\ pc'[h] = "out" /\ env'[h] = None /\ cont'[h] = None /\ code'[h] = None
      /\ HostTypes' /\ Turn(h)
    BY <1>1 DEF Inv, HostTypes, JournalInv, ProcTypes, Turn
<1>4. Able(h, pc[h])' /\ Trusts(cont[h])'
    BY <1>3 DEF Able, Trusts, Reception
<1>5. None \notin Alarms
    BY CodesAssumption, AbsentAssumption DEF Alarms
<1> QED BY <1>1, <1>2, <1>3, <1>4, <1>5, Landed

(* A power loss leaves an earlier registration of the same files.          *)
LEMMA PowerLossHolds ==
    ASSUME Inv, PowerLossForgets, JournalInv'
    PROVE  Inv'
<1>1. /\ boot = 0 /\ boot' = 1 /\ disk' \in {disk, durable} /\ durable' = disk' /\ taskDir' = taskDir
      /\ pc' = [h \in Hosts |-> "out"] /\ op' = [h \in Hosts |-> None] /\ cont' = [h \in Hosts |-> None]
      /\ env' = [g \in Hosts |-> IF g \in Hosts THEN None ELSE env[g]]
      /\ code' = [g \in Hosts |-> IF g \in Hosts THEN None ELSE code[g]]
      /\ tampered' = tampered /\ part' = part /\ ledger' = ledger /\ verified' = verified /\ acked' = acked
      /\ taken' = taken
    BY DEF PowerLossForgets, PowerLoss, Forget, files
<1>2. StoreTypes' /\ HostTypes'
    BY <1>1 DEF Inv, StoreTypes, HostTypes
<1>3. ~Live'
    BY <1>1 DEF Inv, StoreInv, BootBehind, Live
<1>4. disk' # None => /\ disk # None /\ disk' \in Envelopes
                      /\ Grown(disk'.data.rp, disk.data.rp) /\ disk'.data.rp \in Receives \cup {None}
  <2> SUFFICES ASSUME disk' # None
               PROVE  /\ disk # None /\ disk' \in Envelopes
                      /\ Grown(disk'.data.rp, disk.data.rp) /\ disk'.data.rp \in Receives \cup {None}
    OBVIOUS
  <2>1. CASE disk' = disk
    BY <2>1, StateFacts, GrownSelf
  <2>2. CASE disk' = durable
    BY <2>2, EnvelopeFields DEF Inv, StoreInv, StoreTypes, DurableBehind
  <2> QED BY <1>1, <2>1, <2>2
<1>5. DurableBehind'
  <2> SUFFICES ASSUME durable' # None PROVE (disk # None /\ Grown(durable.data.rp, disk.data.rp))'
    BY DEF DurableBehind
  <2>1. PICK r \in Receives \cup {None} : r = disk'.data.rp
    BY <1>1, <1>4
  <2> QED BY <1>1, <2>1, GrownSelf
<1>6. BootBehind'
    BY <1>1 DEF BootBehind
<1>7. PartHeld'
  <2> SUFFICES ASSUME disk' # None, IsReady(disk'.data.rp)
               PROVE  /\ part # None /\ disk'.data.rp.verified <= Len(part) /\ disk'.data.rp.verified <= Len(taken)
                      /\ \A k \in 1..disk'.data.rp.verified : IsByte(part[k], taken[k])
    BY <1>1 DEF PartHeld, IsByte
  <2>1. PICK r \in Receives : r = disk'.data.rp
    BY <1>4 DEF IsReady
  <2>2. PICK s \in Receives : s = disk.data.rp
    BY <1>4, <2>1, StateFacts, ReceiveFields DEF Grown
  <2>3. r.verified \in Nat /\ s.verified \in Nat /\ r.verified <= s.verified /\ IsReady(s)
    BY <1>4, <2>1, <2>2, ReceiveFields DEF Grown, IsReady
  <2>4. /\ part # None /\ s.verified <= Len(part) /\ s.verified <= Len(taken)
        /\ \A k \in 1..s.verified : IsByte(part[k], taken[k])
    BY <1>4, <2>2, <2>3 DEF Inv, StoreInv, PartHeld
  <2>5. Len(part) \in Nat /\ Len(taken) \in Nat
    BY <2>4, LenProperties DEF Inv, StoreTypes
  <2> QED BY <2>1, <2>3, <2>4, <2>5
<1>8. LedgerHeld' /\ TakenCounts'
    BY <1>1, <1>3 DEF LedgerHeld, TakenCounts, Inv, StoreInv
<1>9. AckedIsDurable'
  <2> SUFFICES ASSUME acked > 0 PROVE disk' # None /\ disk'.data.rp # None /\ disk'.data.rp.verified >= acked
    BY <1>1 DEF AckedIsDurable
  <2>1. durable # None /\ durable.data.rp # None /\ durable.data.rp.verified >= acked /\ durable.data.rp \in Receives
    BY EnvelopeFields DEF Inv, StoreInv, StoreTypes, AckedIsDurable
  <2>2. /\ disk # None /\ disk.data.rp # None /\ durable.data.rp.verified <= disk.data.rp.verified
        /\ disk.data.rp \in Receives
    BY <2>1, StateFacts DEF Inv, StoreInv, DurableBehind, Grown
  <2>3. disk.data.rp.verified >= acked
    BY <2>1, <2>2, ReceiveFields DEF Inv, StoreTypes
  <2> QED BY <1>1, <2>1, <2>2, <2>3
<1>10. HostInv'
  <2> SUFFICES ASSUME NEW h \in Hosts PROVE Able(h, pc[h])' /\ Trusts(cont[h])'
    BY DEF HostInv
  <2>1. pc'[h] = "out" /\ env'[h] = None /\ cont'[h] = None
    BY <1>1
  <2> QED BY <2>1 DEF Able, Trusts, Reception
<1>11. NoAlarm'
    BY <1>1, CodesAssumption, AbsentAssumption DEF NoAlarm
<1> QED BY <1>2, <1>5, <1>6, <1>7, <1>8, <1>9, <1>10, <1>11 DEF Inv, StoreInv

(* A byte changed by somebody else is a byte that was changed.             *)
LEMMA TamperHolds ==
    ASSUME Inv, NEW k, Tamper(k), JournalInv'
    PROVE  Inv'
<1>1. /\ part # None /\ k \in DOMAIN part /\ part' = [part EXCEPT ![k] = Noise] /\ tampered' = TRUE
      /\ disk' = disk /\ durable' = durable /\ boot' = boot /\ taskDir' = taskDir
      /\ pc' = pc /\ then' = then /\ want' = want /\ env' = env /\ code' = code /\ op' = op /\ cont' = cont
      /\ ledger' = ledger /\ verified' = verified /\ acked' = acked /\ taken' = taken
    BY DEF Tamper, stores, procs
<1>2. /\ part \in Seq(Bytes) /\ Noise \in Bytes /\ Len(part) \in Nat /\ k \in 1..Len(part)
    BY <1>1, LenProperties DEF Inv, StoreTypes, Bytes
<1>3. /\ part' \in Seq(Bytes) /\ Len(part') = Len(part) /\ part' # None
      /\ \A j \in 1..Len(part) : part'[j] = part[j] \/ part'[j] = Noise
  <2>1. part' \in Seq(Bytes) /\ Len(part') = Len(part) /\ \A j \in 1..Len(part) : part'[j] = IF j = k THEN Noise ELSE part[j]
    BY <1>1, <1>2, ExceptSeq
  <2> QED BY <2>1, AbsentAssumption
<1>4. \A v, b : v \in 1..Len(part) /\ IsByte(part[v], b) => IsByte(part[v], b)'
    BY <1>1, <1>3 DEF IsByte
<1>5. StoreTypes' /\ StoreInv'
  <2>1. ASSUME disk # None, IsReady(disk.data.rp)
        PROVE  disk.data.rp.verified <= Len(part') /\ \A j \in 1..disk.data.rp.verified : IsByte(part[j], taken[j])'
    <3>1. /\ disk.data.rp.verified <= Len(part) /\ disk.data.rp.verified \in Nat
          /\ \A j \in 1..disk.data.rp.verified : IsByte(part[j], taken[j])
        BY <2>1, StateFacts, ReceiveFields DEF Inv, StoreInv, PartHeld, IsReady
    <3> QED BY <1>1, <1>2, <1>3, <3>1 DEF IsByte
  <2> QED BY <1>1, <1>3, <2>1, PartChanges
<1>6. HostTypes' /\ NoAlarm'
    BY <1>1 DEF Inv, HostTypes, NoAlarm
<1>7. HostInv'
  <2> SUFFICES ASSUME NEW h \in Hosts PROVE Able(h, pc[h])' /\ Trusts(cont[h])'
    BY DEF HostInv
  <2>1. Trusts(cont[h])'
    BY <1>1, HostFacts DEF Trusts
  <2>2. \A r : Cut(r)' = Cut(r)
    BY <1>1, <1>3 DEF Cut, IsReady
  <2>3. Able(h, pc[h])
    BY HostFacts
  <2>4. ASSUME Adds(h), Tailed(h, rp(h).verified) PROVE Tailed(h, rp(h).verified)'
    <3>1. PICK v : v = rp(h).verified
        OBVIOUS
    <3>2. v \in Nat /\ op[h].bytes \in Seq(Bytes) /\ Len(op[h].bytes) \in Nat
        BY <2>4, <3>1, HostFacts, ReceiveFields, OperationFields, LenProperties DEF Adds, Ready, Offered
    <3>3. Len(part) = v + Len(op[h].bytes) /\ \A i \in 1..Len(op[h].bytes) : IsByte(part[v + i], op[h].bytes[i])
        BY <2>4, <3>1 DEF Tailed
    <3>5. \A i \in 1..Len(op[h].bytes) : IsByte(part[v + i], op[h].bytes[i])'
        <4> SUFFICES ASSUME NEW i \in 1..Len(op[h].bytes)
                     PROVE  part'[v + i] = op[h].bytes[i] \/ part'[v + i] = Noise
            BY <1>1, <3>2 DEF IsByte
        <4>1. v + i \in 1..Len(part)
            BY <3>2, <3>3
        <4>2. part[v + i] = op[h].bytes[i] \/ part[v + i] = Noise
            BY <3>3 DEF IsByte
        <4> QED BY <1>3, <4>1, <4>2
    <3>6. Tailed(h, v)'
        BY <1>1, <1>3, <3>3, <3>5 DEF Tailed
    <3>4. rp(h)' = rp(h)
        BY <1>1 DEF rp
    <3> QED BY <3>1, <3>4, <3>6
  <2>5. Adds(h)' = Adds(h) /\ Offered(h)' = Offered(h) /\ Ready(h)' = Ready(h) /\ rp(h)' = rp(h) /\ Live' = Live
        /\ Verdicts(h)' = Verdicts(h) /\ Envelope(h)' = Envelope(h)
    BY <1>1 DEF Adds, Offered, Ready, rp, Live, Verdicts, Envelope
  <2>6. Pending(h) => Pending(h)'
    BY <1>1, <1>3, <2>2, <2>4, <2>5 DEF Pending
  <2>7. Able(h, pc[h])'
    BY <1>1, <2>2, <2>3, <2>4, <2>5, <2>6 DEF Able, Reception
  <2> QED BY <2>1, <2>7
<1> QED BY <1>5, <1>6, <1>7 DEF Inv

(* A step of something else changes nothing.                               *)
LEMMA StillHolds ==
    ASSUME Inv, UNCHANGED vars, JournalInv'
    PROVE  Inv'
<1>1. /\ disk' = disk /\ durable' = durable /\ boot' = boot /\ taskDir' = taskDir
      /\ pc' = pc /\ then' = then /\ want' = want /\ env' = env /\ code' = code /\ op' = op /\ cont' = cont
      /\ part' = part /\ ledger' = ledger /\ verified' = verified /\ acked' = acked /\ taken' = taken
      /\ tampered' = tampered
    BY DEF vars, journalVars, partialVars, stores, procs, files
<1>2. StoreTypes' /\ StoreInv' 
    BY <1>1, StoreSame
<1>3. HostTypes' /\ NoAlarm'
    BY <1>1 DEF Inv, HostTypes, NoAlarm
<1>4. ASSUME NEW g \in Hosts PROVE Able(g, pc[g])' /\ Trusts(cont[g])'
  <2>1. Able(g, pc[g]) /\ Trusts(cont[g])
    BY HostFacts
  <2> QED BY ZenonT(60), <1>1, <2>1 DEF Trusts, Able, Reception, Offered, Adds, Ready, rp, Cut, IsReady, Live, Tailed, IsByte,
              Pending, Verdicts, Envelope
<1> QED BY <1>2, <1>3, <1>4 DEF Inv, HostInv

-----------------------------------------------------------------------------
(* Every step keeps the invariant.                                         *)
LEMMA NextHolds ==
    ASSUME Inv, [Next]_vars
    PROVE  Inv'
<1>0. JournalInv'
    BY StepKeeps DEF Inv
<1>1. CASE PowerLossForgets
    BY <1>0, <1>1, PowerLossHolds
<1>2. CASE \E k \in 1..Size : Tamper(k)
    BY <1>0, <1>2, TamperHolds
<1>3. ASSUME NEW h \in Hosts, JournalStep(h) PROVE Inv'
  <2>0. UNCHANGED partialVars
    BY <1>3 DEF JournalStep
  <2>1. CASE \E r \in BOOLEAN : Start(h, r)
    BY <1>0, <2>0, <2>1, StartHolds
  <2>2. CASE Load(h)
    BY <1>0, <2>0, <2>2, LoadHolds
  <2>3. CASE Create(h)
    BY <1>0, <2>0, <2>3, CreateHolds
  <2>4. CASE Sync(h)
    BY <1>0, <2>0, <2>4, SyncHolds
  <2>5. CASE PlaceEvidence(h)
    BY <1>0, <2>0, <2>5, PlaceEvidenceHolds
  <2>6. CASE \E seen \in BOOLEAN : CommitFails(h, seen)
    BY <1>0, <2>0, <2>6, CommitFailsHolds
  <2>7. CASE \E f \in Facts : SaveFacts(h, f)
    BY <1>0, <2>0, <2>7, SaveFactsHolds
  <2>8. CASE \E v \in {"v1", "v2"} : WriteEvidence(h, v)
    BY <1>0, <2>0, <2>8, WriteEvidenceHolds
  <2> QED BY <1>3, <2>1, <2>2, <2>3, <2>4, <2>5, <2>6, <2>7, <2>8 DEF JournalStep
<1>4. ASSUME NEW h \in Hosts, RenameTakes(h) \/ LeaveForgets(h) PROVE Inv'
    BY <1>0, <1>4, RenameHolds, LeaveHolds
<1>5. ASSUME NEW h \in Hosts,
             \/ CallInitialize(h) \/ CallResume(h) \/ CallVerify(h)
             \/ \E offset \in 0..(Size - 1) : \E bytes \in Chunks(offset) : CallAppend(h, offset, bytes)
      PROVE  Inv'
    BY <1>0, <1>5, CallsLand
<1>6. ASSUME NEW h \in Hosts, InitializeDirectory(h) \/ InitializePart(h) \/ InitializeLedger(h) \/ Initialized(h)
      PROVE  Inv'
    BY <1>0, <1>6, InitializeDirectoryHolds, InitializePartHolds, InitializeLedgerHolds, InitializedHolds
<1>7. ASSUME NEW h \in Hosts, ResumeCheck(h) \/ TruncatePart(h) \/ TruncateLedger(h) \/ Resumed(h)
      PROVE  Inv'
    BY <1>0, <1>7, ResumeCheckHolds, TruncatePartHolds, TruncateLedgerHolds, ResumedHolds
<1>8. ASSUME NEW h \in Hosts, AppendCheck(h) \/ WriteLine(h) \/ Appended(h) \/ Replay(h) \/ Hash(h)
      PROVE  Inv'
    BY <1>0, <1>8, AppendCheckHolds, WriteLineHolds, AppendedHolds, ReplayHolds, HashHolds
<1>9. ASSUME NEW h \in Hosts, NEW n \in 0..MaxChunk, WriteBytes(h, n) PROVE Inv'
    BY <1>0, <1>9, WriteBytesHolds
<1>10. CASE UNCHANGED vars
    BY <1>0, <1>10, StillHolds
<1> QED BY <1>1, <1>2, <1>3, <1>4, <1>5, <1>6, <1>7, <1>8, <1>9, <1>10 DEF Next

(* The initial state has it.                                               *)
LEMMA InitHolds == Init => Inv
<1> SUFFICES ASSUME Init PROVE Inv
    OBVIOUS
<1>1. JournalInv
    BY InitKeeps
<1>2. /\ disk = None /\ durable = None /\ boot = 0 /\ taskDir = FALSE /\ part = None /\ ledger = None
      /\ pc = [h \in Hosts |-> "out"] /\ env = [h \in Hosts |-> None] /\ code = [h \in Hosts |-> None]
      /\ op = [h \in Hosts |-> None] /\ cont = [h \in Hosts |-> None]
      /\ verified = FALSE /\ taken = <<>> /\ acked = 0 /\ tampered = FALSE
    BY DEF Init, JournalInit
<1>3. StoreTypes /\ HostTypes
    BY <1>2, EmptySeq DEF StoreTypes, HostTypes
<1>4. StoreInv
    BY <1>2 DEF StoreInv, DurableBehind, BootBehind, PartHeld, LedgerHeld, TakenCounts, AckedIsDurable, Live
<1>5. HostInv
    BY <1>2 DEF HostInv, Able, Trusts, Reception
<1>6. NoAlarm
    BY <1>2, CodesAssumption, AbsentAssumption DEF NoAlarm
<1> QED BY <1>1, <1>3, <1>4, <1>5, <1>6 DEF Inv

(* What the invariant says of received.part.                               *)
LEMMA HeldIsTaken == Inv => TakenIsHeld
<1> SUFFICES ASSUME Inv, disk # None, IsReady(disk.data.rp)
             PROVE  /\ disk.data.rp.verified <= Len(taken) /\ (boot = 0 => disk.data.rp.verified = Len(taken))
                    /\ ~tampered => SubSeq(part, 1, disk.data.rp.verified) = SubSeq(taken, 1, disk.data.rp.verified)
                    /\ verified => taken = Package
    BY DEF TakenIsHeld, Registered, IsReady
<1>1. PICK v : v = disk.data.rp.verified
    OBVIOUS
<1>2. /\ v \in Nat /\ part \in Seq(Bytes) /\ taken \in Seq(Bytes) /\ v <= Len(part) /\ v <= Len(taken)
      /\ \A k \in 1..v : IsByte(part[k], taken[k])
    BY <1>1, StateFacts, ReceiveFields DEF Inv, StoreInv, StoreTypes, PartHeld, IsReady
<1>3. boot = 0 => v = Len(taken)
    BY <1>1 DEF Inv, StoreInv, BootBehind, TakenCounts, Live
<1>4. ASSUME ~tampered PROVE SubSeq(part, 1, v) = SubSeq(taken, 1, v)
  <2>1. PICK a : a = SubSeq(part, 1, v)
    OBVIOUS
  <2>2. PICK b : b = SubSeq(taken, 1, v)
    OBVIOUS
  <2>3. a \in Seq(Bytes) /\ Len(a) = v /\ \A i \in 1..v : a[i] = part[i]
    BY <1>2, <2>1, CutSeq
  <2>4. b \in Seq(Bytes) /\ Len(b) = v /\ \A i \in 1..v : b[i] = taken[i]
    BY <1>2, <2>2, CutSeq
  <2>5. \A i \in 1..v : a[i] = b[i]
    BY <1>2, <1>4, <2>3, <2>4 DEF IsByte
  <2>6. a = b
    BY <2>3, <2>4, <2>5, SeqEqual
  <2> QED BY <2>1, <2>2, <2>6
<1>5. verified => taken = Package
    BY DEF Inv, StoreInv, TakenCounts
<1> QED BY <1>1, <1>2, <1>3, <1>4, <1>5

(* The reception's inductive invariant.                                    *)
THEOREM ReceptionInvariance == Spec => []Inv
<1>1. Inv /\ [Next]_vars => Inv'
    BY NextHolds
<1> QED BY <1>1, InitHolds, PTL DEF Spec

(* What a caller was told it need not send again survives a power loss,    *)
(* and the registered prefix of received.part is the accepted chunks.      *)
THEOREM ReceptionHeld == Spec => []AckedIsHeld
<1>1. Inv => AckedIsHeld
    BY HeldIsTaken DEF AckedIsHeld, Inv, StoreInv
<1> QED BY <1>1, ReceptionInvariance, PTL

(* Nothing but somebody else's change makes the files look corrupt, and a  *)
(* failed save tells its caller what happened.                             *)
THEOREM AlarmsAreTrue == Spec => []NoFalseAlarm
<1>1. Inv => NoFalseAlarm
  <2> SUFFICES ASSUME Inv PROVE NoFalseAlarm
    OBVIOUS
  <2>1. ASSUME NEW h \in Hosts, pc[h] = "failed" PROVE Verdicts(h)
    BY <2>1, HostFacts DEF Able
  <2> QED BY <2>1 DEF NoFalseAlarm, VerdictIsTrue, At, Verdicts, Inv, NoAlarm
<1> QED BY <1>1, ReceptionInvariance, PTL
=============================================================================
