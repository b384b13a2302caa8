----------------------- MODULE LinuxCollectionProofs ------------------------
(***************************************************************************)
(* Safety of the Linux collections for every number of calls, generations  *)
(* and faults: what a scope call, an export, a boot service bundle and a   *)
(* resume report is true, no open of the manager is left waiting, and an   *)
(* accepted evidence chain is what the manager did.                        *)
(***************************************************************************)
EXTENDS LinuxCollection, FiniteSetTheorems, TLAPS

-----------------------------------------------------------------------------
(* The scope: types, and what worker, probe, files and call know.          *)

Statuses  == {"none", "STARTING", "APPLYING", "APPLIED", "DETACHING", "STOPPED", "EXPIRED", "FAILED",
              "UNKNOWN"}
States    == [status : Statuses, gen : Nat, ext : BOOLEAN, stopped : BOOLEAN, probe : Nat]
WorkerAts == {"none", "start", "launch", "launched", "attach", "list", "take", "loop", "detach", "detaching",
              "change", "reply", "replying", "finally", "final", "gone"}
Jobs      == Kinds \cup {"none", "apply", "deadline", "expire", "abort"}
Workers   == [at : WorkerAts, job : Jobs, op : 0..NoOp, todo : SUBSET Calls, fault : BOOLEAN]
Probes    == [gen : Nat, at : {"none", "booting", "ready", "ending", "dead"}, ended : BOOLEAN]
Asked     == [at : {"idle", "await", "submit", "exit", "snapshot"}, op : Calls,
              kind : Kinds \cup {"none", "apply"}, got : States]

ScopeTypes ==
    /\ file \in States /\ mem \in States /\ exported \in States
    /\ worker \in Workers /\ probe \in Probes /\ call \in Asked
    /\ request \in [Calls -> [kind : Kinds \cup {"none"}, is : {"no", "empty", "there"}]]
    /\ response \in [Calls -> {"no", "empty", "ok", "failed"}]
    /\ clock \in [late : BOOLEAN, expired : BOOLEAN]

(* Where the worker is once it has nothing to launch any more.             *)
After == {"reply", "replying", "finally", "final", "gone"}

Unstarted == worker.at \in {"none", "start"} => mem = NoFile /\ file = NoFile
(* The worker's state names the newest probe.                              *)
Generation == /\ mem.gen = probe.gen /\ mem.probe = probe.gen
              /\ worker.at \in {"launched", "attach"} => mem.gen >= 1
(* The probe that was detached is over before anything else is done.       *)
Detachment == /\ worker.at \in {"detaching", "change"} =>
                 mem.status = "DETACHING" /\ file.status = "DETACHING"
              /\ worker.at = "change" => ~Running /\ (~worker.fault => probe.ended)
MemStopped == /\ mem.stopped => mem.status \in Terminal /\ worker.at \in After
              /\ mem.status = "FAILED" => worker.at \in {"reply", "replying", "gone"} /\ worker.fault
AppliedTo(s) == s.status = "APPLIED" =>
              /\ s.gen = probe.gen /\ s.probe = probe.gen /\ probe.gen >= 1 /\ probe.at # "booting"
              /\ worker.at \notin {"launch", "launched", "attach"}
StoppedWhole(s) == s.status = "STOPPED" =>
              /\ s.gen = probe.gen /\ s.probe = probe.gen /\ ~Running /\ probe.ended /\ worker.at \in After
GotIsTrue == /\ call.got.status = "STOPPED" /\ call.got.stopped =>
                 ~Running /\ worker.at = "gone" /\ probe.ended
             /\ call.got.status = "APPLIED" => mem.gen >= 1
Whole ==      /\ AppliedTo(mem) /\ AppliedTo(file) /\ StoppedWhole(mem) /\ StoppedWhole(file)
              /\ file.stopped => file.status \in Terminal
              /\ file.status = "STOPPED" => mem.status = "STOPPED"
ExportedIsOver == exported # NoFile =>
              file = exported /\ worker.at = "gone" /\ file.status \in Terminal /\ ~ProbeAlive(file)

ScopeInv ==
    /\ ScopeTypes /\ Unstarted /\ Generation /\ Detachment /\ MemStopped
    /\ Whole /\ GotIsTrue /\ ExportedIsOver

-----------------------------------------------------------------------------
(* The boot service: what its two readings know of the unit.               *)

Files  == [v : Nat, i : Nat]
Worlds == [boot : {0, 1}, pid : Nat, imgs : Seq(Files), up : BOOLEAN, frag : Files, payload : Files,
           loaded : Nat, enabled : BOOLEAN, manager : Nat]
Sights == [inst : Nat, pid : Nat, birth : Nat, bind : Nat, frag : Files, payload : Files, manager : Nat]
CollectAts == {"start", "show", "fragment", "payload", "process", "show2", "process2", "recheck", "seal",
               "sealed", "refused"}
ResumeAts  == {"start", "show", "fragment", "payload", "link", "process", "journal", "apply", "receipt",
               "again", "files", "seal", "sealed", "refused"}
BootTypes ==
    /\ world \in Worlds /\ Inst >= 1
    /\ bundle \in [at : CollectAts, intact : BOOLEAN, seen : Sights]
    /\ resumed \in [at : ResumeAts, intact : BOOLEAN, seen : Sights]
    /\ finished \in {"new", "stop", "export", "copy", "sealed", "refused"}

(* What the bundle has seen at each of its places.                         *)
BundleKnows(at, s) ==
    /\ at \in {"fragment", "payload", "process"} => 1 <= s.inst /\ s.inst <= Inst
    /\ at \in {"show2", "process2", "recheck", "seal", "sealed"} =>
          1 <= s.inst /\ s.inst <= s.birth /\ s.birth <= Inst /\ world.imgs[s.birth].v = 0
    /\ at \in {"process2", "recheck", "seal", "sealed"} => s.birth = s.inst
    /\ at = "sealed" => s.bind = s.frag.i
BundleSaw == BundleKnows(bundle.at, bundle.seen)

(* The same of resume: it is about the process of a sealed bundle.         *)
ResumeKnows(at, s) ==
    /\ at \notin {"start", "refused"} => bundle.at = "sealed"
    /\ at \in {"link", "process", "journal", "apply", "receipt", "again", "files", "seal",
       "sealed"} => s.payload.v = 0
    /\ at = "process" => (Inst = bundle.seen.birth => Image.i = s.payload.i)
    /\ at \in {"journal", "apply", "receipt", "again", "files", "seal", "sealed"} =>
          s.birth = bundle.seen.birth /\ world.imgs[s.birth].i = s.payload.i
    /\ at \in {"again", "files", "seal", "sealed"} => mem.gen >= 1
ResumeSaw == ResumeKnows(resumed.at, resumed.seen)

FinishSaw == finished \in {"copy", "sealed"} => exported.status = "STOPPED" /\ exported.gen = 1

BootInv == BootTypes /\ BundleSaw /\ ResumeSaw /\ FinishSaw

-----------------------------------------------------------------------------
(* The drain thread: the files' versions, the manager's progress, and the  *)
(* events of its opens, which wait in the queue.                           *)

Versions == [ino : Nat, ver : Nat]
Events   == [is : {"close", "load", "exec"}, name : Artifacts, ino : Nat, ver : Nat]
Managers == [load : {"no", "opening", "allowed", "yes"}, def : Nat,
             fire : {"no", "opening", "allowed", "runs", "gone"},
             img : Nat, fd : Versions, after : BOOLEAN]
Drains   == [at : {"off", "on", "leased", "over"}, queue : Seq(Events), held : [Artifacts -> Versions],
             now : Artifacts \cup {"none"}, error : BOOLEAN, broken : BOOLEAN, finish : BOOLEAN]
OpensInv == /\ disk \in [Artifacts -> Versions] /\ manager \in Managers /\ drain \in Drains
            /\ OpensAreAnswered

-----------------------------------------------------------------------------
(* The inductive invariant.                                                *)

IInv == ScopeInv /\ BootInv /\ OpensInv

LEMMA Constants == NoFile \in States /\ NoOp \in 0..NoOp /\ 0 \in Calls /\ 0 \in 0..NoOp
/\ Calls \subseteq 0..NoOp
BY ScopeBounds DEF NoFile, States, Statuses, NoOp, Calls

LEMMA SnapshotTyped == ASSUME ScopeTypes PROVE Snapshot \in States
BY DEF Snapshot, ScopeTypes, States, Statuses, Terminal

(* A call returns.                                                         *)
LEMMA Returned == ASSUME ScopeTypes, NEW r \in States, Returns(r)
                  PROVE  call' \in Asked /\ call'.got = r
BY DEF Returns, ScopeTypes, Asked

(* The worker goes on inside its loop, or out of it.                       *)
LEMMA Moves ==
    ASSUME ScopeInv, ScopeTypes', worker.at \in {"attach", "loop", "list", "take", "change"},
           worker'.at \in {"take", "loop", "list", "detach", "finally"}, UNCHANGED <<file, mem, probe,
           call, exported>>
    PROVE  ScopeInv'
<1>1. ~mem.stopped /\ mem.status \notin {"FAILED", "STOPPED"} /\ file.status # "STOPPED"
    BY DEF ScopeInv, MemStopped, Whole, StoppedWhole, After
<1>2. Unstarted' /\ Generation' /\ Detachment' /\ MemStopped'
    BY <1>1 DEF ScopeInv, Unstarted, Generation, Detachment, MemStopped
<1>3. Whole'
    BY <1>1 DEF ScopeInv, Whole, AppliedTo, StoppedWhole, Running, After
<1>4. GotIsTrue' /\ ExportedIsOver'
    BY DEF ScopeInv, GotIsTrue, ExportedIsOver, Running
<1> QED BY <1>2, <1>3, <1>4 DEF ScopeInv

LEMMA WorkerStartsKeeps == ASSUME ScopeInv, WorkerStarts PROVE ScopeInv'
<1>1. worker' \in Workers
    BY ScopeBounds DEF WorkerStarts, ScopeInv, ScopeTypes, Workers, WorkerAts, Save, At
<1>2. mem' \in States
    BY DEF WorkerStarts, States, Statuses, NoFile, Save
<1>3. file' \in States
    BY DEF WorkerStarts, States, Statuses, NoFile, Save
<1>4. ScopeTypes'
    BY <1>1, <1>2, <1>3 DEF WorkerStarts, ScopeInv, ScopeTypes
<1>5. Unstarted' /\ Generation' /\ Detachment' /\ MemStopped'
    BY DEF WorkerStarts, ScopeInv, NoFile, At, Save, Unstarted, Generation, Detachment, MemStopped
<1>6. Whole'
    BY DEF WorkerStarts, NoFile, Save, Whole, AppliedTo, StoppedWhole
<1>7. GotIsTrue' /\ ExportedIsOver'
    BY DEF WorkerStarts, ScopeInv, Save, Unstarted, GotIsTrue, ExportedIsOver
<1> QED BY <1>4, <1>5, <1>6, <1>7 DEF ScopeInv

LEMMA LaunchKeeps == ASSUME ScopeInv, Launch PROVE ScopeInv'
<1>1. worker' \in Workers
    BY ScopeBounds DEF Launch, ScopeInv, ScopeTypes, Workers, WorkerAts, At
<1>2. mem' \in States
  <2>1. mem.gen + 1 \in Nat
    BY DEF ScopeInv, ScopeTypes, States
  <2> QED
    BY <2>1 DEF Launch, ScopeInv, ScopeTypes, States, Statuses
<1>3. probe' \in Probes
    BY DEF Launch, ScopeInv, ScopeTypes, States, Probes
<1>4. ScopeTypes'
    BY <1>1, <1>2, <1>3 DEF Launch, ScopeInv, ScopeTypes
<1>5. Unstarted' /\ Generation' /\ Detachment' /\ MemStopped'
    BY DEF Launch, ScopeInv, ScopeTypes, Probes, At, Unstarted, Generation, Detachment, MemStopped, After
<1>6. Whole'
    BY DEF Launch, ScopeInv, Whole, AppliedTo, StoppedWhole, After
<1>7. GotIsTrue' /\ ExportedIsOver'
    BY DEF Launch, ScopeInv, ScopeTypes, States, GotIsTrue, ExportedIsOver
<1> QED BY <1>4, <1>5, <1>6, <1>7 DEF ScopeInv

LEMMA AttachStartedKeeps == ASSUME ScopeInv, AttachStarted PROVE ScopeInv'
<1>1. worker' \in Workers
    BY ScopeBounds DEF AttachStarted, ScopeInv, ScopeTypes, Workers, WorkerAts, Save, At
<1>2. mem' \in States
    BY DEF AttachStarted, ScopeInv, ScopeTypes, Save
<1>3. file' \in States
    BY DEF AttachStarted, ScopeInv, ScopeTypes, Save
<1>4. ScopeTypes'
    BY <1>1, <1>2, <1>3 DEF AttachStarted, ScopeInv, ScopeTypes
<1>5. Unstarted' /\ Generation' /\ Detachment' /\ MemStopped'
    BY DEF AttachStarted, ScopeInv, At, Save, Unstarted, Generation, Detachment, MemStopped, After
<1>6. Whole'
    BY DEF AttachStarted, ScopeInv, Save, MemStopped, Whole, AppliedTo, StoppedWhole, After
<1>7. GotIsTrue' /\ ExportedIsOver'
    BY DEF AttachStarted, ScopeInv, Save, GotIsTrue, ExportedIsOver
<1> QED BY <1>4, <1>5, <1>6, <1>7 DEF ScopeInv

LEMMA AttachedKeeps == ASSUME ScopeInv, Attached PROVE ScopeInv'
<1>1. CASE clock.late
  <2>1. worker' \in Workers /\ worker'.at = "finally"
    BY ZenonT(60), <1>1 DEF Attached, ScopeInv, ScopeTypes, Workers, WorkerAts, Fails
  <2>2. ScopeTypes'
    BY <1>1, <2>1 DEF Attached, ScopeInv, ScopeTypes
  <2> QED BY <1>1, <2>1, <2>2, Moves DEF Attached
<1>2. CASE ~clock.late
  <2>1. worker' \in Workers /\ worker'.at \in {"list", "reply"}
    BY <1>2 DEF Attached, ScopeInv, ScopeTypes, Workers, WorkerAts, Save, At
  <2>2. /\ mem' \in States /\ file' = mem' /\ mem'.status = "APPLIED" /\ mem'.gen = mem.gen
        /\ mem'.probe = mem.probe /\ mem'.stopped = mem.stopped
    BY <1>2 DEF Attached, ScopeInv, ScopeTypes, States, Statuses, Save
  <2>3. ScopeTypes'
    BY <1>2, <2>1, <2>2 DEF Attached, ScopeInv, ScopeTypes
  <2>4. Unstarted' /\ Generation' /\ Detachment' /\ MemStopped'
    BY <2>1, <2>2 DEF Attached, ScopeInv, Unstarted, Generation, Detachment, MemStopped, After
  <2>5. Whole'
    BY <2>1, <2>2 DEF Attached, ScopeInv, Whole, AppliedTo, StoppedWhole, Generation, MemStopped, After
  <2>6. GotIsTrue' /\ ExportedIsOver'
    BY <2>1, <2>2 DEF Attached, ScopeInv, GotIsTrue, ExportedIsOver, Generation, Running
  <2> QED BY <2>3, <2>4, <2>5, <2>6 DEF ScopeInv
<1> QED BY <1>1, <1>2

LEMMA AttachFailsKeeps == ASSUME ScopeInv, AttachFails PROVE ScopeInv'
<1>1. worker' \in Workers /\ worker'.at \in {"take", "loop", "list", "detach", "finally"}
    BY ScopeBounds DEF AttachFails, ScopeInv, ScopeTypes, Workers, WorkerAts, Fails
<1>2. ScopeTypes'
    BY <1>1 DEF AttachFails, ScopeInv, ScopeTypes
<1> QED BY <1>1, <1>2, Moves DEF AttachFails

LEMMA ReplyKeeps == ASSUME ScopeInv, Reply PROVE ScopeInv'
<1>1. worker' \in Workers
    BY ScopeBounds DEF Reply, ScopeInv, ScopeTypes, Workers, WorkerAts, At
<1>2. response' \in [Calls -> {"no", "empty", "ok", "failed"}]
    BY DEF Reply, ScopeInv, ScopeTypes
<1>3. ScopeTypes'
    BY <1>1, <1>2 DEF Reply, ScopeInv, ScopeTypes
<1>4. Unstarted' /\ Generation' /\ Detachment' /\ MemStopped'
    BY DEF Reply, ScopeInv, At, Unstarted, Generation, Detachment, MemStopped, After
<1>5. Whole'
    BY DEF Reply, ScopeInv, At, Whole, AppliedTo, StoppedWhole, After, Running
<1>6. GotIsTrue' /\ ExportedIsOver'
    BY DEF Reply, ScopeInv, GotIsTrue, ExportedIsOver
<1> QED BY <1>3, <1>4, <1>5, <1>6 DEF ScopeInv

LEMMA RepliedKeeps == ASSUME ScopeInv, Replied PROVE ScopeInv'
<1> DEFINE next == IF mem.status = "APPLIED" THEN "take" ELSE IF worker.fault THEN "gone" ELSE "finally"
<1>1. next \in WorkerAts /\ worker' = [worker EXCEPT !.op = NoOp, !.at = next]
    BY DEF Replied, WorkerAts
<1>2. worker' \in Workers /\ worker'.at = next /\ worker'.fault = worker.fault
  <2> HIDE DEF next
  <2> QED BY <1>1, Constants DEF ScopeInv, ScopeTypes, Workers
<1>3. response' \in [Calls -> {"no", "empty", "ok", "failed"}]
    BY DEF Replied, ScopeInv, ScopeTypes
<1>4. ScopeTypes'
    BY <1>2, <1>3 DEF Replied, ScopeInv, ScopeTypes
<1>5. Unstarted' /\ Generation' /\ Detachment' /\ MemStopped'
    BY <1>2 DEF Replied, ScopeInv, Unstarted, Generation, Detachment, MemStopped, After, Terminal
<1>6. Whole'
    BY <1>2 DEF Replied, ScopeInv, Whole, AppliedTo, StoppedWhole, After, Running
<1>7. GotIsTrue' /\ ExportedIsOver'
    BY <1>2 DEF Replied, ScopeInv, GotIsTrue, ExportedIsOver, Running, ProbeAlive
<1> QED BY <1>4, <1>5, <1>6, <1>7 DEF ScopeInv

LEMMA TurnKeeps == ASSUME ScopeInv, Turn PROVE ScopeInv'
<1>1. worker' \in Workers /\ worker'.at \in {"take", "loop", "list", "detach", "finally"}
  <2>1. CASE clock.late
    BY ZenonT(60), <2>1 DEF Turn, ScopeInv, ScopeTypes, Workers, WorkerAts, Jobs
  <2>2. CASE ~clock.late /\ ~Running
    BY <2>2 DEF Turn, ScopeInv, ScopeTypes, Workers, WorkerAts, Fails
  <2>3. CASE ~clock.late /\ Running /\ mem.ext /\ clock.expired
    BY ZenonT(60), <2>3 DEF Turn, ScopeInv, ScopeTypes, Workers, WorkerAts, Jobs
  <2>4. CASE ~clock.late /\ Running /\ ~(mem.ext /\ clock.expired)
    BY <2>4 DEF Turn, ScopeInv, ScopeTypes, Workers, WorkerAts, At
  <2> QED BY <2>1, <2>2, <2>3, <2>4
<1>2. ScopeTypes'
    BY <1>1 DEF Turn, ScopeInv, ScopeTypes
<1> QED BY <1>1, <1>2, Moves DEF Turn

LEMMA ListRequestsKeeps == ASSUME ScopeInv, ListRequests PROVE ScopeInv'
<1>1. worker' \in Workers /\ worker'.at \in {"take", "loop", "list", "detach", "finally"}
    BY ScopeBounds DEF ListRequests, ScopeInv, ScopeTypes, Workers, WorkerAts, Jobs, Kinds, NoOp, Calls,
       Fails, Unanswered
<1>2. ScopeTypes'
    BY <1>1 DEF ListRequests, ScopeInv, ScopeTypes
<1> QED BY <1>1, <1>2, Moves DEF ListRequests

LEMMA TakeKeeps == ASSUME ScopeInv, Take PROVE ScopeInv'
<1>1. worker' \in Workers /\ worker'.at \in {"take", "loop", "list", "detach", "finally"}
  <2>1. CASE worker.todo = {}
    BY <2>1 DEF Take, ScopeInv, ScopeTypes, Workers, WorkerAts, At
  <2>2. CASE worker.todo # {}
    <3>1. PICK c \in worker.todo :
              worker' = IF request[c].is = "empty"
                        THEN [worker EXCEPT !.fault = TRUE, !.at = "finally", !.op = c]
                        ELSE [worker EXCEPT !.at = "detach", !.job = request[c].kind, !.op = c,
                        !.todo = @ \ {c}]
        BY <2>2 DEF Take
    <3>2. c \in Calls /\ c \in 0..NoOp /\ request[c].kind \in Jobs /\ worker.todo \ {c} \in SUBSET Calls
        BY Constants DEF ScopeInv, ScopeTypes, Workers, Jobs
    <3> QED BY <3>1, <3>2 DEF ScopeInv, ScopeTypes, Workers, WorkerAts
  <2> QED BY <2>1, <2>2
<1>2. ScopeTypes'
    BY <1>1 DEF Take, ScopeInv, ScopeTypes
<1> QED BY <1>1, <1>2, Moves DEF Take

LEMMA SourceFailsKeeps == ASSUME ScopeInv, SourceFails PROVE ScopeInv'
<1>1. worker' \in Workers /\ worker'.at \in {"take", "loop", "list", "detach", "finally"}
    BY ScopeBounds DEF SourceFails, ScopeInv, ScopeTypes, Workers, WorkerAts, Fails
<1>2. ScopeTypes'
    BY <1>1 DEF SourceFails, ScopeInv, ScopeTypes
<1> QED BY <1>1, <1>2, Moves DEF SourceFails

LEMMA DetachKeeps == ASSUME ScopeInv, Detach PROVE ScopeInv'
<1>1. worker' \in Workers
    BY ScopeBounds DEF Detach, ScopeInv, ScopeTypes, Workers, WorkerAts, Save, At
<1>2. mem' \in States
    BY DEF Detach, ScopeInv, ScopeTypes, States, Statuses, Save
<1>3. file' \in States
    BY DEF Detach, ScopeInv, ScopeTypes, States, Statuses, Save
<1>4. probe' \in Probes
    BY DEF Detach, ScopeInv, ScopeTypes, States, Probes
<1>5. ScopeTypes'
    BY <1>1, <1>2, <1>3, <1>4 DEF Detach, ScopeInv, ScopeTypes
<1>6. Unstarted' /\ Generation' /\ Detachment' /\ MemStopped'
    BY DEF Detach, ScopeInv, At, Save, Unstarted, Generation, Detachment, MemStopped, After
<1>7. Whole'
    BY DEF Detach, ScopeInv, Save, MemStopped, Whole, AppliedTo, StoppedWhole, After
<1>8. GotIsTrue' /\ ExportedIsOver'
    BY DEF Detach, ScopeInv, Save, GotIsTrue, ExportedIsOver
<1> QED BY <1>5, <1>6, <1>7, <1>8 DEF ScopeInv

LEMMA DetachedKeeps == ASSUME ScopeInv, Detached PROVE ScopeInv'
<1>1. worker' \in Workers
    BY ScopeBounds DEF Detached, ScopeInv, ScopeTypes, Workers, WorkerAts
<1>2. mem' \in States
    BY DEF Detached, ScopeInv, ScopeTypes
<1>3. file' \in States
    BY DEF Detached, ScopeInv, ScopeTypes
<1>4. ScopeTypes'
    BY <1>1, <1>2, <1>3 DEF Detached, ScopeInv, ScopeTypes
<1>5. Unstarted' /\ Generation' /\ Detachment' /\ MemStopped'
    BY DEF Detached, ScopeInv, ScopeTypes, Workers, Unstarted, Generation, Detachment, MemStopped, After,
       Running, EndMarker
<1>6. Whole'
    BY DEF Detached, ScopeInv, Detachment, MemStopped, Whole, AppliedTo, StoppedWhole
<1>7. GotIsTrue' /\ ExportedIsOver'
    BY DEF Detached, ScopeInv, GotIsTrue, ExportedIsOver
<1> QED BY <1>4, <1>5, <1>6, <1>7 DEF ScopeInv

(* What Change does with the detached probe gone.                          *)
LEMMA Changes ==
    ASSUME ScopeInv, Change
    PROVE  /\ worker' \in Workers /\ worker'.fault = worker.fault
           /\ mem' \in States /\ mem'.gen = mem.gen /\ mem'.probe = mem.probe
           /\ \/ /\ worker.fault /\ worker'.at = "finally" /\ mem' = mem /\ file' = file
              \/ /\ worker'.at = "finally" /\ file' = mem' /\ mem'.status = "EXPIRED" /\ mem'.stopped
              \/ /\ ~worker.fault /\ worker'.at = "reply" /\ file' = mem' /\ mem'.status = "STOPPED"
                 /\ mem'.stopped
              \/ /\ worker'.at = "launch" /\ file' = file /\ mem'.status = mem.status
                 /\ mem'.stopped = mem.stopped
<1>1. CASE worker.job = "deadline"
  <2>1. worker' \in Workers /\ worker'.fault = worker.fault /\ worker'.at = "finally"
    BY <1>1 DEF Change, ScopeInv, ScopeTypes, Workers, WorkerAts, Save, At
  <2>2. mem' = [mem EXCEPT !.status = "EXPIRED", !.stopped = TRUE] /\ file' = mem'
    BY <1>1 DEF Change, Save
  <2>3. mem' \in States /\ mem'.gen = mem.gen /\ mem'.probe = mem.probe /\ mem'.status = "EXPIRED"
        /\ mem'.stopped
    BY <2>2 DEF ScopeInv, ScopeTypes, States, Statuses
  <2> QED BY <2>1, <2>2, <2>3
<1>2. CASE worker.job # "deadline" /\ worker.fault
    BY <1>2 DEF Change, ScopeInv, ScopeTypes, States, Workers, WorkerAts, At
<1>3. CASE worker.job = "stop" /\ ~worker.fault
  <2>1. worker' \in Workers /\ worker'.fault = worker.fault /\ worker'.at = "reply"
    BY <1>3 DEF Change, ScopeInv, ScopeTypes, Workers, WorkerAts, Save, At
  <2>2. mem' = [mem EXCEPT !.status = "STOPPED", !.stopped = TRUE] /\ file' = mem'
    BY <1>3 DEF Change, Save
  <2>3. mem' \in States /\ mem'.gen = mem.gen /\ mem'.probe = mem.probe /\ mem'.status = "STOPPED"
        /\ mem'.stopped
    BY <2>2 DEF ScopeInv, ScopeTypes, States, Statuses
  <2> QED BY <1>3, <2>1, <2>2, <2>3
<1>4. CASE worker.job \notin {"deadline", "stop"} /\ ~worker.fault
  <2>1. worker' \in Workers /\ worker'.fault = worker.fault /\ worker'.at = "launch"
    BY <1>4 DEF Change, ScopeInv, ScopeTypes, Workers, WorkerAts, At
  <2> DEFINE ext == IF worker.job = "update" THEN mem.ext ELSE worker.job = "extend"
  <2>2. mem' = [mem EXCEPT !.ext = ext] /\ ext \in BOOLEAN /\ file' = file
    BY <1>4 DEF Change, ScopeInv, ScopeTypes, States
  <2> HIDE DEF ext
  <2>3. mem' \in States /\ mem'.gen = mem.gen /\ mem'.probe = mem.probe /\ mem'.status = mem.status
        /\ mem'.stopped = mem.stopped
    BY <2>2 DEF ScopeInv, ScopeTypes, States
  <2> QED BY <2>1, <2>2, <2>3
<1> QED BY <1>1, <1>2, <1>3, <1>4

LEMMA ChangeKeeps == ASSUME ScopeInv, Change PROVE ScopeInv'
<1> USE Changes
<1>1. clock' \in [late : BOOLEAN, expired : BOOLEAN]
    BY DEF Change, ScopeInv, ScopeTypes
<1>2. file' \in States
    BY DEF ScopeInv, ScopeTypes
<1>3. ScopeTypes'
    BY <1>1, <1>2 DEF Change, ScopeInv, ScopeTypes
<1>4. /\ worker.at = "change" /\ UNCHANGED <<probe, call, exported>> /\ ~Running
         /\ (~worker.fault => probe.ended)
      /\ ~mem.stopped /\ mem.status = "DETACHING" /\ file.status = "DETACHING" /\ mem.gen = probe.gen
         /\ mem.probe = probe.gen
    BY DEF Change, ScopeInv, MemStopped, Detachment, Generation, After
<1>5. Unstarted' /\ Generation' /\ Detachment' /\ MemStopped'
    BY <1>4 DEF Unstarted, Generation, Detachment, MemStopped, After, Terminal
<1>6. Whole'
    BY <1>4 DEF ScopeInv, Whole, AppliedTo, StoppedWhole, After, Running, Terminal
<1>7. GotIsTrue' /\ ExportedIsOver'
    BY <1>4 DEF ScopeInv, GotIsTrue, ExportedIsOver, Running
<1> QED BY <1>3, <1>5, <1>6, <1>7 DEF ScopeInv

LEMMA ExtendedTooLateKeeps == ASSUME ScopeInv, ExtendedTooLate PROVE ScopeInv'
<1>1. worker' \in Workers /\ worker'.at \in {"take", "loop", "list", "detach", "finally"}
    BY ScopeBounds DEF ExtendedTooLate, ScopeInv, ScopeTypes, Workers, WorkerAts, Fails
<1>2. ScopeTypes'
    BY <1>1 DEF ExtendedTooLate, ScopeInv, ScopeTypes
<1> QED BY <1>1, <1>2, Moves DEF ExtendedTooLate

LEMMA FinallyKeeps == ASSUME ScopeInv, Finally PROVE ScopeInv'
<1> DEFINE next == IF Detaches THEN "detach" ELSE "final"
           job  == IF Detaches THEN "abort" ELSE worker.job
<1>1. worker' = [worker EXCEPT !.at = next, !.job = job] /\ next \in WorkerAts /\ job \in Jobs
    BY DEF Finally, ScopeInv, ScopeTypes, Workers, WorkerAts, Jobs
<1>2. worker' \in Workers /\ worker'.at = next /\ worker'.fault = worker.fault
  <2> HIDE DEF next, job
  <2> QED BY <1>1 DEF ScopeInv, ScopeTypes, Workers
<1>3. ScopeTypes'
    BY <1>2 DEF Finally, ScopeInv, ScopeTypes
<1>4. worker.at = "finally" /\ UNCHANGED <<file, mem, probe, call, exported>> /\ mem.gen \in Nat
    BY DEF Finally, ScopeInv, ScopeTypes, States
<1>5. CASE Detaches
  <2>1. worker'.at = "detach"
    BY <1>2, <1>5
  <2>2. mem.status \notin {"FAILED", "STOPPED", "EXPIRED"}
    BY <1>4, <1>5 DEF Detaches, ScopeInv, MemStopped
  <2>3. Unstarted' /\ Generation' /\ Detachment' /\ MemStopped'
    BY <1>4, <2>1, <2>2 DEF ScopeInv, Unstarted, Generation, Detachment, MemStopped, Terminal
  <2>4. file.status # "STOPPED"
    BY <1>4, <2>2 DEF ScopeInv, Whole
  <2>5. Whole'
    BY <1>4, <2>1, <2>2, <2>4 DEF ScopeInv, Whole, AppliedTo, StoppedWhole
  <2>6. GotIsTrue' /\ ExportedIsOver'
    BY <1>4, <2>1 DEF ScopeInv, GotIsTrue, ExportedIsOver, Running
  <2> QED BY <1>3, <2>3, <2>5, <2>6 DEF ScopeInv
<1>6. CASE ~Detaches
  <2>1. worker'.at = "final"
    BY <1>2, <1>6
  <2>2. Unstarted' /\ Generation' /\ Detachment' /\ MemStopped'
    BY <1>4, <2>1 DEF ScopeInv, Unstarted, Generation, Detachment, MemStopped, After
  <2>3. Whole'
    BY <1>4, <2>1 DEF ScopeInv, Whole, AppliedTo, StoppedWhole, After, Running
  <2>4. GotIsTrue' /\ ExportedIsOver'
    BY <1>4, <2>1 DEF ScopeInv, GotIsTrue, ExportedIsOver, Running
  <2> QED BY <1>3, <2>2, <2>3, <2>4 DEF ScopeInv
<1> QED BY <1>5, <1>6

LEMMA FinalKeeps == ASSUME ScopeInv, Final PROVE ScopeInv'
<1> DEFINE next == IF worker.op = NoOp \/ response[worker.op] # "no" THEN "gone" ELSE "reply"
<1>1. worker' = [worker EXCEPT !.at = next] /\ next \in WorkerAts
    BY DEF Final, Save, At, WorkerAts
<1>2. worker' \in Workers /\ worker'.at = next /\ worker'.fault = worker.fault
      /\ worker'.at \in {"gone", "reply"}
  <2>1. next \in {"gone", "reply"}
    OBVIOUS
  <2> HIDE DEF next
  <2> QED BY <1>1, <2>1 DEF ScopeInv, ScopeTypes, Workers
<1>3. /\ mem' \in States /\ file' = mem' /\ mem'.gen = mem.gen /\ mem'.probe = mem.probe
      /\ IF worker.fault THEN mem'.status = "FAILED" ELSE mem' = mem
    BY DEF Final, ScopeInv, ScopeTypes, States, Statuses, Save
<1>4. ScopeTypes'
    BY <1>2, <1>3 DEF Final, ScopeInv, ScopeTypes
<1>5. worker.at = "final" /\ UNCHANGED <<probe, call, exported>>
    BY DEF Final
<1>6. Unstarted' /\ Generation' /\ Detachment' /\ MemStopped'
    BY <1>2, <1>3, <1>5 DEF ScopeInv, Unstarted, Generation, Detachment, MemStopped, After, Terminal
<1>7. Whole'
    BY <1>2, <1>3, <1>5 DEF ScopeInv, Whole, AppliedTo, StoppedWhole, MemStopped, After, Running, Terminal
<1>8. GotIsTrue' /\ ExportedIsOver'
    BY <1>2, <1>3, <1>5 DEF ScopeInv, GotIsTrue, ExportedIsOver, Running
<1> QED BY <1>4, <1>6, <1>7, <1>8 DEF ScopeInv

LEMMA KilledKeeps == ASSUME ScopeInv, Killed PROVE ScopeInv'
<1>1. worker' \in Workers
    BY ScopeBounds DEF Killed, ScopeInv, ScopeTypes, Workers, WorkerAts, At
<1>2. ScopeTypes'
    BY <1>1 DEF Killed, ScopeInv, ScopeTypes
<1>3. Unstarted' /\ Generation' /\ Detachment' /\ MemStopped'
    BY DEF Killed, ScopeInv, At, Unstarted, Generation, Detachment, MemStopped, After
<1>4. Whole'
    BY DEF Killed, ScopeInv, At, Whole, AppliedTo, StoppedWhole, After, Running
<1>5. GotIsTrue' /\ ExportedIsOver'
    BY DEF Killed, ScopeInv, GotIsTrue, ExportedIsOver, WorkerAlive
<1> QED BY <1>2, <1>3, <1>4, <1>5 DEF ScopeInv

LEMMA ProbeReadyKeeps == ASSUME ScopeInv, ProbeReady PROVE ScopeInv'
<1>1. probe' \in Probes
    BY DEF ProbeReady, ScopeInv, ScopeTypes, States, Probes
<1>2. ScopeTypes'
    BY <1>1 DEF ProbeReady, ScopeInv, ScopeTypes
<1>3. Unstarted' /\ Generation' /\ Detachment' /\ MemStopped'
    BY DEF ProbeReady, ScopeInv, Unstarted, Generation, Detachment, MemStopped, Running
<1>4. Whole'
    BY DEF ProbeReady, ScopeInv, Whole, AppliedTo, StoppedWhole, Running
<1>5. GotIsTrue' /\ ExportedIsOver'
    BY DEF ProbeReady, ScopeInv, GotIsTrue, ExportedIsOver, Running, ProbeAlive
<1> QED BY <1>2, <1>3, <1>4, <1>5 DEF ScopeInv

LEMMA ProbeEndsKeeps == ASSUME ScopeInv, ProbeEnds PROVE ScopeInv'
<1>1. probe' \in Probes
    BY DEF ProbeEnds, ScopeInv, ScopeTypes, States, Probes
<1>2. ScopeTypes'
    BY <1>1 DEF ProbeEnds, ScopeInv, ScopeTypes
<1>3. /\ probe'.gen = probe.gen /\ probe'.at = "dead" /\ (probe.ended => probe'.ended)
      /\ probe.at # "booting" => probe'.at # "booting"
    BY DEF ProbeEnds, ScopeInv, ScopeTypes, Probes
<1>4. ~Running' /\ UNCHANGED <<file, mem, worker, call, exported>>
    BY <1>3 DEF ProbeEnds, Running
<1>5. ~ProbeAlive(file)'
    BY <1>4 DEF ProbeAlive
<1>6. Running
    BY DEF ProbeEnds
<1>7. Unstarted' /\ Generation' /\ MemStopped'
    BY <1>3, <1>4 DEF ScopeInv, Unstarted, Generation, MemStopped
<1>8. Detachment'
    BY <1>3, <1>4, <1>6 DEF ScopeInv, Detachment
<1>9. Whole'
    BY <1>3, <1>4, <1>6 DEF ScopeInv, Whole, AppliedTo, StoppedWhole
<1>10. GotIsTrue' /\ ExportedIsOver'
    BY <1>3, <1>4, <1>5, <1>6 DEF ScopeInv, GotIsTrue, ExportedIsOver
<1> QED BY <1>2, <1>7, <1>8, <1>9, <1>10 DEF ScopeInv

LEMMA DeadlineKeeps == ASSUME ScopeInv, Deadline PROVE ScopeInv'
<1>1. clock' \in [late : BOOLEAN, expired : BOOLEAN]
    BY DEF Deadline, ScopeInv, ScopeTypes
<1>2. ScopeTypes'
    BY <1>1 DEF Deadline, ScopeInv, ScopeTypes
<1>3. Unstarted' /\ Generation' /\ Detachment' /\ MemStopped'
    BY DEF Deadline, ScopeInv, Unstarted, Generation, Detachment, MemStopped, Running
<1>4. Whole'
    BY DEF Deadline, ScopeInv, Whole, AppliedTo, StoppedWhole, Running
<1>5. GotIsTrue' /\ ExportedIsOver'
    BY DEF Deadline, ScopeInv, GotIsTrue, ExportedIsOver, WorkerAlive
<1> QED BY <1>2, <1>3, <1>4, <1>5 DEF ScopeInv

LEMMA ExpiryKeeps == ASSUME ScopeInv, Expiry PROVE ScopeInv'
<1>1. clock' \in [late : BOOLEAN, expired : BOOLEAN]
    BY DEF Expiry, ScopeInv, ScopeTypes
<1>2. ScopeTypes'
    BY <1>1 DEF Expiry, ScopeInv, ScopeTypes
<1>3. Unstarted' /\ Generation' /\ Detachment' /\ MemStopped'
    BY DEF Expiry, ScopeInv, Unstarted, Generation, Detachment, MemStopped, Running
<1>4. Whole'
    BY DEF Expiry, ScopeInv, Whole, AppliedTo, StoppedWhole, Running
<1>5. GotIsTrue' /\ ExportedIsOver'
    BY DEF Expiry, ScopeInv, GotIsTrue, ExportedIsOver, Running, ProbeAlive
<1> QED BY <1>2, <1>3, <1>4, <1>5 DEF ScopeInv

LEMMA SubmittedKeeps == ASSUME ScopeInv, Submitted PROVE ScopeInv'
<1>1. request' \in [Calls -> [kind : Kinds \cup {"none"}, is : {"no", "empty", "there"}]]
    BY ZenonT(60), ScopeBounds DEF Submitted, ScopeInv, ScopeTypes, Calls, Kinds, Asked
<1>2. call' \in Asked
    BY ScopeBounds DEF Submitted, ScopeInv, ScopeTypes, Asked
<1>3. ScopeTypes'
    BY <1>1, <1>2 DEF Submitted, ScopeInv, ScopeTypes
<1>4. Unstarted' /\ Generation' /\ Detachment' /\ MemStopped'
    BY DEF Submitted, ScopeInv, Unstarted, Generation, Detachment, MemStopped, Running
<1>5. Whole'
    BY DEF Submitted, ScopeInv, Whole, AppliedTo, StoppedWhole, Running
<1>6. GotIsTrue' /\ ExportedIsOver'
    BY DEF Submitted, ScopeInv, GotIsTrue, ExportedIsOver, Running, ProbeAlive
<1> QED BY <1>3, <1>4, <1>5, <1>6 DEF ScopeInv

(* A step of a call changes nothing but the call.                          *)
LEMMA CallKeeps ==
    ASSUME ScopeInv, call' \in Asked, UNCHANGED <<file, mem, worker, probe, request, response, clock,
           exported>>, GotIsTrue'
    PROVE  ScopeInv'
<1>1. ScopeTypes'
    BY DEF ScopeInv, ScopeTypes
<1>2. Unstarted' /\ Generation' /\ Detachment' /\ MemStopped'
    BY DEF ScopeInv, Unstarted, Generation, Detachment, MemStopped, Running
<1>3. Whole' /\ ExportedIsOver'
    BY DEF ScopeInv, Whole, AppliedTo, StoppedWhole, ExportedIsOver, Running, ProbeAlive
<1> QED BY <1>1, <1>2, <1>3 DEF ScopeInv

LEMMA AwaitKeeps == ASSUME ScopeInv, Await PROVE ScopeInv'
<1>1. CASE response[call.op] # "ok"
  <2>1. call' \in Asked /\ call'.got = NoFile
    BY <1>1, Constants, Returned DEF Await, ScopeInv
  <2>2. GotIsTrue'
    BY <2>1 DEF GotIsTrue, NoFile
  <2> QED BY <2>1, <2>2, CallKeeps DEF Await
<1>2. CASE response[call.op] = "ok"
  <2> DEFINE next == IF call.kind = "stop" THEN "exit" ELSE "snapshot"
  <2>1. call' = [call EXCEPT !.at = next] /\ next \in {"exit", "snapshot"}
    BY <1>2 DEF Await
  <2> HIDE DEF next
  <2>2. call' \in Asked /\ call'.got = call.got
    BY <2>1 DEF ScopeInv, ScopeTypes, Asked
  <2>3. GotIsTrue'
    BY <2>2 DEF Await, ScopeInv, GotIsTrue, Running
  <2> QED BY <2>2, <2>3, CallKeeps DEF Await
<1> QED BY <1>1, <1>2

LEMMA AwaitTimesOutKeeps == ASSUME ScopeInv, AwaitTimesOut PROVE ScopeInv'
<1>1. call' \in Asked
    BY ScopeBounds DEF AwaitTimesOut, ScopeInv, ScopeTypes, Asked, Returns, States, Statuses, NoFile
<1>2. ScopeTypes'
    BY <1>1 DEF AwaitTimesOut, ScopeInv, ScopeTypes
<1>3. Unstarted' /\ Generation' /\ Detachment' /\ MemStopped'
    BY DEF AwaitTimesOut, ScopeInv, Unstarted, Generation, Detachment, MemStopped, Running
<1>4. Whole'
    BY DEF AwaitTimesOut, ScopeInv, Whole, AppliedTo, StoppedWhole, Running
<1>5. GotIsTrue' /\ ExportedIsOver'
    BY DEF AwaitTimesOut, ScopeInv, NoFile, Returns, GotIsTrue, ExportedIsOver, Running, ProbeAlive
<1> QED BY <1>2, <1>3, <1>4, <1>5 DEF ScopeInv

LEMMA StopExitsKeeps == ASSUME ScopeInv, StopExits PROVE ScopeInv'
<1>1. CASE ProbeAlive(mem)
  <2>1. call' \in Asked /\ call'.got = NoFile
    BY <1>1, Constants, Returned DEF StopExits, ScopeInv
  <2>2. GotIsTrue'
    BY <2>1 DEF GotIsTrue, NoFile
  <2> QED BY <2>1, <2>2, CallKeeps DEF StopExits
<1>2. CASE ~ProbeAlive(mem)
  <2>1. call' \in Asked /\ call'.got = call.got
    BY <1>2 DEF StopExits, ScopeInv, ScopeTypes, Asked
  <2>2. GotIsTrue'
    BY <2>1 DEF StopExits, ScopeInv, GotIsTrue, Running
  <2> QED BY <2>1, <2>2, CallKeeps DEF StopExits
<1> QED BY <1>1, <1>2

(* What _snapshot reports as stopped is over, as applied is a generation.  *)
LEMMA SnapshotIsTrue ==
    ASSUME ScopeInv
    PROVE  /\ Snapshot.status = "STOPPED" /\ Snapshot.stopped => ~Running /\ worker.at = "gone" /\ probe.ended
           /\ Snapshot.status = "APPLIED" => mem.gen >= 1
<1>1. file \in States /\ mem.gen = probe.gen
    BY DEF ScopeInv, ScopeTypes, Generation
<1>2. Snapshot.status = "STOPPED" => file.status = "STOPPED"
    BY <1>1 DEF Snapshot, States, Terminal
<1>3. Snapshot.status = "STOPPED" /\ Snapshot.stopped => ~WorkerAlive
    BY <1>1, <1>2 DEF Snapshot, States, Terminal
<1>4. Snapshot.status = "APPLIED" => file.status = "APPLIED"
    BY <1>1 DEF Snapshot, States, Terminal
<1> QED BY <1>1, <1>2, <1>3, <1>4 DEF ScopeInv, Whole, AppliedTo, StoppedWhole, After, WorkerAlive

LEMMA ReceiptKeeps == ASSUME ScopeInv, Receipt PROVE ScopeInv'
<1>1. call' \in Asked /\ call'.got = Snapshot
    BY SnapshotTyped, Returned DEF Receipt, ScopeInv
<1>2. GotIsTrue'
    BY <1>1, SnapshotIsTrue DEF Receipt, GotIsTrue, Running
<1> QED BY <1>1, <1>2, CallKeeps DEF Receipt

LEMMA RecoverStopKeeps == ASSUME ScopeInv, RecoverStop PROVE ScopeInv'
<1>1. CASE file.status \in Terminal /\ ~ProbeAlive(file)
  <2>1. call' \in Asked /\ call'.got = Snapshot /\ file' = file
    BY <1>1, SnapshotTyped DEF RecoverStop, ScopeInv, ScopeTypes, Asked, Kinds
  <2>2. GotIsTrue'
    BY <2>1, SnapshotIsTrue DEF RecoverStop, GotIsTrue, Running
  <2> QED BY <2>1, <2>2, CallKeeps DEF RecoverStop
<1>2. CASE ~(file.status \in Terminal /\ ~ProbeAlive(file))
  <2>1. file' \in States /\ file'.status = "FAILED" /\ ~ProbeAlive(file) /\ file.status \notin Terminal
    BY <1>2 DEF RecoverStop, ScopeInv, ScopeTypes, States, Statuses
  <2>2. call' \in Asked /\ call'.got = call.got
    BY <1>2 DEF RecoverStop, ScopeInv, ScopeTypes, Asked, Kinds
  <2>3. ScopeTypes' /\ worker.at = "gone" /\ UNCHANGED <<mem, worker, probe, exported>>
    BY <2>1, <2>2 DEF RecoverStop, ScopeInv, ScopeTypes
  <2>4. Unstarted' /\ Generation' /\ Detachment' /\ MemStopped'
    BY <2>3 DEF ScopeInv, Unstarted, Generation, Detachment, MemStopped, Running
  <2>5. Whole' /\ ExportedIsOver' /\ GotIsTrue'
    BY <2>1, <2>2, <2>3 DEF ScopeInv, Whole, AppliedTo, StoppedWhole, ExportedIsOver, GotIsTrue, Running,
       Terminal
  <2> QED BY <2>3, <2>4, <2>5 DEF ScopeInv
<1> QED BY <1>1, <1>2

LEMMA ExportKeeps == ASSUME ScopeInv, Export PROVE ScopeInv'
<1>1. exported' \in States
    BY DEF Export, ScopeInv, ScopeTypes
<1>2. ScopeTypes'
    BY <1>1 DEF Export, ScopeInv, ScopeTypes
<1>3. Unstarted' /\ Generation' /\ Detachment' /\ MemStopped'
    BY DEF Export, ScopeInv, Snapshot, Unstarted, Generation, Detachment, MemStopped, Whole, Terminal, Exports
<1>4. Whole'
    BY DEF Export, ScopeInv, Whole, AppliedTo, StoppedWhole, Running
<1>5. GotIsTrue' /\ ExportedIsOver'
    BY DEF Export, ScopeInv, ScopeTypes, States, Snapshot, Unstarted, Whole, GotIsTrue, ExportedIsOver,
           Running,
       ProbeAlive, WorkerAlive, Terminal, Exports
<1> QED BY <1>2, <1>3, <1>4, <1>5 DEF ScopeInv

LEMMA ApplyKeeps == ASSUME ScopeInv, Apply PROVE ScopeInv'
<1>1. worker' \in Workers
    BY Constants DEF Apply, ScopeInv, ScopeTypes, Workers, WorkerAts
<1>2. call' \in Asked
    BY Constants DEF Apply, ScopeInv, ScopeTypes, Asked
<1>3. ScopeTypes'
    BY <1>1, <1>2 DEF Apply, ScopeInv, ScopeTypes
<1>4. Unstarted' /\ Generation' /\ Detachment' /\ MemStopped'
    BY DEF Apply, ScopeInv, NoFile, Unstarted, Generation, Detachment, MemStopped
<1>5. Whole'
    BY DEF Apply, ScopeInv, Whole, AppliedTo, StoppedWhole, After
<1>6. GotIsTrue' /\ ExportedIsOver'
    BY DEF Apply, ScopeInv, GotIsTrue, ExportedIsOver
<1> QED BY <1>3, <1>4, <1>5, <1>6 DEF ScopeInv

LEMMA SubmitKeeps == ASSUME NEW kind \in Kinds, ScopeInv, Submit(kind) PROVE ScopeInv'
<1>1. request' \in [Calls -> [kind : Kinds \cup {"none"}, is : {"no", "empty", "there"}]]
    BY ScopeBounds DEF Submit, ScopeInv, ScopeTypes, Calls, Kinds, Asked
<1>2. call' \in Asked
    BY ScopeBounds DEF Submit, ScopeInv, ScopeTypes, Asked, Calls, States, Statuses, NoFile
<1>3. ScopeTypes'
    BY <1>1, <1>2 DEF Submit, ScopeInv, ScopeTypes
<1>4. Unstarted' /\ Generation' /\ Detachment' /\ MemStopped'
    BY DEF Submit, ScopeInv, Unstarted, Generation, Detachment, MemStopped
<1>5. Whole'
    BY DEF Submit, ScopeInv, Whole, AppliedTo, StoppedWhole, Running
<1>6. GotIsTrue' /\ ExportedIsOver'
    BY DEF Submit, ScopeInv, NoFile, GotIsTrue, ExportedIsOver, Terminal
<1> QED BY <1>3, <1>4, <1>5, <1>6 DEF ScopeInv

LEMMA RebootsKeeps == ASSUME ScopeInv, Reboots PROVE ScopeInv'
<1>1. worker' \in Workers
    BY ScopeBounds DEF Reboots, ScopeInv, ScopeTypes, Workers, WorkerAts
<1>2. probe' \in Probes
    BY DEF Reboots, ScopeInv, ScopeTypes, States, Probes
<1>3. call' \in Asked
    BY ScopeBounds DEF Reboots, ScopeInv, ScopeTypes, Asked, States, Statuses, NoFile
<1>4. ScopeTypes'
    BY <1>1, <1>2, <1>3 DEF Reboots, ScopeInv, ScopeTypes
<1>5. Unstarted' /\ Generation' /\ Detachment' /\ MemStopped'
    BY DEF Reboots, ScopeInv, Unstarted, Generation, Detachment, MemStopped, After
<1>6. Whole'
    BY DEF Reboots, ScopeInv, Whole, AppliedTo, StoppedWhole, After, Running
<1>7. GotIsTrue' /\ ExportedIsOver'
    BY DEF Reboots, ScopeInv, NoFile, GotIsTrue, ExportedIsOver, Running, ProbeAlive
<1> QED BY <1>4, <1>5, <1>6, <1>7 DEF ScopeInv

-----------------------------------------------------------------------------
(* Every step of worker, probe and calls keeps what the scope knows.       *)

ScopeStep == \/ WorkerNext \/ ProbeNext \/ CallGoesOn \/ Apply \/ RecoverStop \/ Export
             \/ \E kind \in Kinds : Submit(kind)

LEMMA ScopeStepKeeps == ASSUME ScopeInv, ScopeStep PROVE ScopeInv'
<1>1. CASE WorkerNext
    BY <1>1, WorkerStartsKeeps, LaunchKeeps, AttachStartedKeeps, AttachedKeeps, AttachFailsKeeps, ReplyKeeps,
       RepliedKeeps, TurnKeeps, ListRequestsKeeps, TakeKeeps, SourceFailsKeeps, DetachKeeps, DetachedKeeps,
       ChangeKeeps, ExtendedTooLateKeeps, FinallyKeeps, FinalKeeps, KilledKeeps DEF WorkerNext
<1>2. CASE ProbeNext
    BY <1>2, ProbeReadyKeeps, ProbeEndsKeeps, DeadlineKeeps, ExpiryKeeps DEF ProbeNext
<1>3. CASE CallGoesOn
    BY <1>3, SubmittedKeeps, AwaitKeeps, AwaitTimesOutKeeps, StopExitsKeeps, ReceiptKeeps DEF CallGoesOn
<1> QED
    BY <1>1, <1>2, <1>3, ApplyKeeps, RecoverStopKeeps, ExportKeeps, SubmitKeeps DEF ScopeStep

(* The generation only grows.                                              *)
LEMMA GenerationGrows == ASSUME ScopeInv, ScopeStep PROVE mem.gen >= 1 => mem'.gen >= 1
<1>1. mem \in States
    BY DEF ScopeInv, ScopeTypes
<1>2. CASE WorkerStarts
    BY <1>2 DEF WorkerStarts, ScopeInv, Unstarted, NoFile
<1>3. CASE Launch
    BY <1>1, <1>3 DEF Launch, States
<1>4. CASE Attached
    BY <1>1, <1>4 DEF Attached, States, Save
<1>5. CASE Detach \/ Detached \/ AttachStarted
    BY <1>1, <1>5 DEF Detach, Detached, AttachStarted, States, Save
<1>6. CASE Change
    BY <1>6, Changes
<1>7. CASE Final
    BY <1>1, <1>7 DEF Final, States, Save
<1>8. CASE \/ AttachFails \/ Reply \/ Replied \/ Turn \/ ListRequests \/ Take \/ SourceFails
           \/ ExtendedTooLate
           \/ Finally \/ Killed
    BY <1>8 DEF AttachFails, Reply, Replied, Turn, ListRequests, Take, SourceFails, ExtendedTooLate,
       Finally, Killed
<1>9. CASE \/ ProbeNext \/ CallGoesOn \/ Apply \/ RecoverStop \/ Export \/ \E kind \in Kinds : Submit(kind)
    BY <1>9 DEF ProbeNext, ProbeReady, ProbeEnds, Deadline, Expiry, CallGoesOn, Submitted, Await,
       AwaitTimesOut,
       StopExits, Receipt, Apply, RecoverStop, Export, Submit
<1> QED BY <1>2, <1>3, <1>4, <1>5, <1>6, <1>7, <1>8, <1>9 DEF ScopeStep, WorkerNext

-----------------------------------------------------------------------------
(* The boot service.                                                       *)

(* What the boot service knows of the scope is its generation, and, once   *)
(* the originals were copied, the exported state.                          *)
LEMMA BootKeeps ==
    ASSUME BootInv, UNCHANGED bootVars, mem.gen >= 1 => mem'.gen >= 1,
           exported' = exported \/ finished \notin {"copy", "sealed"}
    PROVE  BootInv'
<1>1. BootTypes' /\ BundleSaw'
    BY DEF BootInv, BootTypes, BundleSaw, BundleKnows, Inst, bootVars
<1>2. ResumeSaw'
    BY DEF BootInv, ResumeSaw, ResumeKnows, Inst, Image, bootVars
<1>3. FinishSaw'
    BY DEF BootInv, FinishSaw, bootVars
<1> QED BY <1>1, <1>2, <1>3 DEF BootInv

(* The unit is started again from the payload that is there now, or the    *)
(* rest of the machine changes.                                            *)
LEMMA WorldKeeps ==
    ASSUME BootInv, world' \in Worlds, world'.imgs \in {world.imgs, Append(world.imgs, world.payload)},
           UNCHANGED <<mem, exported, bundle, resumed, finished>>
    PROVE  BootInv'
<1>1. world.imgs \in Seq(Files) /\ world.payload \in Files
    BY DEF BootInv, BootTypes, Worlds
<1>2. Inst \in Nat /\ Inst >= 1 /\ Inst' \in Nat /\ Inst' \in {Inst, Inst + 1}
    BY <1>1 DEF BootInv, BootTypes, Inst
<1>3. \A n \in 1..Inst : world'.imgs[n] = world.imgs[n]
    BY <1>1 DEF Inst
<1>4. bundle.seen \in Sights /\ resumed.seen \in Sights
    BY DEF BootInv, BootTypes
<1>5. BootTypes'
    BY <1>2 DEF BootInv, BootTypes
<1>6. BundleSaw'
    BY SMTT(30), <1>2, <1>3, <1>4 DEF BootInv, BundleSaw, BundleKnows, Sights
<1>7. resumed.at \notin {"start", "refused"} => bundle.seen.birth \in 1..Inst
    BY SMTT(30), <1>2, <1>4 DEF BootInv, BundleSaw, BundleKnows, ResumeSaw, ResumeKnows, Sights
<1>8. ResumeSaw'
  <2>1. Inst' = bundle.seen.birth /\ resumed.at \notin {"start", "refused"} => Inst' = Inst /\ Image' = Image
    BY <1>2, <1>3, <1>7 DEF Image
  <2> QED BY <2>1, <1>2, <1>3, <1>4, <1>7 DEF BootInv, ResumeSaw, ResumeKnows
<1>9. FinishSaw'
    BY DEF BootInv, FinishSaw
<1> QED BY <1>5, <1>6, <1>8, <1>9 DEF BootInv

LEMMA DriftKeeps == ASSUME BootInv, WorldDrifts PROVE BootInv'
<1>1. world' \in Worlds /\ world'.imgs \in {world.imgs, Append(world.imgs, world.payload)}
  <2>1. ASSUME NEW p \in 1..2, UnitRestarts(p)
        PROVE  world' \in Worlds /\ world'.imgs = Append(world.imgs, world.payload)
    <3>1. Append(world.imgs, world.payload) \in Seq(Files) /\ p \in Nat
        BY DEF BootInv, BootTypes, Worlds
    <3> QED BY <2>1, <3>1 DEF UnitRestarts, Drift, BootInv, BootTypes, Worlds
  <2>2. CASE UnitDies \/ LinkRemoved
    BY <2>2 DEF UnitDies, LinkRemoved, Drift, BootInv, BootTypes, Worlds
  <2>3. CASE ManagerReexecutes
    BY <2>3 DEF ManagerReexecutes, Drift, BootInv, BootTypes, Worlds
  <2>4. ASSUME NEW v \in {0, 1}, FragmentReplaced(v) \/ PayloadReplaced(v)
        PROVE  world' \in Worlds /\ world'.imgs = world.imgs
    <3>1. Copy(world.frag, v) \in Files /\ Copy(world.payload, v) \in Files
        BY DEF Copy, BootInv, BootTypes, Worlds, Files
    <3> QED BY <2>4, <3>1 DEF FragmentReplaced, PayloadReplaced, Drift, BootInv, BootTypes, Worlds
  <2> QED BY <2>1, <2>2, <2>3, <2>4 DEF WorldDrifts
<1> QED BY <1>1, WorldKeeps DEF WorldDrifts

LEMMA TouchKeeps == ASSUME BootInv, SealedChanges PROVE BootInv'
<1>1. /\ bundle' \in [at : CollectAts, intact : BOOLEAN, seen : Sights] /\ bundle'.at = bundle.at
         /\ bundle'.seen = bundle.seen
      /\ resumed' \in [at : ResumeAts, intact : BOOLEAN, seen : Sights] /\ resumed'.at = resumed.at
         /\ resumed'.seen = resumed.seen
    BY DEF SealedChanges, BootInv, BootTypes
<1>2. UNCHANGED <<world, finished, mem, exported>>
    BY DEF SealedChanges
<1>3. BootTypes' /\ BundleSaw'
    BY <1>1, <1>2 DEF BootInv, BootTypes, BundleSaw, BundleKnows, Inst
<1>4. ResumeSaw' /\ FinishSaw'
    BY <1>1, <1>2 DEF BootInv, ResumeSaw, ResumeKnows, FinishSaw, Inst, Image
<1> QED BY <1>3, <1>4 DEF BootInv

(* A step of the boot service collector: to the next place with what that  *)
(* place must know, or refused.                                            *)
LEMMA CollectGoesOn ==
    ASSUME BootInv, UNCHANGED <<scopeVars, world, resumed, finished>>, bundle.at # "sealed",
           NEW next \in CollectAts, NEW seen \in Sights, BundleKnows(next, seen),
           bundle' = [bundle EXCEPT !.at = next, !.seen = seen]
    PROVE  BootInv'
<1>1. /\ bundle' \in [at : CollectAts, intact : BOOLEAN, seen : Sights]
      /\ bundle'.at = next /\ bundle'.seen = seen
    BY DEF BootInv, BootTypes
<1>2. resumed.at \in {"start", "refused"}
    BY DEF BootInv, ResumeSaw, ResumeKnows
<1>3. BootTypes' /\ BundleSaw'
    BY <1>1 DEF BootInv, BootTypes, BundleSaw, BundleKnows, Inst
<1>4. ResumeSaw' /\ FinishSaw'
    BY <1>2 DEF BootInv, ResumeSaw, ResumeKnows, FinishSaw, scopeVars
<1> QED BY <1>3, <1>4 DEF BootInv

LEMMA CollectRefuses ==
    ASSUME BootInv, UNCHANGED <<scopeVars, world, resumed, finished>>, bundle.at # "sealed",
           bundle' = [bundle EXCEPT !.at = "refused"]
    PROVE  BootInv'
<1>1. bundle.seen \in Sights /\ bundle' = [bundle EXCEPT !.at = "refused", !.seen = bundle.seen]
    BY DEF BootInv, BootTypes
<1> QED BY <1>1, CollectGoesOn DEF BundleKnows, CollectAts

(* The machine as a collector reads it.                                    *)
LEMMA WorldReads ==
    ASSUME BootInv
    PROVE  /\ Inst \in Nat /\ Inst >= 1 /\ Image \in Files /\ world.pid \in Nat /\ world.manager \in Nat
           /\ world.frag \in Files /\ world.payload \in Files /\ Binding \in Nat
           /\ bundle.seen \in Sights /\ resumed.seen \in Sights
<1>1. world \in Worlds /\ Inst >= 1
    BY DEF BootInv, BootTypes
<1>2. Inst \in Nat /\ Inst >= 1 /\ Image \in Files
    BY <1>1 DEF Worlds, Inst, Image
<1>3. /\ world.pid \in Nat /\ world.manager \in Nat /\ world.frag \in Files /\ world.payload \in Files
      /\ Binding \in Nat
    BY <1>1 DEF Worlds, Files, Binding
<1>4. bundle.seen \in Sights /\ resumed.seen \in Sights
    BY DEF BootInv, BootTypes
<1> QED BY <1>2, <1>3, <1>4

LEMMA CollectKernelKeeps == ASSUME BootInv, CollectKernel PROVE BootInv'
<1> DEFINE seen == [bundle.seen EXCEPT !.manager = world.manager]
<1>1. seen \in Sights
    BY WorldReads DEF Sights
<1>2. CASE ThisBoot
  <2>1. BundleKnows("show", seen)
    BY <1>2, WorldReads DEF CollectKernel, Collects, BootInv, BundleSaw, BundleKnows, Sights
  <2>2. /\ UNCHANGED <<scopeVars, world, resumed, finished>> /\ bundle.at # "sealed"
        /\ bundle' = [bundle EXCEPT !.at = "show", !.seen = seen]
    BY <1>2 DEF CollectKernel, Collects
  <2> HIDE DEF seen
  <2> QED BY <1>1, <2>1, <2>2, CollectGoesOn DEF CollectAts
<1>3. CASE ~(ThisBoot)
    BY <1>3, CollectRefuses DEF CollectKernel, Collects
<1> QED BY <1>2, <1>3

LEMMA CollectShowKeeps == ASSUME BootInv, CollectShow PROVE BootInv'
<1> DEFINE seen == [bundle.seen EXCEPT !.inst = Inst, !.pid = world.pid, !.bind = Binding]
<1>1. seen \in Sights
    BY WorldReads DEF Sights
<1>2. CASE Shows
  <2>1. BundleKnows("fragment", seen)
    BY <1>2, WorldReads DEF CollectShow, Collects, BootInv, BundleSaw, BundleKnows, Sights
  <2>2. /\ UNCHANGED <<scopeVars, world, resumed, finished>> /\ bundle.at # "sealed"
        /\ bundle' = [bundle EXCEPT !.at = "fragment", !.seen = seen]
    BY <1>2 DEF CollectShow, Collects
  <2> HIDE DEF seen
  <2> QED BY <1>1, <2>1, <2>2, CollectGoesOn DEF CollectAts
<1>3. CASE ~(Shows)
    BY <1>3, CollectRefuses DEF CollectShow, Collects
<1> QED BY <1>2, <1>3

LEMMA CollectFragmentKeeps == ASSUME BootInv, CollectFragment PROVE BootInv'
<1> DEFINE seen == [bundle.seen EXCEPT !.frag = world.frag]
<1>1. seen \in Sights
    BY WorldReads DEF Sights
<1>2. CASE IsPinned(world.frag) /\ LoadedIsFragment
  <2>1. BundleKnows("payload", seen)
    BY <1>2, WorldReads DEF CollectFragment, Collects, BootInv, BundleSaw, BundleKnows, Sights
  <2>2. /\ UNCHANGED <<scopeVars, world, resumed, finished>> /\ bundle.at # "sealed"
        /\ bundle' = [bundle EXCEPT !.at = "payload", !.seen = seen]
    BY <1>2 DEF CollectFragment, Collects
  <2> HIDE DEF seen
  <2> QED BY <1>1, <2>1, <2>2, CollectGoesOn DEF CollectAts
<1>3. CASE ~(IsPinned(world.frag) /\ LoadedIsFragment)
    BY <1>3, CollectRefuses DEF CollectFragment, Collects
<1> QED BY <1>2, <1>3

LEMMA CollectPayloadKeeps == ASSUME BootInv, CollectPayload PROVE BootInv'
<1> DEFINE seen == [bundle.seen EXCEPT !.payload = world.payload]
<1>1. seen \in Sights
    BY WorldReads DEF Sights
<1>2. CASE IsPinned(world.payload)
  <2>1. BundleKnows("process", seen)
    BY <1>2, WorldReads DEF CollectPayload, Collects, BootInv, BundleSaw, BundleKnows, Sights
  <2>2. /\ UNCHANGED <<scopeVars, world, resumed, finished>> /\ bundle.at # "sealed"
        /\ bundle' = [bundle EXCEPT !.at = "process", !.seen = seen]
    BY <1>2 DEF CollectPayload, Collects
  <2> HIDE DEF seen
  <2> QED BY <1>1, <2>1, <2>2, CollectGoesOn DEF CollectAts
<1>3. CASE ~(IsPinned(world.payload))
    BY <1>3, CollectRefuses DEF CollectPayload, Collects
<1> QED BY <1>2, <1>3

LEMMA CollectProcessKeeps == ASSUME BootInv, CollectProcess PROVE BootInv'
<1> DEFINE seen == [bundle.seen EXCEPT !.birth = Inst]
<1>1. seen \in Sights
    BY WorldReads DEF Sights
<1>2. CASE Process(bundle.seen.pid) /\ IsPinned(Image)
  <2>1. BundleKnows("show2", seen)
    BY <1>2, WorldReads DEF CollectProcess, Collects, BootInv, BundleSaw, BundleKnows, IsPinned, Image
  <2>2. /\ UNCHANGED <<scopeVars, world, resumed, finished>> /\ bundle.at # "sealed"
        /\ bundle' = [bundle EXCEPT !.at = "show2", !.seen = seen]
    BY <1>2 DEF CollectProcess, Collects
  <2> HIDE DEF seen
  <2> QED BY <1>1, <2>1, <2>2, CollectGoesOn DEF CollectAts
<1>3. CASE ~(Process(bundle.seen.pid) /\ IsPinned(Image))
    BY <1>3, CollectRefuses DEF CollectProcess, Collects
<1> QED BY <1>2, <1>3

LEMMA CollectShowAgainKeeps == ASSUME BootInv, CollectShowAgain PROVE BootInv'
<1> DEFINE seen == bundle.seen
<1>1. seen \in Sights
    BY WorldReads DEF Sights
<1>2. CASE Shows /\ SameUnit(bundle.seen)
  <2>1. BundleKnows("process2", seen)
    BY <1>2, WorldReads DEF CollectShowAgain, Collects, BootInv, BundleSaw, BundleKnows, Sights, SameUnit
  <2>2. /\ UNCHANGED <<scopeVars, world, resumed, finished>> /\ bundle.at # "sealed"
        /\ bundle' = [bundle EXCEPT !.at = "process2", !.seen = seen]
    BY <1>2 DEF CollectShowAgain, Collects
  <2> HIDE DEF seen
  <2> QED BY <1>1, <2>1, <2>2, CollectGoesOn DEF CollectAts
<1>3. CASE ~(Shows /\ SameUnit(bundle.seen))
    BY <1>3, CollectRefuses DEF CollectShowAgain, Collects
<1> QED BY <1>2, <1>3

LEMMA CollectProcessAgainKeeps == ASSUME BootInv, CollectProcessAgain PROVE BootInv'
<1> DEFINE seen == bundle.seen
<1>1. seen \in Sights
    BY WorldReads DEF Sights
<1>2. CASE SameProcess(bundle.seen)
  <2>1. BundleKnows("recheck", seen)
    BY <1>2, WorldReads DEF CollectProcessAgain, Collects, BootInv, BundleSaw, BundleKnows, Sights
  <2>2. /\ UNCHANGED <<scopeVars, world, resumed, finished>> /\ bundle.at # "sealed"
        /\ bundle' = [bundle EXCEPT !.at = "recheck", !.seen = seen]
    BY <1>2 DEF CollectProcessAgain, Collects
  <2> HIDE DEF seen
  <2> QED BY <1>1, <2>1, <2>2, CollectGoesOn DEF CollectAts
<1>3. CASE ~(SameProcess(bundle.seen))
    BY <1>3, CollectRefuses DEF CollectProcessAgain, Collects
<1> QED BY <1>2, <1>3

LEMMA CollectRecheckKeeps == ASSUME BootInv, CollectRecheck PROVE BootInv'
<1> DEFINE seen == bundle.seen
<1>1. seen \in Sights
    BY WorldReads DEF Sights
<1>2. CASE world.manager = bundle.seen.manager /\ SameFiles(bundle.seen)
  <2>1. BundleKnows("seal", seen)
    BY <1>2, WorldReads DEF CollectRecheck, Collects, BootInv, BundleSaw, BundleKnows, Sights
  <2>2. /\ UNCHANGED <<scopeVars, world, resumed, finished>> /\ bundle.at # "sealed"
        /\ bundle' = [bundle EXCEPT !.at = "seal", !.seen = seen]
    BY <1>2 DEF CollectRecheck, Collects
  <2> HIDE DEF seen
  <2> QED BY <1>1, <2>1, <2>2, CollectGoesOn DEF CollectAts
<1>3. CASE ~(world.manager = bundle.seen.manager /\ SameFiles(bundle.seen))
    BY <1>3, CollectRefuses DEF CollectRecheck, Collects
<1> QED BY <1>2, <1>3

LEMMA CollectSealsKeeps == ASSUME BootInv, CollectSeals PROVE BootInv'
<1> DEFINE seen == bundle.seen
<1>1. seen \in Sights
    BY WorldReads DEF Sights
<1>2. CASE CheckRecords(bundle.seen)
  <2>1. BundleKnows("sealed", seen)
    BY <1>2, WorldReads DEF CollectSeals, Collects, BootInv, BundleSaw, BundleKnows, CheckRecords
  <2>2. /\ UNCHANGED <<scopeVars, world, resumed, finished>> /\ bundle.at # "sealed"
        /\ bundle' = [bundle EXCEPT !.at = "sealed", !.seen = seen]
    BY <1>2 DEF CollectSeals, Collects
  <2> HIDE DEF seen
  <2> QED BY <1>1, <2>1, <2>2, CollectGoesOn DEF CollectAts
<1>3. CASE ~(CheckRecords(bundle.seen))
    BY <1>3, CollectRefuses DEF CollectSeals, Collects
<1> QED BY <1>2, <1>3

LEMMA CollectNextKeeps == ASSUME BootInv, CollectNext PROVE BootInv'
<1>1. CASE CollectEnds
    BY <1>1, CollectRefuses DEF CollectEnds, Collects
<1> QED
    BY <1>1, CollectKernelKeeps, CollectShowKeeps, CollectFragmentKeeps, CollectPayloadKeeps,
       CollectProcessKeeps,
       CollectShowAgainKeeps, CollectProcessAgainKeeps, CollectRecheckKeeps, CollectSealsKeeps DEF CollectNext

-----------------------------------------------------------------------------
(* resume: the same way.                                                   *)

LEMMA ResumeGoesOn ==
    ASSUME BootInv, UNCHANGED <<mem, exported, world, bundle, finished>>,
           NEW next \in ResumeAts, NEW seen \in Sights, ResumeKnows(next, seen),
           resumed' = [resumed EXCEPT !.at = next, !.seen = seen]
    PROVE  BootInv'
<1>1. /\ resumed' \in [at : ResumeAts, intact : BOOLEAN, seen : Sights]
      /\ resumed'.at = next /\ resumed'.seen = seen
    BY DEF BootInv, BootTypes
<1>2. BootTypes' /\ BundleSaw' /\ FinishSaw'
    BY <1>1 DEF BootInv, BootTypes, BundleSaw, BundleKnows, FinishSaw, Inst
<1>3. ResumeSaw'
    BY <1>1 DEF BootInv, ResumeSaw, ResumeKnows, Inst, Image
<1> QED BY <1>2, <1>3 DEF BootInv

LEMMA ResumeRefuses ==
    ASSUME BootInv, UNCHANGED <<mem, exported, world, bundle, finished>>,
           resumed' = [resumed EXCEPT !.at = "refused"]
    PROVE  BootInv'
<1>1. resumed.seen \in Sights /\ resumed' = [resumed EXCEPT !.at = "refused", !.seen = resumed.seen]
    BY DEF BootInv, BootTypes
<1> QED BY <1>1, ResumeGoesOn DEF ResumeKnows, ResumeAts

LEMMA ResumeBundleKeeps == ASSUME BootInv, ResumeBundle PROVE BootInv'
<1> DEFINE seen == [resumed.seen EXCEPT !.manager = world.manager]
<1>1. seen \in Sights
    BY WorldReads DEF Sights
<1>2. CASE ThisBoot /\ Rederives
  <2>1. ResumeKnows("show", seen)
    BY <1>2, WorldReads DEF ResumeKnows, Rederives
  <2>2. UNCHANGED <<mem, exported, world, bundle, finished>>
        /\ resumed' = [resumed EXCEPT !.at = "show", !.seen = seen]
    BY <1>2 DEF ResumeBundle, Reads, Resumes, scopeVars
  <2> HIDE DEF seen
  <2> QED BY <1>1, <2>1, <2>2, ResumeGoesOn DEF ResumeAts
<1>3. CASE ~(ThisBoot /\ Rederives)
    BY <1>3, ResumeRefuses DEF ResumeBundle, Reads, Resumes, scopeVars
<1> QED BY <1>2, <1>3

LEMMA ResumeShowKeeps == ASSUME BootInv, ResumeShow PROVE BootInv'
<1> DEFINE seen == [resumed.seen EXCEPT !.inst = Inst, !.pid = world.pid, !.bind = Binding]
<1>1. seen \in Sights
    BY WorldReads DEF Sights
<1>2. CASE Shows /\ SameUnit(bundle.seen)
  <2>1. ResumeKnows("fragment", seen)
    BY <1>2, WorldReads DEF ResumeShow, Reads, Resumes, BootInv, ResumeSaw, ResumeKnows
  <2>2. UNCHANGED <<mem, exported, world, bundle, finished>>
        /\ resumed' = [resumed EXCEPT !.at = "fragment", !.seen = seen]
    BY <1>2 DEF ResumeShow, Reads, Resumes, scopeVars
  <2> HIDE DEF seen
  <2> QED BY <1>1, <2>1, <2>2, ResumeGoesOn DEF ResumeAts
<1>3. CASE ~(Shows /\ SameUnit(bundle.seen))
    BY <1>3, ResumeRefuses DEF ResumeShow, Reads, Resumes, scopeVars
<1> QED BY <1>2, <1>3

LEMMA ResumeFragmentKeeps == ASSUME BootInv, ResumeFragment PROVE BootInv'
<1> DEFINE seen == [resumed.seen EXCEPT !.frag = world.frag]
<1>1. seen \in Sights
    BY WorldReads DEF Sights
<1>2. CASE IsPinned(world.frag) /\ LoadedIsFragment
  <2>1. ResumeKnows("payload", seen)
    BY <1>2, WorldReads DEF ResumeFragment, Reads, Resumes, BootInv, ResumeSaw, ResumeKnows
  <2>2. UNCHANGED <<mem, exported, world, bundle, finished>>
        /\ resumed' = [resumed EXCEPT !.at = "payload", !.seen = seen]
    BY <1>2 DEF ResumeFragment, Reads, Resumes, scopeVars
  <2> HIDE DEF seen
  <2> QED BY <1>1, <2>1, <2>2, ResumeGoesOn DEF ResumeAts
<1>3. CASE ~(IsPinned(world.frag) /\ LoadedIsFragment)
    BY <1>3, ResumeRefuses DEF ResumeFragment, Reads, Resumes, scopeVars
<1> QED BY <1>2, <1>3

LEMMA ResumePayloadKeeps == ASSUME BootInv, ResumePayload PROVE BootInv'
<1> DEFINE seen == [resumed.seen EXCEPT !.payload = world.payload]
<1>1. seen \in Sights
    BY WorldReads DEF Sights
<1>2. CASE IsPinned(world.payload)
  <2>1. ResumeKnows("link", seen)
    BY <1>2, WorldReads DEF ResumePayload, Reads, Resumes, BootInv, ResumeSaw, ResumeKnows, IsPinned
  <2>2. UNCHANGED <<mem, exported, world, bundle, finished>>
        /\ resumed' = [resumed EXCEPT !.at = "link", !.seen = seen]
    BY <1>2 DEF ResumePayload, Reads, Resumes, scopeVars
  <2> HIDE DEF seen
  <2> QED BY <1>1, <2>1, <2>2, ResumeGoesOn DEF ResumeAts
<1>3. CASE ~(IsPinned(world.payload))
    BY <1>3, ResumeRefuses DEF ResumePayload, Reads, Resumes, scopeVars
<1> QED BY <1>2, <1>3

LEMMA ResumeLinkKeeps == ASSUME BootInv, ResumeLink PROVE BootInv'
<1> DEFINE seen == resumed.seen
<1>1. seen \in Sights
    BY WorldReads DEF Sights
<1>2. CASE world.enabled /\ ExeIsPayload(resumed.seen)
  <2>1. ResumeKnows("process", seen)
    BY <1>2, WorldReads DEF ResumeLink, Reads, Resumes, BootInv, ResumeSaw, ResumeKnows, ExeIsPayload
  <2>2. UNCHANGED <<mem, exported, world, bundle, finished>>
        /\ resumed' = [resumed EXCEPT !.at = "process", !.seen = seen]
    BY <1>2 DEF ResumeLink, Reads, Resumes, scopeVars
  <2> HIDE DEF seen
  <2> QED BY <1>1, <2>1, <2>2, ResumeGoesOn DEF ResumeAts
<1>3. CASE ~(world.enabled /\ ExeIsPayload(resumed.seen))
    BY <1>3, ResumeRefuses DEF ResumeLink, Reads, Resumes, scopeVars
<1> QED BY <1>2, <1>3

LEMMA ResumeProcessKeeps == ASSUME BootInv, ResumeProcess PROVE BootInv'
<1> DEFINE seen == [resumed.seen EXCEPT !.birth = Inst]
<1>1. seen \in Sights
    BY WorldReads DEF Sights
<1>2. CASE SameProcess(bundle.seen) /\ IsPinned(Image)
  <2>1. ResumeKnows("journal", seen)
    BY <1>2, WorldReads DEF ResumeProcess, Reads, Resumes, BootInv, ResumeSaw, ResumeKnows, SameProcess, Image
  <2>2. UNCHANGED <<mem, exported, world, bundle, finished>>
        /\ resumed' = [resumed EXCEPT !.at = "journal", !.seen = seen]
    BY <1>2 DEF ResumeProcess, Reads, Resumes, scopeVars
  <2> HIDE DEF seen
  <2> QED BY <1>1, <2>1, <2>2, ResumeGoesOn DEF ResumeAts
<1>3. CASE ~(SameProcess(bundle.seen) /\ IsPinned(Image))
    BY <1>3, ResumeRefuses DEF ResumeProcess, Reads, Resumes, scopeVars
<1> QED BY <1>2, <1>3

LEMMA ResumeJournalKeeps == ASSUME BootInv, ResumeJournal PROVE BootInv'
<1> DEFINE seen == resumed.seen
<1>1. seen \in Sights
    BY WorldReads DEF Sights
<1>2. CASE CheckJournal
  <2>1. ResumeKnows("apply", seen)
    BY <1>2, WorldReads DEF ResumeJournal, Reads, Resumes, BootInv, ResumeSaw, ResumeKnows
  <2>2. UNCHANGED <<mem, exported, world, bundle, finished>>
        /\ resumed' = [resumed EXCEPT !.at = "apply", !.seen = seen]
    BY <1>2 DEF ResumeJournal, Reads, Resumes, scopeVars
  <2> HIDE DEF seen
  <2> QED BY <1>1, <2>1, <2>2, ResumeGoesOn DEF ResumeAts
<1>3. CASE ~(CheckJournal)
    BY <1>3, ResumeRefuses DEF ResumeJournal, Reads, Resumes, scopeVars
<1> QED BY <1>2, <1>3

LEMMA ResumeReceiptKeeps == ASSUME BootInv, ScopeInv, ResumeReceipt PROVE BootInv'
<1> DEFINE seen == resumed.seen
<1>1. seen \in Sights
    BY WorldReads DEF Sights
<1>2. CASE ReceiptFits
  <2>1. ResumeKnows("again", seen)
    BY <1>2, WorldReads DEF ResumeReceipt, Reads, Resumes, BootInv, ResumeSaw, ResumeKnows, ReceiptFits,
       ScopeInv, GotIsTrue
  <2>2. UNCHANGED <<mem, exported, world, bundle, finished>>
        /\ resumed' = [resumed EXCEPT !.at = "again", !.seen = seen]
    BY <1>2 DEF ResumeReceipt, Reads, Resumes, scopeVars
  <2> HIDE DEF seen
  <2> QED BY <1>1, <2>1, <2>2, ResumeGoesOn DEF ResumeAts
<1>3. CASE ~(ReceiptFits)
    BY <1>3, ResumeRefuses DEF ResumeReceipt, Reads, Resumes, scopeVars
<1> QED BY <1>2, <1>3

LEMMA ResumeRechecksUnitKeeps == ASSUME BootInv, ResumeRechecksUnit PROVE BootInv'
<1> DEFINE seen == resumed.seen
<1>1. seen \in Sights
    BY WorldReads DEF Sights
<1>2. CASE SameProcess(bundle.seen) /\ world.manager = resumed.seen.manager /\ SameUnit(bundle.seen)
  <2>1. ResumeKnows("files", seen)
    BY <1>2, WorldReads DEF ResumeRechecksUnit, Reads, Resumes, BootInv, ResumeSaw, ResumeKnows
  <2>2. UNCHANGED <<mem, exported, world, bundle, finished>>
        /\ resumed' = [resumed EXCEPT !.at = "files", !.seen = seen]
    BY <1>2 DEF ResumeRechecksUnit, Reads, Resumes, scopeVars
  <2> HIDE DEF seen
  <2> QED BY <1>1, <2>1, <2>2, ResumeGoesOn DEF ResumeAts
<1>3. CASE ~(SameProcess(bundle.seen) /\ world.manager = resumed.seen.manager /\ SameUnit(bundle.seen))
    BY <1>3, ResumeRefuses DEF ResumeRechecksUnit, Reads, Resumes, scopeVars
<1> QED BY <1>2, <1>3

LEMMA ResumeRechecksFilesKeeps == ASSUME BootInv, ResumeRechecksFiles PROVE BootInv'
<1> DEFINE seen == resumed.seen
<1>1. seen \in Sights
    BY WorldReads DEF Sights
<1>2. CASE SameFiles(resumed.seen) /\ world.enabled /\ ExeIsPayload(resumed.seen)
  <2>1. ResumeKnows("seal", seen)
    BY <1>2, WorldReads DEF ResumeRechecksFiles, Reads, Resumes, BootInv, ResumeSaw, ResumeKnows
  <2>2. UNCHANGED <<mem, exported, world, bundle, finished>>
        /\ resumed' = [resumed EXCEPT !.at = "seal", !.seen = seen]
    BY <1>2 DEF ResumeRechecksFiles, Reads, Resumes, scopeVars
  <2> HIDE DEF seen
  <2> QED BY <1>1, <2>1, <2>2, ResumeGoesOn DEF ResumeAts
<1>3. CASE ~(SameFiles(resumed.seen) /\ world.enabled /\ ExeIsPayload(resumed.seen))
    BY <1>3, ResumeRefuses DEF ResumeRechecksFiles, Reads, Resumes, scopeVars
<1> QED BY <1>2, <1>3

LEMMA ResumeAppliesKeeps == ASSUME BootInv, ResumeApplies PROVE BootInv'
<1>1. resumed.at = "apply" /\ UNCHANGED <<mem, exported, world, bundle, finished>>
    BY DEF ResumeApplies, Apply
<1>2. resumed.seen \in Sights /\ resumed' = [resumed EXCEPT !.at = "receipt", !.seen = resumed.seen]
    BY DEF ResumeApplies, BootInv, BootTypes
<1>3. ResumeKnows("receipt", resumed.seen)
    BY <1>1 DEF BootInv, ResumeSaw, ResumeKnows
<1> QED BY <1>1, <1>2, <1>3, ResumeGoesOn DEF ResumeAts

LEMMA ResumeSealsKeeps == ASSUME BootInv, ResumeSeals PROVE BootInv'
<1>1. resumed.at = "seal" /\ UNCHANGED <<mem, exported, world, bundle, finished>>
    BY DEF ResumeSeals, Reads, Resumes, scopeVars
<1>2. resumed.seen \in Sights /\ resumed' = [resumed EXCEPT !.at = "sealed", !.seen = resumed.seen]
    BY DEF ResumeSeals, Reads, Resumes, BootInv, BootTypes
<1>3. ResumeKnows("sealed", resumed.seen)
    BY <1>1 DEF BootInv, ResumeSaw, ResumeKnows
<1> QED BY <1>1, <1>2, <1>3, ResumeGoesOn DEF ResumeAts

LEMMA ResumeNextKeeps == ASSUME BootInv, ScopeInv, ResumeNext PROVE BootInv'
<1>1. CASE ResumeEnds
    BY <1>1, ResumeRefuses DEF ResumeEnds, Reads, Resumes, scopeVars
<1> QED
    BY <1>1, ResumeBundleKeeps, ResumeShowKeeps, ResumeFragmentKeeps, ResumePayloadKeeps, ResumeLinkKeeps,
       ResumeProcessKeeps, ResumeJournalKeeps, ResumeAppliesKeeps, ResumeReceiptKeeps,
       ResumeRechecksUnitKeeps,
       ResumeRechecksFilesKeeps, ResumeSealsKeeps DEF ResumeNext

-----------------------------------------------------------------------------
(* finish, the other calls of the owner, and a reboot.                     *)

LEMMA FinishGoesOn ==
    ASSUME BootInv, UNCHANGED <<world, bundle, resumed, mem>>,
           finished' \in {"new", "stop", "export", "copy", "sealed", "refused"}, FinishSaw'
    PROVE  BootInv'
<1>1. BootTypes' /\ BundleSaw'
    BY DEF BootInv, BootTypes, BundleSaw, BundleKnows, Inst
<1>2. ResumeSaw'
    BY DEF BootInv, ResumeSaw, ResumeKnows, Inst, Image
<1> QED BY <1>1, <1>2 DEF BootInv

LEMMA FinishNextKeeps == ASSUME BootInv, ScopeInv, FinishNext PROVE BootInv'
<1>1. CASE FinishStops
    BY <1>1, FinishGoesOn DEF FinishStops, FinishTo, Submit, RecoverStop, FinishSaw
<1>2. CASE FinishStopped
    BY <1>2, FinishGoesOn DEF FinishStopped, FinishTo, FinishSaw, scopeVars
<1>3. CASE FinishExports
  <2>1. CASE Exportable /\ Export /\ FinishTo("copy")
    <3>1. file \in States /\ exported' = file /\ UNCHANGED mem
        BY <2>1 DEF Export, ScopeInv, ScopeTypes
    <3>2. file.status = "STOPPED" /\ file.gen = 1
        BY <2>1, <3>1 DEF Exportable, Snapshot, States, Terminal
    <3> QED BY <2>1, <3>1, <3>2, FinishGoesOn DEF FinishTo, FinishSaw
  <2>2. CASE FinishTo("refused") /\ UNCHANGED scopeVars
    BY <2>2, FinishGoesOn DEF FinishTo, FinishSaw, scopeVars
  <2> QED BY <1>3, <2>1, <2>2 DEF FinishExports
<1>4. CASE FinishCopies
    BY <1>4, FinishGoesOn DEF FinishCopies, FinishTo, FinishSaw, BootInv, scopeVars
<1> QED BY <1>1, <1>2, <1>3, <1>4 DEF FinishNext

LEMMA OwnerCallsKeep == ASSUME BootInv, OwnerCalls PROVE BootInv'
<1>1. finished = "new" /\ UNCHANGED bootVars /\ UNCHANGED mem
    BY DEF OwnerCalls, Submit, Export
<1> QED BY <1>1, BootKeeps

LEMMA RebootsBoot == ASSUME BootInv, Reboots PROVE BootInv'
<1>1. /\ world' = [world EXCEPT !.boot = 1, !.imgs = Append(@, world.payload), !.loaded = world.frag.v]
      /\ world \in Worlds /\ Append(world.imgs, world.payload) \in Seq(Files) /\ world.frag.v \in Nat
    BY DEF Reboots, BootInv, BootTypes, Worlds, Files
<1>2. world' \in Worlds /\ world'.imgs = Append(world.imgs, world.payload)
    BY <1>1 DEF Worlds
<1>3. Inst \in Nat /\ Inst >= 1 /\ Inst' \in Nat /\ Inst' = Inst + 1
      /\ \A n \in 1..Inst : world'.imgs[n] = world.imgs[n]
    BY <1>1, <1>2 DEF BootInv, BootTypes, Worlds, Inst
<1>4. /\ bundle' \in [at : CollectAts, intact : BOOLEAN, seen : Sights] /\ bundle'.seen = bundle.seen
      /\ bundle'.at = IF bundle.at = "sealed" THEN "sealed" ELSE "refused"
    BY DEF Reboots, BootInv, BootTypes, CollectAts
<1>5. /\ resumed' \in [at : ResumeAts, intact : BOOLEAN, seen : Sights] /\ resumed'.seen = resumed.seen
      /\ resumed'.at = IF resumed.at = "sealed" THEN "sealed" ELSE "refused"
    BY DEF Reboots, BootInv, BootTypes, ResumeAts
<1>6. UNCHANGED <<mem, exported>> /\ finished' \in {finished, "refused"} /\ bundle.seen \in Sights
    BY DEF Reboots, BootInv, BootTypes
<1>7. BootTypes' /\ FinishSaw'
    BY <1>2, <1>3, <1>4, <1>5, <1>6 DEF BootInv, BootTypes, FinishSaw
<1>8. BundleSaw'
    BY <1>3, <1>4, <1>6 DEF BootInv, BundleSaw, BundleKnows, Sights
<1>9. ResumeSaw'
  <2>1. resumed.at = "sealed" => bundle.seen.birth \in 1..Inst
    BY <1>3, <1>6 DEF BootInv, BundleSaw, BundleKnows, ResumeSaw, ResumeKnows, Sights
  <2> QED BY <2>1, <1>3, <1>4, <1>5, <1>6 DEF BootInv, ResumeSaw, ResumeKnows
<1> QED BY <1>7, <1>8, <1>9 DEF BootInv

(* Every step of the boot service keeps both.                              *)
LEMMA BootNextKeeps == ASSUME ScopeInv, BootInv, BootNext PROVE ScopeInv' /\ BootInv'
<1>1. ASSUME UNCHANGED scopeVars PROVE ScopeInv'
    BY <1>1 DEF scopeVars, ScopeInv, ScopeTypes, Unstarted, Generation, Detachment, MemStopped, Whole,
       AppliedTo,
       StoppedWhole, GotIsTrue, ExportedIsOver, Running, ProbeAlive
<1>2. ASSUME UNCHANGED <<file, mem, worker, probe, request, response, call, clock, exported>> PROVE ScopeInv'
    BY <1>2 DEF ScopeInv, ScopeTypes, Unstarted, Generation, Detachment, MemStopped, Whole, AppliedTo,
       StoppedWhole, GotIsTrue, ExportedIsOver, Running, ProbeAlive
<1>3. CASE WorldDrifts
    BY <1>2, <1>3, DriftKeeps DEF WorldDrifts
<1>4. CASE SealedChanges
    BY <1>2, <1>4, TouchKeeps DEF SealedChanges
<1>5. CASE CollectNext
  <2>1. UNCHANGED scopeVars
    BY <1>5 DEF CollectNext, CollectKernel, CollectShow, CollectFragment, CollectPayload, CollectProcess,
       CollectShowAgain, CollectProcessAgain, CollectRecheck, CollectSeals, CollectEnds, Collects
  <2> QED BY <1>1, <1>5, <2>1, CollectNextKeeps
<1>6. CASE ResumeNext
  <2>1. UNCHANGED scopeVars \/ Apply
    BY <1>6 DEF ResumeNext, ResumeBundle, ResumeShow, ResumeFragment, ResumePayload, ResumeLink,
       ResumeProcess,
       ResumeJournal, ResumeApplies, ResumeReceipt, ResumeRechecksUnit, ResumeRechecksFiles, ResumeSeals,
       ResumeEnds, Reads
  <2> QED BY <1>1, <1>6, <2>1, ResumeNextKeeps, ApplyKeeps
<1>7. CASE FinishNext
  <2>1. UNCHANGED scopeVars \/ ScopeStep
    BY <1>7 DEF FinishNext, FinishStops, FinishStopped, FinishExports, FinishCopies, ScopeStep, Kinds
  <2> QED BY <1>1, <1>7, <2>1, FinishNextKeeps, ScopeStepKeeps
<1>8. CASE OwnerCalls
    BY <1>8, OwnerCallsKeep, ScopeStepKeeps DEF OwnerCalls, ScopeStep
<1>9. CASE Reboots
    BY <1>9, RebootsBoot, RebootsKeeps
<1>10. CASE (WorkerNext \/ ProbeNext \/ CallGoesOn) /\ UNCHANGED bootVars
  <2>1. ScopeStep /\ exported' = exported
    BY ZenonT(60), <1>10 DEF ScopeStep, WorkerNext, WorkerStarts, Launch, AttachStarted, Attached, AttachFails, Reply,
       Replied,
       Turn, ListRequests, Take, SourceFails, Detach, Detached, Change, ExtendedTooLate, Finally, Final,
       Killed,
       ProbeNext, ProbeReady, ProbeEnds, Deadline, Expiry, CallGoesOn, Submitted, Await, AwaitTimesOut,
       StopExits, Receipt
  <2> QED BY <1>10, <2>1, ScopeStepKeeps, GenerationGrows, BootKeeps
<1> QED BY <1>3, <1>4, <1>5, <1>6, <1>7, <1>8, <1>9, <1>10 DEF BootNext

-----------------------------------------------------------------------------
(* The drain thread and the opens that wait for it.                        *)

(* An event that is posted stays behind what already waits.                *)
LEMMA Posted ==
    ASSUME drain \in Drains, NEW e \in Events
    PROVE  /\ Post(e) \in Drains /\ Post(e).at = drain.at
           /\ \A i \in DOMAIN drain.queue : i \in DOMAIN Post(e).queue /\ Post(e).queue[i] = drain.queue[i]
           /\ drain.at \in {"on", "leased"} => \E i \in DOMAIN Post(e).queue : Post(e).queue[i] = e
<1>1. CASE drain.at \in {"on", "leased"}
  <2>1. /\ Append(drain.queue, e) \in Seq(Events) /\ drain.queue \in Seq(Events)
        /\ \A i \in DOMAIN drain.queue : i \in DOMAIN Append(drain.queue, e)
           /\ Append(drain.queue, e)[i] = drain.queue[i]
        /\ Len(drain.queue) + 1 \in DOMAIN Append(drain.queue, e)
        /\ Append(drain.queue, e)[Len(drain.queue) + 1] = e
    BY DEF Drains
  <2>2. Post(e) = [drain EXCEPT !.queue = Append(drain.queue, e)]
    BY <1>1 DEF Post
  <2>3. Post(e) \in Drains /\ Post(e).at = drain.at /\ Post(e).queue = Append(drain.queue, e)
    BY <2>1, <2>2 DEF Drains
  <2> QED BY <2>1, <2>3
<1>2. CASE drain.at \notin {"on", "leased"}
    BY <1>2 DEF Post
<1> QED BY <1>1, <1>2

(* What waits goes on waiting with its event; nobody else begins to wait.  *)
LEMMA StillAnswered ==
    ASSUME OpensInv, disk' \in [Artifacts -> Versions], manager' \in Managers, drain' \in Drains,
           manager'.load = "opening" => manager.load = "opening",
           manager'.fire = "opening" => manager.fire = "opening",
           drain.at # "over" => drain'.at # "over",
           \A i \in DOMAIN drain.queue : i \in DOMAIN drain'.queue /\ drain'.queue[i] = drain.queue[i]
    PROVE  OpensInv'
<1>1. (Queued("load") => Queued("load")') /\ (Queued("exec") => Queued("exec")')
    BY DEF Queued
<1>2. OpensAreAnswered'
    BY <1>1 DEF OpensInv, OpensAreAnswered
<1> QED BY <1>2 DEF OpensInv

(* The files, the manager and the drain thread as an action finds them.    *)
LEMMA OpensTyped ==
    ASSUME OpensInv
    PROVE  /\ disk \in [Artifacts -> Versions] /\ \A n \in Artifacts : disk[n] \in Versions
           /\ manager \in Managers /\ manager.fd \in Versions /\ drain \in Drains
              /\ drain.queue \in Seq(Events)
           /\ Absent \in Versions /\ "payload" \in Artifacts /\ "definition" \in Artifacts
           /\ \A n \in Artifacts : drain.held[n] \in Versions /\ Contents(n) \in Nat
<1>1. disk \in [Artifacts -> Versions] /\ manager \in Managers /\ drain \in Drains
    BY DEF OpensInv
<1> QED BY <1>1 DEF Artifacts, Versions, Absent, Managers, Drains, Contents

(* A step that leaves manager and drain alone, or moves them with nothing  *)
(* asked and nothing taken from the queue.                                 *)
LEMMA AloneKeeps == ASSUME OpensInv, UNCHANGED <<disk, manager, drain>> PROVE OpensInv'
BY OpensTyped, StillAnswered

LEMMA RootWritesKeeps == ASSUME OpensInv, NEW n \in Artifacts, RootWrites(n) PROVE OpensInv'
<1> DEFINE e == Event("close", n, disk'[n])
<1>1. disk' \in [Artifacts -> Versions] /\ disk'[n] \in Versions
    BY OpensTyped DEF RootWrites, Versions
<1>2. e \in Events /\ drain' = Post(e) /\ UNCHANGED manager
    BY <1>1 DEF RootWrites, Event, Events, Versions
<1> HIDE DEF e
<1> QED BY <1>1, <1>2, OpensTyped, Posted, StillAnswered

LEMMA RewriteKeeps == ASSUME OpensInv, NEW n \in Artifacts, Rewrite(n) PROVE OpensInv'
<1>1. PICK written \in BOOLEAN :
        /\ disk' = IF written THEN [disk EXCEPT ![n].ver = @ + 1] ELSE disk
        /\ drain' = [(IF written THEN Post(Event("close", n, disk'[n])) ELSE drain)
                     EXCEPT !.broken = @ \/ Leased(n)]
    BY DEF Rewrite
<1>2. disk' \in [Artifacts -> Versions] /\ disk'[n] \in Versions
  <2> DEFINE f == [disk[n] EXCEPT !.ver = disk[n].ver + 1]
  <2>1. disk[n] \in Versions
    BY OpensTyped
  <2>2. disk[n].ver + 1 \in Nat
    BY <2>1 DEF Versions
  <2>3. f \in Versions
    BY <2>1, <2>2 DEF Versions
  <2>4. disk' = IF written THEN [disk EXCEPT ![n] = f] ELSE disk
    BY <1>1
  <2> HIDE DEF f
  <2> QED BY <2>3, <2>4, OpensTyped
<1> DEFINE e == Event("close", n, disk'[n])
           d == IF written THEN Post(e) ELSE drain
<1>3. e \in Events
    BY <1>2 DEF Event, Events, Versions
<1> HIDE DEF e
<1>4. /\ d \in Drains /\ d.at = drain.at
      /\ \A i \in DOMAIN drain.queue : i \in DOMAIN d.queue /\ d.queue[i] = drain.queue[i]
    BY <1>3, OpensTyped, Posted
<1>5. drain' = [d EXCEPT !.broken = d.broken \/ Leased(n)]
    BY <1>1 DEF e
<1> HIDE DEF d
<1>6. drain' \in Drains /\ drain'.at = d.at /\ drain'.queue = d.queue
    BY <1>4, <1>5 DEF Drains, Leased
<1>7. UNCHANGED manager
    BY DEF Rewrite
<1> QED BY <1>2, <1>4, <1>6, <1>7, OpensTyped, StillAnswered

LEMMA ReplaceKeeps == ASSUME OpensInv, NEW n \in Artifacts, Replace(n) PROVE OpensInv'
<1> DEFINE f == [ino |-> disk[n].ino + 1, ver |-> disk[n].ver + 1]
<1>1. f \in Versions
    BY SMTT(30), OpensTyped DEF Versions
<1>2. disk' = [disk EXCEPT ![n] = f] /\ UNCHANGED <<manager, drain>>
    BY DEF Replace
<1> HIDE DEF f
<1>3. disk' \in [Artifacts -> Versions]
    BY <1>1, <1>2, OpensTyped
<1> QED BY <1>2, <1>3, OpensTyped, StillAnswered

(* An open that is asked posts its event: it waits only for a drain thread *)
(* that runs.                                                              *)
LEMMA AskedKeeps ==
    ASSUME OpensInv, NEW e \in Events, drain' = Post(e), disk' = disk, manager' \in Managers,
           \/ e.is = "load" /\ manager'.load = Opens("definition") /\ manager'.fire = manager.fire
           \/ e.is = "exec" /\ manager'.fire = Opens("payload") /\ manager'.load = manager.load
    PROVE  OpensInv'
<1>1. drain' \in Drains /\ drain'.at = drain.at
    BY OpensTyped, Posted
<1>2. (Queued("load") => Queued("load")') /\ (Queued("exec") => Queued("exec")')
    BY <1>1, OpensTyped, Posted DEF Queued
<1>3. drain.at \in {"on", "leased"} => \E i \in DOMAIN drain'.queue : drain'.queue[i] = e
    BY OpensTyped, Posted
<1>4. OpensAreAnswered'
    BY <1>1, <1>2, <1>3 DEF OpensInv, OpensAreAnswered, Opens, Queued
<1> QED BY <1>1, <1>4, OpensTyped DEF OpensInv

LEMMA ManagerOpensKeeps == ASSUME OpensInv, ManagerOpens PROVE OpensInv'
<1> DEFINE e == Event("load", "definition", disk["definition"])
<1>1. e \in Events /\ e.is = "load" /\ drain' = Post(e) /\ UNCHANGED disk
    BY OpensTyped DEF ManagerOpens, Event, Events, Versions
<1>2. manager' \in Managers /\ manager'.load = Opens("definition") /\ manager'.fire = manager.fire
    BY OpensTyped DEF ManagerOpens, Managers, Opens
<1> QED BY <1>1, <1>2, AskedKeeps

LEMMA FiresKeeps == ASSUME OpensInv, Fires PROVE OpensInv'
<1> DEFINE e == Event("exec", "payload", disk["payload"])
<1>1. e \in Events /\ e.is = "exec" /\ drain' = Post(e) /\ UNCHANGED disk
    BY OpensTyped DEF Fires, Event, Events, Versions
<1>2. manager' \in Managers /\ manager'.fire = Opens("payload") /\ manager'.load = manager.load
    BY OpensTyped DEF Fires, Managers, Opens
<1> QED BY <1>1, <1>2, AskedKeeps

LEMMA ManagerGoesOn == ASSUME OpensInv, ManagerLoads \/ Execs \/ PayloadExits PROVE OpensInv'
<1>1. manager' \in Managers /\ (manager'.load = "opening" => manager.load = "opening")
                            /\ (manager'.fire = "opening" => manager.fire = "opening")
    BY OpensTyped DEF ManagerLoads, Execs, PayloadExits, Managers
<1>2. UNCHANGED <<disk, drain>>
    BY DEF ManagerLoads, Execs, PayloadExits
<1> QED BY <1>1, <1>2, OpensTyped, StillAnswered

(* The drain thread ends: whatever waits is let go.                        *)
LEMMA StopsKeeps == ASSUME OpensInv, NEW failed \in BOOLEAN, Stops(failed), UNCHANGED disk PROVE OpensInv'
<1>1. manager' \in Managers /\ manager'.load # "opening" /\ manager'.fire # "opening"
    BY OpensTyped DEF Stops, AllowAll, Managers
<1>2. drain' \in Drains
  <2>1. Release \in Drains
    <3>1. <<>> \in Seq(Events)
        OBVIOUS
    <3> QED BY <3>1, OpensTyped DEF Release, Drains
  <2> QED BY <2>1 DEF Stops, Drains
<1> QED BY <1>1, <1>2, OpensTyped DEF OpensInv, OpensAreAnswered

(* The event at the head is handled: its open, and no other, is answered.  *)
LEMMA HandledKeeps ==
    ASSUME OpensInv, drain.queue # <<>>, drain' \in Drains, drain'.at # "over",
           drain'.queue = Tail(drain.queue),
           manager' \in Managers, UNCHANGED disk,
           manager'.load = "opening" => manager.load = "opening" /\ Head(drain.queue).is # "load",
           manager'.fire = "opening" => manager.fire = "opening" /\ Head(drain.queue).is # "exec"
    PROVE  OpensInv'
<1>1. ASSUME NEW is, Queued(is), Head(drain.queue).is # is
      PROVE  Queued(is)'
  <2>1. PICK i \in DOMAIN drain.queue : drain.queue[i].is = is
    BY <1>1 DEF Queued
  <2>2. i \in 1..Len(drain.queue) /\ drain.queue \in Seq(Events) /\ i # 1
    BY <1>1, <2>1, OpensTyped
  <2>3. i - 1 \in DOMAIN Tail(drain.queue) /\ Tail(drain.queue)[i - 1] = drain.queue[i]
    BY <2>2
  <2> QED BY <2>1, <2>3 DEF Queued
<1>2. OpensAreAnswered'
    BY <1>1 DEF OpensInv, OpensAreAnswered
<1> QED BY <1>2, OpensTyped DEF OpensInv

LEMMA DrainHandlesKeeps == ASSUME OpensInv, DrainHandles PROVE OpensInv'
<1> DEFINE e == Head(drain.queue)
<1>1. e \in Events /\ Tail(drain.queue) \in Seq(Events) /\ drain.queue # <<>> /\ drain.at = "on"
    BY OpensTyped DEF DrainHandles
<1>2. CASE Stops(TRUE)
    BY <1>2, StopsKeeps DEF DrainHandles
<1>3. CASE e.is = "close" /\ Leasable(e) /\ ~Stops(TRUE)
  <2>1. Seen(e) \in Versions
    BY <1>1, OpensTyped DEF Seen, Events, Versions
  <2>2. /\ drain' = [[drain EXCEPT !.queue = Tail(@)] EXCEPT !.at = "leased", !.held[e.name] = Seen(e),
           !.now = e.name]
        /\ UNCHANGED <<disk, manager>>
    BY <1>3 DEF DrainHandles
  <2>3. e.name \in Artifacts
    BY <1>1 DEF Events
  <2>4. drain' = [drain EXCEPT !.queue = Tail(drain.queue), !.at = "leased",
                               !.held = [drain.held EXCEPT ![e.name] = Seen(e)], !.now = e.name]
    BY <2>2, OpensTyped DEF Drains
  <2>5. [drain.held EXCEPT ![e.name] = Seen(e)] \in [Artifacts -> Versions]
    BY <2>1, OpensTyped DEF Drains
  <2> HIDE DEF e
  <2>6. drain' \in Drains /\ drain'.at = "leased" /\ drain'.queue = Tail(drain.queue)
    BY <1>1, <2>3, <2>4, <2>5, OpensTyped DEF Drains
  <2> QED BY <1>1, <1>3, <2>2, <2>6, OpensTyped, HandledKeeps DEF e
<1>4. CASE e.is # "close" /\ UsesHeld(e) /\ ~Stops(TRUE)
  <2>1. drain' = [drain EXCEPT !.queue = Tail(@)] /\ manager' = Allow(manager, e.is) /\ UNCHANGED disk
    BY <1>4 DEF DrainHandles
  <2>2. e.is \in {"load", "exec"}
    BY <1>1, <1>4 DEF Events
  <2>3. drain' \in Drains /\ drain'.at = "on" /\ drain'.queue = Tail(drain.queue)
    BY <1>1, <2>1, OpensTyped DEF Drains
  <2>4. manager' \in Managers /\ (manager'.load = "opening" => manager.load = "opening" /\ e.is # "load")
                              /\ (manager'.fire = "opening" => manager.fire = "opening" /\ e.is # "exec")
    BY <2>1, <2>2, OpensTyped DEF Allow, Managers
  <2> QED BY <1>1, <2>1, <2>3, <2>4, HandledKeeps
<1> QED BY <1>2, <1>3, <1>4 DEF DrainHandles

LEMMA DrainRecordsKeeps == ASSUME OpensInv, DrainRecords PROVE OpensInv'
<1>1. drain' \in Drains /\ drain'.at = "on" /\ drain'.queue = drain.queue /\ UNCHANGED <<disk, manager>>
    BY OpensTyped DEF DrainRecords, Drains
<1> QED BY <1>1, OpensTyped, StillAnswered

LEMMA CollectorStartsKeeps == ASSUME OpensInv, CollectorStarts PROVE OpensInv'
<1>1. drain' \in Drains /\ drain'.at = "on" /\ drain'.queue = drain.queue /\ UNCHANGED <<disk, manager>>
    BY OpensTyped DEF CollectorStarts, Drains
<1> QED BY <1>1, OpensTyped, StillAnswered

LEMMA CloseBeginsKeeps == ASSUME OpensInv, CloseBegins PROVE OpensInv'
<1>1. PICK stopped \in BOOLEAN :
        /\ drain' = [drain EXCEPT !.finish = TRUE, !.error = @ \/ ~stopped]
        /\ manager' = IF stopped /\ manager.fire = "runs" THEN [manager EXCEPT !.fire = "gone"] ELSE manager
    BY DEF CloseBegins
<1>2. drain' \in Drains /\ drain'.at = drain.at /\ drain'.queue = drain.queue
    BY <1>1, OpensTyped DEF Drains
<1>3. manager' \in Managers /\ manager'.load = manager.load
      /\ (manager'.fire = "opening" => manager.fire = "opening")
    BY <1>1, OpensTyped DEF Managers
<1>4. UNCHANGED disk
    BY DEF CloseBegins
<1> QED BY <1>2, <1>3, <1>4, OpensTyped, StillAnswered

LEMMA EvidenceNextKeeps == ASSUME OpensInv, EvidenceNext PROVE OpensInv'
<1>1. CASE RootExec \/ RootExits \/ KernelDrains \/ ScopeExtends
    BY <1>1, AloneKeeps DEF RootExec, RootExits, KernelDrains, ScopeExtends
<1>2. CASE \/ TickProbes \/ TickObserves \/ CronTick \/ Admit \/ AdmitRefuses
           \/ (\E receipt \in BOOLEAN : Admitted(receipt)) \/ InstallTick \/ InstallCopies
           \/ (\E loaded \in BOOLEAN : InstallEnds(loaded)) \/ CloseEnds \/ CloseTimesOut
    BY <1>2, AloneKeeps DEF TickProbes, TickObserves, CronTick, Admit, AdmitRefuses, Admitted, InstallTick,
       InstallCopies,
       InstallEnds, CloseEnds, CloseTimesOut
<1>3. CASE DrainStops
    BY <1>3, StopsKeeps, OpensTyped DEF DrainStops, Drains
<1>4. CASE DrainFails
    BY <1>4, StopsKeeps DEF DrainFails
<1> QED
    BY <1>1, <1>2, <1>3, <1>4, RootWritesKeeps, RewriteKeeps, ReplaceKeeps, ManagerOpensKeeps, FiresKeeps,
       ManagerGoesOn,
       DrainHandlesKeeps, DrainRecordsKeeps, CollectorStartsKeeps, CloseBeginsKeeps
    DEF EvidenceNext, WorldNext, CollectorNext

-----------------------------------------------------------------------------
(* The invariant of the collections, and what follows from it.             *)

vars == <<scopeVars, bootVars, evidenceVars>>

LEMMA InitHolds == ASSUME CollectionInit PROVE IInv
<1>1. ScopeTypes
    BY ScopeBounds, Constants DEF CollectionInit, ScopeInit, ScopeTypes, Workers, WorkerAts, Jobs, Probes,
       Asked
<1>2. ScopeInv
    BY <1>1, Constants DEF CollectionInit, ScopeInit, ScopeInv, Unstarted, Generation, Detachment, MemStopped,
       Whole, AppliedTo, StoppedWhole, GotIsTrue, ExportedIsOver, NoFile
<1>3. Pinned \in Files /\ Unseen \in Sights
    BY DEF Pinned, Files, Unseen, Sights
<1>4. BootTypes
    BY <1>3 DEF CollectionInit, BootInit, BootTypes, Worlds, Inst, CollectAts, ResumeAts
<1>5. BootInv
    BY <1>3, <1>4 DEF CollectionInit, BootInit, BootInv, BundleSaw, BundleKnows, ResumeSaw, ResumeKnows,
       FinishSaw
<1>6. OpensInv
    BY DEF CollectionInit, EvidenceInit, OpensInv, OpensAreAnswered, Versions, Absent, Managers, Drains
<1> QED BY <1>2, <1>5, <1>6 DEF IInv

LEMMA StutterKeeps == ASSUME IInv, UNCHANGED vars PROVE IInv'
<1>1. ScopeInv'
    BY DEF IInv, vars, scopeVars, ScopeInv, ScopeTypes, Unstarted, Generation, Detachment, MemStopped,
           Whole, AppliedTo,
       StoppedWhole, GotIsTrue, ExportedIsOver, Running, ProbeAlive
<1>2. BootInv'
    BY BootKeeps DEF IInv, vars, scopeVars
<1>3. OpensInv'
    BY AloneKeeps DEF IInv, vars, evidenceVars
<1> QED BY <1>1, <1>2, <1>3 DEF IInv

LEMMA NextKeeps == ASSUME IInv, CollectionNext PROVE IInv'
<1>1. CASE BootNext /\ UNCHANGED evidenceVars
    BY <1>1, BootNextKeeps, AloneKeeps DEF IInv, evidenceVars
<1>2. CASE EvidenceNext /\ UNCHANGED <<scopeFiles, bootVars>>
  <2>1. ScopeInv'
    BY <1>2 DEF IInv, scopeFiles, ScopeInv, ScopeTypes, Unstarted, Generation, Detachment, MemStopped,
       Whole, AppliedTo,
       StoppedWhole, GotIsTrue, ExportedIsOver, Running, ProbeAlive
  <2>2. BootInv'
    BY <1>2, BootKeeps DEF IInv, scopeFiles
  <2> QED BY <1>2, <2>1, <2>2, EvidenceNextKeeps DEF IInv
<1> QED BY <1>1, <1>2 DEF CollectionNext

(* In every reachable state of every collection the types hold, what the   *)
(* worker saved, the collector saw and resume saw is so, and no open is    *)
(* left waiting.                                                           *)
THEOREM CollectionsHold == CollectionSpec => []IInv
<1>1. CollectionInit => IInv
    BY InitHolds
<1>2. IInv /\ [CollectionNext]_vars => IInv'
    BY NextKeeps, StutterKeeps
<1> QED BY <1>1, <1>2, PTL DEF CollectionSpec, vars

(* state.json names the newest probe, or, between the launch of a probe    *)
(* and its save, and after a worker that died there, the one before it.    *)
Unsaved == worker.at \in {"launched", "gone"} /\ probe.gen = file.probe + 1
NewestIsSaved ==
    /\ worker.at \in {"launch", "launched"} => file.status \in {"STARTING", "DETACHING"}
    /\ file.probe = probe.gen \/ (Unsaved /\ file.status \in {"STARTING", "DETACHING", "FAILED"})

(* A worker's step saves its newest probe, or leaves what was saved.       *)
LEMMA WorkerSaves == ASSUME ScopeInv, NewestIsSaved, WorkerNext PROVE NewestIsSaved'
<1>1. file \in States /\ mem \in States /\ probe \in Probes /\ worker \in Workers
    BY DEF ScopeInv, ScopeTypes
<1>2. mem.probe = probe.gen /\ mem.gen = probe.gen
    BY DEF ScopeInv, Generation
<1>3. CASE WorkerStarts
  <2>1. mem.probe = 0 /\ file'.probe = 0 /\ probe' = probe /\ worker'.at = "launch" /\ file'.status = "STARTING"
    BY <1>1, <1>3 DEF WorkerStarts, Save, At, NoFile, ScopeInv, Unstarted, Workers
  <2> QED BY <1>2, <2>1 DEF NewestIsSaved
<1>4. CASE Launch
  <2>1. /\ worker'.at = "launched" /\ file' = file /\ probe'.gen = mem.gen + 1 /\ worker.at = "launch"
    BY <1>1, <1>4 DEF Launch, At, Workers
  <2>2. file.probe = probe.gen /\ file.status \in {"STARTING", "DETACHING"}
    BY <2>1 DEF NewestIsSaved, Unsaved
  <2> QED BY <1>2, <2>1, <2>2 DEF NewestIsSaved, Unsaved
<1>5. CASE AttachStarted
  <2>1. file'.probe = mem.probe /\ probe' = probe /\ worker'.at = "attach"
    BY <1>1, <1>5 DEF AttachStarted, Save, At, Workers
  <2> QED BY <1>2, <2>1 DEF NewestIsSaved
<1>10. CASE Attached \/ AttachFails
  <2>1. probe' = probe /\ worker.at = "attach" /\ worker'.at \notin {"launch", "launched"}
    BY <1>1, <1>10 DEF Attached, AttachFails, Save, At, Fails, Workers
  <2>2. file' = file \/ file'.probe = mem.probe
    BY <1>1, <1>10 DEF Attached, AttachFails, Save, States
  <2> QED BY <1>2, <2>1, <2>2 DEF NewestIsSaved, Unsaved
<1>6. CASE Reply \/ Replied \/ Turn \/ ListRequests \/ Take \/ SourceFails \/ Finally \/ ExtendedTooLate
  <2>1. /\ file' = file /\ probe' = probe /\ worker.at \notin {"launch", "launched", "gone"}
        /\ worker'.at \notin {"launch", "launched"}
    BY <1>1, <1>6 DEF Reply, Replied, Turn, ListRequests, Take, SourceFails, Finally, ExtendedTooLate, At, Fails, Workers
  <2> QED BY <2>1 DEF NewestIsSaved, Unsaved
<1>7. CASE Detach \/ Detached \/ Final
  <2>1. /\ file'.probe = mem.probe /\ probe'.gen = probe.gen /\ worker'.at \notin {"launch", "launched"}
    BY <1>1, <1>7 DEF Detach, Detached, Final, Save, At, Workers, States, Probes
  <2> QED BY <1>2, <2>1 DEF NewestIsSaved
<1>8. CASE Change
  <2>1. /\ worker.at = "change" /\ file.status = "DETACHING" /\ probe' = probe
        /\ file' = file \/ (file'.probe = mem.probe /\ worker'.at \notin {"launch", "launched"})
    BY <1>1, <1>8 DEF Change, Save, At, Workers, States, ScopeInv, Detachment
  <2> QED BY <1>2, <2>1 DEF NewestIsSaved, Unsaved
<1>9. CASE Killed
  <2>1. file' = file /\ probe' = probe /\ worker'.at = "gone"
    BY <1>1, <1>9 DEF Killed, At, Workers
  <2> QED BY <2>1 DEF NewestIsSaved, Unsaved
<1> QED BY <1>3, <1>4, <1>5, <1>6, <1>7, <1>8, <1>9, <1>10 DEF WorkerNext

(* Who touches the scope in a step of the collections.                     *)
LEMMA WhoSteps ==
    ASSUME CollectionNext \/ UNCHANGED vars
    PROVE  ScopeStep \/ Reboots \/ UNCHANGED <<file, worker, probe>>
<1>1. CASE WorldDrifts \/ SealedChanges \/ (EvidenceNext /\ UNCHANGED <<scopeFiles, bootVars>>) \/ UNCHANGED vars
  <2>1. CASE WorldDrifts
    BY <2>1 DEF WorldDrifts
  <2>2. CASE SealedChanges
    BY <2>2 DEF SealedChanges
  <2>3. CASE (EvidenceNext /\ UNCHANGED <<scopeFiles, bootVars>>) \/ UNCHANGED vars
    BY <2>3 DEF scopeFiles, vars, scopeVars
  <2> QED BY <1>1, <2>1, <2>2, <2>3
<1>2. CASE CollectNext
    BY <1>2 DEF scopeVars, CollectNext, CollectKernel, CollectShow, CollectFragment, CollectPayload, CollectProcess,
       CollectShowAgain, CollectProcessAgain, CollectRecheck, CollectSeals, CollectEnds, Collects
<1>3. CASE ResumeNext
    BY <1>3 DEF ScopeStep, scopeVars, ResumeNext, ResumeBundle, ResumeShow, ResumeFragment, ResumePayload, ResumeLink,
       ResumeProcess, ResumeJournal, ResumeApplies, ResumeReceipt, ResumeRechecksUnit, ResumeRechecksFiles,
       ResumeSeals, ResumeEnds, Reads
<1>4. CASE FinishNext
    BY <1>4 DEF scopeVars, FinishNext, FinishStops, FinishStopped, FinishExports, FinishCopies, ScopeStep, Kinds
<1>5. CASE OwnerCalls
    BY <1>5 DEF OwnerCalls, ScopeStep
<1>6. CASE (WorkerNext \/ ProbeNext \/ CallGoesOn) /\ UNCHANGED bootVars
    BY <1>6 DEF ScopeStep
<1> QED BY <1>1, <1>2, <1>3, <1>4, <1>5, <1>6 DEF CollectionNext, BootNext

(* So does every step of the collections.                                  *)
LEMMA NewestStaysSaved ==
    ASSUME IInv, NewestIsSaved, CollectionNext \/ UNCHANGED vars PROVE NewestIsSaved'
<1>1. ASSUME UNCHANGED <<file, worker>>, probe'.gen = probe.gen PROVE NewestIsSaved'
    BY <1>1 DEF NewestIsSaved, Unsaved
<1>2. CASE WorkerNext
    BY <1>2, WorkerSaves DEF IInv
<1>3. CASE ProbeNext \/ CallGoesOn
  <2>1. UNCHANGED <<file, worker>> /\ probe'.gen = probe.gen
    BY <1>3 DEF ProbeNext, CallGoesOn, ProbeReady, ProbeEnds, Deadline, Expiry, Submitted, Await, AwaitTimesOut,
       StopExits, Receipt, IInv, ScopeInv, ScopeTypes, Probes
  <2> QED BY <1>1, <2>1
<1>4. CASE RecoverStop
  <2>1. UNCHANGED <<worker, probe>> /\ worker.at = "gone" /\ file'.probe = file.probe
        /\ (file'.status = file.status \/ file'.status = "FAILED")
    BY <1>4 DEF RecoverStop, IInv, ScopeInv, ScopeTypes, States
  <2> QED BY <2>1 DEF NewestIsSaved, Unsaved
<1>5. CASE Apply
  <2>1. file' = file /\ probe' = probe /\ worker.at = "none" /\ worker'.at = "start"
    BY <1>5 DEF Apply, IInv, ScopeInv, ScopeTypes, Workers
  <2> QED BY <2>1 DEF NewestIsSaved, Unsaved
<1>6. CASE Reboots
  <2>1. file' = file /\ probe'.gen = probe.gen /\ worker'.at \in {"none", "gone"}
        /\ (worker'.at = "none" => worker.at = "none")
    BY <1>6 DEF Reboots, IInv, ScopeInv, ScopeTypes, Workers, Probes
  <2> QED BY <2>1 DEF NewestIsSaved, Unsaved
<1>7. CASE Export \/ \E kind \in Kinds : Submit(kind)
  <2>1. UNCHANGED <<file, worker, probe>>
    BY <1>7 DEF Export, Submit
  <2> QED BY <1>1, <2>1
<1>8. CASE UNCHANGED <<file, worker, probe>>
    BY <1>1, <1>8
<1> QED BY <1>2, <1>3, <1>4, <1>5, <1>6, <1>7, <1>8, WhoSteps DEF ScopeStep

(* What is exported stays, its worker is gone, and the only probe that may *)
(* be left is one that a worker launched and died before naming.           *)
THEOREM ExportsAreFinal == CollectionSpec => []ExportIsFinal
<1>1. CollectionInit => NewestIsSaved
    BY DEF CollectionInit, ScopeInit, NewestIsSaved, NoFile
<1>2. IInv /\ NewestIsSaved /\ [CollectionNext]_vars => NewestIsSaved'
    BY NewestStaysSaved
<1>3. IInv /\ NewestIsSaved => ExportIsFinal
  <2> SUFFICES ASSUME IInv, NewestIsSaved, exported # NoFile PROVE
               /\ file = exported /\ ~WorkerAlive
               /\ Running => exported.status = "FAILED" /\ probe.gen = exported.probe + 1
    BY DEF ExportIsFinal
  <2>1. file = exported /\ worker.at = "gone" /\ file.status \in Terminal /\ ~ProbeAlive(file)
    BY DEF IInv, ScopeInv, ExportedIsOver
  <2>2. CASE Running
    BY <2>1, <2>2 DEF NewestIsSaved, Unsaved, ProbeAlive, Terminal, WorkerAlive
  <2> QED BY <2>1, <2>2 DEF WorkerAlive
<1> QED BY <1>1, <1>2, <1>3, CollectionsHold, PTL DEF CollectionSpec, vars

(* An applied scope has its newest probe ready; a confirmed stop left      *)
(* neither worker nor probe, and the probe ended its record itself.        *)
THEOREM ReceiptsAreTrue == CollectionSpec => []ReceiptIsTrue
<1>1. IInv => ReceiptIsTrue
    BY DEF IInv, ScopeInv, Whole, AppliedTo, GotIsTrue, ReceiptIsTrue, StopConfirmed, WorkerAlive
<1> QED BY <1>1, CollectionsHold, PTL

(* A sealed bundle is about one process, whose image is the pinned payload.*)
THEOREM ObservationsAreTrue == CollectionSpec => []ObservationIsTrue
<1>1. IInv => ObservationIsTrue
    BY DEF IInv, BootInv, BundleSaw, BundleKnows, ObservationIsTrue
<1> QED BY <1>1, CollectionsHold, PTL

(* A sealed resume, its replay and a sealed finish are about that process  *)
(* and the first generation of the scope.                                  *)
THEOREM ResumesAreTrue == CollectionSpec => []ResumeIsTrue
<1>1. ASSUME IInv PROVE ResumeIsTrue
  <2>1. resumed.at = "sealed" => /\ resumed.seen.birth = bundle.seen.inst /\ mem.gen >= 1
                                 /\ world.imgs[resumed.seen.birth].i = resumed.seen.payload.i
    BY <1>1 DEF IInv, BootInv, BundleSaw, BundleKnows, ResumeSaw, ResumeKnows
  <2>2. ASSUME Replays PROVE bundle.seen.payload = world.imgs[bundle.seen.birth]
    <3> DEFINE b == bundle.seen
               r == resumed.seen
               image == world.imgs[b.birth]
    <3>1. resumed.at = "sealed" /\ r.payload = b.payload
        BY <2>2 DEF Replays, ManifestHolds, FilesReplay
    <3>2. bundle.at = "sealed" /\ r.payload.v = 0 /\ r.birth = b.birth /\ image.i = r.payload.i /\ image.v = 0
        BY <1>1, <3>1 DEF IInv, BootInv, ResumeSaw, ResumeKnows, BundleSaw, BundleKnows
    <3>3. b.birth \in 1..Len(world.imgs) /\ world.imgs \in Seq(Files) /\ b.payload \in Files
      <4>1. b \in Sights /\ world \in Worlds
        BY <1>1 DEF IInv, BootInv, BootTypes
      <4> QED BY <1>1, <3>2, <4>1 DEF IInv, BootInv, BundleSaw, BundleKnows, Inst, Sights, Worlds
    <3>4. image \in Files /\ b.payload \in Files /\ image.v = b.payload.v /\ image.i = b.payload.i
        BY <3>1, <3>2, <3>3
    <3> HIDE DEF image
    <3>5. image = b.payload
        BY <3>4 DEF Files
    <3> QED BY <3>5 DEF image
  <2>3. ASSUME finished = "sealed"
        PROVE  FinishReplays /\ file = exported /\ probe.gen = 1 /\ (world.boot = 0 => probe.ended)
    <3>1. exported.status = "STOPPED" /\ exported.gen = 1
        BY <1>1, <2>3 DEF IInv, BootInv, FinishSaw
    <3>2. exported # NoFile
        BY <3>1 DEF NoFile
    <3> QED BY <1>1, <2>3, <3>1, <3>2 DEF IInv, ScopeInv, ExportedIsOver, Whole, StoppedWhole, FinishReplays
  <2> QED BY <2>1, <2>2, <2>3 DEF ResumeIsTrue
<1> QED BY <1>1, CollectionsHold, PTL

(* The manager never waits for a drain thread that is gone, nor for one    *)
(* that does not have its event.                                           *)
THEOREM OpensGetAnswers == CollectionSpec => []OpensAreAnswered
<1>1. IInv => OpensAreAnswered
    BY DEF IInv, OpensInv
<1> QED BY <1>1, CollectionsHold, PTL

-----------------------------------------------------------------------------
(* The scheduler evidence: what the rows, the leases and the queue of the  *)
(* drain thread say of what the manager did.                               *)

RowKinds == {"ready", "closed-write", "manager-open", "exec-open", "invocation-probe", "invocation",
             "admission-intent", "admission-insufficient", "admission-ready", "install-intent", "install-result",
             "install-refused", "closed"}
Rows == [kind : RowKinds, name : Artifacts \cup {"none"}, ino : Nat, ver : Nat, alive : BOOLEAN]
Observers == [at : {"off", "idle", "probed", "admitting", "installing", "reloading", "closing", "closed", "unclosed"},
              invocation : BOOLEAN, attempted : BOOLEAN, installed : Nat]

Kind(k) == \E i \in DOMAIN rows : rows[i].kind = k
Written(n) == \E i \in DOMAIN rows : rows[i].kind = "closed-write" /\ rows[i].name = n
Runs == manager.fire \in {"runs", "gone"}
Listens == drain.at \in {"on", "leased"}
Bad == drain.error \/ drain.broken
Shut == observer.at \in {"closing", "closed", "unclosed"}
Closes(n, k) == drain.queue[k].is = "close" /\ drain.queue[k].name = n

EvidenceTypes ==
    /\ rows \in Seq(Rows) /\ observer \in Observers /\ root \in 0..4
    /\ drain.at = "leased" => drain.now \in Artifacts
    /\ (observer.at = "off") = (drain.at = "off")
    /\ observer.at = "off" => root = 0

(* Nobody but root makes the files.                                        *)
DiskStands ==
    /\ root <= 1 => disk["payload"] = Absent
    /\ root <= 2 => disk["definition"] = Absent
    /\ \A n \in Artifacts : disk[n] # Absent => disk[n].ino > 0
    /\ \A n \in Artifacts : Held(n) => disk[n] # Absent
    /\ manager.load # "no" => disk["definition"] # Absent
    /\ \A k \in DOMAIN drain.queue : drain.queue[k].ino > 0 \/ drain.queue[k].is # "close"

(* A leased version is the version of its inode, unless the lease broke.   *)
LeaseHolds ==
    /\ drain.at = "leased" => Held(drain.now)
    /\ \A n \in Artifacts : Held(n) =>
        /\ disk[n].ino >= drain.held[n].ino
        /\ Leased(n) /\ ~drain.broken /\ disk[n].ino = drain.held[n].ino => disk[n].ver = drain.held[n].ver

(* A held version is recorded once, and that is what the row says.         *)
WritesAreRecorded ==
    /\ \A i \in DOMAIN rows : rows[i].kind = "closed-write" =>
          /\ rows[i].name \in Artifacts /\ Held(rows[i].name) /\ rows[i].ver = drain.held[rows[i].name].ver
          /\ ~(drain.at = "leased" /\ drain.now = rows[i].name)
    /\ \A i, j \in DOMAIN rows :
          rows[i].kind = "closed-write" /\ rows[j].kind = "closed-write" /\ rows[i].name = rows[j].name => i = j
    /\ \A n \in Artifacts : Held(n) /\ ~(drain.at = "leased" /\ drain.now = n) => Written(n)

(* The payload was recorded before the definition.                         *)
PayloadFirst ==
    \E i, j \in DOMAIN rows :
        /\ i < j /\ rows[i].kind = "closed-write" /\ rows[i].name = "payload"
        /\ rows[j].kind = "closed-write" /\ rows[j].name = "definition"

(* The drain thread will find a close it does not accept.                  *)
Spoiled == Bad \/ \E k \in DOMAIN drain.queue : Closes("definition", k)

(* What the events of the manager's opens wait with.                       *)
LoadWaits(j) ==
    /\ manager.load = "opening" /\ drain.queue[j].name = "definition" /\ drain.queue[j].ino = manager.fd.ino
    /\ manager.fd.ino <= disk["definition"].ino
    /\ \/ disk["definition"].ino # manager.fd.ino \/ disk["definition"].ver = manager.fd.ver \/ drain.broken
       \/ \E k \in DOMAIN drain.queue : k > j /\ Closes("definition", k)
ExecWaits(j) ==
    /\ manager.fire = "opening" /\ manager.load = "yes"
    /\ drain.queue[j].name = "payload" /\ drain.queue[j].ino = manager.fd.ino
    /\ \/ manager.def = drain.held["definition"].ver \/ Bad
       \/ \E k \in DOMAIN drain.queue : k < j /\ Closes("definition", k)
QueueInv ==
    /\ ~Listens => drain.queue = <<>>
    /\ \A i, j \in DOMAIN drain.queue :
          drain.queue[i].is = drain.queue[j].is /\ drain.queue[i].is # "close" => i = j
    /\ \A j \in DOMAIN drain.queue : drain.queue[j].is = "load" => LoadWaits(j)
    /\ \A j \in DOMAIN drain.queue : drain.queue[j].is = "exec" => ExecWaits(j)

LoadInv ==
    /\ manager.load # "yes" => manager.fire = "no"
    /\ Listens /\ manager.load \in {"allowed", "yes"} => Written("definition")
    /\ Listens /\ manager.load = "allowed" =>
          manager.fd.ino = drain.held["definition"].ino /\ (manager.fd.ver = drain.held["definition"].ver \/ Spoiled)
    /\ Listens /\ manager.load = "yes" /\ manager.fire = "no" => manager.def = drain.held["definition"].ver \/ Spoiled

ExecInv ==
    /\ Listens /\ manager.fire = "opening" /\ PayloadFirst /\ manager.fd.ino = drain.held["payload"].ino =>
          manager.fd.ver = drain.held["payload"].ver \/ drain.broken
    /\ Kind("exec-open") =>
          /\ manager.load = "yes" /\ manager.fire \in {"allowed", "runs", "gone"} /\ Written("definition")
          /\ manager.def = drain.held["definition"].ver \/ Bad
          /\ PayloadFirst /\ manager.fire = "allowed" =>
                Bad \/ (manager.fd.ino = drain.held["payload"].ino /\ manager.fd.ver = drain.held["payload"].ver)
          /\ PayloadFirst /\ Runs => Bad \/ manager.img = drain.held["payload"].ver \/ (Shut /\ ~Kind("invocation"))
    /\ Kind("invocation") => Runs

EndInv ==
    /\ drain.finish => Shut
    /\ drain.at = "over" => drain.error \/ drain.finish
    /\ observer.at = "closed" => drain.at = "over"
    /\ \A i \in DOMAIN rows : rows[i].kind = "closed" => observer.at = "closed" /\ (rows[i].ver = 0 => ~Bad)

AdmitInv ==
    /\ observer.at = "admitting" \/ Kind("admission-ready") =>
          /\ observer.attempted /\ Runs /\ manager.load = "yes" /\ Written("definition") /\ Written("payload")
          /\ manager.def = drain.held["definition"].ver /\ manager.img = drain.held["payload"].ver
    /\ Kind("admission-ready") => extension = "applied"
    /\ Kind("admission-intent") => observer.attempted
    /\ \A i, j \in DOMAIN rows : rows[i].kind = "admission-intent" /\ rows[j].kind = "admission-intent" => i = j

InstallInv ==
    /\ \A i \in DOMAIN rows : rows[i].kind = "install-intent" =>
          rows[i].name = "definition" /\ Held("definition") /\ rows[i].ver = drain.held["definition"].ver
    /\ observer.at \in {"installing", "reloading"} => Kind("install-intent")
    /\ observer.at = "reloading" \/ Kind("install-result") =>
          observer.installed = drain.held["definition"].ver /\ Held("definition")

EvidenceInv ==
    /\ EvidenceTypes /\ DiskStands /\ LeaseHolds /\ WritesAreRecorded
    /\ QueueInv /\ LoadInv /\ ExecInv /\ EndInv /\ AdmitInv /\ InstallInv

-----------------------------------------------------------------------------
(* A step that writes one row, or none.                                    *)
Rowing(r) == rows' = rows \/ rows' = Append(rows, r)

(* Such a step keeps the rows there are and adds at most the one.          *)
LEMMA RowsGo ==
    ASSUME rows \in Seq(Rows), NEW r \in Rows, Rowing(r)
    PROVE  /\ rows' \in Seq(Rows)
           /\ \A i \in DOMAIN rows : i \in DOMAIN rows' /\ rows'[i] = rows[i]
           /\ \A i \in DOMAIN rows' : i \notin DOMAIN rows => rows'[i] = r /\ rows' = Append(rows, r)
           /\ \A i, j \in DOMAIN rows' : i \notin DOMAIN rows /\ j \notin DOMAIN rows => i = j
           /\ \A i, j \in DOMAIN rows' : i < j /\ j \in DOMAIN rows => i \in DOMAIN rows
           /\ rows' = Append(rows, r) => \E i \in DOMAIN rows' : rows'[i] = r
<1>1. CASE rows' = rows
  <2>1. rows' = Append(rows, r) => FALSE
    <3>1. Len(Append(rows, r)) = Len(rows) + 1 /\ Len(rows) \in Nat
        OBVIOUS
    <3> QED BY <1>1, <3>1
  <2>2. DOMAIN rows = 1..Len(rows)
    OBVIOUS
  <2> QED BY <1>1, <2>1, <2>2
<1>2. CASE rows' = Append(rows, r)
  <2>1. /\ rows' \in Seq(Rows) /\ Len(rows') = Len(rows) + 1 /\ Len(rows) \in Nat /\ rows'[Len(rows) + 1] = r
        /\ DOMAIN rows = 1..Len(rows) /\ DOMAIN rows' = 1..(Len(rows) + 1)
        /\ \A i \in 1..Len(rows) : rows'[i] = rows[i]
    BY <1>2
  <2> QED BY <1>2, <2>1
<1> QED BY <1>1, <1>2 DEF Rowing

(* What is recorded stays recorded; the pair of writes completes only with *)
(* the row of a definition.                                                *)
LEMMA KindsGo ==
    ASSUME rows \in Seq(Rows), NEW r \in Rows, Rowing(r)
    PROVE  /\ \A k : (Kind(k) => Kind(k)') /\ (Kind(k)' => Kind(k) \/ r.kind = k)
           /\ \A n : /\ Written(n) => Written(n)'
                     /\ Written(n)' => Written(n) \/ (r.kind = "closed-write" /\ r.name = n)
           /\ PayloadFirst' /\ ~(r.kind = "closed-write" /\ r.name = "definition") => PayloadFirst
<1>1. \A k : (Kind(k) => Kind(k)') /\ (Kind(k)' => Kind(k) \/ r.kind = k)
    BY RowsGo DEF Kind
<1>2. \A n : /\ Written(n) => Written(n)'
             /\ Written(n)' => Written(n) \/ (r.kind = "closed-write" /\ r.name = n)
    BY RowsGo DEF Written
<1>3. ASSUME PayloadFirst', ~(r.kind = "closed-write" /\ r.name = "definition") PROVE PayloadFirst
  <2>1. PICK i, j \in DOMAIN rows' :
        /\ i < j /\ rows'[i].kind = "closed-write" /\ rows'[i].name = "payload"
        /\ rows'[j].kind = "closed-write" /\ rows'[j].name = "definition"
    BY <1>3 DEF PayloadFirst
  <2>2. j \in DOMAIN rows
    BY <1>3, <2>1, RowsGo
  <2>3. i \in DOMAIN rows
    BY <2>1, <2>2, RowsGo
  <2> QED BY <2>1, <2>2, <2>3, RowsGo DEF PayloadFirst
<1> QED BY <1>1, <1>2, <1>3

(* Who has the pair has both rows.                                         *)
LEMMA FirstWritten == PayloadFirst => Written("payload") /\ Written("definition")
BY DEF PayloadFirst, Written

(* What a row says of a file is held.                                      *)
LEMMA WrittenHeld ==
    ASSUME EvidenceInv, NEW n, Written(n)
    PROVE  n \in Artifacts /\ Held(n)
BY DEF EvidenceInv, WritesAreRecorded, Written

-----------------------------------------------------------------------------
(* The queue: an event is posted at its end and taken from its head.       *)
LEMMA QueueGo ==
    ASSUME NEW q \in Seq(Events), NEW e \in Events, NEW t, t = q \/ t = Append(q, e)
    PROVE  /\ t \in Seq(Events)
           /\ \A i \in DOMAIN q : i \in DOMAIN t /\ t[i] = q[i] /\ i \in Nat
           /\ \A i \in DOMAIN t : i \in Nat /\ (i \notin DOMAIN q => t[i] = e /\ \A j \in DOMAIN q : j < i)
           /\ \A i, j \in DOMAIN t : i \notin DOMAIN q /\ j \notin DOMAIN q => i = j
           /\ t = Append(q, e) => \E i \in DOMAIN t : i \notin DOMAIN q /\ t[i] = e
<1>1. CASE t = Append(q, e)
  <2>1. /\ t \in Seq(Events) /\ Len(t) = Len(q) + 1 /\ Len(q) \in Nat /\ t[Len(q) + 1] = e
        /\ DOMAIN q = 1..Len(q) /\ DOMAIN t = 1..(Len(q) + 1)
        /\ \A i \in 1..Len(q) : t[i] = q[i]
    BY <1>1
  <2> QED BY <1>1, <2>1
<1>2. CASE t # Append(q, e)
  <2>1. DOMAIN q = 1..Len(q) /\ Len(q) \in Nat /\ t = q /\ DOMAIN t = DOMAIN q
    BY <1>2
  <2>2. \A i \in DOMAIN q : i \in Nat
    BY <2>1
  <2> QED BY <1>2, <2>1, <2>2, Zenon
<1> QED BY <1>1, <1>2

(* ... and the others move up.                                             *)
LEMMA QueueTail ==
    ASSUME NEW q \in Seq(Events), q # <<>>, NEW t, t = Tail(q)
    PROVE  /\ t \in Seq(Events) /\ 1 \in DOMAIN q /\ q[1] = Head(q) /\ Head(q) \in Events
           /\ \A i \in DOMAIN t : i + 1 \in DOMAIN q /\ t[i] = q[i + 1] /\ i \in Nat /\ i >= 1
           /\ \A i \in DOMAIN q : i \in Nat /\ i >= 1 /\ (i # 1 => i - 1 \in DOMAIN t /\ t[i - 1] = q[i])
<1>1. /\ t \in Seq(Events) /\ Len(q) \in Nat /\ Len(q) >= 1 /\ Len(t) = Len(q) - 1 /\ DOMAIN q = 1..Len(q)
      /\ DOMAIN t = 1..Len(t)
      /\ \A i \in 1..Len(t) : t[i] = q[i + 1]
    OBVIOUS
<1>2. q[1] = Head(q) /\ Head(q) \in Events
    BY <1>1
<1> QED BY <1>1, <1>2

-----------------------------------------------------------------------------
(* The caller's thread leaves the files, the manager and the drain thread  *)
(* as they are.                                                            *)
LEMMA WritesSame ==
    ASSUME EvidenceInv, NEW r \in Rows, Rowing(r), r.kind # "closed-write", drain'.held = drain.held,
           \A n : (drain'.at = "leased" /\ drain'.now = n) <=> (drain.at = "leased" /\ drain.now = n)
    PROVE  WritesAreRecorded'
<1>1. rows \in Seq(Rows)
    BY DEF EvidenceInv, EvidenceTypes
<1>2. \A n : Held(n)' = Held(n)
    BY DEF Held
<1>3. \A i \in DOMAIN rows' : rows'[i].kind = "closed-write" => i \in DOMAIN rows /\ rows[i] = rows'[i]
    BY <1>1, RowsGo
<1>4. \A n : Written(n) => Written(n)'
    BY <1>1, KindsGo
<1> QED BY <1>2, <1>3, <1>4 DEF EvidenceInv, WritesAreRecorded

(* What a step of the caller's thread keeps.                               *)
LEMMA TickKeeps ==
    ASSUME EvidenceInv, NEW r \in Rows, UNCHANGED <<disk, root, manager, drain>>, Rowing(r),
           r.kind \notin {"closed-write", "exec-open"}, r.kind = "invocation" => manager.fire = "runs" /\ ~Shut,
           observer' \in Observers, Shut => Shut', observer.at # "off", observer'.at # "off"
    PROVE  /\ EvidenceTypes' /\ DiskStands' /\ LeaseHolds' /\ WritesAreRecorded' /\ QueueInv' /\ LoadInv' /\ ExecInv'
<1>1. rows \in Seq(Rows)
    BY DEF EvidenceInv, EvidenceTypes
<1>2. EvidenceTypes'
    BY <1>1, RowsGo DEF EvidenceInv, EvidenceTypes
<1>3. DiskStands' /\ LeaseHolds'
    BY DEF EvidenceInv, DiskStands, LeaseHolds, Held, Leased
<1>4. WritesAreRecorded'
    BY WritesSame
<1>5. QueueInv'
    BY DEF EvidenceInv, QueueInv, LoadWaits, ExecWaits, Closes, Bad, Listens
<1>6. LoadInv'
  <2>1. Written("definition") => Written("definition")'
    BY <1>1, KindsGo
  <2> QED BY <2>1 DEF EvidenceInv, LoadInv, Listens, Spoiled, Closes, Bad
<1>7. ExecInv'
  <2>1. /\ PayloadFirst' => PayloadFirst
        /\ Kind("exec-open")' => Kind("exec-open")
        /\ Kind("invocation")' => Kind("invocation") \/ r.kind = "invocation"
        /\ Written("definition") => Written("definition")'
    BY <1>1, KindsGo
  <2>2. Runs' = Runs /\ Bad' = Bad /\ Listens' = Listens
    BY DEF Runs, Bad, Listens
  <2>3. Kind("invocation")' => Runs'
    BY <2>1, <2>2 DEF EvidenceInv, ExecInv, Runs
  <2>4. Shut /\ ~Kind("invocation") => Shut' /\ ~Kind("invocation")'
    BY <2>1
  <2> QED BY <2>1, <2>2, <2>3, <2>4 DEF EvidenceInv, ExecInv
<1> QED BY <1>2, <1>3, <1>4, <1>5, <1>6, <1>7

(* The row a step records.                                                 *)
LEMMA RowIs ==
    ASSUME NEW kind \in RowKinds, NEW name \in Artifacts \cup {"none"}, NEW f, f.ino \in Nat, f.ver \in Nat
    PROVE  Row(kind, name, f) \in Rows /\ Row(kind, name, f).kind = kind /\ Row(kind, name, f).name = name
           /\ Row(kind, name, f).ver = f.ver /\ Row(kind, name, f).ino = f.ino
BY DEF Row, Rows

(* ... and the row that only notes.                                        *)
LEMMA NoteIs ==
    ASSUME NEW kind \in RowKinds
    PROVE  Row(kind, "none", Absent) \in Rows /\ Row(kind, "none", Absent).kind = kind
BY RowIs DEF Absent

(* What the rows and the caller's thread say of each other, kept by a step *)
(* that says nothing of it.                                                *)
LEMMA EndSame ==
    ASSUME EvidenceInv, NEW r \in Rows, UNCHANGED drain, Rowing(r), r.kind # "closed",
           observer.at # "closed", observer'.at # "closed", Shut => Shut'
    PROVE  EndInv'
<1>1. rows \in Seq(Rows)
    BY DEF EvidenceInv, EvidenceTypes
<1>2. \A i \in DOMAIN rows' : rows'[i].kind = "closed" => i \in DOMAIN rows /\ rows[i] = rows'[i]
    BY <1>1, RowsGo
<1> QED BY <1>2 DEF EvidenceInv, EndInv

(* ... of the admission, ...                                               *)
LEMMA AdmitSame ==
    ASSUME EvidenceInv, NEW r \in Rows, UNCHANGED <<drain, manager, extension>>, Rowing(r),
           r.kind \notin {"admission-intent", "admission-ready"},
           observer'.at # "admitting", observer.attempted => observer'.attempted
    PROVE  AdmitInv'
<1>1. rows \in Seq(Rows)
    BY DEF EvidenceInv, EvidenceTypes
<1>2. \A i \in DOMAIN rows' : rows'[i].kind = "admission-intent" => i \in DOMAIN rows /\ rows[i] = rows'[i]
    BY <1>1, RowsGo
<1>3. /\ Kind("admission-ready")' => Kind("admission-ready")
      /\ Kind("admission-intent")' => Kind("admission-intent")
      /\ \A n : Written(n) => Written(n)'
    BY <1>1, KindsGo
<1>4. Runs' = Runs
    BY DEF Runs
<1> QED BY <1>2, <1>3, <1>4 DEF EvidenceInv, AdmitInv

(* ... of the installation.                                                *)
LEMMA InstallSame ==
    ASSUME EvidenceInv, NEW r \in Rows, UNCHANGED drain, Rowing(r),
           r.kind \notin {"install-intent", "install-result"},
           observer'.at \notin {"installing", "reloading"}, observer'.installed = observer.installed
    PROVE  InstallInv'
<1>1. rows \in Seq(Rows)
    BY DEF EvidenceInv, EvidenceTypes
<1>2. \A i \in DOMAIN rows' : rows'[i].kind = "install-intent" => i \in DOMAIN rows /\ rows[i] = rows'[i]
    BY <1>1, RowsGo
<1>3. Kind("install-result")' => Kind("install-result")
    BY <1>1, KindsGo
<1>4. Held("definition")' = Held("definition")
    BY DEF Held
<1> QED BY <1>2, <1>3, <1>4 DEF EvidenceInv, InstallInv

(* A step of the caller's thread that only notes something.                *)
Plain == {"ready", "invocation-probe", "invocation", "admission-insufficient", "install-refused"}
(* Such a step keeps the invariant.                                        *)
LEMMA NoteKeeps ==
    ASSUME EvidenceInv, NEW r \in Rows, UNCHANGED <<disk, root, manager, drain, extension>>, Rowing(r),
           r.kind \in Plain, r.kind = "invocation" => manager.fire = "runs" /\ ~Shut,
           observer' \in Observers, Shut => Shut', observer.at \notin {"off", "closed"},
           observer'.at \in {"idle", "probed", "unclosed"}, observer.attempted => observer'.attempted,
           observer'.installed = observer.installed
    PROVE  EvidenceInv'
<1>1. EvidenceTypes' /\ DiskStands' /\ LeaseHolds' /\ WritesAreRecorded' /\ QueueInv' /\ LoadInv' /\ ExecInv'
    BY TickKeeps DEF Plain
<1>2. EndInv' /\ AdmitInv' /\ InstallInv'
    BY EndSame, AdmitSame, InstallSame DEF Plain
<1> QED BY <1>1, <1>2 DEF EvidenceInv

(* There is a row to name where none is written.                           *)
LEMMA SomeRow == \E r \in Rows : r.kind = "ready"
BY NoteIs DEF RowKinds

(* The observer and the rows as an action finds them.                      *)
LEMMA ObserverIs == ASSUME EvidenceInv PROVE observer \in Observers /\ rows \in Seq(Rows)
BY DEF EvidenceInv, EvidenceTypes

(* tick keeps the invariant: the probe, ...                                *)
LEMMA TickProbesKeeps == ASSUME EvidenceInv, TickProbes PROVE EvidenceInv'
<1> DEFINE r == Row("invocation-probe", "none", Absent)
<1>1. r \in Rows /\ r.kind = "invocation-probe" /\ Rowing(r)
    BY NoteIs DEF RowKinds, TickProbes, Note, Record, Rowing
<1> HIDE DEF r
<1>2. /\ observer.at = "idle" /\ observer' = [observer EXCEPT !.at = "probed", !.invocation = TRUE]
      /\ UNCHANGED <<disk, root, manager, drain, extension>>
    BY DEF TickProbes
<1>3. /\ observer' \in Observers /\ observer'.at = "probed" /\ observer'.attempted = observer.attempted
      /\ observer'.installed = observer.installed
    BY <1>2, ObserverIs DEF Observers
<1> QED BY <1>1, <1>2, <1>3, NoteKeeps DEF Plain, Shut

(* The row of an invocation.                                               *)
LEMMA InvocationIs ==
    \E r \in Rows : r.kind = "invocation" /\ (Invocation => Rowing(r))
<1> DEFINE f == [ino |-> IF manager.after THEN 1 ELSE 0, ver |-> 0]
<1>1. f.ino \in Nat /\ f.ver \in Nat
    OBVIOUS
<1>2. Row("invocation", "payload", f) \in Rows /\ Row("invocation", "payload", f).kind = "invocation"
    BY <1>1, RowIs DEF RowKinds, Artifacts
<1> QED BY <1>2 DEF Invocation, Record, Rowing

(* ... the observation, ...                                                *)
LEMMA TickObservesKeeps == ASSUME EvidenceInv, TickObserves PROVE EvidenceInv'
<1>1. /\ observer.at = "probed" /\ observer' = [observer EXCEPT !.at = "idle"]
      /\ UNCHANGED <<disk, root, manager, drain, extension>>
      /\ (manager.fire = "runs" /\ Invocation) \/ rows' = rows
    BY DEF TickObserves
<1>2. /\ observer' \in Observers /\ observer'.at = "idle" /\ observer'.attempted = observer.attempted
      /\ observer'.installed = observer.installed
    BY <1>1, ObserverIs DEF Observers
<1>3. CASE manager.fire = "runs" /\ Invocation
    BY <1>1, <1>2, <1>3, InvocationIs, NoteKeeps DEF Plain, Shut
<1>4. CASE rows' = rows
  <2>1. PICK r \in Rows : r.kind = "ready"
    BY SomeRow
  <2>2. Rowing(r)
    BY <1>4 DEF Rowing
  <2> QED BY <1>1, <1>2, <2>1, <2>2, NoteKeeps DEF Plain, Shut
<1> QED BY <1>1, <1>3, <1>4

(* ... and crond's.                                                        *)
LEMMA CronTickKeeps == ASSUME EvidenceInv, CronTick PROVE EvidenceInv'
<1>1. /\ observer.at = "idle" /\ observer' = [observer EXCEPT !.invocation = TRUE]
      /\ UNCHANGED <<disk, root, manager, drain, extension>> /\ manager.fire = "runs" /\ Invocation
    BY DEF CronTick
<1>2. /\ observer' \in Observers /\ observer'.at = "idle" /\ observer'.attempted = observer.attempted
      /\ observer'.installed = observer.installed
    BY <1>1, ObserverIs DEF Observers
<1> QED BY <1>1, <1>2, InvocationIs, NoteKeeps DEF Plain, Shut

(* A refused admission is only noted.                                      *)
LEMMA AdmitRefusesKeeps == ASSUME EvidenceInv, AdmitRefuses PROVE EvidenceInv'
<1> DEFINE r == Row("admission-insufficient", "none", Absent)
<1>1. r \in Rows /\ r.kind = "admission-insufficient" /\ Rowing(r)
    BY NoteIs DEF RowKinds, AdmitRefuses, Note, Record, Rowing
<1> HIDE DEF r
<1>2. /\ observer.at = "idle" /\ observer' = [observer EXCEPT !.attempted = TRUE]
      /\ UNCHANGED <<disk, root, manager, drain, extension>>
    BY DEF AdmitRefuses, MayAdmit
<1>3. observer' \in Observers /\ observer'.at = "idle" /\ observer'.attempted /\ observer'.installed = observer.installed
    BY <1>2, ObserverIs DEF Observers
<1> QED BY <1>1, <1>2, <1>3, NoteKeeps DEF Plain, Shut

(* A close that gives up writes nothing.                                   *)
LEMMA CloseTimesOutKeeps == ASSUME EvidenceInv, CloseTimesOut PROVE EvidenceInv'
<1>1. PICK r \in Rows : r.kind = "ready"
    BY SomeRow
<1>2. /\ observer.at = "closing" /\ observer' = [observer EXCEPT !.at = "unclosed"] /\ Rowing(r)
      /\ UNCHANGED <<disk, root, manager, drain, extension>>
    BY DEF CloseTimesOut, Rowing
<1>3. /\ observer' \in Observers /\ observer'.at = "unclosed" /\ observer'.attempted = observer.attempted
      /\ observer'.installed = observer.installed
    BY <1>2, ObserverIs DEF Observers
<1> QED BY <1>1, <1>2, <1>3, NoteKeeps DEF Plain, Shut

-----------------------------------------------------------------------------
(* What an accepted chain proves.                                          *)
LEMMA OnlyIs ==
    ASSUME NEW kind, NEW name, Positions(rows, kind, name) # {}
    PROVE  /\ Only(rows, kind, name) \in DOMAIN rows
           /\ rows[Only(rows, kind, name)].kind = kind /\ rows[Only(rows, kind, name)].name = name
<1>1. Only(rows, kind, name) \in Positions(rows, kind, name)
    BY DEF Only
<1> QED BY <1>1 DEF Positions

(* One row of a kind is some row.                                          *)
LEMMA NotNone ==
    ASSUME NEW kind, NEW name, Cardinality(Positions(rows, kind, name)) = 1
    PROVE  Positions(rows, kind, name) # {}
BY FS_EmptySet

(* The row of a lease says the held version.                               *)
LEMMA VersionIs ==
    ASSUME EvidenceInv, NEW n \in Artifacts, Written(n)
    PROVE  ClosedVersion(n) = drain.held[n].ver
<1>1. Positions(rows, "closed-write", n) # {}
    BY DEF Written, Positions
<1> QED BY <1>1, OnlyIs DEF ClosedVersion, EvidenceInv, WritesAreRecorded

(* What was captured was captured in order.                                *)
LEMMA CapturedIs ==
    ASSUME EvidenceInv, NEW k, Captured(rows, k)
    PROVE  PayloadFirst
<1> DEFINE i == Only(rows, "closed-write", "payload")
           j == Only(rows, "closed-write", "definition")
<1>1. /\ Positions(rows, "closed-write", "payload") # {} /\ Positions(rows, "closed-write", "definition") # {}
      /\ i < j
    BY NotNone DEF Captured, Artifacts
<1>2. /\ i \in DOMAIN rows /\ rows[i].kind = "closed-write" /\ rows[i].name = "payload"
      /\ j \in DOMAIN rows /\ rows[j].kind = "closed-write" /\ rows[j].name = "definition"
    BY <1>1, OnlyIs
<1> QED BY <1>1, <1>2 DEF PayloadFirst

(* The chain is what the manager did.                                      *)
LEMMA ChainIs ==
    ASSUME EvidenceInv, NEW k, Chain(rows, k), ~Bad
    PROVE  /\ Written("payload") /\ Written("definition") /\ Runs /\ manager.load = "yes"
           /\ manager.def = drain.held["definition"].ver /\ manager.img = drain.held["payload"].ver
<1>1. PayloadFirst
    BY CapturedIs DEF Chain
<1>2. Kind("exec-open") /\ Kind("invocation")
  <2>1. Positions(rows, "exec-open", "payload") # {} /\ Positions(rows, "invocation", "payload") # {}
    BY NotNone DEF Chain, ExecIsBound
  <2> QED BY <2>1 DEF Positions, Kind
<1> QED BY <1>1, <1>2, FirstWritten DEF EvidenceInv, ExecInv

(* An admission rests on an accepted chain, which is true already.         *)
LEMMA AdmitKeeps == ASSUME EvidenceInv, Admit PROVE EvidenceInv'
<1> DEFINE r == Row("admission-intent", "none", Absent)
<1>1. r \in Rows /\ r.kind = "admission-intent" /\ Rowing(r)
    BY NoteIs DEF RowKinds, Admit, Note, Record, Rowing
<1> HIDE DEF r
<1>2. /\ observer.at = "idle" /\ ~observer.attempted
      /\ observer' = [observer EXCEPT !.at = "admitting", !.attempted = TRUE]
      /\ UNCHANGED <<disk, root, manager, drain>> /\ Admissible
    BY DEF Admit, MayAdmit
<1>3. /\ observer' \in Observers /\ observer'.at = "admitting" /\ observer'.attempted
      /\ observer'.installed = observer.installed
    BY <1>2, ObserverIs DEF Observers
<1>4. EvidenceTypes' /\ DiskStands' /\ LeaseHolds' /\ WritesAreRecorded' /\ QueueInv' /\ LoadInv' /\ ExecInv'
    BY <1>1, <1>2, <1>3, TickKeeps DEF Shut
<1>5. EndInv' /\ InstallInv'
    BY <1>1, <1>2, <1>3, EndSame, InstallSame DEF Shut
<1>6. Chain(rows, prefix) /\ ~Bad
    BY <1>2 DEF Admissible, Healthy, Bad, Qualifies, CronQualifies
<1>7. /\ Written("payload") /\ Written("definition") /\ Runs /\ manager.load = "yes"
      /\ manager.def = drain.held["definition"].ver /\ manager.img = drain.held["payload"].ver
    BY <1>6, ChainIs
<1>8. AdmitInv'
  <2>1. ~Kind("admission-intent") /\ ~Kind("admission-ready")
    BY <1>2 DEF EvidenceInv, AdmitInv
  <2>2. ~Kind("admission-ready")' /\ Written("payload")' /\ Written("definition")' /\ Runs' = Runs
    BY <1>1, <1>2, <1>7, <2>1, ObserverIs, KindsGo DEF Runs
  <2>3. \A i, j \in DOMAIN rows' : rows'[i].kind = "admission-intent" /\ rows'[j].kind = "admission-intent" => i = j
    BY <1>1, <2>1, ObserverIs, RowsGo DEF Kind
  <2> QED BY <1>2, <1>3, <1>7, <2>2, <2>3 DEF AdmitInv
<1> QED BY <1>4, <1>5, <1>8 DEF EvidenceInv

(* Its end, with a receipt or without.                                     *)
LEMMA AdmittedKeeps == ASSUME EvidenceInv, NEW receipt \in BOOLEAN, Admitted(receipt) PROVE EvidenceInv'
<1>1. /\ observer.at = "admitting" /\ observer' = [observer EXCEPT !.at = "idle"]
      /\ UNCHANGED <<disk, root, manager, drain, extension>> /\ (receipt => extension = "applied")
    BY DEF Admitted
<1>2. /\ observer' \in Observers /\ observer'.at = "idle" /\ observer'.attempted = observer.attempted
      /\ observer'.installed = observer.installed
    BY <1>1, ObserverIs DEF Observers
<1>3. CASE receipt /\ Healthy /\ manager.fire = "runs"
  <2> DEFINE r == Row("admission-ready", "none", Absent)
  <2>1. r \in Rows /\ r.kind = "admission-ready" /\ Rowing(r)
    BY <1>3, NoteIs DEF RowKinds, Admitted, Note, Record, Rowing
  <2> HIDE DEF r
  <2>2. EvidenceTypes' /\ DiskStands' /\ LeaseHolds' /\ WritesAreRecorded' /\ QueueInv' /\ LoadInv' /\ ExecInv'
    BY <1>1, <1>2, <2>1, TickKeeps DEF Shut
  <2>3. EndInv' /\ InstallInv'
    BY <1>1, <1>2, <2>1, EndSame, InstallSame DEF Shut
  <2>4. AdmitInv'
    <3>1. /\ observer.attempted /\ Runs /\ manager.load = "yes" /\ Written("definition") /\ Written("payload")
          /\ manager.def = drain.held["definition"].ver /\ manager.img = drain.held["payload"].ver
        BY <1>1 DEF EvidenceInv, AdmitInv
    <3>2. Written("payload")' /\ Written("definition")' /\ Runs' = Runs
          /\ (Kind("admission-intent")' => Kind("admission-intent"))
        BY <1>1, <2>1, <3>1, ObserverIs, KindsGo DEF Runs
    <3>3. \A i \in DOMAIN rows' : rows'[i].kind = "admission-intent" => i \in DOMAIN rows /\ rows[i] = rows'[i]
        BY <2>1, ObserverIs, RowsGo
    <3> QED BY <1>1, <1>2, <1>3, <3>1, <3>2, <3>3 DEF EvidenceInv, AdmitInv
  <2> QED BY <2>2, <2>3, <2>4 DEF EvidenceInv
<1>4. CASE ~(receipt /\ Healthy /\ manager.fire = "runs")
  <2> DEFINE r == Row("admission-insufficient", "none", Absent)
  <2>1. r \in Rows /\ r.kind = "admission-insufficient" /\ Rowing(r)
    BY <1>4, NoteIs DEF RowKinds, Admitted, Note, Record, Rowing
  <2> HIDE DEF r
  <2> QED BY <1>1, <1>2, <2>1, NoteKeeps DEF Plain, Shut
<1> QED BY <1>3, <1>4

-----------------------------------------------------------------------------
(* The one installation.                                                   *)
LEMMA HeldIs ==
    ASSUME OpensInv, NEW n \in Artifacts
    PROVE  drain.held[n] \in Versions /\ drain.held[n].ino \in Nat /\ drain.held[n].ver \in Nat
BY OpensTyped DEF Versions

(* The intent, or the refusal.                                             *)
LEMMA InstallTickKeeps == ASSUME OpensInv, EvidenceInv, InstallTick PROVE EvidenceInv'
<1>1. /\ observer.at = "idle" /\ UNCHANGED <<disk, root, manager, drain, extension>> /\ Held("definition")
    BY DEF InstallTick, MayInstall, Artifacts
<1>2. CASE Record(Row("install-intent", "definition", drain.held["definition"]))
           /\ observer' = [observer EXCEPT !.at = "installing"]
  <2> DEFINE r == Row("install-intent", "definition", drain.held["definition"])
  <2>1. /\ r \in Rows /\ r.kind = "install-intent" /\ Rowing(r) /\ r.name = "definition"
        /\ r.ver = drain.held["definition"].ver /\ rows' = Append(rows, r)
    BY <1>2, RowIs, HeldIs DEF RowKinds, Record, Rowing, Artifacts
  <2> HIDE DEF r
  <2>2. /\ observer' \in Observers /\ observer'.at = "installing" /\ observer'.attempted = observer.attempted
        /\ observer'.installed = observer.installed
    BY <1>1, <1>2, ObserverIs DEF Observers
  <2>3. EvidenceTypes' /\ DiskStands' /\ LeaseHolds' /\ WritesAreRecorded' /\ QueueInv' /\ LoadInv' /\ ExecInv'
    BY <1>1, <2>1, <2>2, TickKeeps DEF Shut
  <2>4. EndInv' /\ AdmitInv'
    BY <1>1, <2>1, <2>2, EndSame, AdmitSame DEF Shut
  <2>5. InstallInv'
    <3>1. \A i \in DOMAIN rows' : rows'[i].kind = "install-intent" =>
             rows'[i] = r \/ (i \in DOMAIN rows /\ rows[i] = rows'[i])
        BY <2>1, ObserverIs, RowsGo
    <3>2. Kind("install-intent")' /\ (Kind("install-result")' => Kind("install-result"))
        BY <2>1, ObserverIs, RowsGo, KindsGo DEF Kind
    <3>3. Held("definition")' = Held("definition")
        BY <1>1 DEF Held
    <3> QED BY <1>1, <2>1, <2>2, <3>1, <3>2, <3>3 DEF EvidenceInv, InstallInv
  <2> QED BY <2>3, <2>4, <2>5 DEF EvidenceInv
<1>3. CASE Note("install-refused") /\ observer' = [observer EXCEPT !.attempted = TRUE]
  <2> DEFINE r == Row("install-refused", "none", Absent)
  <2>1. r \in Rows /\ r.kind = "install-refused" /\ Rowing(r)
    BY <1>3, NoteIs DEF RowKinds, Note, Record, Rowing
  <2> HIDE DEF r
  <2>2. /\ observer' \in Observers /\ observer'.at = "idle" /\ observer'.attempted
        /\ observer'.installed = observer.installed
    BY <1>1, <1>3, ObserverIs DEF Observers
  <2> QED BY <1>1, <2>1, <2>2, NoteKeeps DEF Plain, Shut
<1> QED BY <1>2, <1>3 DEF InstallTick

(* The row of the intent holds the leased version.                         *)
LEMMA IntentIs ==
    ASSUME OpensInv, EvidenceInv, observer.at \in {"installing", "reloading"}, NEW x,
           x = rows[Only(rows, "install-intent", "definition")]
    PROVE  /\ x \in Rows /\ x.kind = "install-intent" /\ x.name = "definition" /\ Held("definition")
           /\ x.ver = drain.held["definition"].ver
<1>1. PICK i \in DOMAIN rows : rows[i].kind = "install-intent"
    BY DEF EvidenceInv, InstallInv, Kind
<1>2. rows[i].name = "definition"
    BY <1>1 DEF EvidenceInv, InstallInv
<1>3. Positions(rows, "install-intent", "definition") # {}
    BY <1>1, <1>2 DEF Positions
<1>4. PICK j \in DOMAIN rows : j = Only(rows, "install-intent", "definition") /\ rows[j].kind = "install-intent"
    BY <1>3, OnlyIs
<1>5. rows \in Seq(Rows) /\ x = rows[j]
    BY <1>4, ObserverIs
<1>6. x \in Rows
    BY <1>5
<1> QED BY <1>4, <1>5, <1>6 DEF EvidenceInv, InstallInv

(* The copy is what the intent recorded.                                   *)
LEMMA InstallCopiesKeeps == ASSUME OpensInv, EvidenceInv, InstallCopies PROVE EvidenceInv'
<1>1. PICK x : x = rows[Only(rows, "install-intent", "definition")]
    OBVIOUS
<1>2. /\ observer.at = "installing" /\ UNCHANGED <<disk, root, manager, drain, extension>> /\ rows' = rows
      /\ observer' = [observer EXCEPT !.at = "reloading", !.installed = x.ver]
    BY <1>1 DEF InstallCopies
<1>3. x \in Rows /\ x.ver = drain.held["definition"].ver /\ x.ver \in Nat /\ Held("definition")
    BY <1>1, <1>2, IntentIs, HeldIs DEF Artifacts
<1>4. /\ observer' \in Observers /\ observer'.at = "reloading" /\ observer'.attempted = observer.attempted
      /\ observer'.installed = x.ver
    BY <1>2, <1>3, ObserverIs DEF Observers
<1>5. PICK r \in Rows : r.kind = "ready"
    BY SomeRow
<1>6. Rowing(r)
    BY <1>2 DEF Rowing
<1>7. EvidenceTypes' /\ DiskStands' /\ LeaseHolds' /\ WritesAreRecorded' /\ QueueInv' /\ LoadInv' /\ ExecInv'
    BY <1>2, <1>4, <1>5, <1>6, TickKeeps DEF Shut
<1>8. EndInv' /\ AdmitInv'
    BY <1>2, <1>4, <1>5, <1>6, EndSame, AdmitSame DEF Shut
<1>9. InstallInv'
    BY <1>2, <1>3, <1>4 DEF EvidenceInv, InstallInv, Held, Kind
<1> QED BY <1>7, <1>8, <1>9 DEF EvidenceInv

(* The result is what was copied.                                          *)
LEMMA InstallEndsKeeps == ASSUME OpensInv, EvidenceInv, NEW loaded \in BOOLEAN, InstallEnds(loaded) PROVE EvidenceInv'
<1>1. /\ observer.at = "reloading" /\ UNCHANGED <<disk, root, manager, drain, extension>>
      /\ observer' = [observer EXCEPT !.at = "idle", !.attempted = TRUE]
    BY DEF InstallEnds
<1>2. /\ observer' \in Observers /\ observer'.at = "idle" /\ observer'.attempted
      /\ observer'.installed = observer.installed
    BY <1>1, ObserverIs DEF Observers
<1>3. CASE loaded
  <2>1. PICK x : x = rows[Only(rows, "install-intent", "definition")]
    OBVIOUS
  <2>2. PICK r : r = [x EXCEPT !.kind = "install-result"]
    OBVIOUS
  <2>3. x \in Rows
    BY <1>1, <2>1, IntentIs
  <2>4. r \in Rows /\ r.kind = "install-result"
    BY <2>2, <2>3 DEF Rows, RowKinds
  <2>5. Rowing(r)
    BY <1>3, <2>1, <2>2 DEF InstallEnds, Record, Rowing
  <2>6. EvidenceTypes' /\ DiskStands' /\ LeaseHolds' /\ WritesAreRecorded' /\ QueueInv' /\ LoadInv' /\ ExecInv'
    BY <1>1, <1>2, <2>4, <2>5, TickKeeps DEF Shut
  <2>7. EndInv' /\ AdmitInv'
    BY <1>1, <1>2, <2>4, <2>5, EndSame, AdmitSame DEF Shut
  <2>8. InstallInv'
    <3>1. \A i \in DOMAIN rows' : rows'[i].kind = "install-intent" => i \in DOMAIN rows /\ rows[i] = rows'[i]
        BY <2>4, <2>5, ObserverIs, RowsGo
    <3>2. observer.installed = drain.held["definition"].ver /\ Held("definition") /\ Held("definition")'
        BY <1>1 DEF EvidenceInv, InstallInv, Held
    <3> QED BY <1>1, <1>2, <3>1, <3>2 DEF EvidenceInv, InstallInv
  <2> QED BY <2>6, <2>7, <2>8 DEF EvidenceInv
<1>4. CASE ~loaded
  <2> DEFINE r == Row("install-refused", "none", Absent)
  <2>1. r \in Rows /\ r.kind = "install-refused" /\ Rowing(r)
    BY <1>4, NoteIs DEF RowKinds, InstallEnds, Note, Record, Rowing
  <2> HIDE DEF r
  <2> QED BY <1>1, <1>2, <2>1, NoteKeeps DEF Plain, Shut
<1> QED BY <1>3, <1>4

-----------------------------------------------------------------------------
(* The close: both threads' verdict is final.                              *)
LEMMA CloseEndsKeeps == ASSUME EvidenceInv, CloseEnds PROVE EvidenceInv'
<1> DEFINE f == [ino |-> 0, ver |-> IF Healthy THEN 0 ELSE 1]
           r == Row("closed", "none", f)
<1>1. f.ino \in Nat /\ f.ver \in Nat /\ (f.ver = 0 => Healthy)
    OBVIOUS
<1> HIDE DEF f
<1>2. r \in Rows /\ r.kind = "closed" /\ r.ver = f.ver
  <2>1. "closed" \in RowKinds
    BY DEF RowKinds
  <2> QED BY <1>1, <2>1, RowIs
<1> USE DEF f
<1>3. Rowing(r)
    BY DEF CloseEnds, Record, Rowing
<1> HIDE DEF f, r
<1>4. /\ observer.at = "closing" /\ drain.at = "over" /\ observer' = [observer EXCEPT !.at = "closed"]
      /\ UNCHANGED <<disk, root, manager, drain, extension>>
    BY DEF CloseEnds
<1>5. /\ observer' \in Observers /\ observer'.at = "closed" /\ observer'.attempted = observer.attempted
      /\ observer'.installed = observer.installed
    BY <1>4, ObserverIs DEF Observers
<1>6. EvidenceTypes' /\ DiskStands' /\ LeaseHolds' /\ WritesAreRecorded' /\ QueueInv' /\ LoadInv' /\ ExecInv'
    BY <1>2, <1>3, <1>4, <1>5, TickKeeps DEF Shut
<1>7. AdmitInv' /\ InstallInv'
    BY <1>2, <1>3, <1>4, <1>5, AdmitSame, InstallSame
<1>8. EndInv'
  <2>1. \A i \in DOMAIN rows' : rows'[i].kind = "closed" => (rows'[i].ver = 0 => ~Bad)
    <3> TAKE i \in DOMAIN rows'
    <3>1. rows'[i] = r \/ (i \in DOMAIN rows /\ rows'[i] = rows[i])
        BY <1>2, <1>3, ObserverIs, RowsGo
    <3> QED BY <1>1, <1>2, <3>1 DEF EvidenceInv, EndInv, Healthy, Bad
  <2> QED BY <1>4, <1>5, <2>1 DEF EvidenceInv, EndInv, Shut, Bad
<1> QED BY <1>6, <1>7, <1>8 DEF EvidenceInv

-----------------------------------------------------------------------------
(* What files, manager and drain thread do to what was admitted, installed *)
(* or closed: nothing.                                                     *)
LEMMA LaterSame ==
    ASSUME EvidenceInv, NEW r \in Rows, Rowing(r), r.kind \in {"closed-write", "manager-open", "exec-open"},
           observer' = observer, extension' \in {extension, "applied"},
           \A n : Held(n) => drain'.held[n] = drain.held[n],
           manager.load = "yes" /\ Runs =>
              manager'.load = "yes" /\ Runs' /\ manager'.def = manager.def /\ manager'.img = manager.img,
           drain.at = "over" => drain'.at = "over" /\ Bad' = Bad,
           drain'.at = "over" => drain'.error \/ drain'.finish,
           drain'.finish = drain.finish
    PROVE  EndInv' /\ AdmitInv' /\ InstallInv'
<1>1. \A i \in DOMAIN rows' :
         rows'[i].kind \in {"closed", "admission-intent", "install-intent"} => i \in DOMAIN rows /\ rows[i] = rows'[i]
    BY ObserverIs, RowsGo
<1>2. /\ Kind("admission-ready")' => Kind("admission-ready")
      /\ Kind("admission-intent")' => Kind("admission-intent")
      /\ Kind("install-result")' => Kind("install-result")
      /\ Kind("install-intent") => Kind("install-intent")'
      /\ \A n : Written(n) => Written(n)'
    BY ObserverIs, KindsGo
<1>3. \A n : Held(n) => Held(n)'
    BY DEF Held
<1>4. EndInv'
    BY <1>1 DEF EvidenceInv, EndInv, Shut
<1>5. AdmitInv'
  <2>1. ASSUME observer'.at = "admitting" \/ Kind("admission-ready")'
        PROVE  /\ observer'.attempted /\ Runs' /\ manager'.load = "yes" /\ Written("definition")' /\ Written("payload")'
               /\ manager'.def = drain'.held["definition"].ver /\ manager'.img = drain'.held["payload"].ver
    <3>1. /\ observer.attempted /\ Runs /\ manager.load = "yes" /\ Written("definition") /\ Written("payload")
          /\ manager.def = drain.held["definition"].ver /\ manager.img = drain.held["payload"].ver
        BY <1>2, <2>1 DEF EvidenceInv, AdmitInv
    <3>2. Held("definition") /\ Held("payload")
        BY <3>1, WrittenHeld
    <3> QED BY <1>2, <3>1, <3>2
  <2>2. Kind("admission-ready")' => extension' = "applied"
    BY <1>2 DEF EvidenceInv, AdmitInv
  <2>3. Kind("admission-intent")' => observer'.attempted
    BY <1>2 DEF EvidenceInv, AdmitInv
  <2>4. \A i, j \in DOMAIN rows' :
           rows'[i].kind = "admission-intent" /\ rows'[j].kind = "admission-intent" => i = j
    BY <1>1 DEF EvidenceInv, AdmitInv
  <2> QED BY <2>1, <2>2, <2>3, <2>4 DEF AdmitInv
<1>6. InstallInv'
    BY <1>1, <1>2, <1>3 DEF EvidenceInv, InstallInv
<1> QED BY <1>4, <1>5, <1>6

(* A step of the world writes no row.                                      *)
LEMMA WorldSame ==
    ASSUME EvidenceInv, rows' = rows, observer' = observer, extension' \in {extension, "applied"},
           drain'.held = drain.held, drain'.at = drain.at, drain'.now = drain.now,
           drain'.error = drain.error, drain'.finish = drain.finish,
           drain.at = "over" => drain'.broken = drain.broken,
           root' \in 0..4, root' # root => observer.at # "off",
           manager.load = "yes" /\ Runs =>
              manager'.load = "yes" /\ Runs' /\ manager'.def = manager.def /\ manager'.img = manager.img
    PROVE  EvidenceTypes' /\ WritesAreRecorded' /\ EndInv' /\ AdmitInv' /\ InstallInv'
<1>1. PICK r \in Rows : r.kind = "manager-open"
  <2>1. "manager-open" \in RowKinds
    BY DEF RowKinds
  <2> QED BY <2>1, NoteIs
<1>2. Rowing(r)
    BY DEF Rowing
<1>3. EvidenceTypes'
    BY DEF EvidenceInv, EvidenceTypes
<1>4. WritesAreRecorded'
    BY <1>1, <1>2, WritesSame
<1>5. EndInv' /\ AdmitInv' /\ InstallInv'
    BY <1>1, <1>2, LaterSame DEF EvidenceInv, EndInv, Bad
<1> QED BY <1>3, <1>4, <1>5

-----------------------------------------------------------------------------
(* Root goes on, the scope extends: neither is what the evidence rests on. *)
LEMMA BesideKeeps ==
    ASSUME EvidenceInv, UNCHANGED <<disk, manager, drain, rows, observer>>, extension' \in {extension, "applied"},
           root' \in 0..4, root' >= root, root' # root => observer.at # "off"
    PROVE  EvidenceInv'
<1>1. EvidenceTypes' /\ WritesAreRecorded' /\ EndInv' /\ AdmitInv' /\ InstallInv'
    BY WorldSame DEF Runs
<1>2. DiskStands'
    BY DEF EvidenceInv, EvidenceTypes, DiskStands, Held
<1>3. LeaseHolds'
    BY DEF EvidenceInv, LeaseHolds, Held, Leased
<1>4. QueueInv' /\ LoadInv'
    BY DEF EvidenceInv, QueueInv, LoadWaits, ExecWaits, LoadInv, Spoiled, Closes, Bad, Listens, Written
<1>5. ExecInv'
    BY DEF EvidenceInv, ExecInv, Listens, PayloadFirst, Kind, Written, Bad, Runs, Shut
<1> QED BY <1>1, <1>2, <1>3, <1>4, <1>5 DEF EvidenceInv

(* ... as the actions do it.                                               *)
LEMMA BesidesKeep ==
    ASSUME EvidenceInv, RootExec \/ RootExits \/ KernelDrains \/ ScopeExtends PROVE EvidenceInv'
<1>0. root \in 0..4 /\ (observer.at = "off" => root = 0)
    BY DEF EvidenceInv, EvidenceTypes
<1>1. /\ UNCHANGED <<disk, manager, drain, rows, observer>> /\ extension' \in {extension, "applied"}
      /\ root' \in 0..4 /\ root' >= root /\ (root' # root => observer.at # "off")
    BY <1>0 DEF RootExec, RootExits, KernelDrains, ScopeExtends
<1> QED BY <1>1, BesideKeeps

(* A file changes: by a write, which the drain thread hears of and which   *)
(* breaks a lease, or to another inode.                                    *)
LEMMA FileKeeps ==
    ASSUME OpensInv, EvidenceInv, NEW n \in Artifacts, NEW f \in Versions, NEW e \in Events,
           disk' = [disk EXCEPT ![n] = f], UNCHANGED <<manager, observer, rows, extension>>,
           drain'.held = drain.held, drain'.at = drain.at, drain'.now = drain.now,
           drain'.error = drain.error, drain'.finish = drain.finish,
           drain.at = "over" => drain'.broken = drain.broken, drain.broken => drain'.broken,
           drain'.queue = drain.queue \/ (Listens /\ drain'.queue = Append(drain.queue, e)),
           e.is = "close", e.name = n, e.ino > 0, f.ino > 0, f.ino >= disk[n].ino,
           \/ f = disk[n]
           \/ f.ino > disk[n].ino
           \/ (Leased(n) => drain'.broken) /\ (Listens => drain'.queue = Append(drain.queue, e)),
           observer.at # "off", root' \in 0..4, root' >= root,
           n = "payload" => root' > 1, n = "definition" => root' > 2
    PROVE  EvidenceInv'
<1>1. EvidenceTypes' /\ WritesAreRecorded' /\ EndInv' /\ AdmitInv' /\ InstallInv'
    BY WorldSame DEF Runs
<1>2. /\ disk'[n] = f /\ \A m \in Artifacts : m # n => disk'[m] = disk[m]
      /\ \A m \in Artifacts : disk[m].ino \in Nat /\ disk'[m].ino \in Nat /\ drain.held[m].ino \in Nat
      /\ manager.fd.ino \in Nat /\ root \in 0..4 /\ disk[n] \in Versions
    BY OpensTyped DEF Versions, EvidenceInv, EvidenceTypes
<1>3. /\ \A i \in DOMAIN drain.queue : i \in DOMAIN drain'.queue /\ drain'.queue[i] = drain.queue[i] /\ i \in Nat
      /\ \A i \in DOMAIN drain'.queue : i \in Nat /\
            (i \notin DOMAIN drain.queue => drain'.queue[i] = e /\ \A j \in DOMAIN drain.queue : j < i)
      /\ drain'.queue = Append(drain.queue, e) =>
            \E i \in DOMAIN drain'.queue : i \notin DOMAIN drain.queue /\ drain'.queue[i] = e
  <2>1. drain.queue \in Seq(Events)
    BY OpensTyped
  <2>2. PICK t : t = drain'.queue
    OBVIOUS
  <2>3. t = drain.queue \/ t = Append(drain.queue, e)
    BY <2>2
  <2>4. /\ \A i \in DOMAIN drain.queue : i \in DOMAIN t /\ t[i] = drain.queue[i] /\ i \in Nat
        /\ \A i \in DOMAIN t : i \in Nat /\
              (i \notin DOMAIN drain.queue => t[i] = e /\ \A j \in DOMAIN drain.queue : j < i)
        /\ t = Append(drain.queue, e) => \E i \in DOMAIN t : i \notin DOMAIN drain.queue /\ t[i] = e
    BY SMTT(30), <2>1, <2>3, QueueGo
  <2> QED BY <2>2, <2>4
<1>4. Listens' = Listens /\ (Bad => Bad') /\ (Spoiled => Spoiled') /\ \A m : Held(m)' = Held(m) /\ Leased(m)' = Leased(m)
    BY <1>3 DEF Listens, Bad, Spoiled, Closes, Held, Leased
<1>5. DiskStands'
  <2>1. \A m \in Artifacts : disk'[m] # Absent => disk'[m].ino > 0
    BY <1>2 DEF EvidenceInv, DiskStands
  <2>2. f # Absent
    BY DEF Absent
  <2>3. \A m \in Artifacts : Held(m)' => disk'[m] # Absent
    BY <1>2, <1>4, <2>2 DEF EvidenceInv, DiskStands
  <2>4. /\ root' <= 1 => disk'["payload"] = Absent
        /\ root' <= 2 => disk'["definition"] = Absent
    BY <1>2 DEF EvidenceInv, DiskStands, Artifacts
  <2>5. manager'.load # "no" => disk'["definition"] # Absent
    BY <1>2, <2>2 DEF EvidenceInv, DiskStands, Artifacts
  <2>6. \A k \in DOMAIN drain'.queue : drain'.queue[k].ino > 0 \/ drain'.queue[k].is # "close"
    BY <1>3 DEF EvidenceInv, DiskStands
  <2> QED BY <2>1, <2>3, <2>4, <2>5, <2>6 DEF DiskStands
<1>6. LeaseHolds'
  <2> SUFFICES ASSUME NEW m \in Artifacts, Held(m)
               PROVE  /\ disk'[m].ino >= drain.held[m].ino
                      /\ Leased(m) /\ ~drain'.broken /\ disk'[m].ino = drain.held[m].ino => disk'[m].ver = drain.held[m].ver
    BY <1>4 DEF EvidenceInv, LeaseHolds
  <2>1. /\ disk[m].ino >= drain.held[m].ino
        /\ Leased(m) /\ ~drain.broken /\ disk[m].ino = drain.held[m].ino => disk[m].ver = drain.held[m].ver
    BY DEF EvidenceInv, LeaseHolds
  <2>2. CASE m # n
    BY <1>2, <2>1, <2>2
  <2>3. CASE m = n
    <3>1. Listens \/ ~Leased(m) \/ drain.at = "off"
        BY OpensTyped DEF Leased, Listens, Drains
    <3> QED BY <1>2, <2>1, <2>3
  <2> QED BY <2>2, <2>3
<1>7. QueueInv'
  <2>1. ~Listens' => drain'.queue = <<>>
    BY <1>4 DEF EvidenceInv, QueueInv
  <2>2. \A i, j \in DOMAIN drain'.queue :
           drain'.queue[i].is = drain'.queue[j].is /\ drain'.queue[i].is # "close" => i = j
    BY <1>3 DEF EvidenceInv, QueueInv
  <2>3. ASSUME NEW j \in DOMAIN drain'.queue, drain'.queue[j].is = "load" PROVE LoadWaits(j)'
    <3>1. j \in DOMAIN drain.queue /\ drain'.queue[j] = drain.queue[j]
        BY <1>3, <2>3
    <3>2. LoadWaits(j) /\ Listens
        BY <2>3, <3>1 DEF EvidenceInv, QueueInv
    <3>3. \A k \in DOMAIN drain.queue : k > j /\ Closes("definition", k) => k \in DOMAIN drain'.queue /\ Closes("definition", k)'
        BY <1>3 DEF Closes
    <3>4. CASE n # "definition"
        BY <1>2, <3>1, <3>2, <3>3, <3>4 DEF LoadWaits, Artifacts
    <3>5. CASE n = "definition" /\ f = disk[n]
        BY <1>2, <3>1, <3>2, <3>3, <3>5 DEF LoadWaits
    <3>6. CASE n = "definition" /\ f.ino > disk[n].ino
        BY <1>2, <3>1, <3>2, <3>6 DEF LoadWaits
    <3>7. CASE n = "definition" /\ drain'.queue = Append(drain.queue, e)
      <4>1. PICK k \in DOMAIN drain'.queue : k \notin DOMAIN drain.queue /\ drain'.queue[k] = e
        BY <1>3, <3>7
      <4>2. k > j /\ Closes("definition", k)'
        BY <1>3, <3>1, <3>7, <4>1 DEF Closes
      <4> QED BY <1>2, <3>1, <3>2, <3>7, <4>1, <4>2 DEF LoadWaits
    <3> QED BY <3>2, <3>4, <3>5, <3>6, <3>7
  <2>4. ASSUME NEW j \in DOMAIN drain'.queue, drain'.queue[j].is = "exec" PROVE ExecWaits(j)'
    <3>1. j \in DOMAIN drain.queue /\ drain'.queue[j] = drain.queue[j]
        BY <1>3, <2>4
    <3>2. ExecWaits(j)
        BY <2>4, <3>1 DEF EvidenceInv, QueueInv
    <3>3. \A k \in DOMAIN drain.queue : k < j /\ Closes("definition", k) => k \in DOMAIN drain'.queue /\ Closes("definition", k)'
        BY <1>3 DEF Closes
    <3> QED BY <1>4, <3>1, <3>2, <3>3 DEF ExecWaits
  <2> QED BY <2>1, <2>2, <2>3, <2>4 DEF QueueInv
<1>8. LoadInv'
    BY <1>4 DEF EvidenceInv, LoadInv, Written
<1>9. ExecInv'
  <2>1. PayloadFirst' = PayloadFirst /\ (\A k : Kind(k)' = Kind(k)) /\ Written("definition")' = Written("definition")
        /\ Runs' = Runs /\ Shut' = Shut
    BY DEF PayloadFirst, Kind, Written, Runs, Shut
  <2> QED BY <1>4, <2>1 DEF EvidenceInv, ExecInv
<1> QED BY <1>1, <1>5, <1>6, <1>7, <1>8, <1>9 DEF EvidenceInv

(* Root's writes.                                                          *)
LEMMA RootWritesStands == ASSUME OpensInv, EvidenceInv, NEW n \in Artifacts, RootWrites(n) PROVE EvidenceInv'
<1> DEFINE f == [ino |-> 1, ver |-> 1]
           e == Event("close", n, f)
<1>1. f \in Versions /\ f.ino = 1
    BY DEF Versions
<1>2. e \in Events /\ e.is = "close" /\ e.name = n /\ e.ino = 1
    BY <1>1 DEF Event, Events, Versions
<1> HIDE DEF f
<1>3. /\ disk' = [disk EXCEPT ![n] = f] /\ UNCHANGED <<manager, observer, rows, extension>>
      /\ root = (IF n = "payload" THEN 1 ELSE 2) /\ root' = root + 1
    BY DEF RootWrites, f
<1>4. disk'[n] = f /\ disk[n] = Absent
    BY <1>3, OpensTyped DEF EvidenceInv, DiskStands, Artifacts
<1>5. drain' = Post(e)
    BY <1>4 DEF RootWrites
<1> HIDE DEF e
<1>6. observer.at # "off" /\ root' \in 0..4 /\ root' >= root
      /\ (n = "payload" => root' > 1) /\ (n = "definition" => root' > 2)
    BY <1>3 DEF EvidenceInv, EvidenceTypes
<1>7. /\ drain'.held = drain.held /\ drain'.at = drain.at /\ drain'.now = drain.now
      /\ drain'.error = drain.error /\ drain'.finish = drain.finish /\ drain'.broken = drain.broken
      /\ Listens => drain'.queue = Append(drain.queue, e)
      /\ ~Listens => drain'.queue = drain.queue
    BY <1>5, OpensTyped DEF Post, Listens, Drains
<1>8. f.ino > disk[n].ino
    BY <1>1, <1>4 DEF Absent
<1>9. f.ino > 0 /\ f.ino >= disk[n].ino /\ e.ino > 0
    BY <1>1, <1>2, <1>4 DEF Absent
<1> QED BY <1>1, <1>2, <1>3, <1>6, <1>7, <1>8, <1>9, FileKeeps

(* A write by somebody else.                                               *)
LEMMA RewriteStands == ASSUME OpensInv, EvidenceInv, NEW n \in Artifacts, Rewrite(n) PROVE EvidenceInv'
<1>1. PICK written \in BOOLEAN :
        /\ written \in (IF Leased(n) THEN BOOLEAN ELSE {TRUE})
        /\ disk' = IF written THEN [disk EXCEPT ![n].ver = @ + 1] ELSE disk
        /\ drain' = [(IF written THEN Post(Event("close", n, disk'[n])) ELSE drain)
                     EXCEPT !.broken = @ \/ Leased(n)]
    BY DEF Rewrite
<1>2. PICK f : f = IF written THEN [disk[n] EXCEPT !.ver = disk[n].ver + 1] ELSE disk[n]
    OBVIOUS
<1>3. disk[n] \in Versions /\ disk[n].ino \in Nat /\ disk[n].ver \in Nat /\ disk[n].ver + 1 \in Nat /\ disk[n].ino > 0
  <2>1. disk[n] \in Versions
    BY OpensTyped
  <2>2. disk[n].ino \in Nat /\ disk[n].ver \in Nat
    BY <2>1 DEF Versions
  <2>3. disk[n].ino > 0
    BY DEF Rewrite, Writable, EvidenceInv, DiskStands
  <2> QED BY <2>1, <2>2, <2>3
<1>4. f \in Versions /\ f.ino = disk[n].ino /\ (~written => f = disk[n])
    BY <1>2, <1>3 DEF Versions
<1>5. disk' = [disk EXCEPT ![n] = f] /\ disk'[n] = f
    BY <1>1, <1>2, OpensTyped
<1>6. PICK e : e = Event("close", n, f)
    OBVIOUS
<1>7. e \in Events /\ e.is = "close" /\ e.name = n /\ e.ino = f.ino
    BY <1>4, <1>6 DEF Event, Events, Versions
<1>8. drain' = [(IF written THEN Post(e) ELSE drain) EXCEPT !.broken = @ \/ Leased(n)]
    BY <1>1, <1>5, <1>6
<1>9. /\ drain'.held = drain.held /\ drain'.at = drain.at /\ drain'.now = drain.now
      /\ drain'.error = drain.error /\ drain'.finish = drain.finish /\ drain'.broken = (drain.broken \/ Leased(n))
      /\ Listens /\ written => drain'.queue = Append(drain.queue, e)
      /\ ~(Listens /\ written) => drain'.queue = drain.queue
    BY <1>8, OpensTyped DEF Post, Listens, Drains
<1>10. observer.at # "off" /\ UNCHANGED <<manager, observer, rows, extension, root>> /\ root \in 0..4
    BY DEF Rewrite, Writable, EvidenceInv, EvidenceTypes
<1>11. (n = "payload" => root > 1) /\ (n = "definition" => root > 2)
    BY <1>10 DEF Rewrite, Writable, EvidenceInv, DiskStands
<1>12. drain.at = "over" => drain'.broken = drain.broken
  <2>1. drain.broken \in BOOLEAN
    BY OpensTyped DEF Drains
  <2> QED BY <1>9, <2>1 DEF Leased
<1>13. \/ f = disk[n]
       \/ (Leased(n) => drain'.broken) /\ (Listens => drain'.queue = Append(drain.queue, e))
    BY <1>4, <1>9
<1>14. /\ f.ino > 0 /\ e.ino > 0 /\ f.ino >= disk[n].ino /\ root' \in 0..4 /\ root' >= root /\ root' = root
       /\ drain.broken => drain'.broken
       /\ drain'.queue = drain.queue \/ (Listens /\ drain'.queue = Append(drain.queue, e))
  <2>1. root' = root /\ root \in Int /\ root' \in 0..4 /\ root' >= root
    BY <1>10
  <2>2. drain.broken => drain'.broken
    BY <1>9, OpensTyped DEF Drains
  <2>3. drain'.queue = drain.queue \/ (Listens /\ drain'.queue = Append(drain.queue, e))
    BY <1>9
  <2>4. f.ino > 0 /\ e.ino > 0 /\ f.ino >= disk[n].ino
    BY <1>3, <1>4, <1>7
  <2> QED BY <2>1, <2>2, <2>3, <2>4
<1> QED BY ZenonT(60), <1>4, <1>5, <1>7, <1>9, <1>10, <1>11, <1>12, <1>13, <1>14, FileKeeps

(* A file that is moved over the name.                                     *)
LEMMA ReplaceStands == ASSUME OpensInv, EvidenceInv, NEW n \in Artifacts, Replace(n) PROVE EvidenceInv'
<1>1. PICK f : f = [ino |-> disk[n].ino + 1, ver |-> disk[n].ver + 1]
    OBVIOUS
<1>2. disk[n] \in Versions /\ disk[n].ino \in Nat /\ disk[n].ver \in Nat
    BY OpensTyped DEF Versions
<1>3. f \in Versions /\ f.ino = disk[n].ino + 1
    BY <1>1, <1>2 DEF Versions
<1>4. disk' = [disk EXCEPT ![n] = f] /\ UNCHANGED <<manager, observer, rows, extension, root, drain>>
    BY <1>1 DEF Replace
<1>5. PICK e : e = Event("close", n, f)
    OBVIOUS
<1>6. e \in Events /\ e.is = "close" /\ e.name = n /\ e.ino = f.ino
    BY <1>3, <1>5 DEF Event, Events, Versions
<1>7. observer.at # "off" /\ root \in 0..4
    BY DEF Replace, Writable, EvidenceInv, EvidenceTypes
<1>8. (n = "payload" => root > 1) /\ (n = "definition" => root > 2)
    BY <1>7 DEF Replace, Writable, EvidenceInv, DiskStands
<1>9. f.ino > 0 /\ e.ino > 0 /\ f.ino >= disk[n].ino /\ f.ino > disk[n].ino /\ root' \in 0..4 /\ root' >= root /\ root' = root
    BY <1>2, <1>3, <1>4, <1>6, <1>7
<1> QED BY <1>3, <1>4, <1>6, <1>7, <1>8, <1>9, FileKeeps

-----------------------------------------------------------------------------
(* The manager.                                                            *)

(* Only files that are there are opened, and only a collector that started *)
(* is asked.                                                               *)
LEMMA NoEvents ==
    ASSUME EvidenceInv, NEW j \in DOMAIN drain.queue
    PROVE  /\ drain.queue[j].is = "load" => manager.load = "opening"
           /\ drain.queue[j].is = "exec" => manager.load = "yes" /\ manager.fire = "opening"
BY DEF EvidenceInv, QueueInv, LoadWaits, ExecWaits

(* Without an open under way only closed files wait.                       *)
LEMMA OnlyCloses ==
    ASSUME OpensInv, EvidenceInv, manager.load # "opening", manager.load = "yes" => manager.fire # "opening"
    PROVE  \A j \in DOMAIN drain.queue : drain.queue[j].is = "close"
<1> SUFFICES ASSUME NEW j \in DOMAIN drain.queue PROVE drain.queue[j].is = "close"
    OBVIOUS
<1>1. drain.queue[j] \in Events
    BY OpensTyped
<1>2. drain.queue[j].is \in {"close", "load", "exec"}
    BY <1>1 DEF Events
<1> QED BY <1>2, NoEvents

(* No row, no new evidence.                                                *)
LEMMA RowsSame ==
    ASSUME rows' = rows
    PROVE  PayloadFirst' = PayloadFirst /\ (\A k : Kind(k)' = Kind(k)) /\ (\A n : Written(n)' = Written(n))
BY DEF PayloadFirst, Kind, Written

(* What the manager does leaves files, leases and rows as they are.        *)
LEMMA ManagerSame ==
    ASSUME EvidenceInv, UNCHANGED <<disk, root, observer, rows, extension>>,
           drain'.held = drain.held, drain'.at = drain.at, drain'.now = drain.now,
           drain'.error = drain.error, drain'.finish = drain.finish, drain'.broken = drain.broken,
           manager'.load # "no" => disk["definition"] # Absent,
           \A k \in DOMAIN drain'.queue : drain'.queue[k].ino > 0 \/ drain'.queue[k].is # "close",
           manager.load = "yes" /\ Runs =>
              manager'.load = "yes" /\ Runs' /\ manager'.def = manager.def /\ manager'.img = manager.img
    PROVE  /\ EvidenceTypes' /\ DiskStands' /\ LeaseHolds' /\ WritesAreRecorded' /\ EndInv' /\ AdmitInv' /\ InstallInv'
<1>1. EvidenceTypes' /\ WritesAreRecorded' /\ EndInv' /\ AdmitInv' /\ InstallInv'
  <2>1. root' \in 0..4
    BY DEF EvidenceInv, EvidenceTypes
  <2> QED BY <2>1, WorldSame
<1>2. DiskStands'
    BY DEF EvidenceInv, DiskStands, Held
<1>3. LeaseHolds'
    BY DEF EvidenceInv, LeaseHolds, Held, Leased
<1> QED BY <1>1, <1>2, <1>3

(* The definition is opened: nothing is known of it yet.                   *)
LEMMA ManagerOpensStands == ASSUME OpensInv, EvidenceInv, ManagerOpens PROVE EvidenceInv'
<1>1. PICK e : e = Event("load", "definition", disk["definition"])
    OBVIOUS
<1>2. disk["definition"] \in Versions /\ disk["definition"].ino \in Nat /\ disk["definition"].ver \in Nat
    BY OpensTyped DEF Versions
<1>3. e \in Events /\ e.is = "load" /\ e.name = "definition" /\ e.ino = disk["definition"].ino
    BY <1>1, <1>2 DEF Event, Events, Artifacts
<1>4. /\ manager.load = "no" /\ disk["definition"] # Absent /\ drain' = Post(e)
      /\ UNCHANGED <<disk, root, observer, rows, extension>>
    BY <1>1 DEF ManagerOpens
<1>5. /\ manager'.load = (IF Listens THEN "opening" ELSE "allowed") /\ manager'.fd = disk["definition"]
      /\ manager'.fire = manager.fire /\ manager'.def = manager.def /\ manager'.img = manager.img
    BY OpensTyped DEF ManagerOpens, Managers, Opens, Listens
<1>6. /\ drain'.held = drain.held /\ drain'.at = drain.at /\ drain'.now = drain.now
      /\ drain'.error = drain.error /\ drain'.finish = drain.finish /\ drain'.broken = drain.broken
      /\ Listens => drain'.queue = Append(drain.queue, e)
      /\ ~Listens => drain'.queue = drain.queue
    BY <1>4, OpensTyped DEF Post, Listens, Drains
<1>7. drain'.queue = drain.queue \/ drain'.queue = Append(drain.queue, e)
    BY <1>6
<1>8. /\ \A i \in DOMAIN drain.queue : i \in DOMAIN drain'.queue /\ drain'.queue[i] = drain.queue[i]
      /\ \A i \in DOMAIN drain'.queue : i \notin DOMAIN drain.queue => drain'.queue[i] = e
      /\ \A i, j \in DOMAIN drain'.queue : i \notin DOMAIN drain.queue /\ j \notin DOMAIN drain.queue => i = j
  <2>1. drain.queue \in Seq(Events)
    BY OpensTyped
  <2>2. PICK t : t = drain'.queue
    OBVIOUS
  <2>3. t = drain.queue \/ t = Append(drain.queue, e)
    BY <1>7, <2>2
  <2>4. /\ \A i \in DOMAIN drain.queue : i \in DOMAIN t /\ t[i] = drain.queue[i]
        /\ \A i \in DOMAIN t : i \notin DOMAIN drain.queue => t[i] = e /\ \A j \in DOMAIN drain.queue : j < i
        /\ \A i, j \in DOMAIN t : i \notin DOMAIN drain.queue /\ j \notin DOMAIN drain.queue => i = j
    BY <1>3, <2>1, <2>3, QueueGo
  <2> QED BY <2>2, <2>4
<1>9. \A j \in DOMAIN drain.queue : drain.queue[j].is = "close"
    BY <1>4, OnlyCloses
<1>10. manager.fire = "no"
    BY <1>4 DEF EvidenceInv, LoadInv
<1>11. /\ EvidenceTypes' /\ DiskStands' /\ LeaseHolds' /\ WritesAreRecorded' /\ EndInv' /\ AdmitInv' /\ InstallInv'
  <2>1. \A k \in DOMAIN drain'.queue : drain'.queue[k].ino > 0 \/ drain'.queue[k].is # "close"
    BY <1>3, <1>8 DEF EvidenceInv, DiskStands
  <2> QED BY <1>4, <1>6, <2>1, ManagerSame
<1>12. QueueInv'
  <2>1. ~Listens' => drain'.queue = <<>>
    BY <1>6 DEF EvidenceInv, QueueInv, Listens
  <2>2. ASSUME NEW j \in DOMAIN drain'.queue, drain'.queue[j].is # "close"
        PROVE  j \notin DOMAIN drain.queue /\ drain'.queue[j] = e
    BY <1>8, <1>9, <2>2
  <2>3. ASSUME NEW j \in DOMAIN drain'.queue, drain'.queue[j].is = "load" PROVE LoadWaits(j)'
    <3>1. drain'.queue[j] = e /\ Listens
        BY <1>6, <2>2, <2>3
    <3> QED BY <1>2, <1>3, <1>4, <1>5, <3>1 DEF LoadWaits
  <2>4. \A j \in DOMAIN drain'.queue : drain'.queue[j].is # "exec"
    BY <1>3, <2>2
  <2>5. \A i, j \in DOMAIN drain'.queue :
           drain'.queue[i].is = drain'.queue[j].is /\ drain'.queue[i].is # "close" => i = j
    BY <1>8, <2>2
  <2> QED BY <2>1, <2>3, <2>4, <2>5 DEF QueueInv
<1>13. LoadInv'
    BY <1>5, <1>6, <1>10 DEF LoadInv, Listens
<1>14. ExecInv'
    BY <1>4, <1>5, <1>10, RowsSame DEF EvidenceInv, ExecInv, Runs
<1> QED BY <1>11, <1>12, <1>13, <1>14 DEF EvidenceInv

(* It is read: the leased version, if the lease held.                      *)
LEMMA ManagerLoadsStands == ASSUME OpensInv, EvidenceInv, ManagerLoads PROVE EvidenceInv'
<1>1. /\ manager.load = "allowed" /\ UNCHANGED <<disk, root, observer, rows, extension, drain>>
      /\ manager'.load = "yes" /\ manager'.def = Contents("definition") /\ manager'.fire = manager.fire
      /\ manager'.img = manager.img
    BY OpensTyped DEF ManagerLoads, Managers
<1>2. manager.fire = "no" /\ \A j \in DOMAIN drain.queue : drain.queue[j].is = "close"
    BY <1>1, OnlyCloses DEF EvidenceInv, LoadInv
<1>3. /\ EvidenceTypes' /\ DiskStands' /\ LeaseHolds' /\ WritesAreRecorded' /\ EndInv' /\ AdmitInv' /\ InstallInv'
    BY <1>1, ManagerSame DEF EvidenceInv, DiskStands
<1>4. QueueInv'
    BY <1>1, <1>2 DEF EvidenceInv, QueueInv, Listens
<1>5. LoadInv'
  <2>1. ASSUME Listens
        PROVE  Written("definition") /\ (manager'.def = drain.held["definition"].ver \/ Spoiled)
    <3>1. /\ Written("definition") /\ manager.fd.ino = drain.held["definition"].ino
          /\ manager.fd.ver = drain.held["definition"].ver \/ Spoiled
        BY <1>1, <2>1 DEF EvidenceInv, LoadInv
    <3>2. Held("definition") /\ Leased("definition") /\ "definition" \in Artifacts
        BY <2>1, <3>1, WrittenHeld DEF Leased, Listens
    <3>3. ~drain.broken /\ disk["definition"].ino = drain.held["definition"].ino =>
             disk["definition"].ver = drain.held["definition"].ver
        BY <3>2 DEF EvidenceInv, LeaseHolds
    <3> QED BY <1>1, <3>1, <3>3 DEF Contents, Spoiled, Bad
  <2>2. Listens' = Listens /\ Spoiled' = Spoiled
    BY <1>1 DEF Listens, Spoiled, Bad, Closes
  <2> QED BY <1>1, <1>2, <2>1, <2>2, RowsSame DEF LoadInv
<1>6. ExecInv'
    BY <1>1, <1>2, RowsSame DEF EvidenceInv, ExecInv, Runs
<1> QED BY <1>3, <1>4, <1>5, <1>6 DEF EvidenceInv

(* The payload is opened.                                                  *)
LEMMA FiresStands == ASSUME OpensInv, EvidenceInv, Fires PROVE EvidenceInv'
<1>1. PICK e : e = Event("exec", "payload", disk["payload"])
    OBVIOUS
<1>2. disk["payload"] \in Versions /\ disk["payload"].ino \in Nat /\ disk["payload"].ver \in Nat
    BY OpensTyped DEF Versions
<1>3. e \in Events /\ e.is = "exec" /\ e.name = "payload" /\ e.ino = disk["payload"].ino
    BY <1>1, <1>2 DEF Event, Events, Artifacts
<1>4. /\ manager.load = "yes" /\ manager.fire = "no" /\ drain' = Post(e)
      /\ UNCHANGED <<disk, root, observer, rows, extension>>
    BY <1>1 DEF Fires
<1>5. /\ manager'.fire = (IF Listens THEN "opening" ELSE "allowed") /\ manager'.fd = disk["payload"]
      /\ manager'.load = "yes" /\ manager'.def = manager.def
    BY OpensTyped DEF Fires, Managers, Opens, Listens
<1>6. /\ drain'.held = drain.held /\ drain'.at = drain.at /\ drain'.now = drain.now
      /\ drain'.error = drain.error /\ drain'.finish = drain.finish /\ drain'.broken = drain.broken
      /\ Listens => drain'.queue = Append(drain.queue, e)
      /\ ~Listens => drain'.queue = drain.queue
    BY <1>4, OpensTyped DEF Post, Listens, Drains
<1>7. drain'.queue = drain.queue \/ drain'.queue = Append(drain.queue, e)
    BY <1>6
<1>8. /\ \A i \in DOMAIN drain.queue : i \in DOMAIN drain'.queue /\ drain'.queue[i] = drain.queue[i]
      /\ \A i \in DOMAIN drain'.queue : i \notin DOMAIN drain.queue =>
            drain'.queue[i] = e /\ \A j \in DOMAIN drain.queue : j < i
      /\ \A i, j \in DOMAIN drain'.queue : i \notin DOMAIN drain.queue /\ j \notin DOMAIN drain.queue => i = j
  <2>1. drain.queue \in Seq(Events)
    BY OpensTyped
  <2>2. PICK t : t = drain'.queue
    OBVIOUS
  <2>3. t = drain.queue \/ t = Append(drain.queue, e)
    BY <1>7, <2>2
  <2>4. /\ \A i \in DOMAIN drain.queue : i \in DOMAIN t /\ t[i] = drain.queue[i]
        /\ \A i \in DOMAIN t : i \notin DOMAIN drain.queue => t[i] = e /\ \A j \in DOMAIN drain.queue : j < i
        /\ \A i, j \in DOMAIN t : i \notin DOMAIN drain.queue /\ j \notin DOMAIN drain.queue => i = j
    BY <1>3, <2>1, <2>3, QueueGo
  <2> QED BY <2>2, <2>4
<1>9. \A j \in DOMAIN drain.queue : drain.queue[j].is = "close"
    BY <1>4, OnlyCloses
<1>10. /\ EvidenceTypes' /\ DiskStands' /\ LeaseHolds' /\ WritesAreRecorded' /\ EndInv' /\ AdmitInv' /\ InstallInv'
  <2>1. \A k \in DOMAIN drain'.queue : drain'.queue[k].ino > 0 \/ drain'.queue[k].is # "close"
    BY <1>3, <1>8 DEF EvidenceInv, DiskStands
  <2>2. disk["definition"] # Absent /\ ~Runs
    BY <1>4 DEF EvidenceInv, DiskStands, Runs
  <2> QED BY <1>4, <1>6, <2>1, <2>2, ManagerSame
<1>11. Bad' = Bad /\ Listens' = Listens
    BY <1>6 DEF Bad, Listens
<1>12. QueueInv'
  <2>1. ~Listens' => drain'.queue = <<>>
    BY <1>6, <1>11 DEF EvidenceInv, QueueInv
  <2>2. ASSUME NEW j \in DOMAIN drain'.queue, drain'.queue[j].is # "close"
        PROVE  j \notin DOMAIN drain.queue /\ drain'.queue[j] = e
    BY <1>8, <1>9, <2>2
  <2>3. ASSUME NEW j \in DOMAIN drain'.queue, drain'.queue[j].is = "exec" PROVE ExecWaits(j)'
    <3>1. j \notin DOMAIN drain.queue /\ drain'.queue[j] = e /\ Listens
        BY <1>6, <2>2, <2>3
    <3>2. manager.def = drain.held["definition"].ver \/ Spoiled
        BY <1>4, <3>1 DEF EvidenceInv, LoadInv
    <3>3. \A k \in DOMAIN drain.queue : Closes("definition", k) =>
             k \in DOMAIN drain'.queue /\ Closes("definition", k)' /\ k < j
        BY <1>8, <3>1 DEF Closes
    <3>4. manager'.def = drain'.held["definition"].ver \/ Bad'
          \/ \E k \in DOMAIN drain'.queue : k < j /\ Closes("definition", k)'
        BY <1>5, <1>6, <1>11, <3>2, <3>3 DEF Spoiled
    <3> QED BY <1>3, <1>5, <3>1, <3>4 DEF ExecWaits
  <2>4. \A j \in DOMAIN drain'.queue : drain'.queue[j].is # "load"
    BY <1>3, <2>2
  <2>5. \A i, j \in DOMAIN drain'.queue :
           drain'.queue[i].is = drain'.queue[j].is /\ drain'.queue[i].is # "close" => i = j
    BY <1>8, <2>2
  <2> QED BY <2>1, <2>3, <2>4, <2>5 DEF QueueInv
<1>13. LoadInv'
  <2>1. Listens => Written("definition")
    BY <1>4 DEF EvidenceInv, LoadInv
  <2> QED BY <1>4, <1>5, <1>11, <2>1, RowsSame DEF LoadInv
<1>14. ExecInv'
  <2>1. ~Kind("exec-open") /\ ~Kind("invocation")
    BY <1>4 DEF EvidenceInv, ExecInv, Runs
  <2>2. ASSUME Listens, PayloadFirst, disk["payload"].ino = drain.held["payload"].ino
        PROVE  disk["payload"].ver = drain.held["payload"].ver \/ drain.broken
    <3>1. Held("payload") /\ Leased("payload") /\ "payload" \in Artifacts
        BY <2>2, FirstWritten, WrittenHeld DEF Leased, Listens
    <3> QED BY <2>2, <3>1 DEF EvidenceInv, LeaseHolds
  <2> QED BY <1>4, <1>5, <1>6, <1>11, <2>1, <2>2, RowsSame DEF ExecInv
<1> QED BY <1>10, <1>12, <1>13, <1>14 DEF EvidenceInv

(* It is executed: the leased version, if the lease held until then.       *)
LEMMA ExecsStands == ASSUME OpensInv, EvidenceInv, Execs PROVE EvidenceInv'
<1>1. /\ manager.fire = "allowed" /\ UNCHANGED <<disk, root, observer, rows, extension, drain>>
      /\ manager'.fire = "runs" /\ manager'.img = Contents("payload") /\ manager'.load = manager.load
      /\ manager'.def = manager.def
    BY OpensTyped DEF Execs, Managers
<1>2. manager.load = "yes" /\ ~Runs
    BY <1>1 DEF EvidenceInv, LoadInv, Runs
<1>3. /\ EvidenceTypes' /\ DiskStands' /\ LeaseHolds' /\ WritesAreRecorded' /\ EndInv' /\ AdmitInv' /\ InstallInv'
    BY <1>1, <1>2, ManagerSame DEF EvidenceInv, DiskStands
<1>4. QueueInv'
  <2>1. \A j \in DOMAIN drain.queue : drain.queue[j].is \notin {"load", "exec"}
    BY <1>1, <1>2, NoEvents
  <2> QED BY <1>1, <2>1 DEF EvidenceInv, QueueInv, Listens
<1>5. Listens' = Listens /\ Bad' = Bad /\ Spoiled' = Spoiled /\ Shut' = Shut /\ Runs'
    BY <1>1 DEF Listens, Spoiled, Bad, Closes, Shut, Runs
<1>6. LoadInv'
    BY <1>1, <1>2, <1>5, RowsSame DEF EvidenceInv, LoadInv
<1>7. ExecInv'
  <2>1. ~Kind("invocation")
    BY <1>2 DEF EvidenceInv, ExecInv
  <2>2. ASSUME Kind("exec-open"), PayloadFirst, ~Bad, manager'.img # drain.held["payload"].ver PROVE Shut
    <3>1. manager.fd.ino = drain.held["payload"].ino /\ manager.fd.ver = drain.held["payload"].ver
        BY <1>1, <2>2 DEF EvidenceInv, ExecInv
    <3>2. Held("payload") /\ "payload" \in Artifacts
        BY <2>2, FirstWritten, WrittenHeld
    <3>3. ~Leased("payload")
        BY <1>1, <2>2, <3>1, <3>2 DEF Contents, Bad, EvidenceInv, LeaseHolds
    <3>4. drain.at = "over"
        BY <3>2, <3>3 DEF Leased
    <3> QED BY <2>2, <3>4 DEF EvidenceInv, EndInv, Bad
  <2> QED BY <1>1, <1>2, <1>5, <2>1, <2>2, RowsSame DEF EvidenceInv, ExecInv
<1> QED BY <1>3, <1>4, <1>6, <1>7 DEF EvidenceInv

(* Its end changes nothing of what was executed.                           *)
LEMMA PayloadExitsStands == ASSUME OpensInv, EvidenceInv, PayloadExits PROVE EvidenceInv'
<1>1. /\ manager.fire = "runs" /\ UNCHANGED <<disk, root, observer, rows, extension, drain>>
      /\ manager'.fire = "gone" /\ manager'.img = manager.img /\ manager'.load = manager.load
      /\ manager'.def = manager.def
    BY OpensTyped DEF PayloadExits, Managers
<1>2. manager.load = "yes" /\ Runs /\ Runs'
    BY <1>1 DEF EvidenceInv, LoadInv, Runs
<1>3. /\ EvidenceTypes' /\ DiskStands' /\ LeaseHolds' /\ WritesAreRecorded' /\ EndInv' /\ AdmitInv' /\ InstallInv'
    BY <1>1, <1>2, ManagerSame DEF EvidenceInv, DiskStands
<1>4. QueueInv'
  <2>1. \A j \in DOMAIN drain.queue : drain.queue[j].is \notin {"load", "exec"}
    BY <1>1, <1>2, NoEvents
  <2> QED BY <1>1, <2>1 DEF EvidenceInv, QueueInv, Listens
<1>5. Listens' = Listens /\ Bad' = Bad /\ Spoiled' = Spoiled /\ Shut' = Shut
    BY <1>1 DEF Listens, Spoiled, Bad, Closes, Shut
<1>6. LoadInv'
    BY <1>1, <1>2, <1>5, RowsSame DEF EvidenceInv, LoadInv
<1>7. ExecInv'
    BY <1>1, <1>2, <1>5, RowsSame DEF EvidenceInv, ExecInv
<1> QED BY <1>3, <1>4, <1>6, <1>7 DEF EvidenceInv

(* The collector starts before root did anything.                          *)
LEMMA CollectorStartsStands == ASSUME OpensInv, EvidenceInv, CollectorStarts PROVE EvidenceInv'
<1> DEFINE r == Row("ready", "none", Absent)
<1>1. r \in Rows /\ r.kind = "ready" /\ Rowing(r)
    BY NoteIs DEF RowKinds, CollectorStarts, Note, Record, Rowing
<1> HIDE DEF r
<1>2. /\ observer.at = "off" /\ observer' = [observer EXCEPT !.at = "idle"]
      /\ UNCHANGED <<disk, root, manager, extension>>
    BY DEF CollectorStarts
<1>3. /\ observer' \in Observers /\ observer'.at = "idle" /\ observer'.attempted = observer.attempted
      /\ observer'.installed = observer.installed
    BY <1>2, ObserverIs DEF Observers
<1>4. drain.at = "off" /\ root = 0
    BY <1>2 DEF EvidenceInv, EvidenceTypes
<1>5. /\ drain'.at = "on" /\ drain'.held = drain.held /\ drain'.queue = <<>> /\ drain'.now = drain.now
      /\ drain'.error = drain.error /\ drain'.broken = drain.broken /\ drain'.finish = drain.finish
  <2>1. drain.queue = <<>>
    BY <1>4 DEF EvidenceInv, QueueInv, Listens
  <2> QED BY <2>1, OpensTyped DEF CollectorStarts, Drains
<1>6. \A n \in Artifacts : disk[n] = Absent /\ ~Held(n)
    BY <1>4 DEF EvidenceInv, DiskStands, Artifacts
<1>7. manager.load = "no" /\ manager.fire = "no" /\ ~Runs
    BY <1>6 DEF EvidenceInv, DiskStands, LoadInv, Runs, Artifacts
<1>8. /\ \A k : (Kind(k) => Kind(k)') /\ (Kind(k)' => Kind(k) \/ r.kind = k)
      /\ \A i \in DOMAIN rows' : rows'[i].kind # "ready" => i \in DOMAIN rows /\ rows'[i] = rows[i]
    BY <1>1, ObserverIs, KindsGo, RowsGo
<1>9. ~Kind("exec-open")' /\ ~Kind("invocation")' /\ ~Kind("admission-ready")'
    BY <1>1, <1>7, <1>8 DEF EvidenceInv, ExecInv, AdmitInv
<1>10. EvidenceTypes'
    BY <1>1, <1>2, <1>3, <1>5, ObserverIs, RowsGo DEF EvidenceInv, EvidenceTypes
<1>11. DiskStands' /\ LeaseHolds'
    BY <1>2, <1>5, <1>6, <1>7 DEF EvidenceInv, DiskStands, LeaseHolds, Held, Leased
<1>12. WritesAreRecorded'
    BY <1>1, <1>4, <1>5, WritesSame
<1>13. QueueInv' /\ LoadInv'
    BY <1>2, <1>5, <1>7 DEF QueueInv, LoadInv
<1>14. ExecInv'
    BY <1>2, <1>7, <1>9 DEF ExecInv
<1>15. EndInv'
    BY <1>2, <1>3, <1>5, <1>8 DEF EvidenceInv, EndInv, Shut
<1>16. AdmitInv'
    BY <1>1, <1>2, <1>3, <1>8, <1>9 DEF EvidenceInv, AdmitInv
<1>17. InstallInv'
    BY <1>1, <1>3, <1>5, <1>8 DEF EvidenceInv, InstallInv, Held
<1> QED BY <1>10, <1>11, <1>12, <1>13, <1>14, <1>15, <1>16, <1>17 DEF EvidenceInv

(* The close begins: the owned units are stopped, both threads are told.   *)
LEMMA CloseBeginsStands == ASSUME OpensInv, EvidenceInv, CloseBegins PROVE EvidenceInv'
<1>1. PICK r \in Rows : Rowing(r) /\ r.kind \in {"install-refused", "admission-insufficient"}
  <2>1. "install-refused" \in RowKinds /\ "admission-insufficient" \in RowKinds
    BY DEF RowKinds
  <2>2. CASE rows' = rows
    BY <2>1, <2>2, NoteIs DEF Rowing
  <2>3. CASE Note("install-refused")
    BY <2>1, <2>3, NoteIs DEF Rowing, Note, Record
  <2>4. CASE Note("admission-insufficient")
    BY <2>1, <2>4, NoteIs DEF Rowing, Note, Record
  <2> QED BY <2>2, <2>3, <2>4 DEF CloseBegins
<1>2. PICK stopped \in BOOLEAN :
        /\ drain' = [drain EXCEPT !.finish = TRUE, !.error = @ \/ ~stopped]
        /\ manager' = IF stopped /\ manager.fire = "runs" THEN [manager EXCEPT !.fire = "gone"] ELSE manager
    BY DEF CloseBegins
<1>3. /\ observer.at = "idle" /\ observer' = [observer EXCEPT !.at = "closing"]
      /\ UNCHANGED <<disk, root, extension>>
    BY DEF CloseBegins
<1>4. /\ observer' \in Observers /\ observer'.at = "closing" /\ observer'.attempted = observer.attempted
      /\ observer'.installed = observer.installed
    BY <1>3, ObserverIs DEF Observers
<1>5. /\ drain'.held = drain.held /\ drain'.at = drain.at /\ drain'.now = drain.now /\ drain'.queue = drain.queue
      /\ drain'.broken = drain.broken /\ drain'.finish /\ (drain.error => drain'.error)
    BY <1>2, OpensTyped DEF Drains
<1>6. /\ manager'.load = manager.load /\ manager'.def = manager.def /\ manager'.img = manager.img
      /\ manager'.fd = manager.fd
      /\ manager'.fire = manager.fire \/ (manager.fire = "runs" /\ manager'.fire = "gone")
    BY <1>2, OpensTyped DEF Managers
<1>7. Runs' = Runs /\ (Bad => Bad') /\ (Spoiled => Spoiled') /\ Listens' = Listens /\ Shut' /\ ~Shut
      /\ \A n : Held(n)' = Held(n) /\ Leased(n)' = Leased(n)
    BY <1>3, <1>4, <1>5, <1>6 DEF Runs, Bad, Spoiled, Closes, Listens, Shut, Held, Leased
<1>8. /\ \A k : (Kind(k) => Kind(k)') /\ (Kind(k)' => Kind(k) \/ r.kind = k)
      /\ \A n : Written(n) => Written(n)'
      /\ PayloadFirst' => PayloadFirst
    BY <1>1, ObserverIs, KindsGo
<1>9. \A i \in DOMAIN rows' : rows'[i].kind \notin {"install-refused", "admission-insufficient"} =>
         i \in DOMAIN rows /\ rows'[i] = rows[i]
    BY <1>1, ObserverIs, RowsGo
<1>10. EvidenceTypes'
    BY <1>1, <1>3, <1>4, <1>5, ObserverIs, RowsGo DEF EvidenceInv, EvidenceTypes
<1>11. DiskStands' /\ LeaseHolds'
    BY <1>3, <1>5, <1>6, <1>7 DEF EvidenceInv, DiskStands, LeaseHolds
<1>12. WritesAreRecorded'
    BY <1>1, <1>5, WritesSame
<1>13. QueueInv'
  <2>1. \A j \in DOMAIN drain.queue : (LoadWaits(j) => LoadWaits(j)') /\ (ExecWaits(j) => ExecWaits(j)')
    BY <1>3, <1>5, <1>6, <1>7 DEF LoadWaits, ExecWaits, Closes
  <2> QED BY <1>5, <1>7, <2>1 DEF EvidenceInv, QueueInv
<1>14. LoadInv'
    BY <1>5, <1>6, <1>7, <1>8 DEF EvidenceInv, LoadInv
<1>15. ExecInv'
  <2>1. Kind("exec-open")' => Kind("exec-open")
    BY <1>1, <1>8
  <2>2. Kind("invocation")' => Kind("invocation")
    BY <1>1, <1>8
  <2> QED BY <1>5, <1>6, <1>7, <1>8, <2>1, <2>2 DEF EvidenceInv, ExecInv
<1>16. EndInv'
    BY <1>3, <1>4, <1>5, <1>7, <1>9 DEF EvidenceInv, EndInv
<1>17. AdmitInv'
  <2>1. /\ Kind("admission-ready")' => Kind("admission-ready")
        /\ Kind("admission-intent")' => Kind("admission-intent")
    BY <1>1, <1>8
  <2> QED BY <1>3, <1>4, <1>5, <1>6, <1>7, <1>8, <1>9, <2>1 DEF EvidenceInv, AdmitInv
<1>18. InstallInv'
  <2>1. Kind("install-result")' => Kind("install-result")
    BY <1>1, <1>8
  <2> QED BY <1>4, <1>5, <1>7, <1>9, <2>1 DEF EvidenceInv, InstallInv
<1> QED BY <1>10, <1>11, <1>12, <1>13, <1>14, <1>15, <1>16, <1>17, <1>18 DEF EvidenceInv

-----------------------------------------------------------------------------
(* The drain thread.                                                       *)

(* It ends: everything that waits is let go, and nothing is trusted that   *)
(* was not compared.                                                       *)
LEMMA StopsStands ==
    ASSUME OpensInv, EvidenceInv, NEW failed \in BOOLEAN, Stops(failed), drain.at = "on", failed \/ drain.finish,
           UNCHANGED <<disk, root, rows, observer, extension>>
    PROVE  EvidenceInv'
<1>1. /\ drain'.held = drain.held /\ drain'.at = "over" /\ drain'.queue = <<>> /\ drain'.broken = drain.broken
      /\ drain'.finish = drain.finish /\ (drain.error => drain'.error) /\ (drain'.error \/ drain'.finish)
    BY OpensTyped DEF Stops, Release, Drains
<1>2. /\ manager'.def = manager.def /\ manager'.img = manager.img /\ manager'.fd = manager.fd
      /\ manager'.load = (IF manager.load = "opening" THEN "allowed" ELSE manager.load)
      /\ manager'.fire = (IF manager.fire = "opening" THEN "allowed" ELSE manager.fire)
    BY OpensTyped DEF Stops, AllowAll, Managers
<1>3. PICK r \in Rows : r.kind = "manager-open"
  <2>1. "manager-open" \in RowKinds
    BY DEF RowKinds
  <2> QED BY <2>1, NoteIs
<1>4. Rowing(r)
    BY DEF Rowing
<1>5. EvidenceTypes'
    BY <1>1 DEF EvidenceInv, EvidenceTypes
<1>6. DiskStands' /\ LeaseHolds'
    BY <1>1, <1>2 DEF EvidenceInv, DiskStands, LeaseHolds, Held, Leased
<1>7. WritesAreRecorded'
    BY <1>1, <1>3, <1>4, WritesSame
<1>8. QueueInv'
    BY <1>1 DEF QueueInv
<1>9. LoadInv'
    BY <1>1, <1>2 DEF EvidenceInv, LoadInv, Listens
<1>10. ExecInv'
  <2>1. Bad => Bad'
    BY <1>1 DEF Bad
  <2> QED BY <1>1, <1>2, <2>1, RowsSame DEF EvidenceInv, ExecInv, Listens, Runs, Shut
<1>11. EndInv' /\ AdmitInv' /\ InstallInv'
    BY <1>1, <1>2, <1>3, <1>4, LaterSame DEF Runs
<1> QED BY <1>5, <1>6, <1>7, <1>8, <1>9, <1>10, <1>11 DEF EvidenceInv

(* ... by request or on its own.                                           *)
LEMMA DrainEnds == ASSUME OpensInv, EvidenceInv, DrainStops \/ DrainFails PROVE EvidenceInv'
<1>1. CASE DrainStops
  <2>1. (~drain.finish) \in BOOLEAN /\ (~drain.finish \/ drain.finish)
    BY OpensTyped DEF Drains
  <2> QED BY <1>1, <2>1, StopsStands DEF DrainStops
<1>2. CASE DrainFails
    BY <1>2, StopsStands DEF DrainFails
<1> QED BY <1>1, <1>2

(* The row of a lease that was taken.                                      *)
LEMMA DrainRecordsStands == ASSUME OpensInv, EvidenceInv, DrainRecords PROVE EvidenceInv'
<1>1. PICK n : n = drain.now
    OBVIOUS
<1>2. /\ n \in Artifacts /\ Held(n) /\ drain.at = "leased"
    BY <1>1 DEF DrainRecords, EvidenceInv, EvidenceTypes, LeaseHolds
<1>3. ~Written(n)
    BY <1>1, <1>2 DEF EvidenceInv, WritesAreRecorded, Written
<1>4. PICK f : f = drain.held[n]
    OBVIOUS
<1>5. f.ino \in Nat /\ f.ver \in Nat
    BY <1>2, <1>4, HeldIs
<1>6. PICK r : r = Row("closed-write", n, f)
    OBVIOUS
<1>7. r \in Rows /\ r.kind = "closed-write" /\ r.name = n /\ r.ver = drain.held[n].ver
  <2>1. "closed-write" \in RowKinds
    BY DEF RowKinds
  <2> QED BY <1>2, <1>4, <1>5, <1>6, <2>1, RowIs
<1>8. rows' = Append(rows, r) /\ Rowing(r)
    BY <1>1, <1>4, <1>6 DEF DrainRecords, Record, Rowing
<1>9. /\ drain'.at = "on" /\ drain'.held = drain.held /\ drain'.queue = drain.queue /\ drain'.error = drain.error
      /\ drain'.broken = drain.broken /\ drain'.finish = drain.finish
      /\ UNCHANGED <<disk, root, manager, observer, extension>>
    BY OpensTyped DEF DrainRecords, Drains
<1>10. Listens /\ Listens' /\ Bad' = Bad /\ Spoiled' = Spoiled /\ Shut' = Shut /\ Runs' = Runs
       /\ \A m : Held(m)' = Held(m) /\ Leased(m)' = Leased(m)
    BY <1>2, <1>9 DEF Listens, Bad, Spoiled, Closes, Shut, Runs, Held, Leased
<1>11. /\ \A k : Kind(k)' => Kind(k) \/ r.kind = k
       /\ \A m : Written(m) => Written(m)'
       /\ PayloadFirst' /\ n # "definition" => PayloadFirst
    BY <1>7, <1>8, ObserverIs, KindsGo
<1>12. EvidenceTypes'
    BY <1>2, <1>7, <1>8, <1>9, ObserverIs, RowsGo DEF EvidenceInv, EvidenceTypes
<1>13. DiskStands' /\ LeaseHolds'
    BY <1>9, <1>10 DEF EvidenceInv, DiskStands, LeaseHolds
<1>14. WritesAreRecorded'
  <2>1. /\ \A i \in DOMAIN rows : i \in DOMAIN rows' /\ rows'[i] = rows[i]
        /\ \A i \in DOMAIN rows' : i \notin DOMAIN rows => rows'[i] = r
        /\ \A i, j \in DOMAIN rows' : i \notin DOMAIN rows /\ j \notin DOMAIN rows => i = j
        /\ \E i \in DOMAIN rows' : rows'[i] = r
    BY <1>7, <1>8, ObserverIs, RowsGo
  <2>2. \A i \in DOMAIN rows : ~(rows[i].kind = "closed-write" /\ rows[i].name = n)
    BY <1>3 DEF Written
  <2>3. \A i \in DOMAIN rows' : rows'[i].kind = "closed-write" =>
           rows'[i].name \in Artifacts /\ drain'.held[rows'[i].name] # Absent /\ rows'[i].ver = drain'.held[rows'[i].name].ver
    <3> TAKE i \in DOMAIN rows'
    <3>1. CASE i \in DOMAIN rows
        BY <1>9, <2>1, <3>1 DEF EvidenceInv, WritesAreRecorded, Held
    <3>2. CASE i \notin DOMAIN rows
        BY <1>2, <1>7, <1>9, <2>1, <3>2 DEF Held
    <3> QED BY <3>1, <3>2
  <2>4. \A i, j \in DOMAIN rows' :
           rows'[i].kind = "closed-write" /\ rows'[j].kind = "closed-write" /\ rows'[i].name = rows'[j].name => i = j
    BY <1>7, <2>1, <2>2 DEF EvidenceInv, WritesAreRecorded
  <2>5. Written(n)'
    BY <1>7, <2>1 DEF Written
  <2>6. \A m \in Artifacts : Held(m)' => Written(m)'
    BY <1>1, <1>10, <1>11, <2>5 DEF EvidenceInv, WritesAreRecorded
  <2> QED BY <1>9, <2>3, <2>4, <2>6 DEF WritesAreRecorded, Held
<1>15. QueueInv'
  <2>1. \A j \in DOMAIN drain.queue : (LoadWaits(j) => LoadWaits(j)') /\ (ExecWaits(j) => ExecWaits(j)')
    BY <1>9, <1>10 DEF LoadWaits, ExecWaits, Closes
  <2> QED BY <1>9, <1>10, <2>1 DEF EvidenceInv, QueueInv
<1>16. LoadInv'
    BY <1>9, <1>10, <1>11 DEF EvidenceInv, LoadInv
<1>17. ExecInv'
  <2>1. (Kind("exec-open")' => Kind("exec-open")) /\ (Kind("invocation")' => Kind("invocation"))
    BY <1>7, <1>11
  <2>2. CASE n # "definition"
    BY <1>9, <1>10, <1>11, <2>1, <2>2 DEF EvidenceInv, ExecInv
  <2>3. CASE n = "definition"
    <3>1. manager.load \notin {"allowed", "yes"} /\ ~Kind("exec-open")
        BY <1>3, <1>10, <2>3 DEF EvidenceInv, LoadInv, ExecInv
    <3>2. manager.fire = "no"
        BY <3>1 DEF EvidenceInv, LoadInv
    <3> QED BY <1>9, <1>10, <2>1, <3>1, <3>2 DEF EvidenceInv, ExecInv
  <2> QED BY <2>2, <2>3
<1>18. EndInv' /\ AdmitInv' /\ InstallInv'
    BY <1>2, <1>7, <1>8, <1>9, <1>10, LaterSame
<1> QED BY <1>12, <1>13, <1>14, <1>15, <1>16, <1>17, <1>18 DEF EvidenceInv

(* The event at the head is taken: the others move up.                     *)
LEMMA TailIs ==
    ASSUME OpensInv, drain.queue # <<>>, drain'.queue = Tail(drain.queue)
    PROVE  /\ 1 \in DOMAIN drain.queue /\ drain.queue[1] = Head(drain.queue) /\ Head(drain.queue) \in Events
           /\ \A i \in DOMAIN drain'.queue : i + 1 \in DOMAIN drain.queue /\ drain'.queue[i] = drain.queue[i + 1]
                 /\ i \in Nat /\ i >= 1
           /\ \A i \in DOMAIN drain.queue : i \in Nat /\ i >= 1 /\
                 (i # 1 => i - 1 \in DOMAIN drain'.queue /\ drain'.queue[i - 1] = drain.queue[i])
<1>1. drain.queue \in Seq(Events)
    BY OpensTyped
<1>2. PICK t : t = drain'.queue
    OBVIOUS
<1>3. t = Tail(drain.queue)
    BY <1>2
<1>4. /\ 1 \in DOMAIN drain.queue /\ drain.queue[1] = Head(drain.queue) /\ Head(drain.queue) \in Events
      /\ \A i \in DOMAIN t : i + 1 \in DOMAIN drain.queue /\ t[i] = drain.queue[i + 1] /\ i \in Nat /\ i >= 1
      /\ \A i \in DOMAIN drain.queue : i \in Nat /\ i >= 1 /\
            (i # 1 => i - 1 \in DOMAIN t /\ t[i - 1] = drain.queue[i])
    BY <1>1, <1>3, QueueTail
<1> QED BY <1>2, <1>4

(* A closed file is leased: the first version of its name.                 *)
LEMMA LeasesStands ==
    ASSUME OpensInv, EvidenceInv, drain.at = "on", drain.queue # <<>>, NEW e, e = Head(drain.queue),
           e.is = "close", Leasable(e), NEW f, f = Seen(e),
           drain' = [drain EXCEPT !.queue = Tail(drain.queue), !.at = "leased",
                                  !.held = [drain.held EXCEPT ![e.name] = f], !.now = e.name],
           UNCHANGED <<disk, root, manager, rows, observer, extension>>
    PROVE  EvidenceInv'
<1>1. PICK n : n = e.name
    OBVIOUS
<1>2. drain'.queue = Tail(drain.queue)
    BY OpensTyped DEF Drains
<1>3. /\ 1 \in DOMAIN drain.queue /\ drain.queue[1] = e /\ e \in Events
      /\ \A i \in DOMAIN drain'.queue : i + 1 \in DOMAIN drain.queue /\ drain'.queue[i] = drain.queue[i + 1]
            /\ i \in Nat /\ i >= 1
      /\ \A i \in DOMAIN drain.queue : i \in Nat /\ i >= 1 /\
            (i # 1 => i - 1 \in DOMAIN drain'.queue /\ drain'.queue[i - 1] = drain.queue[i])
    BY <1>2, TailIs
<1>4. n \in Artifacts /\ e.ino \in Nat
    BY <1>1, <1>3 DEF Events
<1>5. disk[n].ino = e.ino /\ e.ino > 0 /\ ~Held(n) /\ f.ino = e.ino /\ f.ver = disk[n].ver
    BY <1>1, <1>3 DEF Leasable, Current, Seen, EvidenceInv, DiskStands
<1>6. /\ drain'.at = "leased" /\ drain'.now = n /\ drain'.error = drain.error /\ drain'.broken = drain.broken
      /\ drain'.finish = drain.finish /\ drain'.held = [drain.held EXCEPT ![n] = f]
    BY <1>1, OpensTyped DEF Drains
<1>7. drain'.held[n] = f /\ \A m : m # n => drain'.held[m] = drain.held[m]
    BY <1>4, <1>6, OpensTyped DEF Drains
<1>8. f # Absent /\ Held(n)' /\ \A m : (m # n => Held(m)' = Held(m)) /\ (Held(m) => m # n /\ Held(m)')
    BY <1>5, <1>7 DEF Absent, Held
<1>9. Listens /\ Listens' /\ Bad' = Bad
    BY <1>6 DEF Listens, Bad
<1>10. ~Written(n)
    BY <1>5, WrittenHeld
<1>11. PICK r \in Rows : r.kind = "manager-open"
  <2>1. "manager-open" \in RowKinds
    BY DEF RowKinds
  <2> QED BY <2>1, NoteIs
<1>12. Rowing(r)
    BY DEF Rowing
<1>13. EvidenceTypes'
    BY <1>4, <1>6 DEF EvidenceInv, EvidenceTypes
<1>14. DiskStands'
  <2>1. \A k \in DOMAIN drain'.queue : drain'.queue[k].ino > 0 \/ drain'.queue[k].is # "close"
    BY <1>3 DEF EvidenceInv, DiskStands
  <2>2. \A m \in Artifacts : Held(m)' => disk'[m] # Absent
    BY <1>4, <1>5, <1>8 DEF EvidenceInv, DiskStands, Absent
  <2> QED BY <2>1, <2>2 DEF EvidenceInv, DiskStands
<1>15. LeaseHolds'
  <2>1. ASSUME NEW m \in Artifacts, Held(m)'
        PROVE  /\ disk'[m].ino >= drain'.held[m].ino
               /\ Leased(m)' /\ ~drain'.broken /\ disk'[m].ino = drain'.held[m].ino => disk'[m].ver = drain'.held[m].ver
    <3>1. CASE m = n
        BY <1>4, <1>5, <1>7, <3>1
    <3>2. CASE m # n
        BY <1>6, <1>7, <1>8, <2>1, <3>2 DEF EvidenceInv, LeaseHolds, Leased
    <3> QED BY <3>1, <3>2
  <2> QED BY <1>6, <1>8, <2>1 DEF LeaseHolds, Held
<1>16. WritesAreRecorded'
  <2>1. \A i \in DOMAIN rows : rows[i].kind = "closed-write" => rows[i].name # n
    BY <1>10 DEF Written
  <2>2. \A i \in DOMAIN rows : rows[i].kind = "closed-write" =>
           /\ rows[i].name \in Artifacts /\ drain'.held[rows[i].name] # Absent
           /\ rows[i].ver = drain'.held[rows[i].name].ver /\ drain'.now # rows[i].name
    BY <1>6, <1>7, <2>1 DEF EvidenceInv, WritesAreRecorded, Held
  <2>3. \A m \in Artifacts : drain'.held[m] # Absent /\ ~(drain'.at = "leased" /\ drain'.now = m) => Written(m)
    BY <1>6, <1>7 DEF EvidenceInv, WritesAreRecorded, Held
  <2>4. \A i, j \in DOMAIN rows :
          rows[i].kind = "closed-write" /\ rows[j].kind = "closed-write" /\ rows[i].name = rows[j].name => i = j
    BY DEF EvidenceInv, WritesAreRecorded
  <2> QED BY <1>6, <2>2, <2>3, <2>4, RowsSame DEF WritesAreRecorded, Held
<1>17. ASSUME manager.load \in {"allowed", "yes"} PROVE n = "payload" /\ Written("definition")
  <2>1. Written("definition")
    BY <1>9, <1>17 DEF EvidenceInv, LoadInv
  <2> QED BY <1>4, <1>10, <2>1 DEF Artifacts
<1>18. ASSUME NEW k \in DOMAIN drain.queue, Closes("definition", k), n = "payload"
       PROVE  k - 1 \in DOMAIN drain'.queue /\ Closes("definition", k - 1)'
  <2>1. k # 1
    BY <1>1, <1>3, <1>18 DEF Closes
  <2> QED BY <1>3, <1>18, <2>1 DEF Closes
<1>19. QueueInv'
  <2>1. ASSUME NEW j \in DOMAIN drain'.queue, drain'.queue[j].is = "load" PROVE LoadWaits(j)'
    <3>1. LoadWaits(j + 1) /\ drain'.queue[j] = drain.queue[j + 1] /\ j \in Nat /\ j >= 1
        BY <1>3, <2>1 DEF EvidenceInv, QueueInv
    <3>2. \A k \in DOMAIN drain.queue : k > j + 1 /\ Closes("definition", k) =>
             k - 1 \in DOMAIN drain'.queue /\ Closes("definition", k - 1)' /\ k - 1 > j
        BY <1>3, <3>1 DEF Closes
    <3> QED BY <1>6, <3>1, <3>2 DEF LoadWaits
  <2>2. ASSUME NEW j \in DOMAIN drain'.queue, drain'.queue[j].is = "exec" PROVE ExecWaits(j)'
    <3>1. ExecWaits(j + 1) /\ drain'.queue[j] = drain.queue[j + 1] /\ j \in Nat /\ j >= 1
        BY <1>3, <2>2 DEF EvidenceInv, QueueInv
    <3>2. n = "payload" /\ n # "definition"
        BY <1>17, <3>1 DEF ExecWaits
    <3>3. \A k \in DOMAIN drain.queue : k < j + 1 /\ Closes("definition", k) =>
             k - 1 \in DOMAIN drain'.queue /\ Closes("definition", k - 1)' /\ k - 1 < j
        BY <1>3, <1>18, <3>1, <3>2
    <3> QED BY <1>7, <1>9, <3>1, <3>2, <3>3 DEF ExecWaits
  <2>3. \A i, j \in DOMAIN drain'.queue :
           drain'.queue[i].is = drain'.queue[j].is /\ drain'.queue[i].is # "close" => i = j
    <3> TAKE i, j \in DOMAIN drain'.queue
    <3> HAVE drain'.queue[i].is = drain'.queue[j].is /\ drain'.queue[i].is # "close"
    <3>1. i + 1 = j + 1 /\ i \in Nat /\ j \in Nat
        BY <1>3 DEF EvidenceInv, QueueInv
    <3> QED BY <3>1
  <2> QED BY <1>9, <2>1, <2>2, <2>3 DEF QueueInv
<1>20. n = "payload" /\ Spoiled => Spoiled'
    BY <1>9, <1>18 DEF Spoiled
<1>21. LoadInv'
  <2>1. CASE manager.load \notin {"allowed", "yes"}
    BY <2>1 DEF EvidenceInv, LoadInv
  <2>2. CASE manager.load \in {"allowed", "yes"}
    <3>1. n = "payload" /\ n # "definition" /\ Written("definition")
        BY <1>17, <2>2
    <3> QED BY <1>7, <1>9, <1>20, <3>1, RowsSame DEF EvidenceInv, LoadInv
  <2> QED BY <2>1, <2>2
<1>22. ExecInv'
  <2>1. ~PayloadFirst
    BY <1>4, <1>10, FirstWritten DEF Artifacts
  <2>2. Kind("exec-open") => n # "definition"
    BY <1>10 DEF EvidenceInv, ExecInv
  <2> QED BY <1>7, <1>9, <2>1, <2>2, RowsSame DEF EvidenceInv, ExecInv, Runs
<1>23. EndInv' /\ AdmitInv' /\ InstallInv'
    BY <1>6, <1>7, <1>8, <1>11, <1>12, LaterSame DEF Runs
<1> QED BY <1>13, <1>14, <1>15, <1>16, <1>19, <1>21, <1>22, <1>23 DEF EvidenceInv

-----------------------------------------------------------------------------
(* An open of the manager is answered: its row says what was compared.     *)
LEMMA AnsweredSame ==
    ASSUME OpensInv, EvidenceInv, drain.at = "on", drain.queue # <<>>, drain' = [drain EXCEPT !.queue = Tail(drain.queue)],
           UNCHANGED <<disk, root, observer, extension>>, NEW r \in Rows, Rowing(r),
           r.kind \in {"manager-open", "exec-open"}, manager.load # "no", ~Runs
    PROVE  /\ EvidenceTypes' /\ DiskStands' /\ LeaseHolds' /\ WritesAreRecorded' /\ EndInv' /\ AdmitInv' /\ InstallInv'
           /\ drain'.queue = Tail(drain.queue) /\ drain'.at = "on" /\ drain'.held = drain.held
           /\ Listens /\ Listens' /\ Bad' = Bad /\ drain'.broken = drain.broken
<1>1. /\ drain'.queue = Tail(drain.queue) /\ drain'.at = "on" /\ drain'.held = drain.held /\ drain'.now = drain.now
      /\ drain'.broken = drain.broken /\ drain'.error = drain.error /\ drain'.finish = drain.finish
    BY OpensTyped DEF Drains
<1>2. \A i \in DOMAIN drain'.queue : i + 1 \in DOMAIN drain.queue /\ drain'.queue[i] = drain.queue[i + 1]
    BY <1>1, TailIs
<1>3. EvidenceTypes'
    BY <1>1, ObserverIs, RowsGo DEF EvidenceInv, EvidenceTypes
<1>4. DiskStands'
  <2>1. \A k \in DOMAIN drain'.queue : drain'.queue[k].ino > 0 \/ drain'.queue[k].is # "close"
    BY <1>2 DEF EvidenceInv, DiskStands
  <2> QED BY <1>1, <2>1 DEF EvidenceInv, DiskStands, Held
<1>5. LeaseHolds'
    BY <1>1 DEF EvidenceInv, LeaseHolds, Held, Leased
<1>6. WritesAreRecorded'
    BY <1>1, WritesSame
<1>7. EndInv' /\ AdmitInv' /\ InstallInv'
    BY <1>1, LaterSame
<1> QED BY <1>1, <1>3, <1>4, <1>5, <1>6, <1>7 DEF Listens, Bad

(* The load: the opened version is the leased one.                         *)
LEMMA LoadsStands ==
    ASSUME OpensInv, EvidenceInv, drain.at = "on", drain.queue # <<>>, NEW e, e = Head(drain.queue),
           e.is = "load", UsesHeld(e), drain' = [drain EXCEPT !.queue = Tail(drain.queue)],
           manager' = [manager EXCEPT !.load = "allowed"], Record(Row("manager-open", e.name, Seen(e))),
           UNCHANGED <<disk, root, observer, extension>>
    PROVE  EvidenceInv'
<1>1. /\ 1 \in DOMAIN drain.queue /\ drain.queue[1] = e /\ e \in Events
    BY TailIs, OpensTyped DEF Drains
<1>2. /\ manager.load = "opening" /\ e.name = "definition" /\ e.ino = manager.fd.ino
      /\ disk["definition"].ino # manager.fd.ino \/ disk["definition"].ver = manager.fd.ver \/ drain.broken
         \/ \E k \in DOMAIN drain.queue : k > 1 /\ Closes("definition", k)
    BY <1>1 DEF EvidenceInv, QueueInv, LoadWaits
<1>3. /\ Held("definition") /\ disk["definition"].ino = e.ino /\ drain.held["definition"].ino = e.ino
      /\ drain.held["definition"].ver = disk["definition"].ver
    BY <1>2 DEF UsesHeld, Current, Seen
<1>4. PICK f : f = Seen(e)
    OBVIOUS
<1>5. f.ino \in Nat /\ f.ver \in Nat
    BY <1>2, <1>3, <1>4, OpensTyped DEF Seen, Versions
<1>6. PICK r : r = Row("manager-open", e.name, f)
    OBVIOUS
<1>7. r \in Rows /\ r.kind = "manager-open" /\ Rowing(r)
  <2>1. "manager-open" \in RowKinds /\ "definition" \in Artifacts
    BY DEF RowKinds, Artifacts
  <2>2. r \in Rows /\ r.kind = "manager-open"
    BY <1>2, <1>5, <1>6, <2>1, RowIs
  <2>3. rows' = Append(rows, r)
    BY <1>4, <1>6 DEF Record
  <2> QED BY <2>2, <2>3 DEF Rowing
<1>8. manager.fire = "no" /\ ~Runs /\ ~Kind("exec-open") /\ ~Kind("invocation")
    BY <1>2 DEF EvidenceInv, LoadInv, ExecInv, Runs
<1>9. /\ EvidenceTypes' /\ DiskStands' /\ LeaseHolds' /\ WritesAreRecorded' /\ EndInv' /\ AdmitInv' /\ InstallInv'
      /\ drain'.queue = Tail(drain.queue) /\ drain'.at = "on" /\ drain'.held = drain.held
      /\ Listens /\ Listens' /\ Bad' = Bad /\ drain'.broken = drain.broken
    BY <1>2, <1>7, <1>8, AnsweredSame
<1>10. /\ \A i \in DOMAIN drain'.queue : i + 1 \in DOMAIN drain.queue /\ drain'.queue[i] = drain.queue[i + 1]
             /\ i \in Nat /\ i >= 1
       /\ \A i \in DOMAIN drain.queue : i \in Nat /\ i >= 1 /\
             (i # 1 => i - 1 \in DOMAIN drain'.queue /\ drain'.queue[i - 1] = drain.queue[i])
    BY <1>9, TailIs
<1>11. /\ manager'.load = "allowed" /\ manager'.fire = "no" /\ manager'.fd = manager.fd
    BY <1>8, OpensTyped DEF Managers
<1>12. \A j \in DOMAIN drain'.queue : drain'.queue[j].is = "close"
  <2> TAKE j \in DOMAIN drain'.queue
  <2>1. j + 1 \in DOMAIN drain.queue /\ drain'.queue[j] = drain.queue[j + 1] /\ j + 1 # 1
    BY <1>10
  <2>2. drain.queue[j + 1].is # "load"
    BY <1>1, <2>1 DEF EvidenceInv, QueueInv
  <2>3. drain.queue[j + 1].is # "exec"
    BY <1>2, <2>1, NoEvents
  <2>4. drain.queue[j + 1] \in Events
    BY <2>1, OpensTyped
  <2>5. drain.queue[j + 1].is \in {"close", "load", "exec"}
    BY <2>4 DEF Events
  <2> QED BY <2>1, <2>2, <2>3, <2>5
<1>13. QueueInv'
    BY <1>9, <1>12 DEF QueueInv
<1>14. LoadInv'
  <2>1. Written("definition")
    BY <1>3 DEF EvidenceInv, WritesAreRecorded, Artifacts
  <2>2. Written("definition")'
    BY <1>7, <2>1, ObserverIs, KindsGo
  <2>3. manager.fd.ver = drain.held["definition"].ver \/ Spoiled'
    <3>1. CASE disk["definition"].ver = manager.fd.ver
        BY <1>3, <3>1
    <3>2. CASE drain.broken
        BY <1>9, <3>2 DEF Spoiled, Bad
    <3>3. CASE \E k \in DOMAIN drain.queue : k > 1 /\ Closes("definition", k)
      <4>1. PICK k \in DOMAIN drain.queue : k > 1 /\ Closes("definition", k)
        BY <3>3
      <4>2. k - 1 \in DOMAIN drain'.queue /\ Closes("definition", k - 1)'
        BY <1>10, <4>1 DEF Closes
      <4> QED BY <4>2 DEF Spoiled
    <3> QED BY <1>2, <1>3, <3>1, <3>2, <3>3
  <2> QED BY <1>2, <1>3, <1>9, <1>11, <2>2, <2>3 DEF LoadInv
<1>15. ExecInv'
  <2>1. ~Kind("exec-open")' /\ ~Kind("invocation")'
    BY <1>7, <1>8, ObserverIs, KindsGo
  <2> QED BY <1>11, <2>1 DEF ExecInv
<1> QED BY <1>9, <1>13, <1>14, <1>15 DEF EvidenceInv

(* The execution: the loaded definition was the leased one.                *)
LEMMA ExecsAnswered ==
    ASSUME OpensInv, EvidenceInv, drain.at = "on", drain.queue # <<>>, NEW e, e = Head(drain.queue),
           e.is = "exec", UsesHeld(e), drain' = [drain EXCEPT !.queue = Tail(drain.queue)],
           manager' = [manager EXCEPT !.fire = "allowed"], Record(Row("exec-open", e.name, Seen(e))),
           UNCHANGED <<disk, root, observer, extension>>
    PROVE  EvidenceInv'
<1>1. /\ 1 \in DOMAIN drain.queue /\ drain.queue[1] = e /\ e \in Events
      /\ \A i \in DOMAIN drain.queue : i \in Nat /\ i >= 1
    BY TailIs, OpensTyped DEF Drains
<1>2. /\ manager.fire = "opening" /\ manager.load = "yes" /\ e.name = "payload" /\ e.ino = manager.fd.ino
      /\ manager.def = drain.held["definition"].ver \/ Bad
    BY <1>1 DEF EvidenceInv, QueueInv, ExecWaits
<1>3. Held("payload") /\ disk["payload"].ino = e.ino /\ drain.held["payload"].ino = e.ino
    BY <1>2 DEF UsesHeld, Current, Seen
<1>4. PICK f : f = Seen(e)
    OBVIOUS
<1>5. f.ino \in Nat /\ f.ver \in Nat
    BY <1>2, <1>3, <1>4, OpensTyped DEF Seen, Versions
<1>6. PICK r : r = Row("exec-open", e.name, f)
    OBVIOUS
<1>7. r \in Rows /\ r.kind = "exec-open" /\ Rowing(r)
  <2>1. "exec-open" \in RowKinds /\ "payload" \in Artifacts
    BY DEF RowKinds, Artifacts
  <2>2. r \in Rows /\ r.kind = "exec-open"
    BY <1>2, <1>5, <1>6, <2>1, RowIs
  <2>3. rows' = Append(rows, r)
    BY <1>4, <1>6 DEF Record
  <2> QED BY <2>2, <2>3 DEF Rowing
<1>8. ~Runs /\ ~Kind("invocation") /\ ~Kind("exec-open")
    BY <1>2 DEF EvidenceInv, ExecInv, Runs
<1>9. /\ EvidenceTypes' /\ DiskStands' /\ LeaseHolds' /\ WritesAreRecorded' /\ EndInv' /\ AdmitInv' /\ InstallInv'
      /\ drain'.queue = Tail(drain.queue) /\ drain'.at = "on" /\ drain'.held = drain.held
      /\ Listens /\ Listens' /\ Bad' = Bad /\ drain'.broken = drain.broken
    BY <1>2, <1>7, <1>8, AnsweredSame
<1>10. \A i \in DOMAIN drain'.queue : i + 1 \in DOMAIN drain.queue /\ drain'.queue[i] = drain.queue[i + 1]
          /\ i \in Nat /\ i >= 1
    BY <1>9, TailIs
<1>11. /\ manager'.load = "yes" /\ manager'.fire = "allowed" /\ manager'.fd = manager.fd /\ manager'.def = manager.def
    BY <1>2, OpensTyped DEF Managers
<1>12. \A j \in DOMAIN drain'.queue : drain'.queue[j].is = "close"
  <2> TAKE j \in DOMAIN drain'.queue
  <2>1. j + 1 \in DOMAIN drain.queue /\ drain'.queue[j] = drain.queue[j + 1] /\ j + 1 # 1
    BY <1>10
  <2>2. drain.queue[j + 1].is # "exec"
    BY <1>1, <2>1 DEF EvidenceInv, QueueInv
  <2>3. drain.queue[j + 1].is # "load"
    BY <1>2, <2>1, NoEvents
  <2>4. drain.queue[j + 1] \in Events
    BY <2>1, OpensTyped
  <2>5. drain.queue[j + 1].is \in {"close", "load", "exec"}
    BY <2>4 DEF Events
  <2> QED BY <2>1, <2>2, <2>3, <2>5
<1>13. QueueInv'
    BY <1>9, <1>12 DEF QueueInv
<1>14. Written("definition") /\ Written("definition")' /\ (PayloadFirst' => PayloadFirst)
  <2>1. Written("definition")
    BY <1>2, <1>9 DEF EvidenceInv, LoadInv
  <2> QED BY <1>7, <2>1, ObserverIs, KindsGo
<1>15. LoadInv'
    BY <1>11, <1>14 DEF LoadInv
<1>16. ExecInv'
  <2>1. ~Kind("invocation")' /\ ~Runs'
    BY <1>7, <1>8, <1>11, ObserverIs, KindsGo DEF Runs
  <2>2. PayloadFirst => Bad \/ (manager.fd.ino = drain.held["payload"].ino /\ manager.fd.ver = drain.held["payload"].ver)
    BY <1>2, <1>3, <1>9 DEF EvidenceInv, ExecInv, Bad
  <2> QED BY <1>2, <1>9, <1>11, <1>14, <2>1, <2>2 DEF ExecInv
<1> QED BY <1>9, <1>13, <1>15, <1>16 DEF EvidenceInv

(* Every event is leased, answered or the end.                             *)
LEMMA DrainHandlesStands == ASSUME OpensInv, EvidenceInv, DrainHandles PROVE EvidenceInv'
<1>1. PICK e : e = Head(drain.queue)
    OBVIOUS
<1>2. /\ drain.at = "on" /\ drain.queue # <<>> /\ UNCHANGED <<disk, root, observer, extension>>
    BY DEF DrainHandles
<1>3. e \in Events
    BY <1>1, <1>2, OpensTyped
<1>4. CASE Stops(TRUE) /\ UNCHANGED rows
    BY <1>2, <1>4, StopsStands
<1>5. CASE e.is = "close" /\ Leasable(e)
  <2>1. PICK f : f = Seen(e)
    OBVIOUS
  <2>2. /\ drain' = [[drain EXCEPT !.queue = Tail(@)] EXCEPT !.at = "leased", !.held[e.name] = f, !.now = e.name]
        /\ UNCHANGED <<manager, rows>>
    BY <1>1, <1>5, <2>1 DEF DrainHandles
  <2>3. drain' = [drain EXCEPT !.queue = Tail(drain.queue), !.at = "leased",
                               !.held = [drain.held EXCEPT ![e.name] = f], !.now = e.name]
    BY <2>2, OpensTyped DEF Drains
  <2> QED BY <1>1, <1>2, <1>5, <2>1, <2>2, <2>3, LeasesStands
<1>6. CASE e.is # "close" /\ UsesHeld(e)
  <2>1. /\ drain' = [drain EXCEPT !.queue = Tail(drain.queue)] /\ manager' = Allow(manager, e.is)
        /\ Record(Row(IF e.is = "load" THEN "manager-open" ELSE "exec-open", e.name, Seen(e)))
    BY <1>1, <1>6 DEF DrainHandles
  <2>2. CASE e.is = "load"
    <3>1. manager' = [manager EXCEPT !.load = "allowed"] /\ Record(Row("manager-open", e.name, Seen(e)))
        BY <2>1, <2>2 DEF Allow
    <3> QED BY <1>1, <1>2, <1>6, <2>1, <2>2, <3>1, LoadsStands
  <2>3. CASE e.is = "exec"
    <3>1. manager' = [manager EXCEPT !.fire = "allowed"] /\ Record(Row("exec-open", e.name, Seen(e)))
        BY <2>1, <2>3 DEF Allow
    <3> QED BY <1>1, <1>2, <1>6, <2>1, <2>3, <3>1, ExecsAnswered
  <2> QED BY <1>3, <1>6, <2>2, <2>3 DEF Events
<1> QED BY <1>1, <1>4, <1>5, <1>6 DEF DrainHandles

(* Every step of the evidence keeps the invariant, ...                     *)
LEMMA EvidenceStands == ASSUME OpensInv, EvidenceInv, EvidenceNext PROVE EvidenceInv'
<1>1. CASE WorldNext
    BY <1>1, BesidesKeep, RootWritesStands, RewriteStands, ReplaceStands, ManagerOpensStands, ManagerLoadsStands,
       FiresStands, ExecsStands, PayloadExitsStands DEF WorldNext
<1>2. CASE CollectorNext
    BY <1>2, CollectorStartsStands, DrainHandlesStands, DrainRecordsStands, DrainEnds,
       TickProbesKeeps, TickObservesKeeps, CronTickKeeps, AdmitKeeps, AdmitRefusesKeeps, AdmittedKeeps,
       InstallTickKeeps, InstallCopiesKeeps, InstallEndsKeeps, CloseBeginsStands, CloseEndsKeeps, CloseTimesOutKeeps
    DEF CollectorNext
<1> QED BY <1>1, <1>2 DEF EvidenceNext

(* ... so does every other step, ...                                       *)
LEMMA EvidenceStutters == ASSUME EvidenceInv, UNCHANGED evidenceVars PROVE EvidenceInv'
<1>1. UNCHANGED <<disk, manager, drain, rows, observer, extension, root>>
    BY DEF evidenceVars
<1>2. root \in 0..4
    BY DEF EvidenceInv, EvidenceTypes
<1>3. root' \in 0..4 /\ root' >= root /\ root' = root
    BY <1>1, <1>2
<1> QED BY <1>1, <1>3, BesideKeeps

(* ... and it holds at first.                                              *)
LEMMA EvidenceStarts == ASSUME CollectionInit PROVE EvidenceInv
<1>1. /\ disk = [n \in Artifacts |-> Absent] /\ root = 0 /\ rows = <<>> /\ extension = "no"
      /\ manager.load = "no" /\ manager.fire = "no"
      /\ drain.at = "off" /\ drain.queue = <<>> /\ drain.held = [n \in Artifacts |-> Absent]
      /\ drain.error = FALSE /\ drain.broken = FALSE /\ drain.finish = FALSE
      /\ observer.at = "off" /\ observer.attempted = FALSE
    BY DEF CollectionInit, EvidenceInit
<1>2. rows \in Seq(Rows) /\ DOMAIN rows = {} /\ observer \in Observers
    BY DEF CollectionInit, EvidenceInit, Observers
<1>3. \A n \in Artifacts : ~Held(n) /\ disk[n] = Absent
    BY <1>1 DEF Held
<1>4. EvidenceTypes
    BY <1>1, <1>2 DEF EvidenceTypes
<1>5. DiskStands
    BY <1>1, <1>3 DEF DiskStands, Artifacts
<1>6. LeaseHolds /\ WritesAreRecorded
    BY <1>1, <1>2, <1>3 DEF LeaseHolds, WritesAreRecorded
<1>7. QueueInv
    BY <1>1 DEF QueueInv
<1>8. LoadInv /\ ExecInv
    BY <1>1, <1>2 DEF LoadInv, ExecInv, Kind
<1>9. EndInv /\ AdmitInv /\ InstallInv
    BY <1>1, <1>2 DEF EndInv, AdmitInv, InstallInv, Kind
<1> QED BY <1>4, <1>5, <1>6, <1>7, <1>8, <1>9 DEF EvidenceInv

-----------------------------------------------------------------------------
(* What follows.                                                           *)

(* The scope is asked once.                                                *)
LEMMA PlacesOnce ==
    ASSUME EvidenceInv
    PROVE  Cardinality(Positions(rows, "admission-intent", "none")) <= 1
<1> DEFINE P == Positions(rows, "admission-intent", "none")
<1>1. \A i, j \in P : i = j
    BY DEF EvidenceInv, AdmitInv, Positions
<1>2. CASE P = {}
    BY <1>2, FS_EmptySet
<1>3. CASE P # {}
  <2>1. PICK i \in P : TRUE
    BY <1>3
  <2>2. P = {i}
    BY <1>1, <2>1
  <2>3. Cardinality({i}) = 1
    BY FS_Singleton
  <2> QED BY <2>2, <2>3
<1> QED BY <1>2, <1>3

(* The invariant says what the rows prove.                                 *)
LEMMA EvidenceProves == ASSUME EvidenceInv PROVE EvidenceIsTrue
<1>1. ChainIsTrue
  <2> SUFFICES ASSUME Normalizes
               PROVE  /\ mechanism = "install" => observer.installed = ClosedVersion("definition")
                      /\ mechanism # "install" =>
                            manager.def = ClosedVersion("definition") /\ manager.img = ClosedVersion("payload")
    BY DEF ChainIsTrue
  <2>1. CASE mechanism = "install"
    <3>1. InstallQualifies(rows, prefix)
        BY <2>1 DEF Normalizes
    <3>2. PayloadFirst
        BY <3>1, CapturedIs DEF InstallQualifies, InstallCaptured
    <3>3. Kind("install-result")
        BY <3>1, NotNone DEF InstallQualifies, Positions, Kind
    <3>4. observer.installed = drain.held["definition"].ver
        BY <3>3 DEF EvidenceInv, InstallInv
    <3>5. ClosedVersion("definition") = drain.held["definition"].ver
        BY <3>2, FirstWritten, VersionIs DEF Artifacts
    <3> QED BY <2>1, <3>4, <3>5
  <2>2. CASE mechanism # "install"
    <3>1. Chain(rows, prefix)
        BY <2>2 DEF Normalizes, Qualifies, CronQualifies
    <3>2. Positions(rows, "closed", "none") # {} /\ rows[Only(rows, "closed", "none")].ver = 0
        BY NotNone DEF Normalizes, ClosedWhole
    <3>3. ~Bad
        BY <3>2, OnlyIs DEF EvidenceInv, EndInv
    <3>4. /\ Written("payload") /\ Written("definition")
          /\ manager.def = drain.held["definition"].ver /\ manager.img = drain.held["payload"].ver
        BY <3>1, <3>3, ChainIs
    <3>5. ClosedVersion("definition") = drain.held["definition"].ver /\ ClosedVersion("payload") = drain.held["payload"].ver
        BY <3>4, VersionIs DEF Artifacts
    <3> QED BY <2>2, <3>4, <3>5
  <2> QED BY <2>1, <2>2
<1>2. AdmissionIsTrue
  <2>1. ASSUME Has(rows, "admission-ready")
        PROVE  extension = "applied" /\ manager.img = ClosedVersion("payload") /\ manager.def = ClosedVersion("definition")
    <3>1. Kind("admission-ready")
        BY <2>1 DEF Has, Positions, Kind
    <3>2. /\ Written("definition") /\ Written("payload") /\ extension = "applied"
          /\ manager.def = drain.held["definition"].ver /\ manager.img = drain.held["payload"].ver
        BY <3>1 DEF EvidenceInv, AdmitInv
    <3>3. ClosedVersion("definition") = drain.held["definition"].ver /\ ClosedVersion("payload") = drain.held["payload"].ver
        BY <3>2, VersionIs DEF Artifacts
    <3> QED BY <3>2, <3>3
  <2> QED BY <2>1, PlacesOnce DEF AdmissionIsTrue
<1> QED BY <1>1, <1>2 DEF EvidenceIsTrue

(* The collections' steps.                                                 *)
LEMMA EvidenceStepsStand == ASSUME IInv, EvidenceInv, CollectionNext \/ UNCHANGED vars PROVE EvidenceInv'
<1>1. CASE EvidenceNext
    BY <1>1, EvidenceStands DEF IInv
<1>2. CASE UNCHANGED evidenceVars
    BY <1>2, EvidenceStutters
<1> QED BY <1>1, <1>2 DEF CollectionNext, vars

(* The rows, the leases, the queue and what the manager did stay in step:  *)
(* a version the drain thread allowed is the one its row says, until the   *)
(* lease breaks, and then the thread finds out.                            *)
THEOREM EvidenceInvariance == CollectionSpec => []EvidenceInv
<1>1. CollectionInit => EvidenceInv
    BY EvidenceStarts
<1>2. IInv /\ EvidenceInv /\ [CollectionNext]_vars => EvidenceInv'
    BY EvidenceStepsStand
<1> QED BY <1>1, <1>2, CollectionsHold, PTL DEF CollectionSpec, vars

(* An accepted chain, online or replayed, is what the manager loaded and   *)
(* executed; the scope is extended at most once, for that process.         *)
THEOREM EvidenceHolds == CollectionSpec => []EvidenceIsTrue
<1>1. EvidenceInv => EvidenceIsTrue
    BY EvidenceProves
<1> QED BY <1>1, EvidenceInvariance, PTL
=============================================================================
