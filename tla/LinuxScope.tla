----------------------------- MODULE LinuxScope -----------------------------
(***************************************************************************)
(* The bounded kernel scope of a Linux guest: the operator's calls         *)
(* (velociraptor_linux_scope.py), the worker that owns the probe           *)
(* (velociraptor_linux_worker.py) and the probe itself, which ends on its  *)
(* own at the deadline, on SIGTERM and when its worker dies.               *)
(*                                                                         *)
(* Caller and worker share only the session directory: state.json is       *)
(* replaced atomically, requests and responses are created first and       *)
(* written afterwards, so that a reader may find one empty.  The worker    *)
(* may be killed at any step.  Time is two facts: the deadline passed, the *)
(* extension expired.                                                      *)
(***************************************************************************)
EXTENDS LinuxFaults, FiniteSets

CONSTANT MaxCalls   \* calls that publish a request, after apply

ASSUME ScopeBounds == MaxCalls \in Nat

VARIABLES
    file,     \* state.json: "none" before the first save
    mem,      \* the worker's state
    worker,   \* [at, job, op, todo, fault]: where the worker is
    probe,    \* [gen, at, ended]: the newest probe process
    request,  \* request[c]: a request file: [kind, is] is: "no", "empty", "there"
    response, \* response[c]: "no", "empty", "ok", "failed"
    call,     \* [at, op, kind]: the operator's call, and what it returned
    clock,    \* [late, expired]
    exported  \* history: the state.json that was exported, or "none"

scopeVars == <<file, mem, worker, probe, request, response, call, clock, exported, faults>>

Calls == 0..MaxCalls       \* call 0 is apply
Kinds == {"update", "extend", "withdraw", "stop"}
Terminal == {"STOPPED", "EXPIRED", "FAILED"}
NoFile == [status |-> "none", gen |-> 0, ext |-> FALSE, stopped |-> FALSE, probe |-> 0]
NoOp == MaxCalls + 1

ScopeInit ==
    /\ file = NoFile /\ mem = NoFile /\ exported = NoFile
    /\ worker = [at |-> "none", job |-> "apply", op |-> NoOp, todo |-> {}, fault |-> FALSE]
    /\ probe = [gen |-> 0, at |-> "none", ended |-> FALSE]
    /\ request = [c \in Calls |-> [kind |-> "none", is |-> "no"]]
    /\ response = [c \in Calls |-> "no"]
    /\ call = [at |-> "idle", op |-> 0, kind |-> "none", got |-> NoFile]
    /\ clock = [late |-> FALSE, expired |-> FALSE]

WorkerAlive == worker.at \notin {"none", "gone"}
Running == probe.at \in {"booting", "ready", "ending"}
(* alive(state["probe"]): the probe that a saved state names.              *)
ProbeAlive(s) == s.probe = probe.gen /\ Running

-----------------------------------------------------------------------------
(* The worker.  Save(s, next) is a transition of its state: it is in       *)
(* memory and in state.json when the worker goes on.                       *)

At(next) == worker' = [worker EXCEPT !.at = next]
Save(s, next) == mem' = s /\ file' = s /\ At(next)
Fails == worker' = [worker EXCEPT !.fault = TRUE, !.at = "finally"]

WorkerStarts ==
    /\ worker.at = "start"
    /\ Save([NoFile EXCEPT !.status = "STARTING"], "launch")
    /\ UNCHANGED <<probe, request, response, call, clock, exported, faults>>

(* start_probe up to Popen: the new generation is not saved yet.           *)
Launch ==
    /\ worker.at = "launch"
    /\ mem' = [mem EXCEPT !.status = "APPLYING", !.gen = @ + 1, !.probe = mem.gen + 1]
    /\ probe' = [gen |-> mem.gen + 1, at |-> "booting", ended |-> FALSE]
    /\ At("launched")
    /\ UNCHANGED <<file, request, response, call, clock, exported, faults>>
AttachStarted ==
    /\ worker.at = "launched" /\ Save(mem, "attach")
    /\ UNCHANGED <<probe, request, response, call, clock, exported, faults>>
(* The ready marker arrived; the deadline may have passed meanwhile.       *)
Attached ==
    /\ worker.at = "attach" /\ probe.at = "ready"
    /\ IF clock.late THEN Fails /\ UNCHANGED <<file, mem>>
       ELSE Save([mem EXCEPT !.status = "APPLIED"], IF worker.op = NoOp THEN "list" ELSE "reply")
    /\ UNCHANGED <<probe, request, response, call, clock, exported, faults>>
(* The probe died before it was ready, or was not ready in time.           *)
AttachFails ==
    /\ worker.at = "attach" /\ probe.at # "ready"
    /\ IF Running THEN Fault ELSE UNCHANGED faults
    /\ Fails /\ UNCHANGED <<file, mem, probe, request, response, call, clock, exported>>

(* reply: the response is created, then written.                           *)
Reply ==
    /\ worker.at = "reply" /\ response' = [response EXCEPT ![worker.op] = "empty"]
    /\ At("replying")
    /\ UNCHANGED <<file, mem, probe, request, call, clock, exported, faults>>
Replied ==
    /\ worker.at = "replying"
    /\ response' = [response EXCEPT ![worker.op] = IF worker.fault THEN "failed" ELSE "ok"]
    /\ worker' = [worker EXCEPT !.op = NoOp, !.at = IF mem.status = "APPLIED" THEN "take"
                                                    ELSE IF worker.fault THEN "gone" ELSE "finally"]
    /\ UNCHANGED <<file, mem, probe, request, call, clock, exported, faults>>

(* One turn of the loop, in its order: the deadline, the probe's death,    *)
(* the extension's expiry, the requests without a response.                *)
Unanswered == {c \in Calls : request[c].is # "no" /\ response[c] = "no"}
Turn ==
    /\ worker.at = "loop"
    /\ IF clock.late
       THEN worker' = [worker EXCEPT !.at = "detach", !.job = "deadline"] /\ UNCHANGED <<file, mem>>
       ELSE IF ~Running THEN Fails /\ UNCHANGED <<file, mem>>
       ELSE IF mem.ext /\ clock.expired
       THEN worker' = [worker EXCEPT !.at = "detach", !.job = "expire"] /\ UNCHANGED <<file, mem>>
       ELSE Unanswered # {} /\ At("list") /\ UNCHANGED <<file, mem>>
    /\ UNCHANGED <<probe, request, response, call, clock, exported, faults>>
(* The requests that are listed together are handled one after the other,  *)
(* in the order of their ids, without another look at the clock.           *)
ListRequests ==
    /\ worker.at = "list" /\ worker' = [worker EXCEPT !.at = "take", !.todo = Unanswered]
    /\ UNCHANGED <<file, mem, probe, request, response, call, clock, exported, faults>>
Take ==
    /\ worker.at = "take"
    /\ IF worker.todo = {} THEN At("loop")
       ELSE \E c \in worker.todo :
              worker' = IF request[c].is = "empty"
                        THEN [worker EXCEPT !.fault = TRUE, !.at = "finally", !.op = c]
                        ELSE [worker EXCEPT !.at = "detach", !.job = request[c].kind, !.op = c, !.todo = @ \ {c}]
    /\ UNCHANGED <<file, mem, probe, request, response, call, clock, exported, faults>>
(* Lost source events, a bound that is exceeded, or SIGTERM.               *)
SourceFails ==
    /\ worker.at = "loop" /\ Fault /\ Fails
    /\ UNCHANGED <<file, mem, probe, request, response, call, clock, exported>>

(* stop_probe: DETACHING is saved before the probe is asked to end.        *)
Detach ==
    /\ worker.at = "detach"
    /\ Save([mem EXCEPT !.status = "DETACHING"], "detaching")
    /\ probe' = IF Running THEN [probe EXCEPT !.at = "ending"] ELSE probe
    /\ UNCHANGED <<request, response, call, clock, exported, faults>>
(* drain found the probe's end marker.                                     *)
(* Mutant: a probe that exited is taken to have ended its record.          *)
EndMarker_Exited == ~Running
EndMarker == probe.ended
Detached ==
    /\ worker.at = "detaching" /\ ~Running
    /\ mem' = mem /\ file' = mem
    /\ worker' = [worker EXCEPT !.fault = @ \/ ~EndMarker,
                                !.at = IF worker.job = "abort" THEN "final" ELSE "change"]
    /\ UNCHANGED <<probe, request, response, call, clock, exported, faults>>
(* What the detached probe makes way for.  The expiry at the deadline does *)
(* not look at the fault; the finally does.                                *)
Change ==
    /\ worker.at = "change"
    /\ IF worker.job = "deadline" THEN Save([mem EXCEPT !.status = "EXPIRED", !.stopped = TRUE], "finally")
       ELSE IF worker.fault THEN At("finally") /\ UNCHANGED <<file, mem>>
       ELSE IF worker.job = "stop" THEN Save([mem EXCEPT !.status = "STOPPED", !.stopped = TRUE], "reply")
       ELSE /\ mem' = [mem EXCEPT !.ext = IF worker.job = "update" THEN @ ELSE worker.job = "extend"]
            /\ At("launch") /\ UNCHANGED file
    /\ clock' = IF worker.job \in {"extend", "withdraw", "expire"} THEN [clock EXCEPT !.expired = FALSE] ELSE clock
    /\ UNCHANGED <<probe, request, response, call, exported, faults>>
(* EXTENSION_EXPIRED_BEFORE_APPLY: with the old probe gone already.        *)
ExtendedTooLate ==
    /\ worker.at = "change" /\ worker.job = "extend" /\ ~worker.fault
    /\ Fault /\ Fails
    /\ UNCHANGED <<file, mem, probe, request, response, call, clock, exported>>

(* The finally of run: a child that is left is stopped.                    *)
Detaches == mem.gen > 0 /\ mem.status \notin {"STOPPED", "EXPIRED", "DETACHING"}
Finally ==
    /\ worker.at = "finally"
    /\ worker' = [worker EXCEPT !.at = IF Detaches THEN "detach" ELSE "final",
                                !.job = IF Detaches THEN "abort" ELSE @]
    /\ UNCHANGED <<file, mem, probe, request, response, call, clock, exported, faults>>
Final ==
    /\ worker.at = "final"
    /\ Save(IF worker.fault THEN [mem EXCEPT !.status = "FAILED", !.stopped = ~ProbeAlive(mem)] ELSE mem,
            IF worker.op = NoOp \/ response[worker.op] # "no" THEN "gone" ELSE "reply")
    /\ UNCHANGED <<probe, request, response, call, clock, exported, faults>>

Killed ==
    /\ WorkerAlive /\ Fault /\ At("gone")
    /\ UNCHANGED <<file, mem, probe, request, response, call, clock, exported>>

-----------------------------------------------------------------------------
(* The probe.                                                              *)

ProbeReady ==
    /\ probe.at = "booting" /\ probe' = [probe EXCEPT !.at = "ready"]
    /\ UNCHANGED <<file, mem, worker, request, response, call, clock, exported, faults>>
(* It ends when asked, at its deadline, or when its worker is gone; or it  *)
(* fails, and then without its end marker.                                 *)
ProbeEnds ==
    /\ Running
    /\ \/ (probe.at = "ending" \/ clock.late \/ ~WorkerAlive) /\ probe' = [probe EXCEPT !.at = "dead", !.ended = TRUE]
          /\ UNCHANGED faults
       \/ Fault /\ probe' = [probe EXCEPT !.at = "dead"]
    /\ UNCHANGED <<file, mem, worker, request, response, call, clock, exported>>

Deadline ==
    /\ ~clock.late /\ WorkerAlive /\ clock' = [clock EXCEPT !.late = TRUE]
    /\ UNCHANGED <<file, mem, worker, probe, request, response, call, exported, faults>>
Expiry ==
    /\ ~clock.expired /\ mem.ext /\ clock' = [clock EXCEPT !.expired = TRUE]
    /\ UNCHANGED <<file, mem, worker, probe, request, response, call, exported, faults>>

-----------------------------------------------------------------------------
(* The operator's calls.  Only one at a time: they are serialised by       *)
(* control.lock.  got is the receipt of the last call, NoFile if it        *)
(* raised.                                                                 *)

(* _snapshot: what a reader reports of state.json.                         *)
Snapshot ==
    IF file.status = "APPLIED" /\ (~WorkerAlive \/ ~ProbeAlive(file) \/ clock.late)
    THEN [file EXCEPT !.status = "UNKNOWN"]
    ELSE IF file.status \in Terminal THEN [file EXCEPT !.stopped = ~WorkerAlive /\ ~ProbeAlive(file)]
    ELSE file
Returns(result) == call' = [call EXCEPT !.at = "idle", !.got = result]

Apply ==
    /\ call.at = "idle" /\ worker.at = "none"
    /\ call' = [call EXCEPT !.at = "await", !.kind = "apply"]
    /\ worker' = [worker EXCEPT !.at = "start", !.op = 0]
    /\ UNCHANGED <<file, mem, probe, request, response, clock, exported, faults>>

Recoverable(kind) == kind = "stop" /\ ~WorkerAlive
Submit(kind) ==
    /\ call.at = "idle" /\ worker.at # "none" /\ call.op < MaxCalls
    /\ file.status = "APPLIED" /\ WorkerAlive /\ ~Recoverable(kind)
    /\ call' = [at |-> "submit", op |-> call.op + 1, kind |-> kind, got |-> NoFile]
    /\ request' = [request EXCEPT ![call.op + 1] = [kind |-> kind, is |-> "empty"]]
    /\ UNCHANGED <<file, mem, worker, probe, response, clock, exported, faults>>
Submitted ==
    /\ call.at = "submit"
    /\ request' = [request EXCEPT ![call.op].is = "there"] /\ call' = [call EXCEPT !.at = "await"]
    /\ UNCHANGED <<file, mem, worker, probe, response, clock, exported, faults>>

(* _await: a response that is empty when read raises.                      *)
Await ==
    /\ call.at = "await" /\ response[call.op] # "no"
    /\ IF response[call.op] # "ok" THEN Returns(NoFile)
       ELSE call' = [call EXCEPT !.at = IF call.kind = "stop" THEN "exit" ELSE "snapshot"]
    /\ UNCHANGED <<file, mem, worker, probe, request, response, clock, exported, faults>>
(* SCOPE_OUTCOME_UNKNOWN after 25 seconds, WORKER_STOP_UNKNOWN after 12.   *)
AwaitTimesOut ==
    /\ call.at \in {"await", "exit"} /\ Returns(NoFile)
    /\ UNCHANGED <<file, mem, worker, probe, request, response, clock, exported, faults>>
StopExits ==
    /\ call.at = "exit" /\ ~WorkerAlive
    /\ IF ProbeAlive(mem) THEN Returns(NoFile) ELSE call' = [call EXCEPT !.at = "snapshot"]
    /\ UNCHANGED <<file, mem, worker, probe, request, response, clock, exported, faults>>
Receipt ==
    /\ call.at = "snapshot" /\ Returns(Snapshot)
    /\ UNCHANGED <<file, mem, worker, probe, request, response, clock, exported, faults>>

(* _recover_stop: the worker is gone; its probe, if it still runs, is      *)
(* terminated and awaited.                                                 *)
RecoverStop ==
    /\ call.at = "idle" /\ worker.at = "gone" /\ file.status # "none"
    /\ IF file.status \in Terminal /\ ~ProbeAlive(file)
       THEN call' = [call EXCEPT !.kind = "stop", !.got = Snapshot] /\ UNCHANGED file
       ELSE /\ ~ProbeAlive(file) /\ file' = [file EXCEPT !.status = "FAILED", !.stopped = TRUE]
            /\ call' = [call EXCEPT !.at = "snapshot", !.kind = "stop"]
    /\ UNCHANGED <<mem, worker, probe, request, response, clock, exported, faults>>

(* _snapshot(export): anybody, without the lock; the listed originals.     *)
(* Mutant: the flag of the file is believed, nobody looks at the processes.*)
Exports_Recorded == file.stopped
Exports == Snapshot.stopped
Export ==
    /\ file.status # "none" /\ Exports /\ exported' = file
    /\ UNCHANGED <<file, mem, worker, probe, request, response, call, clock, faults>>

-----------------------------------------------------------------------------
WorkerNext == WorkerStarts \/ Launch \/ AttachStarted \/ Attached \/ AttachFails \/ Reply \/ Replied
    \/ Turn \/ ListRequests \/ Take \/ SourceFails \/ Detach \/ Detached \/ Change \/ ExtendedTooLate \/ Finally \/ Final \/ Killed
ProbeNext == ProbeReady \/ ProbeEnds \/ Deadline \/ Expiry
CallGoesOn == Submitted \/ Await \/ AwaitTimesOut \/ StopExits \/ Receipt

-----------------------------------------------------------------------------
(* Properties.                                                             *)

(* An export names the originals by their hashes.  Once it is given,       *)
(* state.json stays what was exported, the worker is gone, and so is every *)
(* probe that a worker saved; a scope that its own worker ended left none. *)
(* The exception is the code's: a worker that dies between the Popen of a  *)
(* probe and the save that names it (worker.py:95-105) leaves one that     *)
(* recovery (scope.py:236-250) does not know of.  Until it follows its     *)
(* worker it holds its stderr.txt open, in a scope that was recovered      *)
(* (FAILED) and may be exported meanwhile.                                 *)
ExportIsFinal == exported # NoFile =>
    /\ file = exported /\ ~WorkerAlive
    /\ Running => exported.status = "FAILED" /\ probe.gen = exported.probe + 1

StopConfirmed == call.at = "idle" /\ call.kind = "stop" /\ call.got.status = "STOPPED" /\ call.got.stopped

(* What a caller is told is so.  state.json says APPLIED only of the       *)
(* generation whose probe reported itself ready; a confirmed stop left     *)
(* neither probe nor worker, and the probe wrote its end marker: the       *)
(* originals are whole.                                                    *)
ReceiptIsTrue ==
    /\ file.status = "APPLIED" => file.probe = probe.gen /\ file.gen = probe.gen /\ probe.at # "booting"
    /\ StopConfirmed => ~Running /\ ~WorkerAlive /\ probe.ended
=============================================================================
