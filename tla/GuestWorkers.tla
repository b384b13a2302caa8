---------------------------- MODULE GuestWorkers ----------------------------
(***************************************************************************)
(* Worker ownership in the guest transfer engine (guest_service.py and     *)
(* guest_worker.py): several tasks, one service whose calls run one at a   *)
(* time (TransferToolService.invoke holds a lock), one worker process at a *)
(* time, and three pieces of state that must agree although no step writes *)
(* them together:                                                          *)
(*                                                                         *)
(*   task[t].owner   the durable owner record in the task's state file     *)
(*   lease           the durable `active` pointer of guest-internal-lease  *)
(*   root            the operating-system lock on .guest-worker.lock       *)
(*                                                                         *)
(* The job is the pull package job: PREPARING becomes READY.  A write      *)
(* transaction (store.writer) is one step; a crash between the two saves   *)
(* of one transaction is a step of its own.  The store's lock does not     *)
(* block: a worker that meets it held fails with writer_busy, so that      *)
(* outcome is possible at every worker transaction.  Error codes are       *)
(* "retryable" (a repeated begin relaunches the package job) or "final".   *)
(***************************************************************************)
EXTENDS Naturals

CONSTANTS
    Tasks,       \* transfer ids
    Nonces,      \* worker processes that may ever be launched
    MaxFaults,   \* bound: service crashes and guest reboots together
    Requests,    \* the calls hosts make: pairs of an operation and a task
    Expiring,    \* bound: tasks whose deadline may pass
    None

ASSUME CountsAssumption == MaxFaults \in Nat
ASSUME NoneAssumption == None \notin Tasks /\ None \notin Nonces /\ None # "service" /\ "service" \notin Nonces

VARIABLES
    task,     \* durable state file of each task
    lease,    \* durable lease record: boot it is bound to, active owner
    root,     \* holder of the root lock: None, "service" or a nonce
    proc,     \* what each worker process is doing
    job,      \* the task each process was started for
    pipe,     \* the activation pipe of each process
    call,     \* the service call in progress
    boot,     \* current boot identity
    crashes   \* service crashes so far

vars == <<task, lease, root, proc, job, pipe, call, boot, crashes>>

ProcStates == {"unused", "waiting", "activated", "holding", "working", "done",
               "retryable", "final", "exiting", "dead"}
Codes      == {"retryable", "final"}
Owners     == [nonce : Nonces, stopped : BOOLEAN]
Ops        == {"begin", "status", "abort"}
Pcs        == {"begin", "launch", "activate", "status", "probe", "reconcile", "view",
               "abort", "stop", "kill", "mark"}
Calls      == [op : Ops, task : Tasks, pc : Pcs, nonce : Nonces \cup {None}]

TaskStates == [boot : 0..MaxFaults, phase : {"PREPARING", "READY"},
               owner : Owners \cup {None}, error : Codes \cup {None},
               cancelled : BOOLEAN, expired : BOOLEAN]

ASSUME RecordsAssumption == /\ None \notin TaskStates /\ None \notin Owners /\ None \notin Calls
                            /\ None \notin [task : Tasks, nonce : Nonces]
ASSUME RequestsAssumption == Requests \subseteq Ops \X Tasks /\ Expiring \subseteq Tasks

TypeOK ==
    /\ task \in [Tasks -> TaskStates \cup {None}]
    /\ lease \in [boot : 0..MaxFaults, active : [task : Tasks, nonce : Nonces] \cup {None}]
    /\ root \in Nonces \cup {None, "service"}
    /\ proc \in [Nonces -> ProcStates]
    /\ job \in [Nonces -> Tasks \cup {None}]
    /\ pipe \in [Nonces -> {"open", "sent", "closed"}]
    /\ call \in Calls \cup {None}
    /\ boot \in 0..MaxFaults
    /\ crashes \in 0..MaxFaults

Init ==
    /\ task = [t \in Tasks |-> None]
    /\ lease = [boot |-> 0, active |-> None]
    /\ root = None
    /\ proc = [n \in Nonces |-> "unused"]
    /\ job = [n \in Nonces |-> None]
    /\ pipe = [n \in Nonces |-> "closed"]
    /\ call = None
    /\ boot = 0
    /\ crashes = 0

-----------------------------------------------------------------------------
(* Helpers *)

(* same_process: the process with the recorded pid and birth still runs.   *)
Alive(n) == proc[n] \notin {"unused", "dead"}

Readable(t) == task[t] # None /\ task[t].boot = boot
Owner(t)    == task[t].owner
OwnedBy(t, n) == task[t] # None /\ Owner(t) # None /\ Owner(t).nonce = n
OwnerGone(t) == Owner(t) = None \/ Owner(t).stopped \/ ~Alive(Owner(t).nonce)

(* _lease: an idle record of an earlier boot is rolled over, one that      *)
(* still names an owner is refused (worker_result_unknown).                *)
LeaseReadable == lease.boot = boot \/ (lease.active = None /\ root \in {None, "service"})

(* Mutant: an old pointer is cleared without asking the process or the lock. *)
IdleUnchecked == TRUE

(* _check_idle: the pointer is cleared for any caller once the owner it    *)
(* names is dead and the root lock can be taken.                           *)
Idle == /\ LeaseReadable
        /\ lease.active # None => ~Alive(lease.active.nonce) /\ root = None
IdleLease == [boot |-> boot, active |-> None]

At(pc) == call # None /\ call.pc = pc
T == call.task
Go(pc) == call' = [call EXCEPT !.pc = pc]
GoFor(pc, n) == call' = [op |-> call.op, task |-> T, pc |-> pc, nonce |-> n]
(* The call is answered, with a result or an error.                        *)
Answer == call' = None

(* A process ends: the kernel drops its root lock.                         *)
RootWithout(n) == IF root = n THEN None ELSE root

-----------------------------------------------------------------------------
(* Calls arrive one at a time.                                             *)
Call(op, t) ==
    /\ call = None
    /\ call' = [op |-> op, task |-> t, pc |-> op, nonce |-> None]
    /\ UNCHANGED <<task, lease, root, proc, job, pipe, boot, crashes>>

(* transfer_begin: the first write transaction.                            *)
Begin ==
    /\ At("begin")
    /\ \/ /\ task[T] = None
          /\ Idle
          /\ task' = [task EXCEPT ![T] = [boot |-> boot, phase |-> "PREPARING", owner |-> None,
                                          error |-> None, cancelled |-> FALSE, expired |-> FALSE]]
          /\ lease' = IdleLease
          /\ Go("launch")
       \/ /\ task[T] = None
          /\ ~Idle
          /\ Answer
          /\ UNCHANGED <<task, lease>>
       \/ /\ task[T] # None
          /\ ~Readable(T)
          /\ Answer
          /\ UNCHANGED <<task, lease>>
       \/ /\ Readable(T)
          /\ Go(IF /\ task[T].phase = "PREPARING"
                   /\ task[T].error \in {None, "retryable"}
                   /\ OwnerGone(T)
                THEN "launch" ELSE "status")
          /\ UNCHANGED <<task, lease>>
    /\ UNCHANGED <<root, proc, job, pipe, boot, crashes>>

Owned(s, n) == [boot |-> s.boot, phase |-> s.phase, owner |-> [nonce |-> n, stopped |-> FALSE],
                error |-> None, cancelled |-> s.cancelled, expired |-> s.expired]
Registered(t, n) == [task EXCEPT ![t] = Owned(@, n)]

(* _launch, write transaction: fork, save the owner, save the lease.       *)
LaunchRefused ==
    /\ At("launch")
    /\ task[T].cancelled \/ task[T].expired \/ ~Idle
    /\ Answer
    /\ UNCHANGED <<task, lease, root, proc, job, pipe, boot, crashes>>

(* The nonce is random; which of the unused ones it is does not matter.    *)
Launches(n) ==
    /\ At("launch")
    /\ ~task[T].cancelled /\ ~task[T].expired
    /\ Idle
    /\ proc[n] = "unused" /\ n = CHOOSE m \in Nonces : proc[m] = "unused"
    /\ job' = [job EXCEPT ![n] = T]

(* Mutant: the child is activated before the lease is saved.               *)
LaunchUnleased(n) ==
    /\ Launches(n)
    /\ proc' = [proc EXCEPT ![n] = "waiting"]
    /\ pipe' = [pipe EXCEPT ![n] = "sent"]
    /\ task' = Registered(T, n)
    /\ lease' = IdleLease
    /\ GoFor("activate", n)
    /\ UNCHANGED <<root, boot, crashes>>

Launch(n) ==
    /\ Launches(n)
    /\ proc' = [proc EXCEPT ![n] = "waiting"]
    /\ pipe' = [pipe EXCEPT ![n] = "open"]
    /\ task' = Registered(T, n)
    /\ lease' = [boot |-> boot, active |-> [task |-> T, nonce |-> n]]
    /\ GoFor("activate", n)
    /\ UNCHANGED <<root, boot, crashes>>

(* fork fails; _check_idle has already saved the cleared lease.            *)
LaunchNoFork ==
    /\ At("launch")
    /\ ~task[T].cancelled /\ ~task[T].expired
    /\ Idle
    /\ lease' = IdleLease
    /\ Answer
    /\ UNCHANGED <<task, root, proc, job, pipe, boot, crashes>>

(* A save of that transaction fails after fork: the pipe is closed and the *)
(* child, which cannot get past its handshake, is waited for.  It cannot   *)
(* record its error either: its parent holds the writer lock meanwhile.    *)
LaunchFails(n) ==
    /\ Launches(n)
    /\ proc' = [proc EXCEPT ![n] = "dead"]
    /\ task' \in {task, Registered(T, n)}
    /\ lease' = IdleLease
    /\ Answer
    /\ UNCHANGED <<root, pipe, boot, crashes>>

(* The service dies between the two saves.                                 *)
LaunchCrashes(n) ==
    /\ Launches(n)
    /\ crashes + boot < MaxFaults
    /\ crashes' = crashes + 1
    /\ proc' = [proc EXCEPT ![n] = "waiting"]
    /\ task' \in {task, Registered(T, n)}
    /\ lease' = IdleLease
    /\ call' = None
    /\ UNCHANGED <<root, pipe, boot>>

(* Activation outside the transaction.  A child that timed out has closed  *)
(* its end: worker_activation_unknown.                                     *)
Activate ==
    /\ At("activate")
    /\ IF Alive(call.nonce)
       THEN pipe' = [pipe EXCEPT ![call.nonce] = "sent"] /\ Go("status")
       ELSE Answer /\ UNCHANGED pipe
    /\ UNCHANGED <<task, lease, root, proc, job, boot, crashes>>

-----------------------------------------------------------------------------
(* transfer_status and _reconcile_exit.                                    *)
(* Mutant: a registered owner is reconciled without testing its process.   *)
StatusUnchecked ==
    /\ At("status")
    /\ Readable(T)
    /\ IF Owner(T) # None /\ ~Owner(T).stopped
       THEN call' = [call EXCEPT !.pc = "view"] /\ task' = [task EXCEPT ![T].owner.stopped = TRUE]
       ELSE Go("view") /\ UNCHANGED task
    /\ UNCHANGED <<lease, root, proc, job, pipe, boot, crashes>>

Status ==
    /\ At("status")
    /\ \/ ~Readable(T) /\ Answer
       \/ /\ Readable(T)
          /\ IF Owner(T) # None /\ ~Alive(Owner(T).nonce) /\ ~Owner(T).stopped
             THEN GoFor("probe", Owner(T).nonce)
             ELSE Go("view")
    /\ UNCHANGED <<task, lease, root, proc, job, pipe, boot, crashes>>

AfterReconcile == IF call.op = "abort" THEN "mark" ELSE "view"

(* The root lock is probed without waiting; worker_busy ends the reconcile. *)
Probe ==
    /\ At("probe")
    /\ \/ root = None /\ root' = "service" /\ Go("reconcile")
       \/ root # None /\ UNCHANGED root /\ Go(AfterReconcile)
    /\ UNCHANGED <<task, lease, proc, job, pipe, boot, crashes>>

(* What the transaction writes into the task: the owner has stopped, and a *)
(* passed deadline is recorded unless an error already was.                *)
StoppedTask(s) ==
    [boot |-> s.boot, phase |-> s.phase, owner |-> [nonce |-> s.owner.nonce, stopped |-> TRUE],
     error |-> IF s.expired /\ s.error = None THEN "final" ELSE s.error,
     cancelled |-> s.cancelled, expired |-> s.expired]

(* Mutant: only the lease is cleared; the owner is never marked stopped.   *)
ReconcileLeaseOnly ==
    /\ At("reconcile")
    /\ root' = None
    /\ lease' = IdleLease
    /\ Go(AfterReconcile)
    /\ UNCHANGED <<task, proc, job, pipe, boot, crashes>>

Reconcile ==
    /\ At("reconcile")
    /\ root' = None
    /\ \/ /\ Owner(T).nonce # call.nonce \/ Alive(Owner(T).nonce)
          /\ Go(AfterReconcile)
          /\ UNCHANGED <<task, lease>>
       \/ /\ Owner(T).nonce = call.nonce /\ ~Alive(call.nonce)
          /\ ~LeaseReadable
          /\ Answer
          /\ UNCHANGED <<task, lease>>
       \/ /\ Owner(T).nonce = call.nonce /\ ~Alive(call.nonce)
          /\ LeaseReadable
          /\ lease.active \notin {None, [task |-> T, nonce |-> call.nonce]}
          /\ Answer
          /\ UNCHANGED <<task, lease>>
       \/ /\ Owner(T).nonce = call.nonce /\ ~Alive(call.nonce)
          /\ LeaseReadable
          /\ lease.active \in {None, [task |-> T, nonce |-> call.nonce]}
          /\ lease' = IdleLease
          /\ task' = [task EXCEPT ![T] = StoppedTask(@)]
          /\ Go(AfterReconcile)
    /\ UNCHANGED <<proc, job, pipe, boot, crashes>>

(* The service dies after clearing the lease and before the task is saved. *)
ReconcileCrashes ==
    /\ At("reconcile")
    /\ crashes + boot < MaxFaults
    /\ Owner(T).nonce = call.nonce /\ ~Alive(call.nonce)
    /\ lease.active = [task |-> T, nonce |-> call.nonce]
    /\ crashes' = crashes + 1
    /\ lease' = IdleLease
    /\ root' = None
    /\ call' = None
    /\ UNCHANGED <<task, proc, job, pipe, boot>>

(* The answer itself.                                                      *)
View ==
    /\ At("view")
    /\ Answer
    /\ UNCHANGED <<task, lease, root, proc, job, pipe, boot, crashes>>

-----------------------------------------------------------------------------
(* transfer_abort and _stop_registered.                                    *)
Abort ==
    /\ At("abort")
    /\ \/ /\ ~Readable(T)
          /\ Answer
          /\ UNCHANGED task
       \/ /\ Readable(T)
          /\ task' = [task EXCEPT ![T].cancelled = TRUE]
          /\ IF Owner(T) # None /\ ~Owner(T).stopped
             THEN GoFor("stop", Owner(T).nonce)
             ELSE Go("status")
    /\ UNCHANGED <<lease, root, proc, job, pipe, boot, crashes>>

Stop ==
    /\ At("stop")
    /\ LET me == [task |-> T, nonce |-> call.nonce] IN
       \/ ~LeaseReadable /\ Answer /\ UNCHANGED lease
       \/ LeaseReadable /\ lease.active \notin {None, me} /\ Answer /\ UNCHANGED lease
       \/ /\ LeaseReadable /\ lease.active = None
          /\ lease' = IdleLease
          /\ IF Alive(call.nonce) THEN Answer ELSE Go("status")
       \/ LeaseReadable /\ lease.active = me /\ Go("kill") /\ UNCHANGED lease
    /\ UNCHANGED <<task, root, proc, job, pipe, boot, crashes>>

(* terminate_verified: SIGTERM then SIGKILL through a pidfd, bounded.      *)
Kill ==
    /\ At("kill")
    /\ \/ /\ proc' = [proc EXCEPT ![call.nonce] = "dead"]
          /\ root' = RootWithout(call.nonce)
          /\ Go("probe")
       \/ /\ Alive(call.nonce)
          /\ Answer
          /\ UNCHANGED <<proc, root>>
    /\ UNCHANGED <<task, lease, job, pipe, boot, crashes>>

Mark ==
    /\ At("mark")
    /\ task' = [task EXCEPT ![T].error = IF OwnedBy(T, call.nonce) THEN "final" ELSE @]
    /\ Go("status")
    /\ UNCHANGED <<lease, root, proc, job, pipe, boot, crashes>>

(* store.writer() does not wait: while a worker holds the lock a service   *)
(* transaction fails with writer_busy.  Only the status path swallows it.  *)
WriterBusy ==
    /\ \E n \in Nonces : proc[n] \in {"working", "retryable", "final"}
    /\ \/ /\ call # None /\ call.pc \in {"begin", "launch", "abort", "stop", "mark"}
          /\ Answer
          /\ UNCHANGED root
       \/ /\ At("reconcile")
          /\ root' = None
          /\ IF call.op = "abort" THEN Answer ELSE Go("view")
    /\ UNCHANGED <<task, lease, proc, job, pipe, boot, crashes>>

(* The service process dies between two steps of a call.  Pipes it held    *)
(* open are closed by the kernel; its workers live on.                     *)
Crash ==
    /\ call # None
    /\ crashes + boot < MaxFaults
    /\ crashes' = crashes + 1
    /\ call' = None
    /\ root' = IF root = "service" THEN None ELSE root
    /\ pipe' = [n \in Nonces |-> IF pipe[n] = "open" THEN "closed" ELSE pipe[n]]
    /\ UNCHANGED <<task, lease, proc, job, boot>>

(* The guest restarts: every process is gone, tasks keep their old boot.   *)
Reboot ==
    /\ crashes + boot < MaxFaults
    /\ boot' = boot + 1
    /\ call' = None
    /\ root' = None
    /\ proc' = [n \in Nonces |-> IF proc[n] = "unused" THEN "unused" ELSE "dead"]
    /\ UNCHANGED <<task, lease, job, pipe, crashes>>

(* The monotonic deadline of a task passes.                                *)
Expire(t) ==
    /\ task[t] # None /\ ~task[t].expired
    /\ task' = [task EXCEPT ![t].expired = TRUE]
    /\ UNCHANGED <<lease, root, proc, job, pipe, call, boot, crashes>>

-----------------------------------------------------------------------------
(* The worker process: _child and _execute.                                *)
WorkerFrame == UNCHANGED <<lease, job, pipe, call, boot, crashes>>
Becomes(n, s) == proc' = [proc EXCEPT ![n] = s]

(* read_activation: the token, end of file, or the 15 second timeout.      *)
Handshake(n) ==
    /\ proc[n] = "waiting"
    /\ Becomes(n, IF pipe[n] = "sent" THEN "activated" ELSE "retryable")
    /\ UNCHANGED <<task, root>>
    /\ WorkerFrame

(* lease.acquire(): not blocking, so a probe in progress fails the job.    *)
Acquire(n) ==
    /\ proc[n] = "activated"
    /\ \/ root = None /\ root' = n /\ Becomes(n, "holding")
       \/ root # None /\ UNCHANGED root /\ Becomes(n, "final")
    /\ UNCHANGED task
    /\ WorkerFrame

CheckOwner(n) ==
    /\ proc[n] = "holding"
    /\ \/ OwnedBy(job[n], n) /\ Becomes(n, "working") /\ UNCHANGED root
       \/ ~OwnedBy(job[n], n) /\ Becomes(n, "final") /\ root' = None
    /\ UNCHANGED task
    /\ WorkerFrame

(* _package's transaction, or a failure (cancelled, writer_busy, worker_failed). *)
Work(n) ==
    LET s == task[job[n]] IN
    /\ proc[n] = "working"
    /\ \/ /\ s.phase = "PREPARING" /\ ~s.cancelled
          /\ task' = [task EXCEPT ![job[n]].phase = "READY"]
          /\ Becomes(n, "done")
          /\ UNCHANGED root
       \/ /\ \E code \in Codes : Becomes(n, code)
          /\ root' = None
          /\ UNCHANGED task
    /\ WorkerFrame

(* lease.release() after a finished body.                                  *)
Release(n) ==
    /\ proc[n] = "done"
    /\ root' = None
    /\ Becomes(n, "exiting")
    /\ UNCHANGED task
    /\ WorkerFrame

(* The except branch: record the error if this worker is still the owner.  *)
(* When all hundred attempts meet a busy writer nothing is recorded.       *)
RecordError(n) ==
    /\ proc[n] \in Codes
    /\ task' \in {task,
                  IF OwnedBy(job[n], n) THEN [task EXCEPT ![job[n]].error = proc[n]] ELSE task}
    /\ Becomes(n, "exiting")
    /\ UNCHANGED root
    /\ WorkerFrame

(* Normal exit, the deadline guard's os._exit(124), or a kill.             *)
Die(n) ==
    /\ Alive(n)
    /\ Becomes(n, "dead")
    /\ root' = RootWithout(n)
    /\ UNCHANGED task
    /\ WorkerFrame

Exit(n) == proc[n] = "exiting" /\ Die(n)

WorkerStep(n) ==
    \/ Handshake(n) \/ Acquire(n) \/ CheckOwner(n) \/ Work(n) \/ Release(n)
    \/ RecordError(n) \/ Exit(n)

ServiceStep ==
    \/ Begin \/ LaunchRefused \/ LaunchNoFork \/ (\E n \in Nonces : Launch(n) \/ LaunchFails(n))
    \/ Activate \/ Status \/ Probe \/ Reconcile \/ View
    \/ Abort \/ Stop \/ Kill \/ Mark \/ WriterBusy

Next ==
    \/ \E r \in Requests : Call(r[1], r[2])
    \/ ServiceStep
    \/ \E n \in Nonces : LaunchCrashes(n)
    \/ ReconcileCrashes \/ Crash \/ Reboot
    \/ \E t \in Expiring : Expire(t)
    \/ \E n \in Nonces : WorkerStep(n) \/ Die(n)

Spec == Init /\ [][Next]_vars

(* Every worker gets on with its job (the deadline guard bounds it), a     *)
(* call in progress is carried out, and hosts keep polling every task.     *)
Fairness ==
    /\ WF_vars(ServiceStep)
    /\ \A n \in Nonces : WF_vars(WorkerStep(n))
    /\ \A t \in Tasks : SF_vars(Call("status", t))

FairSpec == Spec /\ Fairness

-----------------------------------------------------------------------------
(* "No job writes before the parent has persisted the exact owner": a      *)
(* worker that got past its handshake is the owner its task records and    *)
(* the owner the lease names, and one that does the job also holds the     *)
(* root lock.  So two workers never do a job at the same time, whatever    *)
(* service crashes, failed saves and concurrent calls came before.         *)
RegisteredBeforeWork ==
    \A n \in Nonces :
        /\ proc[n] \in {"activated", "holding", "working", "done"} =>
              /\ OwnedBy(job[n], n)
              /\ lease = [boot |-> boot, active |-> [task |-> job[n], nonce |-> n]]
        /\ proc[n] \in {"holding", "working", "done"} <=> root = n

(* A worker is recorded as stopped only when its process is gone, its lock *)
(* released and the lease no longer names it (what _finalize_release and   *)
(* the host's release check rely on).                                      *)
StoppedIsGone ==
    \A t \in Tasks : task[t] # None /\ Owner(t) # None /\ Owner(t).stopped =>
        /\ ~Alive(Owner(t).nonce)
        /\ root # Owner(t).nonce
        /\ lease.active # [task |-> t, nonce |-> Owner(t).nonce]

(* The lease changes hands only when the process it names is dead, and a   *)
(* pointer left by an earlier boot is never cleared (its PID proves        *)
(* nothing in this boot).                                                  *)
LeaseHanded ==
    lease.active # None /\ lease' # lease => ~Alive(lease.active.nonce) /\ lease.boot = boot
LeaseHandover == [][LeaseHanded]_vars

(* The owner record of a task is replaced or marked stopped only once the  *)
(* old owner's process is dead: begin never orphans a running worker.      *)
OwnersHanded ==
    \A t \in Tasks : task[t] # None /\ Owner(t) # None =>
        task'[t].owner = Owner(t) \/ ~Alive(Owner(t).nonce)
OwnerHandover == [][OwnersHanded]_vars

(* Every registered worker is eventually seen to have stopped, as long as  *)
(* the guest is not rebooted, although a status call may be refused while  *)
(* the lease names another task's worker.                                  *)
Unreconciled(t) == Readable(t) /\ Owner(t) # None /\ ~Owner(t).stopped

EveryWorkerIsReconciled == \A t \in Tasks : Unreconciled(t) ~> ~Unreconciled(t)

(* A lease and the owner of a task change hands only when whoever held     *)
(* them is gone (_child, _worker_owner).                                   *)
WorkIsHandedOver == LeaseHandover /\ OwnerHandover
=============================================================================
