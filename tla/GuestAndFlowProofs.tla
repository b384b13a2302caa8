------------------------- MODULE GuestAndFlowProofs -------------------------
(***************************************************************************)
(* Safety of two parts of the guest service and of the flow host.          *)
(* GuestWorkers, for every number of tasks, workers, crashes and reboots:  *)
(* RegisteredBeforeWork, StoppedIsGone and WorkIsHandedOver.  GuestReceive,*)
(* for every package size, byte, chunk, batch and number of workers:       *)
(* ReceivedIsHeld and ProofIsCurrent.  FlowCoordinator, for every set of   *)
(* flows and every budget: PageIsSlice, CompleteIsWhole, SavedIsExact and  *)
(* StopIsExplained.  The models share no variable and no constant; the     *)
(* lemmas on FlattenSeq serve the last two.                                *)
(***************************************************************************)
EXTENDS GuestWorkers, GuestReceive, FlowCoordinator, Integers, WellFoundedInduction, TLAPS

-----------------------------------------------------------------------------
(* Workers and leases.                                                     *)
Holding == {"holding", "working", "done"}

(* A call past its first transaction is about a task of this boot; the     *)
(* process it waits for or stops is the one it read from the task.         *)
CallKnown ==
    call # None =>
        /\ call.pc \notin Ops => Readable(T)
        /\ call.pc \in {"activate", "probe", "reconcile", "stop", "kill", "mark"} =>
              call.nonce \in Nonces /\ proc[call.nonce] # "unused"
        /\ call.pc \in {"probe", "reconcile", "stop", "kill", "mark"} => Owner(T) # None
        /\ call.pc = "launch" => Owner(T) = None \/ ~Alive(Owner(T).nonce)

(* The root lock: its holder knows that it holds it.                       *)
RootHeld ==
    /\ \A n \in Nonces : proc[n] \in Holding <=> root = n
    /\ root = "service" <=> At("reconcile")

(* A worker gets past its handshake only by the token of its parent.       *)
TokenSent ==
    \A n \in Nonces : /\ proc[n] = "unused" => pipe[n] # "sent"
                      /\ proc[n] \in Holding \cup {"activated"} => pipe[n] = "sent"

(* The process of an owner was started, and every process for a task.      *)
OwnersStarted ==
    /\ \A t \in Tasks : task[t] # None /\ Owner(t) # None => proc[Owner(t).nonce] # "unused"
    /\ \A n \in Nonces : proc[n] # "unused" => job[n] \in Tasks

(* A lease that names an owner is of the boot of the owner's task.         *)
LeaseOfTask ==
    lease.active # None => /\ task[lease.active.task] # None
                           /\ task[lease.active.task].boot = lease.boot

(* A live process that has the token, or is about to get it, is the owner  *)
(* of its task and the one the lease names.                                *)
Entitled(n) == Alive(n) /\ (pipe[n] = "sent" \/ (At("activate") /\ call.nonce = n))
EntitledOwns ==
    \A n \in Nonces : Entitled(n) =>
        /\ job[n] \in Tasks /\ OwnedBy(job[n], n) /\ ~Owner(job[n]).stopped
        /\ lease = [boot |-> boot, active |-> [task |-> job[n], nonce |-> n]]

StoppedDead ==
    \A t \in Tasks : task[t] # None /\ Owner(t) # None /\ Owner(t).stopped =>
        /\ ~Alive(Owner(t).nonce)
        /\ lease.active # [task |-> t, nonce |-> Owner(t).nonce]

IInv == /\ TypeOK /\ CallKnown /\ RootHeld /\ TokenSent /\ OwnersStarted /\ LeaseOfTask
        /\ EntitledOwns /\ StoppedDead

-----------------------------------------------------------------------------
(* The fields of the records.                                              *)
LEMMA TaskFields ==
    \A s \in TaskStates :
        /\ s # None /\ s.boot \in 0..MaxFaults /\ s.phase \in {"PREPARING", "READY"}
        /\ s.owner \in Owners \cup {None} /\ s.error \in Codes \cup {None}
        /\ s.cancelled \in BOOLEAN /\ s.expired \in BOOLEAN
BY RecordsAssumption DEF TaskStates

LEMMA OwnerFields == \A o \in Owners : o # None /\ o.nonce \in Nonces /\ o.stopped \in BOOLEAN
BY RecordsAssumption DEF Owners

LEMMA Implied == IInv => RegisteredBeforeWork /\ StoppedIsGone
<1> SUFFICES ASSUME IInv PROVE RegisteredBeforeWork /\ StoppedIsGone
    OBVIOUS
<1>1. RegisteredBeforeWork
    BY DEF IInv, RegisteredBeforeWork, RootHeld, TokenSent, EntitledOwns, Entitled, Alive, Holding
<1>2. StoppedIsGone
    BY DEF IInv, StoppedIsGone, RootHeld, StoppedDead, Alive, Holding, TypeOK, TaskStates, Owners, Owner
<1> QED BY <1>1, <1>2

-----------------------------------------------------------------------------
(* What a step does that starts no worker: owners are only marked stopped, *)
(* and the lease is only cleared, when the process they name is dead; no   *)
(* process is born or revived, and none becomes entitled.                  *)
TaskMild(t) ==
    /\ task[t] = None => task'[t] = None \/ task'[t].owner = None
    /\ task[t] # None => /\ task'[t] # None /\ task'[t].boot = task[t].boot
                         /\ \/ task'[t].owner = task[t].owner
                            \/ /\ task[t].owner # None /\ ~Alive(task[t].owner.nonce)
                               /\ lease'.active = None
                               /\ task'[t].owner = [nonce |-> task[t].owner.nonce, stopped |-> TRUE]
LeaseMild ==
    \/ lease' = lease
    \/ lease' = IdleLease /\ (lease.active # None => ~Alive(lease.active.nonce) /\ lease.boot = boot)
ProcMild(n) ==
    /\ proc'[n] = "unused" <=> proc[n] = "unused"
    /\ proc[n] = "dead" => proc'[n] = "dead"
    /\ Entitled(n)' => Entitled(n)
Mild == /\ boot' = boot /\ job' = job
        /\ \A t \in Tasks : TaskMild(t)
        /\ LeaseMild
        /\ \A n \in Nonces : ProcMild(n)

(* What WorkIsHandedOver says of one step.                                 *)
HandedOver == LeaseHanded /\ OwnersHanded

Owned4 == OwnersStarted /\ LeaseOfTask /\ EntitledOwns /\ StoppedDead

LEMMA MildKeeps == ASSUME IInv, TypeOK', Mild PROVE Owned4' /\ HandedOver
<1> USE DEF IInv
<1>3. ASSUME NEW t \in Tasks, task[t] # None, task[t].owner # None
      PROVE  task[t].owner \in Owners /\ task[t].owner.nonce \in Nonces
  <2>1. task[t] \in TaskStates
    BY <1>3 DEF TypeOK
  <2> QED BY <1>3, <2>1, TaskFields, OwnerFields
<1>4. ASSUME NEW n \in Nonces, ~Alive(n), proc[n] # "unused" PROVE proc'[n] = "dead"
    BY <1>4 DEF Alive, Mild, ProcMild
<1>5. ASSUME NEW t \in Tasks, task'[t] # None, task'[t].owner # None
      PROVE  /\ task[t] # None /\ task[t].owner # None /\ task[t].owner \in Owners
             /\ task'[t].owner.nonce = task[t].owner.nonce
             /\ \/ task'[t].owner = task[t].owner
                \/ ~Alive(task[t].owner.nonce) /\ lease'.active = None
  <2>1. TaskMild(t)
    BY DEF Mild
  <2>2. task[t] # None /\ task[t].owner # None
    BY <1>5, <2>1 DEF TaskMild
  <2> QED BY <1>3, <1>5, <2>1, <2>2 DEF TaskMild
<1>6. OwnersStarted'
  <2> SUFFICES ASSUME NEW t \in Tasks, task'[t] # None, task'[t].owner # None
               PROVE  proc'[task'[t].owner.nonce] # "unused"
    BY DEF IInv, OwnersStarted, Owner, Mild, ProcMild
  <2>1. /\ task[t] # None /\ task[t].owner # None /\ task[t].owner.nonce \in Nonces
        /\ task'[t].owner.nonce = task[t].owner.nonce
    BY <1>3, <1>5
  <2>2. proc[task[t].owner.nonce] # "unused"
    BY <2>1 DEF OwnersStarted, Owner
  <2> QED BY <2>1, <2>2 DEF Mild, ProcMild
<1>7. LeaseOfTask'
  <2>1. CASE lease' = lease
    <3>1. lease.active # None => lease.active.task \in Tasks
        BY DEF TypeOK
    <3> QED BY <2>1, <3>1 DEF LeaseOfTask, Mild, TaskMild
  <2>2. CASE lease' = IdleLease
    BY <2>2 DEF LeaseOfTask, IdleLease
  <2> QED BY <2>1, <2>2 DEF Mild, LeaseMild
<1>8. EntitledOwns'
  <2> SUFFICES ASSUME NEW n \in Nonces, Entitled(n)'
               PROVE  /\ job'[n] \in Tasks /\ OwnedBy(job[n], n)' /\ ~task'[job[n]].owner.stopped
                      /\ lease' = [boot |-> boot, active |-> [task |-> job[n], nonce |-> n]]
    BY DEF EntitledOwns, Mild, Owner
  <2>1. Entitled(n) /\ Alive(n)
    BY DEF Mild, ProcMild, Entitled
  <2>2. /\ job[n] \in Tasks /\ OwnedBy(job[n], n) /\ ~task[job[n]].owner.stopped
        /\ lease = [boot |-> boot, active |-> [task |-> job[n], nonce |-> n]]
    BY <2>1 DEF EntitledOwns, Owner
  <2>3. lease.active # None /\ lease.active.nonce = n
    BY <2>2, RecordsAssumption
  <2>4. lease' = lease
    BY <2>1, <2>3 DEF Mild, LeaseMild
  <2>5. task'[job[n]] # None /\ task'[job[n]].owner = task[job[n]].owner
    BY <2>1, <2>2 DEF Mild, TaskMild, OwnedBy, Owner
  <2> QED BY <2>2, <2>4, <2>5 DEF OwnedBy, Owner, Mild
<1>9. StoppedDead'
  <2> SUFFICES ASSUME NEW t \in Tasks, task'[t] # None, task'[t].owner # None, task'[t].owner.stopped
               PROVE  /\ proc'[task'[t].owner.nonce] = "dead"
                      /\ lease'.active # [task |-> t, nonce |-> task'[t].owner.nonce]
    BY DEF StoppedDead, Owner, Alive
  <2>1. /\ task[t] # None /\ task[t].owner # None /\ task[t].owner.nonce \in Nonces
        /\ task'[t].owner.nonce = task[t].owner.nonce
        /\ \/ task'[t].owner = task[t].owner
           \/ ~Alive(task[t].owner.nonce) /\ lease'.active = None
    BY <1>3, <1>5
  <2>2. ~Alive(task[t].owner.nonce)
    BY <2>1 DEF StoppedDead, Owner
  <2>3. proc'[task[t].owner.nonce] = "dead"
    <3>1. proc[task[t].owner.nonce] # "unused"
        BY <2>1 DEF OwnersStarted, Owner
    <3> QED BY <1>4, <2>1, <2>2, <3>1
  <2>4. lease'.active # [task |-> t, nonce |-> task[t].owner.nonce]
    <3>1. CASE lease'.active = None
        BY <3>1, <2>1, RecordsAssumption
    <3>2. CASE task'[t].owner = task[t].owner /\ lease' = lease
        BY <2>1, <3>2 DEF StoppedDead, Owner
    <3>3. CASE lease' = IdleLease
        BY <3>1, <3>3 DEF IdleLease
    <3> QED BY <2>1, <3>1, <3>2, <3>3 DEF Mild, LeaseMild
  <2> QED BY <2>1, <2>3, <2>4
<1>10. HandedOver
  <2>1. lease.active # None /\ lease' # lease => ~Alive(lease.active.nonce) /\ lease.boot = boot
    BY DEF Mild, LeaseMild
  <2>2. ASSUME NEW t \in Tasks, task[t] # None, Owner(t) # None
        PROVE  task'[t].owner = Owner(t) \/ ~Alive(Owner(t).nonce)
    BY <2>2 DEF Mild, TaskMild, Owner
  <2> QED BY <2>1, <2>2 DEF HandedOver, LeaseHanded, OwnersHanded
<1> QED BY <1>6, <1>7, <1>8, <1>9, <1>10 DEF Owned4

LEMMA MildInv ==
    ASSUME IInv, TypeOK', CallKnown', RootHeld', TokenSent', Mild
    PROVE  IInv' /\ HandedOver
BY MildKeeps DEF IInv, Owned4

-----------------------------------------------------------------------------
(* The call in progress.                                                   *)
LEMMA CallFields ==
    \A c \in Calls : /\ c # None /\ c.op \in Ops /\ c.task \in Tasks /\ c.pc \in Pcs
                     /\ c.nonce \in Nonces \cup {None}
BY RecordsAssumption DEF Calls

LEMMA GoFields ==
    ASSUME NEW pc \in Pcs, call \in Calls, Go(pc)
    PROVE  /\ call' \in Calls /\ call' # None
           /\ call'.op = call.op /\ call'.task = call.task /\ call'.nonce = call.nonce /\ call'.pc = pc
<1>1. call' \in Calls
    BY CallFields DEF Go, Calls
<1>2. /\ call'.op = call.op /\ call'.task = call.task /\ call'.nonce = call.nonce /\ call'.pc = pc
    BY DEF Go, Calls
<1> QED BY <1>1, <1>2, CallFields

LEMMA GoForFields ==
    ASSUME NEW pc \in Pcs, NEW n \in Nonces, call \in Calls, GoFor(pc, n)
    PROVE  /\ call' \in Calls /\ call' # None
           /\ call'.op = call.op /\ call'.task = call.task /\ call'.nonce = n /\ call'.pc = pc
<1>1. call' \in Calls
    BY CallFields DEF GoFor, Calls, T
<1>2. /\ call'.op = call.op /\ call'.task = call.task /\ call'.nonce = n /\ call'.pc = pc
    BY DEF GoFor, T
<1> QED BY <1>1, <1>2, CallFields

LEMMA InCall == ASSUME IInv, call # None PROVE call \in Calls /\ T \in Tasks
BY CallFields DEF IInv, TypeOK, T

(* A step that moves only the call.                                        *)
LEMMA CallOnly ==
    ASSUME IInv, ~At("reconcile"), CallKnown', call' \in Calls \cup {None},
           call' # None => call'.pc \notin {"activate", "reconcile"},
           UNCHANGED <<task, lease, root, proc, job, pipe, boot, crashes>>
    PROVE  IInv' /\ HandedOver
<1>1. TypeOK'
    BY DEF IInv, TypeOK
<1>2. RootHeld' /\ TokenSent'
    BY DEF IInv, RootHeld, TokenSent, At
<1>3. Mild
    BY DEF Mild, TaskMild, LeaseMild, ProcMild, Entitled, Alive, At
<1> QED BY <1>1, <1>2, <1>3, MildInv

LEMMA AnswerOnly ==
    ASSUME IInv, ~At("reconcile"), Answer,
           UNCHANGED <<task, lease, root, proc, job, pipe, boot, crashes>>
    PROVE  IInv' /\ HandedOver
<1>1. CallKnown'
    BY DEF Answer, CallKnown
<1> QED BY <1>1, CallOnly DEF Answer

(* A step that leaves every task its boot and its owner.                   *)
TasksSame ==
    /\ task' \in [Tasks -> TaskStates \cup {None}]
    /\ \A t \in Tasks : /\ task'[t] = None <=> task[t] = None
                        /\ task[t] # None => task'[t].boot = task[t].boot /\ task'[t].owner = task[t].owner

LEMMA TaskUpdate ==
    ASSUME IInv, NEW t \in Tasks, NEW s \in TaskStates, task[t] # None,
           s.boot = task[t].boot, s.owner = task[t].owner, task' = [task EXCEPT ![t] = s]
    PROVE  TasksSame
BY RecordsAssumption DEF IInv, TypeOK, TasksSame

LEMMA FieldUpdates ==
    ASSUME NEW s \in TaskStates
    PROVE  /\ LET u == [s EXCEPT !.cancelled = TRUE]
              IN  u \in TaskStates /\ u.boot = s.boot /\ u.owner = s.owner
           /\ LET u == [s EXCEPT !.expired = TRUE]
              IN  u \in TaskStates /\ u.boot = s.boot /\ u.owner = s.owner
           /\ LET u == [s EXCEPT !.phase = "READY"]
              IN  u \in TaskStates /\ u.boot = s.boot /\ u.owner = s.owner
           /\ \A e \in Codes \cup {None} : LET u == [s EXCEPT !.error = e]
                 IN  u \in TaskStates /\ u.boot = s.boot /\ u.owner = s.owner
BY TaskFields DEF TaskStates

LEMMA SameTasks == IInv /\ task' = task => TasksSame
BY DEF IInv, TypeOK, TasksSame

LEMMA CallKept ==
    ASSUME IInv, TasksSame, call' = call, boot' = boot, \A n \in Nonces : ProcMild(n)
    PROVE  CallKnown'
<1> SUFFICES ASSUME call # None PROVE CallKnown'
    BY DEF CallKnown
<1>1. call \in Calls /\ T \in Tasks /\ T' = T
    BY InCall DEF T
<1>2. call.pc \notin Ops => Readable(T)'
    BY <1>1 DEF IInv, CallKnown, Readable, TasksSame
<1>3. call.pc \notin Ops => task[T] # None /\ task'[T].owner = task[T].owner
    BY <1>1 DEF IInv, CallKnown, Readable, TasksSame
<1>4. ASSUME call.pc = "launch", task[T].owner # None PROVE ~Alive(Owner(T).nonce)'
  <2>1. task[T] # None /\ task'[T].owner = task[T].owner /\ ~Alive(task[T].owner.nonce)
    BY <1>3, <1>4 DEF IInv, CallKnown, Owner, Ops
  <2>2. task[T] \in TaskStates
    BY <1>1, <2>1 DEF IInv, TypeOK
  <2>3. task[T].owner.nonce \in Nonces /\ proc[task[T].owner.nonce] # "unused"
    BY <1>1, <1>4, <2>1, <2>2, TaskFields, OwnerFields DEF IInv, OwnersStarted, Owner
  <2>4. proc'[task[T].owner.nonce] = "dead"
    BY <2>1, <2>3 DEF ProcMild, Alive
  <2> QED BY <1>1, <2>1, <2>4 DEF Owner, Alive
<1>5. call.nonce \in Nonces /\ proc[call.nonce] # "unused" => proc'[call.nonce] # "unused"
    BY DEF ProcMild
<1> QED BY <1>1, <1>2, <1>3, <1>4, <1>5 DEF IInv, CallKnown, Owner, Ops

LEMMA SameMild ==
    ASSUME TasksSame, UNCHANGED <<lease, job, boot>>, \A n \in Nonces : ProcMild(n)
    PROVE  Mild
BY DEF TasksSame, Mild, TaskMild, LeaseMild

-----------------------------------------------------------------------------
(* The steps of a worker.                                                  *)
LEMMA WorkerInv ==
    ASSUME IInv, NEW n \in Nonces, NEW s \in ProcStates \ {"unused"}, Alive(n), Becomes(n, s),
           WorkerFrame, TasksSame, root' \in Nonces \cup {None, "service"},
           s \in Holding <=> root' = n,
           s \in Holding \cup {"activated"} => pipe[n] = "sent",
           \A m \in (Nonces \cup {"service"}) \ {n} : root' = m <=> root = m
    PROVE  IInv' /\ HandedOver
<1>1. TypeOK'
    BY DEF IInv, TypeOK, TasksSame, Becomes, WorkerFrame
<1>2. \A m \in Nonces : ProcMild(m)
    BY DEF IInv, TypeOK, ProcMild, Entitled, Alive, Becomes, WorkerFrame, At
<1>3. RootHeld'
    BY NoneAssumption DEF IInv, TypeOK, RootHeld, Becomes, WorkerFrame, At
<1>4. TokenSent'
    BY DEF IInv, TypeOK, TokenSent, Becomes, WorkerFrame
<1>5. CallKnown'
    BY <1>2, CallKept DEF WorkerFrame
<1>6. Mild
    BY <1>2, SameMild DEF WorkerFrame
<1> QED BY <1>1, <1>3, <1>4, <1>5, <1>6, MildInv

LEMMA WorkerKeeps == ASSUME IInv, NEW n \in Nonces, WorkerStep(n) \/ Die(n) PROVE IInv' /\ HandedOver
<1>1. root \in Nonces \cup {None, "service"} /\ (root = n <=> proc[n] \in Holding) /\ n # None
    BY NoneAssumption DEF IInv, TypeOK, RootHeld
<1>2. proc[n] \in Holding \cup {"activated"} => pipe[n] = "sent" /\ job[n] \in Tasks /\ OwnedBy(job[n], n)
    BY DEF IInv, TokenSent, EntitledOwns, Entitled, Alive, Holding
<1>3. CASE Handshake(n)
  <2>1. TasksSame
    BY <1>3, SameTasks DEF Handshake
  <2> QED BY <1>1, <1>3, <2>1, WorkerInv DEF Handshake, Alive, Holding, ProcStates
<1>4. CASE Acquire(n)
  <2>1. TasksSame
    BY <1>4, SameTasks DEF Acquire
  <2>2. CASE root = None
    BY <1>1, <1>2, <1>4, <2>1, <2>2, NoneAssumption, WorkerInv DEF Acquire, Alive, Holding, ProcStates
  <2>3. CASE root # None
    BY <1>1, <1>2, <1>4, <2>1, <2>3, WorkerInv DEF Acquire, Alive, Holding, ProcStates
  <2> QED BY <2>2, <2>3
<1>5. CASE CheckOwner(n)
  <2>1. TasksSame
    BY <1>5, SameTasks DEF CheckOwner
  <2>2. Becomes(n, "working") /\ root' = root
    BY <1>2, <1>5 DEF CheckOwner, Holding
  <2> QED BY <1>1, <1>2, <1>5, <2>1, <2>2, WorkerInv DEF CheckOwner, Alive, Holding, ProcStates
<1>6. CASE Work(n)
  <2>1. CASE task' = task
    <3>1. TasksSame
        BY <2>1, SameTasks
    <3>2. PICK s \in Codes \cup {"done"} :
              Becomes(n, s) /\ (s = "done" => root' = root) /\ (s \in Codes => root' = None)
        BY <1>6 DEF Work, Codes
    <3> QED BY <1>1, <1>2, <1>6, <3>1, <3>2, NoneAssumption, WorkerInv DEF Work, Alive, Holding, ProcStates, Codes
  <2>2. CASE task' = [task EXCEPT ![job[n]].phase = "READY"] /\ Becomes(n, "done") /\ root' = root
    <3>1. job[n] \in Tasks /\ task[job[n]] # None /\ task[job[n]] \in TaskStates
        BY <1>2, <1>6 DEF Work, Holding, OwnedBy, IInv, TypeOK
    <3>2. task' = [task EXCEPT ![job[n]] = [task[job[n]] EXCEPT !.phase = "READY"]]
        BY <2>2
    <3>3. TasksSame
        BY <3>1, <3>2, FieldUpdates, TaskUpdate
    <3> QED BY <1>1, <1>2, <1>6, <2>2, <3>3, WorkerInv DEF Work, Alive, Holding, ProcStates
  <2> QED BY <1>6, <2>1, <2>2 DEF Work
<1>7. CASE Release(n)
  <2>1. TasksSame
    BY <1>7, SameTasks DEF Release
  <2> QED BY <1>1, <1>7, <2>1, NoneAssumption, WorkerInv DEF Release, Alive, Holding, ProcStates
<1>8. CASE RecordError(n)
  <2>1. TasksSame
    <3>1. CASE task' = task
        BY <3>1, SameTasks
    <3>2. CASE OwnedBy(job[n], n) /\ task' = [task EXCEPT ![job[n]].error = proc[n]]
      <4>1. job[n] \in Tasks /\ task[job[n]] # None /\ proc[n] \in Codes
        BY <1>8, <3>2 DEF IInv, OwnersStarted, RecordError, Codes, OwnedBy
      <4>2. task[job[n]] \in TaskStates
        BY <4>1 DEF IInv, TypeOK
      <4>3. task' = [task EXCEPT ![job[n]] = [task[job[n]] EXCEPT !.error = proc[n]]]
        BY <3>2
      <4> QED BY <4>1, <4>2, <4>3, FieldUpdates, TaskUpdate
    <3> QED BY <1>8, <3>1, <3>2 DEF RecordError
  <2> QED BY <1>1, <1>8, <2>1, WorkerInv DEF RecordError, Alive, Holding, ProcStates, Codes
<1>9. CASE Die(n)
  <2>1. TasksSame
    BY <1>9, SameTasks DEF Die
  <2> QED BY <1>1, <1>9, <2>1, NoneAssumption, WorkerInv DEF Die, RootWithout, Holding, ProcStates
<1> QED BY <1>3, <1>4, <1>5, <1>6, <1>7, <1>8, <1>9 DEF WorkerStep, Exit

-----------------------------------------------------------------------------
(* The steps of a call that move nothing else.                             *)
LEMMA CallKeeps == ASSUME IInv, NEW r \in Requests, Call(r[1], r[2]) PROVE IInv' /\ HandedOver
<1>1. r[1] \in Ops /\ r[2] \in Tasks
    BY RequestsAssumption
<1>2. /\ call' = [op |-> r[1], task |-> r[2], pc |-> r[1], nonce |-> None]
      /\ call' \in Calls
    BY <1>1 DEF Call, Calls, Ops, Pcs
<1>3. CallKnown'
    BY <1>1, <1>2 DEF CallKnown, Ops
<1> QED BY <1>1, <1>2, <1>3, CallOnly DEF Call, At, Ops

LEMMA LaunchRefusedKeeps == ASSUME IInv, LaunchRefused PROVE IInv' /\ HandedOver
BY AnswerOnly DEF LaunchRefused, At

LEMMA ViewKeeps == ASSUME IInv, View PROVE IInv' /\ HandedOver
BY AnswerOnly DEF View, At

(* The owner that is read is a process.                                    *)
LEMMA OwnerKnown ==
    ASSUME IInv, NEW t \in Tasks, task[t] # None, Owner(t) # None
    PROVE  task[t] \in TaskStates /\ Owner(t) \in Owners /\ Owner(t).nonce \in Nonces
<1>1. task[t] \in TaskStates
    BY DEF IInv, TypeOK
<1> QED BY <1>1, TaskFields, OwnerFields DEF Owner

LEMMA StatusKeeps == ASSUME IInv, Status PROVE IInv' /\ HandedOver
<1>1. call \in Calls /\ T \in Tasks /\ call # None /\ ~At("reconcile")
    BY InCall DEF Status, At
<1>2. CASE Answer
    BY <1>1, <1>2, AnswerOnly DEF Status
<1>3. CASE Readable(T) /\ Owner(T) # None /\ GoFor("probe", Owner(T).nonce)
  <2>1. Owner(T).nonce \in Nonces /\ proc[Owner(T).nonce] # "unused"
    BY <1>1, <1>3, OwnerKnown DEF Readable, IInv, OwnersStarted
  <2>2. /\ call' \in Calls /\ call' # None /\ call'.task = call.task /\ call'.nonce = Owner(T).nonce
        /\ call'.pc = "probe"
    BY <1>1, <1>3, <2>1, GoForFields DEF Pcs
  <2>3. CallKnown'
    BY <1>3, <2>1, <2>2 DEF CallKnown, Readable, Owner, T, Status
  <2> QED BY <1>1, <2>2, <2>3, CallOnly DEF Status
<1>4. CASE Readable(T) /\ Go("view")
  <2>1. call' \in Calls /\ call' # None /\ call'.task = call.task /\ call'.pc = "view"
    BY <1>1, <1>4, GoFields DEF Pcs
  <2>2. CallKnown'
    BY <1>4, <2>1 DEF CallKnown, Readable, T, Status
  <2> QED BY <1>1, <2>1, <2>2, CallOnly DEF Status
<1> QED BY <1>2, <1>3, <1>4 DEF Status

-----------------------------------------------------------------------------
(* Begin: a new task clears the lease of a dead owner.                     *)
LEMMA IdleMild == ASSUME Idle, lease' = IdleLease PROVE LeaseMild
BY DEF Idle, LeaseReadable, LeaseMild

LEMMA BeginKeeps == ASSUME IInv, Begin PROVE IInv' /\ HandedOver
<1>1. call \in Calls /\ T \in Tasks /\ call # None /\ ~At("reconcile") /\ call.pc = "begin"
    BY InCall DEF Begin, At
<1>2. CASE Answer /\ UNCHANGED <<task, lease>>
    BY <1>1, <1>2, AnswerOnly DEF Begin
<1>3. CASE Readable(T) /\ Go("status") /\ UNCHANGED <<task, lease>>
  <2>1. call' \in Calls /\ call' # None /\ call'.task = call.task /\ call'.pc = "status"
    BY <1>1, <1>3, GoFields DEF Pcs
  <2>2. CallKnown'
    BY <2>1 DEF CallKnown, Ops
  <2> QED BY <1>1, <1>3, <2>1, <2>2, CallOnly DEF Begin
<1>4. CASE Readable(T) /\ OwnerGone(T) /\ Go("launch") /\ UNCHANGED <<task, lease>>
  <2>1. call' \in Calls /\ call' # None /\ call'.task = call.task /\ call'.pc = "launch"
    BY <1>1, <1>4, GoFields DEF Pcs
  <2>2. Owner(T) = None \/ ~Alive(Owner(T).nonce)
    BY <1>1, <1>4 DEF OwnerGone, Readable, IInv, StoppedDead
  <2>3. CallKnown'
    BY <1>4, <2>1, <2>2 DEF CallKnown, Readable, Owner, T, Alive, Begin
  <2> QED BY <1>1, <1>4, <2>1, <2>3, CallOnly DEF Begin
<1>5. ASSUME NEW s, task[T] = None, Idle, lease' = IdleLease, task' = [task EXCEPT ![T] = s],
             s = [boot |-> boot, phase |-> "PREPARING", owner |-> None, error |-> None,
                  cancelled |-> FALSE, expired |-> FALSE], Go("launch")
      PROVE  IInv' /\ HandedOver
  <2>1. /\ call' \in Calls /\ call' # None /\ call'.task = call.task /\ call'.nonce = call.nonce
        /\ call'.pc = "launch"
    BY <1>1, <1>5, GoFields DEF Pcs
  <2>2. boot \in 0..MaxFaults
    BY DEF IInv, TypeOK
  <2>3. s \in TaskStates /\ s # None /\ s.owner = None /\ s.boot = boot
    <3>1. s \in TaskStates
        BY <1>5, <2>2 DEF TaskStates
    <3>2. s.owner = None /\ s.boot = boot
        BY <1>5
    <3> QED BY <3>1, <3>2, TaskFields
  <2>4. TypeOK'
    BY <1>5, <2>1, <2>2, <2>3 DEF IInv, TypeOK, IdleLease, Begin
  <2>5. /\ task'[T] = s
        /\ \A t \in Tasks \ {T} : task'[t] = task[t]
    BY <1>1, <1>5 DEF IInv, TypeOK
  <2>6. CallKnown'
    BY <2>1, <2>3, <2>5 DEF CallKnown, Readable, Owner, T, Begin
  <2>7. RootHeld' /\ TokenSent'
    BY <1>1, <2>1 DEF IInv, RootHeld, TokenSent, At, Begin
  <2>8. \A n \in Nonces : ProcMild(n)
    BY <2>1 DEF ProcMild, Entitled, Alive, At, Begin
  <2>9. \A t \in Tasks : TaskMild(t)
    BY <1>1, <1>5, <2>3, <2>5 DEF TaskMild
  <2>10. Mild
    BY <1>5, <2>8, <2>9, IdleMild DEF Mild, Begin
  <2> QED BY <2>4, <2>6, <2>7, <2>10, MildInv
<1> QED BY <1>2, <1>3, <1>4, <1>5 DEF Begin

-----------------------------------------------------------------------------
(* _launch: a process is started while the lease is idle.                  *)
LEMMA IdleIsFree == ASSUME IInv, Idle, NEW n \in Nonces PROVE ~Entitled(n)
<1> SUFFICES ASSUME Entitled(n) PROVE FALSE
    OBVIOUS
<1>1. lease.active = [task |-> job[n], nonce |-> n] /\ job[n] \in Tasks /\ Alive(n)
    BY DEF IInv, EntitledOwns, Entitled
<1>2. lease.active # None /\ lease.active.nonce = n
    BY <1>1, RecordsAssumption
<1> QED BY <1>1, <1>2 DEF Idle

LEMMA OwnedFields ==
    ASSUME NEW s \in TaskStates, NEW n \in Nonces
    PROVE  /\ Owned(s, n) \in TaskStates /\ Owned(s, n) # None /\ Owned(s, n).boot = s.boot
           /\ Owned(s, n).owner = [nonce |-> n, stopped |-> FALSE] /\ Owned(s, n).owner # None
           /\ Owned(s, n).owner.nonce = n /\ ~Owned(s, n).owner.stopped
<1>1. [nonce |-> n, stopped |-> FALSE] \in Owners
    BY DEF Owners
<1>2. Owned(s, n) \in TaskStates
    BY <1>1, TaskFields DEF Owned, TaskStates
<1>3. Owned(s, n).boot = s.boot /\ Owned(s, n).owner = [nonce |-> n, stopped |-> FALSE]
    BY DEF Owned
<1>4. Owned(s, n).owner # None
    BY <1>1, <1>3, OwnerFields
<1>5. Owned(s, n).owner.nonce = n /\ Owned(s, n).owner.stopped = FALSE
    BY <1>3
<1>6. Owned(s, n) # None
    BY <1>2, TaskFields
<1> QED BY <1>2, <1>3, <1>4, <1>5, <1>6

LEMMA LaunchInv ==
    ASSUME IInv, NEW n \in Nonces, Launches(n), task' \in {task, Registered(T, n)},
           NEW s \in {"waiting", "dead"}, proc' = [proc EXCEPT ![n] = s],
           pipe' \in {pipe, [pipe EXCEPT ![n] = "open"]}, UNCHANGED <<root, boot>>, crashes' \in 0..MaxFaults,
           \/ call' = None /\ lease' = IdleLease
           \/ /\ call' \in Calls /\ call'.pc = "activate" /\ call'.nonce = n /\ call'.task = T
              /\ task' = Registered(T, n)
              /\ lease' = [boot |-> boot, active |-> [task |-> T, nonce |-> n]]
    PROVE  IInv' /\ HandedOver
<1>1. /\ call \in Calls /\ T \in Tasks /\ call.pc = "launch" /\ Idle /\ proc[n] = "unused"
      /\ job' = [job EXCEPT ![n] = T]
    BY InCall DEF Launches, At
<1>2. /\ task[T] # None /\ task[T].boot = boot /\ task[T] \in TaskStates
      /\ task[T].owner # None => ~Alive(task[T].owner.nonce)
    BY <1>1 DEF Launches, At, IInv, CallKnown, Readable, Owner, TypeOK, Ops
<1>3. pipe[n] # "sent" /\ pipe'[n] # "sent" /\ root # n /\ proc'[n] = s
    BY <1>1 DEF IInv, TypeOK, TokenSent, RootHeld, Holding
<1>4. \A m \in Nonces \ {n} : proc'[m] = proc[m] /\ pipe'[m] = pipe[m] /\ job'[m] = job[m]
    BY <1>1 DEF IInv, TypeOK
<1>5. \A t \in Tasks \ {T} : task'[t] = task[t]
    BY <1>1 DEF IInv, TypeOK, Registered
<1>6. /\ task'[T] \in {task[T], Owned(task[T], n)}
      /\ task' = Registered(T, n) => task'[T] = Owned(task[T], n)
    BY <1>1 DEF IInv, TypeOK, Registered
<1>6a. /\ Owned(task[T], n) \in TaskStates /\ Owned(task[T], n) # None
       /\ Owned(task[T], n).boot = task[T].boot /\ Owned(task[T], n).owner # None
       /\ Owned(task[T], n).owner.nonce = n /\ ~Owned(task[T], n).owner.stopped
    BY <1>2, OwnedFields
<1>7. /\ task'[T] # None /\ task'[T].boot = boot /\ task'[T] \in TaskStates
      /\ \/ task'[T] = task[T]
         \/ task'[T].owner # None /\ task'[T].owner.nonce = n /\ ~task'[T].owner.stopped
  <2>1. CASE task'[T] = task[T]
    BY <1>2, <2>1
  <2>2. CASE task'[T] = Owned(task[T], n)
    BY <1>2, <1>6a, <2>2
  <2> QED BY <1>6, <2>1, <2>2
<1>8. job'[n] = T
    BY <1>1 DEF IInv, TypeOK
<1>9. [task |-> T, nonce |-> n] \in [task : Tasks, nonce : Nonces]
    BY <1>1
<1>10. TypeOK'
  <2>1. task' \in [Tasks -> TaskStates \cup {None}]
    <3>1. task' = task \/ task' = [task EXCEPT ![T] = Owned(task[T], n)]
        BY DEF Registered
    <3>2. task \in [Tasks -> TaskStates \cup {None}]
        BY DEF IInv, TypeOK
    <3> QED BY <1>1, <1>6a, <3>1, <3>2
  <2>2. lease' \in [boot : 0..MaxFaults, active : [task : Tasks, nonce : Nonces] \cup {None}]
    BY <1>9 DEF IInv, TypeOK, IdleLease
  <2>3. proc' \in [Nonces -> ProcStates] /\ job' \in [Nonces -> Tasks \cup {None}]
    BY <1>1 DEF IInv, TypeOK, ProcStates
  <2>4. pipe' \in [Nonces -> {"open", "sent", "closed"}]
    BY DEF IInv, TypeOK
  <2> QED BY <2>1, <2>2, <2>3, <2>4 DEF IInv, TypeOK
<1>11. call' # None => call'.pc = "activate" /\ call'.task = T /\ call'.nonce = n
    OBVIOUS
<1>12. CallKnown'
    BY <1>3, <1>7, <1>11 DEF CallKnown, Readable, Owner, T
<1>13. RootHeld'
    BY <1>1, <1>3, <1>4, <1>11 DEF IInv, RootHeld, At, Holding
<1>14. TokenSent'
    BY <1>3, <1>4 DEF IInv, TokenSent, Holding
<1>15. OwnersStarted'
  <2>1. ASSUME NEW t \in Tasks, task'[t] # None, task'[t].owner # None
        PROVE  proc'[task'[t].owner.nonce] # "unused"
    <3>1. CASE task'[t] = task[t]
      <4>1. task[t].owner.nonce \in Nonces /\ proc[task[t].owner.nonce] # "unused"
        BY <2>1, <3>1, OwnerKnown DEF Owner, IInv, OwnersStarted
      <4> QED BY <1>3, <1>4, <3>1, <4>1
    <3>2. CASE t = T /\ task'[T].owner.nonce = n
        BY <1>3, <3>2
    <3> QED BY <1>5, <1>7, <3>1, <3>2
  <2> QED BY <1>1, <1>4, <1>8, <2>1 DEF IInv, OwnersStarted, Owner
<1>16. LeaseOfTask'
    BY <1>7 DEF LeaseOfTask, IdleLease
<1>17. EntitledOwns'
  <2> SUFFICES ASSUME NEW m \in Nonces, Entitled(m)'
               PROVE  /\ job'[m] \in Tasks /\ OwnedBy(job[m], m)' /\ ~task'[job'[m]].owner.stopped
                      /\ lease' = [boot |-> boot, active |-> [task |-> job'[m], nonce |-> m]]
    BY DEF EntitledOwns, Owner
  <2>1. m = n
    BY <1>1, <1>4, <1>11, IdleIsFree DEF Entitled, Alive, At
  <2>2. call' # None
    BY <1>3, <2>1 DEF Entitled, At
  <2>3. task'[T] = Owned(task[T], n) /\ lease' = [boot |-> boot, active |-> [task |-> T, nonce |-> n]]
    BY <1>6, <2>2
  <2>4. job'[m] = T /\ task'[T] # None /\ task'[T].owner # None /\ task'[T].owner.nonce = n
    BY <1>8, <1>6a, <2>1, <2>3
  <2>5. ~task'[T].owner.stopped
    BY <1>6a, <2>3
  <2>6. OwnedBy(job[m], m)'
    BY <2>1, <2>4 DEF OwnedBy, Owner
  <2> QED BY <1>1, <2>1, <2>3, <2>4, <2>5, <2>6
<1>18. StoppedDead'
  <2> SUFFICES ASSUME NEW t \in Tasks, task'[t] # None, task'[t].owner # None, task'[t].owner.stopped
               PROVE  /\ proc'[task'[t].owner.nonce] = "dead"
                      /\ lease'.active # [task |-> t, nonce |-> task'[t].owner.nonce]
    BY DEF StoppedDead, Owner, Alive
  <2>1. task'[t] = task[t]
    BY <1>5, <1>7
  <2>2. /\ task[t].owner.nonce \in Nonces /\ proc[task[t].owner.nonce] # "unused"
        /\ proc[task[t].owner.nonce] = "dead"
    BY <2>1, OwnerKnown DEF Owner, IInv, OwnersStarted, StoppedDead, Alive
  <2>3. proc'[task[t].owner.nonce] = "dead" /\ task[t].owner.nonce # n
    BY <1>1, <1>4, <2>2
  <2>4. lease'.active # [task |-> t, nonce |-> task[t].owner.nonce]
    <3>1. CASE lease' = IdleLease
        BY <2>2, <3>1, RecordsAssumption DEF IdleLease
    <3>2. CASE lease' = [boot |-> boot, active |-> [task |-> T, nonce |-> n]]
        BY <2>3, <3>2
    <3> QED BY <3>1, <3>2
  <2> QED BY <2>1, <2>3, <2>4
<1>19. HandedOver
  <2>1. lease.active # None => ~Alive(lease.active.nonce) /\ lease.boot = boot
    BY <1>1 DEF Idle, LeaseReadable
  <2>2. ASSUME NEW t \in Tasks, task[t] # None, Owner(t) # None
        PROVE  task'[t].owner = Owner(t) \/ ~Alive(Owner(t).nonce)
    BY <1>2, <1>5, <2>2 DEF Owner
  <2> QED BY <2>1, <2>2 DEF HandedOver, LeaseHanded, OwnersHanded
<1> QED BY <1>10, <1>12, <1>13, <1>14, <1>15, <1>16, <1>17, <1>18, <1>19 DEF IInv

LEMMA LaunchesKeep ==
    ASSUME IInv, NEW n \in Nonces, Launch(n) \/ LaunchFails(n) \/ LaunchCrashes(n)
    PROVE  IInv' /\ HandedOver
<1>1. call \in Calls /\ T \in Tasks
    BY InCall DEF Launch, LaunchFails, LaunchCrashes, Launches, At
<1>2. crashes \in 0..MaxFaults /\ boot \in 0..MaxFaults
    BY DEF IInv, TypeOK
<1>3. CASE Launch(n)
  <2>1. call' \in Calls /\ call'.pc = "activate" /\ call'.nonce = n /\ call'.task = T
    BY <1>1, <1>3, GoForFields DEF Launch, Pcs, T
  <2> QED BY <1>2, <1>3, <2>1, LaunchInv DEF Launch
<1>4. CASE LaunchFails(n)
    BY <1>2, <1>4, LaunchInv DEF LaunchFails, Answer
<1>5. CASE LaunchCrashes(n)
  <2>1. crashes' \in 0..MaxFaults
    BY <1>2, <1>5, CountsAssumption DEF LaunchCrashes
  <2> QED BY <1>5, <2>1, LaunchInv DEF LaunchCrashes
<1> QED BY <1>3, <1>4, <1>5

-----------------------------------------------------------------------------
(* A step of the service that starts, ends and activates no worker.        *)
LEMMA ServiceInv ==
    ASSUME IInv, task' \in [Tasks -> TaskStates \cup {None}], \A t \in Tasks : TaskMild(t),
           LeaseMild, UNCHANGED <<proc, job, pipe, boot>>, crashes' \in 0..MaxFaults,
           call' \in Calls \cup {None}, CallKnown', ~At("activate")',
           root' \in Nonces \cup {None, "service"}, \A n \in Nonces : root' = n <=> root = n,
           root' = "service" <=> At("reconcile")'
    PROVE  IInv' /\ HandedOver
<1>1. lease' \in [boot : 0..MaxFaults, active : [task : Tasks, nonce : Nonces] \cup {None}]
    BY DEF LeaseMild, IdleLease, IInv, TypeOK
<1>2. TypeOK'
    BY <1>1 DEF IInv, TypeOK
<1>3. RootHeld' /\ TokenSent'
    BY DEF IInv, RootHeld, TokenSent
<1>4. \A n \in Nonces : ProcMild(n)
    BY DEF ProcMild, Entitled, Alive
<1>5. Mild
    BY <1>4 DEF Mild
<1> QED BY <1>2, <1>3, <1>5, MildInv

LEMMA SameIsMild ==
    TasksSame => task' \in [Tasks -> TaskStates \cup {None}] /\ \A t \in Tasks : TaskMild(t)
BY DEF TasksSame, TaskMild

(* A call that moves on, to a place where it need not know the lease.      *)
LEMMA CallMoves ==
    ASSUME call' \in Calls, call'.pc \notin {"launch", "activate"},
           call'.pc \notin Ops => Readable(T)',
           call'.pc \in {"probe", "reconcile", "stop", "kill", "mark"} =>
               call'.nonce \in Nonces /\ proc'[call'.nonce] # "unused" /\ Owner(T)' # None
    PROVE  CallKnown'
BY DEF CallKnown

(* The root lock outside _reconcile_exit and inside it.                    *)
LEMMA RootFacts ==
    ASSUME IInv
    PROVE  /\ root \in Nonces \cup {None, "service"} /\ crashes \in 0..MaxFaults /\ boot \in 0..MaxFaults
           /\ ~At("reconcile") => root # "service"
           /\ At("reconcile") => root = "service" /\ \A n \in Nonces : root # n /\ None # n
BY NoneAssumption DEF IInv, TypeOK, RootHeld

LEMMA CrashCount == ASSUME IInv, crashes + boot < MaxFaults
                    PROVE  crashes + 1 \in 0..MaxFaults /\ boot + 1 \in 0..MaxFaults
BY CountsAssumption DEF IInv, TypeOK

LEMMA LaunchNoForkKeeps == ASSUME IInv, LaunchNoFork PROVE IInv' /\ HandedOver
<1>1. call' = None /\ ~At("reconcile") /\ CallKnown' /\ ~At("reconcile")' /\ ~At("activate")'
    BY DEF LaunchNoFork, Answer, At, CallKnown
<1>2. TasksSame /\ LeaseMild
    BY SameTasks, IdleMild DEF LaunchNoFork
<1> QED BY <1>1, <1>2, SameIsMild, RootFacts, ServiceInv DEF LaunchNoFork

LEMMA ActivateKeeps == ASSUME IInv, Activate PROVE IInv' /\ HandedOver
<1>1. /\ call \in Calls /\ T \in Tasks /\ call.pc = "activate" /\ ~At("reconcile") /\ call # None
      /\ call.nonce \in Nonces
    BY InCall DEF Activate, At, IInv, CallKnown
<1>2. CASE ~Alive(call.nonce)
    BY <1>1, <1>2, AnswerOnly DEF Activate
<1>3. CASE Alive(call.nonce)
  <2>1. /\ pipe' = [pipe EXCEPT ![call.nonce] = "sent"] /\ call' \in Calls /\ call' # None
        /\ call'.pc = "status"
    BY <1>1, <1>3, GoFields DEF Activate, Pcs
  <2>2. pipe' \in [Nonces -> {"open", "sent", "closed"}] /\ \A n \in Nonces \ {call.nonce} : pipe'[n] = pipe[n]
    BY <2>1 DEF IInv, TypeOK
  <2>3. pipe'[call.nonce] = "sent"
    BY <1>1, <2>1 DEF IInv, TypeOK
  <2>4. TypeOK'
    BY <2>1, <2>2 DEF IInv, TypeOK, Activate
  <2>5. CallKnown'
    BY <2>1, CallMoves DEF Ops
  <2>6. RootHeld'
    BY <1>1, <2>1 DEF IInv, RootHeld, At, Activate
  <2>7. TokenSent'
    BY <1>3, <2>2, <2>3 DEF IInv, TokenSent, Activate, Alive
  <2>8. \A n \in Nonces : ProcMild(n)
    BY <1>1, <2>1, <2>2 DEF ProcMild, Entitled, Alive, At, Activate
  <2>9. Mild
    BY <2>8, SameTasks, SameMild DEF Activate
  <2> QED BY <2>4, <2>5, <2>6, <2>7, <2>9, MildInv
<1> QED BY <1>2, <1>3

(* What a call knows at the places where it deals with an owner.           *)
LEMMA AtOwner ==
    ASSUME IInv, call # None, call.pc \in {"probe", "reconcile", "stop", "kill", "mark"}
    PROVE  /\ call \in Calls /\ T \in Tasks /\ Readable(T) /\ task[T] # None /\ task[T] \in TaskStates
           /\ call.nonce \in Nonces /\ proc[call.nonce] # "unused" /\ Owner(T) # None
<1>1. call \in Calls /\ T \in Tasks
    BY InCall
<1>2. /\ Readable(T) /\ task[T] # None /\ call.nonce \in Nonces /\ proc[call.nonce] # "unused"
      /\ Owner(T) # None
    BY DEF IInv, CallKnown, Ops, Readable
<1> QED BY <1>1, <1>2 DEF IInv, TypeOK

(* Where the call goes after the reconcile, with every task as it was.     *)
LEMMA AfterFields ==
    ASSUME IInv, call # None, call.pc \in {"probe", "reconcile"}, Go(AfterReconcile)
    PROVE  /\ call' \in Calls /\ call' # None /\ call'.task = call.task /\ call'.nonce = call.nonce
           /\ call'.pc \in {"mark", "view"}
<1>1. AfterReconcile \in {"mark", "view"} /\ AfterReconcile \in Pcs
    BY DEF AfterReconcile, Pcs
<1>2. call \in Calls
    BY InCall
<1> QED BY <1>1, <1>2, GoFields

(* The lock is found free and taken, or the reconcile is skipped.          *)
LEMMA ProbeKeeps == ASSUME IInv, Probe PROVE IInv' /\ HandedOver
<1>1. /\ call \in Calls /\ Readable(T) /\ call.nonce \in Nonces /\ proc[call.nonce] # "unused"
      /\ Owner(T) # None /\ call # None /\ call.pc = "probe" /\ ~At("reconcile")
    BY AtOwner DEF Probe, At
<1>2. TasksSame /\ LeaseMild
    BY SameTasks DEF Probe, LeaseMild
<1>3. CASE root = None /\ root' = "service" /\ Go("reconcile")
  <2>1. /\ call' \in Calls /\ call' # None /\ call'.task = call.task /\ call'.nonce = call.nonce
        /\ call'.pc = "reconcile"
    BY <1>1, <1>3, GoFields DEF Pcs
  <2>2. CallKnown'
    BY <1>1, <2>1, CallMoves DEF Readable, Owner, T, Probe
  <2> QED BY <1>2, <1>3, <2>1, <2>2, NoneAssumption, SameIsMild, RootFacts, ServiceInv DEF Probe, At
<1>4. CASE root' = root /\ Go(AfterReconcile)
  <2>1. /\ call' \in Calls /\ call' # None /\ call'.task = call.task /\ call'.nonce = call.nonce
        /\ call'.pc \in {"mark", "view"}
    BY <1>1, <1>4, AfterFields
  <2>2. CallKnown'
    BY <1>1, <2>1, CallMoves DEF Readable, Owner, T, Probe
  <2> QED BY <1>1, <1>2, <1>4, <2>1, <2>2, SameIsMild, RootFacts, ServiceInv DEF Probe, At
<1> QED BY <1>3, <1>4 DEF Probe

-----------------------------------------------------------------------------
(* _reconcile_exit's transaction.                                          *)
LEMMA StoppedFields ==
    ASSUME NEW s \in TaskStates, s.owner # None
    PROVE  /\ StoppedTask(s) \in TaskStates /\ StoppedTask(s) # None /\ StoppedTask(s).boot = s.boot
           /\ StoppedTask(s).owner = [nonce |-> s.owner.nonce, stopped |-> TRUE]
           /\ StoppedTask(s).owner # None
<1>1. [nonce |-> s.owner.nonce, stopped |-> TRUE] \in Owners
    BY TaskFields, OwnerFields DEF Owners
<1>2. (IF s.expired /\ s.error = None THEN "final" ELSE s.error) \in Codes \cup {None}
    BY TaskFields DEF Codes
<1>3. StoppedTask(s) \in TaskStates
    BY <1>1, <1>2, TaskFields DEF StoppedTask, TaskStates
<1>4. /\ StoppedTask(s).boot = s.boot
      /\ StoppedTask(s).owner = [nonce |-> s.owner.nonce, stopped |-> TRUE]
    BY DEF StoppedTask
<1> QED BY <1>1, <1>3, <1>4, TaskFields, OwnerFields

LEMMA ReconcileKeeps == ASSUME IInv, Reconcile PROVE IInv' /\ HandedOver
<1>1. /\ call \in Calls /\ T \in Tasks /\ Readable(T) /\ task[T] # None /\ task[T] \in TaskStates
      /\ call.nonce \in Nonces /\ proc[call.nonce] # "unused" /\ Owner(T) # None
      /\ call # None /\ call.pc = "reconcile" /\ At("reconcile")
    BY AtOwner DEF Reconcile, At
<1>2. root' = None /\ \A n \in Nonces : root' = n <=> root = n
    BY <1>1, RootFacts DEF Reconcile
<1>3. CASE Answer /\ UNCHANGED <<task, lease>>
  <2>1. call' = None /\ CallKnown' /\ ~At("reconcile")' /\ ~At("activate")'
    BY <1>3 DEF Answer, CallKnown, At
  <2>2. TasksSame /\ LeaseMild
    BY <1>3, SameTasks DEF LeaseMild
  <2> QED BY <1>2, <2>1, <2>2, NoneAssumption, SameIsMild, RootFacts, ServiceInv DEF Reconcile
<1>4. CASE Go(AfterReconcile) /\ UNCHANGED <<task, lease>>
  <2>1. /\ call' \in Calls /\ call' # None /\ call'.task = call.task /\ call'.nonce = call.nonce
        /\ call'.pc \in {"mark", "view"}
    BY <1>1, <1>4, AfterFields
  <2>2. CallKnown'
    BY <1>1, <1>4, <2>1, CallMoves DEF Readable, Owner, T, Reconcile
  <2>3. TasksSame /\ LeaseMild
    BY <1>4, SameTasks DEF LeaseMild
  <2> QED BY <1>2, <2>1, <2>2, <2>3, NoneAssumption, SameIsMild, RootFacts, ServiceInv DEF Reconcile, At
<1>5. ASSUME Owner(T).nonce = call.nonce, ~Alive(call.nonce), LeaseReadable,
             lease.active \in {None, [task |-> T, nonce |-> call.nonce]}, lease' = IdleLease,
             task' = [task EXCEPT ![T] = StoppedTask(@)], Go(AfterReconcile)
      PROVE  IInv' /\ HandedOver
  <2> DEFINE u == StoppedTask(task[T])
  <2>1. /\ call' \in Calls /\ call' # None /\ call'.task = call.task /\ call'.nonce = call.nonce
        /\ call'.pc \in {"mark", "view"}
    BY <1>1, <1>5, AfterFields
  <2>2. /\ u \in TaskStates /\ u # None /\ u.boot = task[T].boot
        /\ u.owner = [nonce |-> task[T].owner.nonce, stopped |-> TRUE] /\ u.owner # None
    BY <1>1, StoppedFields DEF Owner
  <2>3. task' \in [Tasks -> TaskStates \cup {None}] /\ task'[T] = u /\ \A t \in Tasks \ {T} : task'[t] = task[t]
    BY <1>1, <1>5, <2>2 DEF IInv, TypeOK
  <2>4. lease'.active = None
    BY <1>5 DEF IdleLease
  <2>5. LeaseMild
    BY <1>5 DEF LeaseMild, LeaseReadable
  <2> HIDE DEF u
  <2>6. \A t \in Tasks : TaskMild(t)
    BY <1>1, <1>5, <2>2, <2>3, <2>4 DEF TaskMild, Owner
  <2>7. CallKnown'
    BY <1>1, <2>1, <2>2, <2>3, CallMoves DEF Readable, Owner, T, Reconcile
  <2> QED BY <1>2, <2>1, <2>3, <2>5, <2>6, <2>7, NoneAssumption, RootFacts, ServiceInv DEF Reconcile, At
<1> QED BY <1>3, <1>4, <1>5 DEF Reconcile

(* The lease the call read is of this boot because the task is.            *)
LEMMA ReconcileCrashesKeeps == ASSUME IInv, ReconcileCrashes PROVE IInv' /\ HandedOver
<1>1. /\ T \in Tasks /\ Readable(T) /\ call.nonce \in Nonces /\ At("reconcile")
    BY AtOwner DEF ReconcileCrashes, At
<1>2. root' = None /\ \A n \in Nonces : root' = n <=> root = n
    BY <1>1, RootFacts DEF ReconcileCrashes
<1>3. lease.active # None /\ lease.active.task = T /\ lease.active.nonce = call.nonce
    BY <1>1, RecordsAssumption DEF ReconcileCrashes
<1>4. lease.boot = boot
    BY <1>1, <1>3 DEF IInv, LeaseOfTask, Readable
<1>5. LeaseMild
    BY <1>3, <1>4 DEF LeaseMild, ReconcileCrashes
<1>6. call' = None /\ CallKnown' /\ ~At("reconcile")' /\ ~At("activate")'
    BY DEF ReconcileCrashes, CallKnown, At
<1>7. TasksSame /\ crashes' \in 0..MaxFaults
    BY SameTasks, CrashCount DEF ReconcileCrashes
<1> QED BY <1>2, <1>5, <1>6, <1>7, NoneAssumption, SameIsMild, ServiceInv DEF ReconcileCrashes

-----------------------------------------------------------------------------
(* transfer_abort and _stop_registered.                                    *)
LEMMA AbortKeeps == ASSUME IInv, Abort PROVE IInv' /\ HandedOver
<1>1. call \in Calls /\ T \in Tasks /\ call # None /\ ~At("reconcile")
    BY InCall DEF Abort, At
<1>2. CASE ~Readable(T)
    BY <1>1, <1>2, AnswerOnly DEF Abort
<1>3. CASE Readable(T)
  <2>1. task[T] # None /\ task[T] \in TaskStates
    BY <1>1, <1>3 DEF Readable, IInv, TypeOK
  <2>2. task' = [task EXCEPT ![T] = [task[T] EXCEPT !.cancelled = TRUE]]
    BY <1>3 DEF Abort
  <2>3. TasksSame /\ LeaseMild
    BY <1>1, <2>1, <2>2, FieldUpdates, TaskUpdate DEF LeaseMild, Abort
  <2>4. task'[T] # None /\ task'[T].boot = task[T].boot /\ task'[T].owner = task[T].owner
    BY <1>1, <2>1, <2>3 DEF TasksSame
  <2>5. CASE Owner(T) # None /\ GoFor("stop", Owner(T).nonce)
    <3>1. Owner(T).nonce \in Nonces /\ proc[Owner(T).nonce] # "unused"
        BY <1>1, <2>1, <2>5, OwnerKnown DEF IInv, OwnersStarted
    <3>2. /\ call' \in Calls /\ call' # None /\ call'.task = call.task /\ call'.pc = "stop"
          /\ call'.nonce = Owner(T).nonce
        BY <1>1, <2>5, <3>1, GoForFields DEF Pcs
    <3>3. CallKnown'
        BY <1>3, <2>4, <2>5, <3>1, <3>2, CallMoves DEF Readable, Owner, T, Abort
    <3> QED BY <1>1, <2>3, <3>2, <3>3, SameIsMild, RootFacts, ServiceInv DEF Abort, At
  <2>6. CASE Go("status")
    <3>1. call' \in Calls /\ call' # None /\ call'.task = call.task /\ call'.pc = "status"
        BY <1>1, <2>6, GoFields DEF Pcs
    <3>2. CallKnown'
        BY <3>1, CallMoves DEF Ops
    <3> QED BY <1>1, <2>3, <3>1, <3>2, SameIsMild, RootFacts, ServiceInv DEF Abort, At
  <2> QED BY <1>3, <2>5, <2>6 DEF Abort
<1> QED BY <1>2, <1>3

LEMMA StopKeeps == ASSUME IInv, Stop PROVE IInv' /\ HandedOver
<1>1. /\ call \in Calls /\ Readable(T) /\ call.nonce \in Nonces /\ proc[call.nonce] # "unused"
      /\ Owner(T) # None /\ call # None /\ ~At("reconcile")
    BY AtOwner DEF Stop, At
<1>2. TasksSame /\ LeaseMild
    BY SameTasks DEF Stop, LeaseMild
<1>3. CASE Answer
  <2>1. call' = None /\ CallKnown' /\ ~At("reconcile")' /\ ~At("activate")'
    BY <1>3 DEF Answer, CallKnown, At
  <2> QED BY <1>1, <1>2, <2>1, SameIsMild, RootFacts, ServiceInv DEF Stop
<1>4. ASSUME NEW pc \in {"status", "kill"}, Go(pc) PROVE IInv' /\ HandedOver
  <2>1. /\ call' \in Calls /\ call' # None /\ call'.task = call.task /\ call'.nonce = call.nonce
        /\ call'.pc \in {"status", "kill"}
    BY <1>1, <1>4, GoFields DEF Pcs
  <2>2. CallKnown'
    BY <1>1, <2>1, CallMoves DEF Readable, Owner, T, Stop
  <2> QED BY <1>1, <1>2, <2>1, <2>2, SameIsMild, RootFacts, ServiceInv DEF Stop, At
<1> QED BY <1>3, <1>4 DEF Stop

LEMMA KillKeeps == ASSUME IInv, Kill PROVE IInv' /\ HandedOver
<1>1. /\ call \in Calls /\ Readable(T) /\ call.nonce \in Nonces /\ proc[call.nonce] # "unused"
      /\ Owner(T) # None /\ call # None /\ call.pc = "kill" /\ ~At("reconcile")
    BY AtOwner DEF Kill, At
<1>2. CASE Answer /\ UNCHANGED <<proc, root>>
    BY <1>1, <1>2, AnswerOnly DEF Kill
<1>3. CASE /\ proc' = [proc EXCEPT ![call.nonce] = "dead"] /\ root' = RootWithout(call.nonce)
           /\ Go("probe")
  <2>1. /\ call' \in Calls /\ call' # None /\ call'.task = call.task /\ call'.nonce = call.nonce
        /\ call'.pc = "probe"
    BY <1>1, <1>3, GoFields DEF Pcs
  <2>2. /\ proc' \in [Nonces -> ProcStates] /\ proc'[call.nonce] = "dead"
        /\ \A n \in Nonces \ {call.nonce} : proc'[n] = proc[n]
    BY <1>1, <1>3 DEF IInv, TypeOK, ProcStates
  <2>3. root' \in Nonces \cup {None, "service"}
    BY <1>3 DEF IInv, TypeOK, RootWithout
  <2>4. TypeOK'
    BY <2>1, <2>2, <2>3 DEF IInv, TypeOK, Kill
  <2>5. CallKnown'
    BY <1>1, <2>1, <2>2, CallMoves DEF Readable, Owner, T, Kill
  <2>6. root' # call.nonce /\ root' # "service" /\ \A n \in Nonces \ {call.nonce} : root' = n <=> root = n
    BY <1>1, <1>3, NoneAssumption, RootFacts DEF RootWithout
  <2>7. RootHeld'
    BY <1>1, <2>1, <2>2, <2>6 DEF IInv, RootHeld, At, Holding
  <2>8. TokenSent'
    BY <1>1, <2>2 DEF IInv, TokenSent, Holding, Kill
  <2>9. \A n \in Nonces : ProcMild(n)
    BY <1>1, <2>1, <2>2 DEF ProcMild, Entitled, Alive, At, Kill
  <2>10. Mild
    BY <2>9, SameTasks, SameMild DEF Kill
  <2> QED BY <2>4, <2>5, <2>7, <2>8, <2>10, MildInv
<1> QED BY <1>2, <1>3 DEF Kill

LEMMA MarkKeeps == ASSUME IInv, Mark PROVE IInv' /\ HandedOver
<1>1. call \in Calls /\ T \in Tasks /\ task[T] # None /\ task[T] \in TaskStates /\ ~At("reconcile")
    BY AtOwner DEF Mark, At
<1>2. PICK e \in Codes \cup {None} : task' = [task EXCEPT ![T] = [task[T] EXCEPT !.error = e]]
  <2>1. CASE OwnedBy(T, call.nonce)
    <3>1. task' = [task EXCEPT ![T] = [task[T] EXCEPT !.error = "final"]]
        BY <2>1 DEF Mark
    <3> QED BY <3>1 DEF Codes
  <2>2. CASE ~OwnedBy(T, call.nonce)
    <3>1. task' = [task EXCEPT ![T] = [task[T] EXCEPT !.error = task[T].error]]
        BY <2>2 DEF Mark
    <3> QED BY <1>1, <3>1, TaskFields
  <2> QED BY <2>1, <2>2
<1>3. TasksSame /\ LeaseMild
    BY <1>1, <1>2, FieldUpdates, TaskUpdate DEF LeaseMild, Mark
<1>4. call' \in Calls /\ call' # None /\ call'.pc = "status"
    BY <1>1, GoFields DEF Mark, Pcs
<1>5. CallKnown'
    BY <1>4, CallMoves DEF Ops
<1> QED BY <1>1, <1>3, <1>4, <1>5, SameIsMild, RootFacts, ServiceInv DEF Mark, At

LEMMA WriterBusyKeeps == ASSUME IInv, WriterBusy PROVE IInv' /\ HandedOver
<1>1. CASE call # None /\ call.pc \in {"begin", "launch", "abort", "stop", "mark"} /\ Answer /\ root' = root
    BY <1>1, AnswerOnly DEF WriterBusy, At
<1>2. CASE At("reconcile") /\ root' = None
  <2>1. call \in Calls /\ Readable(T) /\ \A n \in Nonces : root' = n <=> root = n
    BY <1>2, AtOwner, RootFacts DEF At
  <2>2. TasksSame /\ LeaseMild
    BY SameTasks DEF WriterBusy, LeaseMild
  <2>3. call' \in Calls \cup {None} /\ CallKnown' /\ ~At("reconcile")' /\ ~At("activate")'
    <3>1. CASE Answer
        BY <3>1 DEF Answer, CallKnown, At
    <3>2. CASE Go("view")
      <4>1. call' \in Calls /\ call'.task = call.task /\ call'.pc = "view"
        BY <2>1, <3>2, GoFields DEF Pcs
      <4> QED BY <2>1, <4>1, CallMoves DEF Readable, T, At, WriterBusy
    <3> QED BY <1>2, <3>1, <3>2, RootFacts DEF WriterBusy, At
  <2> QED BY <1>2, <2>1, <2>2, <2>3, NoneAssumption, SameIsMild, RootFacts, ServiceInv DEF WriterBusy
<1> QED BY <1>1, <1>2 DEF WriterBusy

-----------------------------------------------------------------------------
(* The service dies, the guest restarts, a deadline passes.                *)
LEMMA CrashKeeps == ASSUME IInv, Crash PROVE IInv' /\ HandedOver
<1>1. call' = None /\ CallKnown' /\ ~At("reconcile")' /\ ~At("activate")'
    BY DEF Crash, CallKnown, At
<1>2. crashes' \in 0..MaxFaults
    BY CrashCount DEF Crash
<1>3. /\ pipe' \in [Nonces -> {"open", "sent", "closed"}]
      /\ \A n \in Nonces : pipe'[n] = "sent" <=> pipe[n] = "sent"
    BY DEF Crash, IInv, TypeOK
<1>4. /\ root' \in Nonces \cup {None} /\ root' # "service"
      /\ \A n \in Nonces : root' = n <=> root = n
    BY NoneAssumption DEF Crash, IInv, TypeOK
<1>5. TypeOK'
    BY <1>1, <1>2, <1>3, <1>4 DEF IInv, TypeOK, Crash
<1>6. RootHeld' /\ TokenSent'
    BY <1>1, <1>3, <1>4 DEF IInv, RootHeld, TokenSent, Crash
<1>7. \A n \in Nonces : ProcMild(n)
    BY <1>1, <1>3 DEF ProcMild, Entitled, Alive, Crash
<1>8. Mild
    BY <1>7, SameTasks, SameMild DEF Crash
<1> QED BY <1>1, <1>5, <1>6, <1>8, MildInv

LEMMA RebootKeeps == ASSUME IInv, Reboot PROVE IInv' /\ HandedOver
<1>1. call' = None /\ CallKnown' /\ ~At("reconcile")' /\ ~At("activate")'
    BY DEF Reboot, CallKnown, At
<1>2. /\ proc' \in [Nonces -> ProcStates]
      /\ \A n \in Nonces : /\ proc'[n] \in {"unused", "dead"}
                           /\ proc'[n] = "unused" <=> proc[n] = "unused"
    BY DEF Reboot, IInv, TypeOK, ProcStates
<1>3. boot' \in 0..MaxFaults
    BY CrashCount DEF Reboot
<1>4. TypeOK'
    BY <1>1, <1>2, <1>3 DEF IInv, TypeOK, Reboot
<1>5. RootHeld' /\ TokenSent'
    BY <1>1, <1>2, NoneAssumption DEF IInv, RootHeld, TokenSent, Holding, Reboot
<1>6. ASSUME NEW t \in Tasks, task[t] # None, Owner(t) # None
      PROVE  Owner(t).nonce \in Nonces /\ proc[Owner(t).nonce] # "unused"
    BY <1>6, OwnerKnown DEF IInv, OwnersStarted
<1>7. OwnersStarted'
    BY <1>2, <1>6 DEF IInv, OwnersStarted, Owner, Reboot
<1>8. LeaseOfTask'
    BY DEF IInv, LeaseOfTask, Reboot
<1>9. EntitledOwns'
    BY <1>2 DEF EntitledOwns, Entitled, Alive
<1>10. StoppedDead'
    BY <1>2, <1>6 DEF IInv, StoppedDead, Owner, Alive, Reboot
<1>11. HandedOver
    BY DEF HandedOver, LeaseHanded, OwnersHanded, Owner, Reboot
<1> QED BY <1>1, <1>4, <1>5, <1>7, <1>8, <1>9, <1>10, <1>11 DEF IInv

LEMMA ExpireKeeps == ASSUME IInv, NEW t \in Expiring, Expire(t) PROVE IInv' /\ HandedOver
<1>1. t \in Tasks /\ task[t] # None /\ task[t] \in TaskStates
    BY RequestsAssumption DEF Expire, IInv, TypeOK
<1>2. task' = [task EXCEPT ![t] = [task[t] EXCEPT !.expired = TRUE]]
    BY DEF Expire
<1>3. TasksSame
    BY <1>1, <1>2, FieldUpdates, TaskUpdate
<1>4. \A n \in Nonces : ProcMild(n)
    BY DEF ProcMild, Entitled, Alive, At, Expire
<1>5. CallKnown'
    BY <1>3, <1>4, CallKept DEF Expire
<1>6. TypeOK'
    BY <1>3 DEF IInv, TypeOK, TasksSame, Expire
<1>7. RootHeld' /\ TokenSent'
    BY DEF IInv, RootHeld, TokenSent, At, Expire
<1>8. Mild
    BY <1>3, <1>4, SameMild DEF Expire
<1> QED BY <1>5, <1>6, <1>7, <1>8, MildInv

-----------------------------------------------------------------------------
(* The invariant and what every step keeps.                                *)
LEMMA InitInv == Init => IInv
<1> SUFFICES ASSUME Init PROVE IInv
    OBVIOUS
<1>1. TypeOK
    BY CountsAssumption DEF Init, TypeOK, ProcStates
<1>2. CallKnown /\ LeaseOfTask
    BY DEF Init, CallKnown, LeaseOfTask
<1>3. RootHeld /\ TokenSent
    BY NoneAssumption DEF Init, RootHeld, TokenSent, At, Holding
<1>4. OwnersStarted /\ EntitledOwns /\ StoppedDead
    BY DEF Init, OwnersStarted, EntitledOwns, Entitled, Alive, StoppedDead
<1> QED BY <1>1, <1>2, <1>3, <1>4 DEF IInv

LEMMA NextKeeps == ASSUME IInv, Next PROVE IInv' /\ HandedOver
<1>1. CASE \E r \in Requests : Call(r[1], r[2])
    BY <1>1, CallKeeps
<1>2. CASE ServiceStep
    BY <1>2, BeginKeeps, LaunchRefusedKeeps, LaunchNoForkKeeps, LaunchesKeep, ActivateKeeps,
       StatusKeeps, ProbeKeeps, ReconcileKeeps, ViewKeeps, AbortKeeps, StopKeeps, KillKeeps,
       MarkKeeps, WriterBusyKeeps DEF ServiceStep
<1>3. CASE \E n \in Nonces : LaunchCrashes(n)
    BY <1>3, LaunchesKeep
<1>4. CASE ReconcileCrashes \/ Crash \/ Reboot
    BY <1>4, ReconcileCrashesKeeps, CrashKeeps, RebootKeeps
<1>5. CASE \E t \in Expiring : Expire(t)
    BY <1>5, ExpireKeeps
<1>6. CASE \E n \in Nonces : WorkerStep(n) \/ Die(n)
    BY <1>6, WorkerKeeps
<1> QED BY <1>1, <1>2, <1>3, <1>4, <1>5, <1>6 DEF Next

LEMMA StutterKeeps == IInv /\ UNCHANGED vars => IInv'
<1> SUFFICES ASSUME IInv, UNCHANGED vars PROVE IInv'
    OBVIOUS
<1>1. TypeOK' /\ CallKnown' /\ RootHeld' /\ TokenSent'
    BY DEF vars, IInv, TypeOK, CallKnown, RootHeld, TokenSent, Readable, Owner, Alive, At, T
<1>2. OwnersStarted' /\ LeaseOfTask' /\ EntitledOwns' /\ StoppedDead'
    BY DEF vars, IInv, OwnersStarted, LeaseOfTask, EntitledOwns, Entitled, StoppedDead, OwnedBy,
           Owner, Alive, At
<1> QED BY <1>1, <1>2 DEF IInv

(* IInv is inductive: what the durable records, the lock, the processes    *)
(* and the call in progress know of each other holds whatever crashes,     *)
(* failed saves, reboots and kills (guest_service.py, guest_worker.py).    *)
THEOREM WorkersInvariance == Spec => []IInv
<1>1. Init => IInv
    BY InitInv
<1>2. IInv /\ [Next]_vars => IInv'
    BY NextKeeps, StutterKeeps
<1> QED BY <1>1, <1>2, PTL DEF Spec

(* A worker past its handshake is the recorded owner and the one the lease *)
(* names, and one that does a job holds the root lock (_execute).          *)
THEOREM WorkersAreRegistered == Spec => []RegisteredBeforeWork
BY WorkersInvariance, Implied, PTL

(* An owner is recorded as stopped only when its process is gone, its lock *)
(* released and its lease cleared (_reconcile_exit).                       *)
THEOREM StoppedWorkersAreGone == Spec => []StoppedIsGone
BY WorkersInvariance, Implied, PTL

(* A lease and a task's owner change hands only when the process they name *)
(* is dead, and never from a record of an earlier boot (_check_idle).      *)
THEOREM WorkChangesHands == Spec => WorkIsHandedOver
<1>1. IInv /\ [Next]_vars => [LeaseHanded]_vars /\ [OwnersHanded]_vars
    BY NextKeeps DEF HandedOver
<1> QED BY <1>1, WorkersInvariance, PTL DEF Spec, WorkIsHandedOver, LeaseHandover, OwnerHandover

-----------------------------------------------------------------------------
(* Induction over the naturals, and what FlattenSeq makes of a batch.      *)
LEMMA Least == ASSUME NEW X, X \subseteq Nat, X # {} PROVE \E x \in X : \A y \in X : ~(y < x)
<1>1. \E x \in X : \A y \in X : ~ (<<y, x>> \in OpToRel(<, Nat))
    BY WFMin, NatLessThanWellFounded, Zenon
<1>2. \A x \in X, y \in X : y < x => <<y, x>> \in OpToRel(<, Nat)
    BY Zenon DEF OpToRel
<1> QED BY <1>1, <1>2, Zenon

LEMMA Induction ==
    ASSUME NEW S, 0 \in S, \A n \in Nat : n \in S => n + 1 \in S
    PROVE  Nat \subseteq S
<1> SUFFICES ASSUME Nat \ S # {} PROVE FALSE
    OBVIOUS
<1>1. PICK x \in Nat \ S : \A y \in Nat \ S : ~(y < x)
    BY Least
<1> PICK y : y = x - 1
    OBVIOUS
<1>2. x # 0 /\ x \in Nat
    BY <1>1
<1>3. y \in Nat /\ y < x /\ y + 1 = x
    BY <1>2
<1>4. y \in S
    BY <1>1, <1>3
<1> QED BY <1>1, <1>3, <1>4

Grows(f, c, n) == f = [i \in 1..n |-> IF i = 1 THEN c[i] ELSE f[i-1] \o c[i]]

LEMMA GrowthExists ==
    ASSUME NEW B, NEW c \in Seq(Seq(B)), NEW n \in Nat, n \in 1..Len(c)
    PROVE  \E f \in [1..n -> Seq(B)] : Grows(f, c, n)
<1> PICK S : S = {k \in Nat : k \in 1..Len(c) => \E f \in [1..k -> Seq(B)] : Grows(f, c, k)}
    OBVIOUS
<1>1. 0 \in S
    OBVIOUS
<1>2. ASSUME NEW k \in Nat, k \in S PROVE k + 1 \in S
  <2> PICK m : m = k + 1
      OBVIOUS
  <2>1. m \in Nat
      OBVIOUS
  <2>2. CASE m \notin 1..Len(c)
      BY <2>1, <2>2
  <2>3. CASE m \in 1..Len(c) /\ k = 0
    <3>1. c[1] \in Seq(B)
        BY <2>3
    <3> PICK f : f = [i \in 1..m |-> c[1]]
        OBVIOUS
    <3>2. f \in [1..m -> Seq(B)]
        BY <3>1
    <3>3. Grows(f, c, m)
        BY <2>3 DEF Grows
    <3> QED BY <2>1, <3>2, <3>3
  <2>4. CASE m \in 1..Len(c) /\ k # 0
    <3>1. k \in 1..Len(c) /\ c[m] \in Seq(B) /\ k < m
        BY <2>4
    <3>2. PICK e \in [1..k -> Seq(B)] : Grows(e, c, k)
        BY <1>2, <2>4, <3>1
    <3> PICK l : l = e[k] \o c[m]
        OBVIOUS
    <3>3. e[k] \in Seq(B) /\ l \in Seq(B)
        BY <3>1, <3>2
    <3> PICK f : f = [i \in 1..m |-> IF i = m THEN l ELSE e[i]]
        OBVIOUS
    <3>4. f \in [1..m -> Seq(B)]
        BY <3>2, <3>3
    <3>5. \A i \in 1..m : f[i] = IF i = 1 THEN c[i] ELSE f[i-1] \o c[i]
      <4> TAKE i \in 1..m
      <4>1. CASE i = m
        <5>0. i # 1 /\ i - 1 = k /\ k \in 1..m /\ k # m
            BY <1>2, <2>4, <4>1, <3>1
        <5>1. f[i] = l /\ f[k] = e[k] /\ i # 1 /\ i - 1 = k
            BY <4>1, <5>0
        <5> QED BY <4>1, <5>1
      <4>2. CASE i # m
        <5>1. i \in 1..k /\ f[i] = e[i]
            BY <4>2
        <5>2. e[i] = IF i = 1 THEN c[i] ELSE e[i-1] \o c[i]
            BY <3>2, <5>1 DEF Grows
        <5>3. i # 1 => f[i-1] = e[i-1]
            BY <5>1
        <5> QED BY <5>1, <5>2, <5>3
      <4> QED BY <4>1, <4>2
    <3>6. f = [i \in 1..m |-> f[i]]
        BY <3>4
    <3>7. Grows(f, c, m)
        BY <3>5, <3>6 DEF Grows
    <3> QED BY <2>1, <3>4, <3>7
  <2> QED BY <2>2, <2>3, <2>4
<1>3. n \in S
    BY <1>1, <1>2, Induction
<1> QED BY <1>3

Shares(c, d, k) == \A i \in 1..k : c[i] = d[i]

LEMMA GrowthAgrees ==
    ASSUME NEW f, NEW g, NEW c, NEW d, NEW n \in Nat, NEW m \in Nat, Grows(f, c, n), Grows(g, d, m),
           NEW k \in Nat, k \in 1..n, k \in 1..m, Shares(c, d, k)
    PROVE  f[k] = g[k]
<1> PICK S : S = {j \in Nat : j \in 1..k => f[j] = g[j]}
    OBVIOUS
<1>1. 0 \in S
    OBVIOUS
<1>2. ASSUME NEW j \in Nat, j \in S PROVE j + 1 \in S
  <2> PICK i : i = j + 1
      OBVIOUS
  <2>1. i \in Nat
      OBVIOUS
  <2>2. ASSUME i \in 1..k PROVE f[i] = g[i]
    <3>1. i \in 1..n /\ i \in 1..m /\ c[i] = d[i]
        BY <2>2 DEF Shares
    <3>2. f[i] = IF i = 1 THEN c[i] ELSE f[i-1] \o c[i]
        BY <3>1 DEF Grows
    <3>3. g[i] = IF i = 1 THEN d[i] ELSE g[i-1] \o d[i]
        BY <3>1 DEF Grows
    <3>4. i # 1 => f[j] = g[j] /\ i - 1 = j
        BY <1>2, <2>2
    <3> QED BY <3>1, <3>2, <3>3, <3>4
  <2> QED BY <2>1, <2>2
<1>3. k \in S
    BY <1>1, <1>2, Induction
<1> QED BY <1>3

LEMMA FlattenGrows ==
    ASSUME NEW B, NEW c \in Seq(Seq(B)), Len(c) # 0
    PROVE  \E f \in [1..Len(c) -> Seq(B)] : Grows(f, c, Len(c)) /\ FlattenSeq(c) = f[Len(c)]
<1> PICK g : g = CHOOSE f : f = [i \in 1..Len(c) |-> IF i = 1 THEN c[i] ELSE f[i-1] \o c[i]]
    OBVIOUS
<1>1. FlattenSeq(c) = g[Len(c)]
    BY DEF FlattenSeq
<1>2. Len(c) \in Nat /\ Len(c) \in 1..Len(c)
    OBVIOUS
<1>3. PICK f \in [1..Len(c) -> Seq(B)] : Grows(f, c, Len(c))
    BY <1>2, GrowthExists
<1>4. \E e : e = [i \in 1..Len(c) |-> IF i = 1 THEN c[i] ELSE e[i-1] \o c[i]]
    BY <1>3 DEF Grows
<1>5. Grows(g, c, Len(c))
    BY <1>4 DEF Grows
<1>6. Shares(c, c, Len(c))
    BY DEF Shares
<1>7. g[Len(c)] = f[Len(c)]
    BY <1>2, <1>3, <1>5, <1>6, GrowthAgrees
<1> QED BY <1>1, <1>3, <1>7

LEMMA FlattenSteps ==
    ASSUME NEW B, NEW c \in Seq(Seq(B))
    PROVE  /\ FlattenSeq(c) \in Seq(B)
           /\ Len(c) = 0 => FlattenSeq(c) = <<>>
           /\ \A n \in Nat : Len(c) = n + 1 => FlattenSeq(c) = FlattenSeq(SubSeq(c, 1, n)) \o c[n + 1]
<1>1. CASE Len(c) = 0
  <2>1. FlattenSeq(c) = c /\ c = <<>>
      BY <1>1 DEF FlattenSeq
  <2> QED BY <1>1, <2>1
<1>2. CASE Len(c) # 0
  <2>1. PICK f \in [1..Len(c) -> Seq(B)] : Grows(f, c, Len(c)) /\ FlattenSeq(c) = f[Len(c)]
      BY <1>2, FlattenGrows
  <2>2. FlattenSeq(c) \in Seq(B)
    <3>1. Len(c) \in 1..Len(c)
        BY <1>2
    <3>2. f[Len(c)] \in Seq(B)
        BY <3>1
    <3> QED BY <2>1, <3>2
  <2>3. ASSUME NEW n \in Nat, Len(c) = n + 1 PROVE FlattenSeq(c) = FlattenSeq(SubSeq(c, 1, n)) \o c[n + 1]
    <3>d. PICK d : d = SubSeq(c, 1, n)
        OBVIOUS
    <3>1. d \in Seq(Seq(B)) /\ Len(d) = n /\ \A i \in 1..n : d[i] = c[i]
        BY <2>3, <3>d
    <3>n. PICK m : m = n + 1
        OBVIOUS
    <3>m. m \in 1..Len(c) /\ m - 1 = n /\ m = Len(c)
        BY <2>3, <3>n
    <3>2. f[m] = IF m = 1 THEN c[m] ELSE f[m-1] \o c[m]
        BY <2>1, <3>m DEF Grows
    <3>3. CASE n = 0
      <4>1. FlattenSeq(d) = d /\ d = <<>>
          BY <3>1, <3>3 DEF FlattenSeq
      <4>2. c[n + 1] \in Seq(B)
          BY <2>3
      <4> QED BY <2>1, <2>3, <3>2, <3>d, <3>n, <3>m, <3>3, <4>1, <4>2
    <3>4. CASE n # 0
      <4>1. PICK g \in [1..Len(d) -> Seq(B)] : Grows(g, d, Len(d)) /\ FlattenSeq(d) = g[Len(d)]
          BY <3>1, <3>4, FlattenGrows
      <4>2. Grows(g, d, n) /\ Grows(f, c, m) /\ n \in 1..n /\ n \in 1..m /\ n \in Nat /\ m \in Nat
          BY <2>1, <2>3, <3>1, <3>n, <3>4, <3>m, <4>1
      <4>3. g[n] = f[n]
        <5>1. Shares(d, c, n)
            BY <3>1 DEF Shares
        <5> QED BY <4>2, <5>1, GrowthAgrees
      <4>4. FlattenSeq(c) = f[m] /\ FlattenSeq(d) = g[n] /\ m # 1
          BY <2>1, <2>3, <3>1, <3>4, <3>m, <4>1
      <4> QED BY <3>2, <3>d, <3>n, <3>m, <4>3, <4>4
    <3> QED BY <3>3, <3>4
  <2> QED BY <1>2, <2>2, <2>3
<1> QED BY <1>1, <1>2
Upto(c, n) == FlattenSeq(SubSeq(c, 1, n))

LEMMA UptoSteps ==
    ASSUME NEW B, NEW c \in Seq(Seq(B)), NEW n \in Nat, n <= Len(c)
    PROVE  /\ Upto(c, n) \in Seq(B)
           /\ n = 0 => Upto(c, n) = <<>>
           /\ n = Len(c) => Upto(c, n) = FlattenSeq(c)
           /\ n < Len(c) => Upto(c, n + 1) = Upto(c, n) \o c[n + 1]
<1>1. SubSeq(c, 1, n) \in Seq(Seq(B)) /\ Len(SubSeq(c, 1, n)) = n
    OBVIOUS
<1>2. Upto(c, n) \in Seq(B) /\ (n = 0 => Upto(c, n) = <<>>)
    BY <1>1, FlattenSteps DEF Upto
<1>3. n = Len(c) => SubSeq(c, 1, n) = c
    OBVIOUS
<1>4. ASSUME n < Len(c) PROVE Upto(c, n + 1) = Upto(c, n) \o c[n + 1]
  <2>d. PICK d : d = SubSeq(c, 1, n + 1)
      OBVIOUS
  <2>1. d \in Seq(Seq(B)) /\ Len(d) = n + 1 /\ d[n + 1] = c[n + 1]
      BY <1>4, <2>d
  <2>2. SubSeq(d, 1, n) = SubSeq(c, 1, n)
      BY <1>4, <2>d
  <2>3. FlattenSeq(d) = FlattenSeq(SubSeq(d, 1, n)) \o d[n + 1]
      BY <2>1, FlattenSteps
  <2> QED BY <2>d, <2>1, <2>2, <2>3 DEF Upto
<1> QED BY <1>2, <1>3, <1>4 DEF Upto

Extends(s, t) == Len(t) <= Len(s) /\ \A j \in 1..Len(t) : s[j] = t[j]

LEMMA UptoExtends ==
    ASSUME NEW B, NEW c \in Seq(Seq(B)), NEW i \in Nat, NEW n \in Nat, i <= n, n <= Len(c)
    PROVE  Extends(Upto(c, n), Upto(c, i))
<1>s. PICK S : S = {k \in Nat : i <= k /\ k <= Len(c) => Extends(Upto(c, k), Upto(c, i))}
    OBVIOUS
<1>1. Extends(Upto(c, i), Upto(c, i))
  <2>1. Upto(c, i) \in Seq(B)
      BY UptoSteps
  <2> QED BY <2>1 DEF Extends
<1>2. 0 \in S
    BY <1>s, <1>1
<1>3. ASSUME NEW k \in Nat, k \in S PROVE k + 1 \in S
  <2>m. PICK m : m = k + 1
      OBVIOUS
  <2>1. m \in Nat
      BY <1>3, <2>m
  <2>2. ASSUME i <= m, m <= Len(c) PROVE Extends(Upto(c, m), Upto(c, i))
    <3>1. CASE i = m
        BY <1>1, <3>1
    <3>2. CASE i # m
      <4>1. i <= k /\ k <= Len(c) /\ k < Len(c)
          BY <1>3, <2>2, <2>m, <3>2
      <4>2. Extends(Upto(c, k), Upto(c, i))
          BY <1>3, <1>s, <4>1
      <4>3. Upto(c, m) = Upto(c, k) \o c[m] /\ Upto(c, k) \in Seq(B) /\ Upto(c, i) \in Seq(B)
          BY <1>3, <2>m, <4>1, UptoSteps
      <4>4. c[m] \in Seq(B)
          BY <2>1, <2>2, <1>3, <2>m
      <4>u. PICK u \in Seq(B), v \in Seq(B), w \in Seq(B) : u = Upto(c, k) /\ v = Upto(c, i) /\ w = c[m]
          BY <4>3, <4>4
      <4>5. Extends(u, v) => Extends(u \o w, v)
          BY <4>u DEF Extends
      <4> QED BY <4>2, <4>3, <4>5, <4>u
    <3> QED BY <3>1, <3>2
  <2> QED BY <1>s, <2>m, <2>1, <2>2
<1>4. n \in S
    BY <1>2, <1>3, Induction
<1> QED BY <1>s, <1>4

-----------------------------------------------------------------------------
(* Batches.  A byte of a chunk is in the data at its chunk's offset.       *)
LEMMA BatchFacts ==
    ASSUME NEW c \in Batches
    PROVE  /\ c \in Seq(Seq(Bytes)) /\ Len(c) \in Nat /\ Len(c) # 0
           /\ \A i \in 1..Len(c) : c[i] \in Chunks /\ c[i] \in Seq(Bytes) /\ Len(c[i]) \in Nat \ {0}
<1>1. PICK n \in 1..MaxBatch : c \in [1..n -> Chunks]
    BY DEF Batches
<1>2. MaxBatch \in Nat /\ MaxChunk \in Nat
    BY BoundsAssumption
<1>3. n \in Nat /\ n # 0
    BY <1>2
<1>4. \A d \in Chunks : d \in Seq(Bytes) /\ Len(d) \in Nat \ {0}
  <2> TAKE d \in Chunks
  <2>1. PICK m \in 1..MaxChunk : d \in [1..m -> Bytes]
      BY DEF Chunks
  <2>2. m \in Nat /\ m # 0
      BY <1>2
  <2> QED BY <2>1, <2>2
<1>5. c \in Seq(Chunks) /\ Len(c) = n
    BY <1>1, <1>3
<1>6. \A i \in 1..Len(c) : c[i] \in Chunks
    BY <1>5
<1>7. c \in Seq(Seq(Bytes))
    BY <1>1, <1>3, <1>4
<1> QED BY <1>3, <1>4, <1>5, <1>6, <1>7

(* The data d lies in p behind its first a bytes.                          *)
Holds(p, a, d) == a + Len(d) <= Len(p) /\ \A j \in 1..Len(d) : p[a + j] = d[j]

LEMMA ChunkLies ==
    ASSUME NEW c \in Batches, NEW n \in Nat, n < Len(c)
    PROVE  /\ Upto(c, n) \in Seq(Bytes) /\ FlattenSeq(c) \in Seq(Bytes)
           /\ Len(Upto(c, n + 1)) = Len(Upto(c, n)) + Len(c[n + 1])
           /\ Len(Upto(c, n + 1)) <= Len(FlattenSeq(c))
           /\ Holds(FlattenSeq(c), Len(Upto(c, n)), c[n + 1])
<1>m. PICK m : m = n + 1
    OBVIOUS
<1>1. c \in Seq(Seq(Bytes)) /\ Len(c) \in Nat /\ c[m] \in Seq(Bytes) /\ m \in Nat /\ m <= Len(c)
    BY <1>m, BatchFacts
<1>2. /\ Upto(c, n) \in Seq(Bytes) /\ Upto(c, m) \in Seq(Bytes) /\ FlattenSeq(c) \in Seq(Bytes)
      /\ Upto(c, m) = Upto(c, n) \o c[m] /\ FlattenSeq(c) = Upto(c, Len(c))
  <2>1. Upto(c, n) \in Seq(Bytes) /\ Upto(c, n + 1) = Upto(c, n) \o c[n + 1]
    <3>1. n <= Len(c)
        BY <1>1
    <3>2. c \in Seq(Seq(Bytes))
        BY <1>1
    <3>3. Upto(c, n) \in Seq(Bytes)
        BY <3>1, <3>2, UptoSteps
    <3>4. Upto(c, n + 1) = Upto(c, n) \o c[n + 1]
        BY <3>1, <3>2, UptoSteps
    <3> QED BY <3>3, <3>4
  <2>2. Upto(c, m) \in Seq(Bytes)
      BY <1>1, UptoSteps
  <2>3. FlattenSeq(c) \in Seq(Bytes)
      BY <1>1, FlattenSteps
  <2>4. FlattenSeq(c) = Upto(c, Len(c))
      BY <1>1, UptoSteps
  <2> QED BY <1>m, <2>1, <2>2, <2>3, <2>4
<1>3. Extends(FlattenSeq(c), Upto(c, m))
  <2>1. Extends(Upto(c, Len(c)), Upto(c, m))
      BY <1>1, UptoExtends
  <2> QED BY <1>2, <2>1
<1>u. PICK u \in Seq(Bytes), v \in Seq(Bytes), w \in Seq(Bytes), f \in Seq(Bytes) :
         u = Upto(c, n) /\ v = Upto(c, m) /\ w = c[m] /\ f = FlattenSeq(c)
    BY <1>1, <1>2
<1>4. v = u \o w /\ Extends(f, v)
    BY <1>2, <1>3, <1>u
<1>5. Len(v) = Len(u) + Len(w) /\ Len(v) <= Len(f) /\ Holds(f, Len(u), w)
  <2>1. Len(v) = Len(u) + Len(w) /\ Len(v) <= Len(f)
      BY <1>4 DEF Extends
  <2>2. ASSUME NEW j \in 1..Len(w) PROVE f[Len(u) + j] = w[j]
    <3>1. Len(u) + j \in 1..Len(v) /\ v[Len(u) + j] = w[j]
        BY <1>4, <2>1, <2>2
    <3> QED BY <1>4, <3>1 DEF Extends
  <2> QED BY <2>1, <2>2 DEF Holds
<1> QED BY <1>2, <1>5, <1>u, <1>m

(* A batch has no more chunks than bytes.                                  *)
LEMMA BatchCounts ==
    ASSUME NEW c \in Batches
    PROVE  FlattenSeq(c) \in Seq(Bytes) /\ Len(c) <= Len(FlattenSeq(c)) /\ Upto(c, 0) = <<>>
<1>1. c \in Seq(Seq(Bytes)) /\ Len(c) \in Nat
    BY BatchFacts
<1>s. PICK S : S = {k \in Nat : k <= Len(c) => k <= Len(Upto(c, k))}
    OBVIOUS
<1>2. Upto(c, 0) = <<>>
    BY <1>1, UptoSteps
<1>3. 0 \in S
    BY <1>s, <1>2
<1>4. ASSUME NEW k \in Nat, k \in S PROVE k + 1 \in S
  <2>1. CASE k < Len(c)
    <3>1. Len(Upto(c, k + 1)) = Len(Upto(c, k)) + Len(c[k + 1]) /\ Len(Upto(c, k)) \in Nat
        BY <1>4, <2>1, ChunkLies
    <3>2. Len(c[k + 1]) \in Nat \ {0}
        BY <1>1, <1>4, <2>1, BatchFacts
    <3>3. k <= Len(Upto(c, k))
        BY <1>s, <1>4, <2>1
    <3> QED BY <1>s, <1>4, <3>1, <3>2, <3>3
  <2>2. CASE ~(k < Len(c))
      BY <1>1, <1>s, <1>4, <2>2
  <2> QED BY <2>1, <2>2
<1>5. Len(c) \in S
    BY <1>1, <1>3, <1>4, Induction
<1>6. Upto(c, Len(c)) = FlattenSeq(c) /\ FlattenSeq(c) \in Seq(Bytes)
    BY <1>1, UptoSteps, FlattenSteps
<1> QED BY <1>1, <1>2, <1>s, <1>5, <1>6

-----------------------------------------------------------------------------
(* Files and their prefixes.                                               *)
Lines == Records \cup {Torn}

LEMMA RecordFacts ==
    ASSUME NEW r \in Records
    PROVE  /\ r.offset \in Nat /\ r.offset <= Size /\ r.data \in Chunks /\ r.data \in Seq(Bytes)
           /\ Len(r.data) \in Nat \ {0} /\ r # Torn
<1>1. r.offset \in 0..Size /\ r.data \in Chunks
    BY DEF Records
<1>2. MaxChunk \in Nat /\ Size \in Nat
    BY BoundsAssumption
<1>3. PICK m \in 1..MaxChunk : r.data \in [1..m -> Bytes]
    BY <1>1 DEF Chunks
<1>4. m \in Nat /\ m # 0
    BY <1>2
<1>5. r.data \in Seq(Bytes) /\ Len(r.data) = m
    BY <1>3, <1>4
<1>6. r # Torn
    BY <1>4, <1>5 DEF Torn
<1> QED BY <1>1, <1>2, <1>4, <1>5, <1>6

(* The first o elements of q are those of p.                               *)
Keeps(q, p, o) == o <= Len(q) /\ \A j \in 1..o : q[j] = p[j]

LEMMA TrimKeeps ==
    ASSUME NEW S, NEW p \in Seq(S), NEW n \in Nat, p # Null
    PROVE  /\ Trimmed(p, n) \in Seq(S) /\ Len(Trimmed(p, n)) <= n
           /\ Len(p) <= n => Trimmed(p, n) = p
           /\ n <= Len(p) => Len(Trimmed(p, n)) = n /\ Keeps(Trimmed(p, n), p, n)
<1>1. CASE Len(p) <= n
  <2>1. Trimmed(p, n) = p
      BY <1>1 DEF Trimmed
  <2> QED BY <1>1, <2>1 DEF Keeps
<1>2. CASE ~(Len(p) <= n)
  <2>1. Trimmed(p, n) = SubSeq(p, 1, n)
      BY <1>2 DEF Trimmed
  <2>2. /\ SubSeq(p, 1, n) \in Seq(S) /\ Len(SubSeq(p, 1, n)) = n
        /\ \A j \in 1..n : SubSeq(p, 1, n)[j] = p[j]
      BY <1>2
  <2> QED BY <1>2, <2>1, <2>2 DEF Keeps
<1> QED BY <1>1, <1>2

(* The first n records of l are the chunks of the first o bytes of p.      *)
Prefix(p, l, o, n) ==
    /\ o <= Len(p) /\ n <= Len(l)
    /\ \A i \in 1..n :
          /\ l[i] \in Records
          /\ l[i].offset = IF i = 1 THEN 0 ELSE l[i-1].offset + Len(l[i-1].data)
          /\ l[i].offset + Len(l[i].data) <= o
          /\ Holds(p, l[i].offset, l[i].data)
    /\ o = IF n = 0 THEN 0 ELSE l[n].offset + Len(l[n].data)

LEMMA HoldsKept ==
    ASSUME NEW p, NEW q \in Seq(Bytes), NEW o \in Nat, NEW a \in Nat, NEW d \in Seq(Bytes),
           a + Len(d) <= o, Holds(p, a, d), Keeps(q, p, o)
    PROVE  Holds(q, a, d)
<1>n. PICK n \in Nat : n = Len(d)
    OBVIOUS
<1>1. ASSUME NEW j \in 1..n PROVE q[a + j] = d[j]
  <2>1. a + j \in 1..o
      BY <1>n, <1>1
  <2> QED BY <1>n, <1>1, <2>1 DEF Keeps, Holds
<1>2. a + n <= Len(q)
    BY <1>n DEF Keeps
<1> QED BY <1>n, <1>1, <1>2 DEF Holds

LEMMA HoldsWithin ==
    ASSUME NEW p \in Seq(Bytes), NEW f \in Seq(Bytes), NEW d \in Seq(Bytes), NEW o \in Nat, NEW a \in Nat,
           Holds(p, o, f), Holds(f, a, d)
    PROVE  Holds(p, o + a, d)
<1>n. PICK n \in Nat, m \in Nat : n = Len(d) /\ m = Len(f)
    OBVIOUS
<1>1. a + n <= m /\ o + m <= Len(p)
    BY <1>n DEF Holds
<1>2. ASSUME NEW j \in 1..n PROVE p[o + a + j] = d[j]
  <2>1. a + j \in 1..m
      BY <1>n, <1>1, <1>2
  <2>2. p[o + (a + j)] = f[a + j]
      BY <1>n, <2>1 DEF Holds
  <2>3. f[a + j] = d[j]
      BY <1>n, <1>2 DEF Holds
  <2>4. o + (a + j) = o + a + j
      BY <1>2
  <2> QED BY <2>2, <2>3, <2>4
<1>3. o + a + n <= Len(p)
    BY <1>1, <1>n
<1> QED BY <1>2, <1>3, <1>n DEF Holds

LEMMA PrefixSurvives ==
    ASSUME NEW p \in Seq(Bytes), NEW q \in Seq(Bytes), NEW l \in Seq(Lines), NEW m \in Seq(Lines),
           NEW o \in Nat, NEW n \in Nat, Prefix(p, l, o, n), Keeps(q, p, o), Keeps(m, l, n)
    PROVE  Prefix(q, m, o, n)
<1>1. o <= Len(q) /\ n <= Len(m)
    BY DEF Keeps
<1>2. ASSUME NEW i \in 1..n
      PROVE  /\ m[i] \in Records
             /\ m[i].offset = IF i = 1 THEN 0 ELSE m[i-1].offset + Len(m[i-1].data)
             /\ m[i].offset + Len(m[i].data) <= o
             /\ Holds(q, m[i].offset, m[i].data)
  <2>1. m[i] = l[i] /\ (i # 1 => m[i-1] = l[i-1])
    <3>1. \A j \in 1..n : m[j] = l[j]
        BY DEF Keeps
    <3>2. i # 1 => i - 1 \in 1..n
        BY <1>2
    <3> QED BY <1>2, <3>1, <3>2
  <2>2. /\ l[i] \in Records
        /\ l[i].offset = IF i = 1 THEN 0 ELSE l[i-1].offset + Len(l[i-1].data)
        /\ l[i].offset + Len(l[i].data) <= o
        /\ Holds(p, l[i].offset, l[i].data)
      BY <1>2 DEF Prefix
  <2>r. PICK a \in Nat, d \in Seq(Bytes) : a = l[i].offset /\ d = l[i].data
      BY <2>2, RecordFacts
  <2>3. a + Len(d) <= o /\ Holds(p, a, d) /\ a \in Nat /\ d \in Seq(Bytes)
      BY <2>2, <2>r
  <2>4. Holds(q, a, d)
      BY <2>3, HoldsKept
  <2> QED BY <2>1, <2>2, <2>4, <2>r
<1>3. o = IF n = 0 THEN 0 ELSE m[n].offset + Len(m[n].data)
  <2>1. n # 0 => m[n] = l[n]
      BY DEF Keeps
  <2> QED BY <2>1 DEF Prefix
<1> QED BY <1>1, <1>2, <1>3 DEF Prefix

Line(o, c, i) == [offset |-> o + Len(Upto(c, i - 1)), data |-> c[i]]

(* The records of a batch continue the prefix by its data.                 *)
LEMMA PrefixGrows ==
    ASSUME NEW p \in Seq(Bytes), NEW l \in Seq(Lines), NEW o \in Nat, NEW n \in Nat, NEW c \in Batches,
           Prefix(p, l, o, n), Holds(p, o, FlattenSeq(c)), o + Len(FlattenSeq(c)) <= Size,
           n + Len(c) <= Len(l), \A i \in 1..Len(c) : l[n + i] = Line(o, c, i)
    PROVE  Prefix(p, l, o + Len(FlattenSeq(c)), n + Len(c))
<1>f. PICK f : f = FlattenSeq(c)
    OBVIOUS
<1>1. c \in Seq(Seq(Bytes)) /\ Len(c) \in Nat /\ Len(c) # 0 /\ f \in Seq(Bytes) /\ Size \in Nat
    BY <1>f, BatchFacts, BatchCounts, BoundsAssumption
<1>t. PICK t : t = o + Len(f)
    OBVIOUS
<1>m. PICK m : m = n + Len(c)
    OBVIOUS
<1>2. t \in Nat /\ m \in Nat /\ t <= Size /\ t <= Len(p) /\ m <= Len(l) /\ o <= t /\ n < m
    BY <1>1, <1>f, <1>t, <1>m DEF Holds
<1>3. ASSUME NEW k \in Nat, k < Len(c)
      PROVE  /\ l[n + (k + 1)] \in Records
             /\ l[n + (k + 1)].offset = o + Len(Upto(c, k)) /\ l[n + (k + 1)].data = c[k + 1]
             /\ l[n + (k + 1)].offset + Len(l[n + (k + 1)].data) = o + Len(Upto(c, k + 1))
             /\ l[n + (k + 1)].offset + Len(l[n + (k + 1)].data) <= t
             /\ Holds(p, l[n + (k + 1)].offset, l[n + (k + 1)].data)
  <2>r. PICK r : r = l[n + (k + 1)]
      OBVIOUS
  <2>i. PICK i : i = k + 1
      OBVIOUS
  <2>1. i \in 1..Len(c) /\ i - 1 = k
      BY <1>1, <1>3, <2>i
  <2>2. r = [offset |-> o + Len(Upto(c, k)), data |-> c[i]]
      BY <2>1, <2>i, <2>r DEF Line
  <2>3. /\ Upto(c, k) \in Seq(Bytes) /\ Len(Upto(c, i)) = Len(Upto(c, k)) + Len(c[i])
        /\ Len(Upto(c, i)) <= Len(f) /\ Holds(f, Len(Upto(c, k)), c[i])
      BY <1>3, <1>f, <2>i, ChunkLies
  <2>4. c[i] \in Chunks /\ c[i] \in Seq(Bytes) /\ Len(c[i]) \in Nat \ {0}
      BY <2>1, BatchFacts
  <2>a. PICK a \in Nat, d \in Seq(Bytes) : a = Len(Upto(c, k)) /\ d = c[i]
      BY <2>3, <2>4
  <2>5. r = [offset |-> o + a, data |-> d] /\ a + Len(d) <= Len(f) /\ Holds(f, a, d) /\ Holds(p, o, f)
      BY <1>f, <2>2, <2>3, <2>4, <2>a
  <2>x. PICK x \in Nat, y \in Nat : x = Len(f) /\ y = Len(d)
      BY <1>1, <2>a
  <2>6. o + a \in 0..Size /\ o + a + y <= t
    <3>1. a + y <= x /\ t = o + x
        BY <1>t, <2>5, <2>x
    <3>2. t <= Size /\ Size \in Nat /\ t \in Nat /\ a \in Nat
        BY <1>1, <1>2, <2>a
    <3> QED BY <3>1, <3>2, <2>x
  <2>7. r \in Records
      BY <2>4, <2>5, <2>6, <2>a DEF Records
  <2>8. Holds(p, o + a, d)
      BY <1>1, <2>5, <2>a, HoldsWithin
  <2>9. r.offset = o + a /\ r.data = d /\ o + a + y = o + Len(Upto(c, i))
    <3>1. Len(Upto(c, i)) = a + y
        BY <2>3, <2>a, <2>x
    <3>2. o + (a + y) = o + a + y
      <4>1. o \in Nat /\ a \in Nat /\ y \in Nat
          BY <2>a, <2>x
      <4> QED BY <4>1
    <3>3. r.offset = o + a /\ r.data = d
        BY <2>5
    <3> QED BY <3>1, <3>2, <3>3
  <2> QED BY <2>7, <2>6, <2>8, <2>9, <2>r, <2>i, <2>a, <2>x
<1>4. ASSUME NEW i \in 1..m
      PROVE  /\ l[i] \in Records
             /\ l[i].offset = IF i = 1 THEN 0 ELSE l[i-1].offset + Len(l[i-1].data)
             /\ l[i].offset + Len(l[i].data) <= t
             /\ Holds(p, l[i].offset, l[i].data)
  <2>1. CASE i <= n
    <3>1. /\ l[i] \in Records
          /\ l[i].offset = IF i = 1 THEN 0 ELSE l[i-1].offset + Len(l[i-1].data)
          /\ l[i].offset + Len(l[i].data) <= o
          /\ Holds(p, l[i].offset, l[i].data)
      <4>1. i \in 1..n
          BY <1>2, <1>4, <2>1
      <4> QED BY <4>1 DEF Prefix
    <3>2. PICK x \in Nat : x = l[i].offset + Len(l[i].data)
      <4>1. l[i].offset \in Nat /\ Len(l[i].data) \in Nat
          BY <3>1, RecordFacts
      <4> QED BY <4>1
    <3>3. x <= t
        BY <1>2, <3>1, <3>2
    <3> QED BY <3>1, <3>2, <3>3
  <2>2. CASE i = n + 1
    <3>1. 0 \in Nat /\ 0 < Len(c) /\ Upto(c, 0) = <<>>
        BY <1>1, BatchCounts
    <3>2. /\ l[n + (0 + 1)] \in Records /\ l[n + (0 + 1)].offset = o + Len(Upto(c, 0))
          /\ l[n + (0 + 1)].offset + Len(l[n + (0 + 1)].data) <= t
          /\ Holds(p, l[n + (0 + 1)].offset, l[n + (0 + 1)].data)
        BY <1>3, <3>1
    <3>3. n + (0 + 1) = i /\ (i # 1 => i - 1 = n /\ n # 0) /\ (i = 1 => n = 0)
        BY <2>2
    <3>4. l[i].offset = o
      <4>1. Len(Upto(c, 0)) = 0
          BY <3>1
      <4>2. o + 0 = o
          OBVIOUS
      <4>3. o + Len(Upto(c, 0)) = o
          BY <4>1, <4>2, Zenon
      <4> QED BY <3>2, <3>3, <4>3
    <3>5. o = IF n = 0 THEN 0 ELSE l[n].offset + Len(l[n].data)
        BY DEF Prefix
    <3> QED BY <3>2, <3>3, <3>4, <3>5
  <2>3. CASE i > n + 1
    <3>k. PICK k : k = i - n - 2
        OBVIOUS
    <3>1. k \in Nat /\ k + 1 \in Nat /\ k < Len(c) /\ k + 1 < Len(c) /\ n + (k + 1) = i - 1 /\ n + ((k + 1) + 1) = i
        BY <1>1, <1>m, <1>4, <2>3, <3>k
    <3>2. l[i-1].offset + Len(l[i-1].data) = o + Len(Upto(c, k + 1))
        BY <1>3, <3>1
    <3>3. /\ l[i] \in Records /\ l[i].offset = o + Len(Upto(c, k + 1))
          /\ l[i].offset + Len(l[i].data) <= t
          /\ Holds(p, l[i].offset, l[i].data)
      <4>h. PICK h \in Nat : h = k + 1 /\ h < Len(c) /\ n + (h + 1) = i
          BY <3>1
      <4>1. /\ l[n + (h + 1)] \in Records /\ l[n + (h + 1)].offset = o + Len(Upto(c, h))
            /\ l[n + (h + 1)].offset + Len(l[n + (h + 1)].data) <= t
            /\ Holds(p, l[n + (h + 1)].offset, l[n + (h + 1)].data)
          BY <1>3, <4>h
      <4> QED BY <4>1, <4>h
    <3>4. i # 1
        BY <2>3
    <3> QED BY <3>2, <3>3, <3>4
  <2> QED BY <1>4, <2>1, <2>2, <2>3
<1>5. t = IF m = 0 THEN 0 ELSE l[m].offset + Len(l[m].data)
  <2>k. PICK k : k = Len(c) - 1
      OBVIOUS
  <2>1. k \in Nat /\ k < Len(c) /\ k + 1 = Len(c)
      BY <1>1, <2>k
  <2>4. n + (k + 1) = m /\ m # 0
      BY <1>2, <1>m, <2>1
  <2>2. l[n + (k + 1)].offset + Len(l[n + (k + 1)].data) = o + Len(Upto(c, k + 1))
      BY <1>3, <2>1
  <2>3. Upto(c, Len(c)) = f
      BY <1>1, <1>f, UptoSteps
  <2> QED BY <1>t, <2>1, <2>2, <2>3, <2>4
<1>6. Prefix(p, l, t, m)
    BY <1>2, <1>4, <1>5 DEF Prefix
<1> QED BY <1>6, <1>t, <1>m, <1>f

-----------------------------------------------------------------------------
(* The inductive invariant.  Once the files are registered, the saved      *)
(* count of records describes the saved offset of the payload.             *)
StateOK ==
    /\ ~st.registered => st.offset = 0 /\ st.count = 0
    /\ st.registered => /\ partial # Null /\ ledger # Null
                        /\ Prefix(partial, ledger, st.offset, st.count)
    /\ st.count <= st.offset

(* Files that are as the saved identity says end with the saved prefix.    *)
SyncedOK == st.registered /\ synced => Len(partial) = st.offset /\ Len(ledger) = st.count

(* What a call has written behind the prefix, at each of its steps.        *)
Lies == Len(partial) = st.offset + Len(Data) /\ Holds(partial, st.offset, Data)
CallOK ==
    chunkCall # Null =>
        /\ VerifierGone /\ st.offset + Total(chunkCall.chunks) <= Size
        /\ chunkCall.pc \in {"create_partial", "create_ledger"} => ~st.registered
        /\ chunkCall.pc # "create_partial" => partial # Null
        /\ chunkCall.pc = "create_ledger" => partial = <<>>
        /\ chunkCall.pc \notin {"create_partial", "create_ledger"} => ledger # Null
        /\ chunkCall.pc \in {"register", "write"} => Len(partial) = st.offset /\ Len(ledger) = st.count
        /\ chunkCall.pc \in {"write", "record", "save"} => st.registered /\ st.proof = Null
        /\ chunkCall.pc \in {"record", "save"} => Lies
        /\ chunkCall.pc = "record" => Len(ledger) = st.count
        /\ chunkCall.pc = "save" => /\ Len(ledger) = st.count + Len(chunkCall.chunks)
                               /\ \A i \in 1..Len(chunkCall.chunks) :
                                     ledger[st.count + i] = Line(st.offset, chunkCall.chunks, i)

(* A worker trims to the progress it has read, which no call changes while *)
(* it runs; until it has proved the prefix there is no proof.              *)
WorkerOK ==
    /\ worker.pc \in {"trimming", "trimmed", "verified"} => worker.offset = st.offset /\ worker.count = st.count
    /\ worker.pc \in {"verifying", "trimming", "trimmed", "verified", "failed"} => st.proof = Null
    /\ ~VerifierGone => st.owner # 0

AckedOK == Len(acked) <= st.offset /\ (acked # <<>> => Keeps(partial, acked, Len(acked)))

ReceiveInv == ReceiveTypeOK /\ StateOK /\ SyncedOK /\ CallOK /\ WorkerOK /\ AckedOK /\ ProofIsCurrent

-----------------------------------------------------------------------------
(* Types.                                                                  *)
States == [phase : {"RECEIVING", "RECEIVED"}, offset : 0..Size, count : 0..Size,
           registered : BOOLEAN, proof : Proofs \cup {Null},
           owner : 0..MaxWorkers, stopped : BOOLEAN,
           error : {Null, "worker_failed", "worker_result_unknown"}]
WorkerStates == [pc : {"dead", "verifying", "trimming", "trimmed", "verified", "failed", "exiting"},
                 offset : 0..Size, count : 0..Size]

LEMMA Types ==
    ASSUME ReceiveTypeOK
    PROVE  /\ st \in States /\ worker \in WorkerStates /\ synced \in BOOLEAN /\ acked \in Seq(Bytes)
           /\ st.offset \in Nat /\ st.offset <= Size /\ st.count \in Nat /\ st.count <= Size
           /\ st.registered \in BOOLEAN /\ st.owner \in Nat /\ st.proof \in Proofs \cup {Null}
           /\ partial \in Seq(Bytes) \cup {Null} /\ ledger \in Seq(Lines) \cup {Null}
           /\ chunkCall \in ChunkCalls \cup {Null}
           /\ Null \notin Seq(Bytes) /\ Null \notin Seq(Lines) /\ Null \notin Proofs /\ Null \notin ChunkCalls
           /\ Size \in Nat /\ MaxWorkers \in Nat
<1>1. st \in States /\ worker \in WorkerStates /\ synced \in BOOLEAN /\ acked \in Seq(Bytes)
    BY DEF ReceiveTypeOK, States, WorkerStates
<1>2. Size \in Nat /\ MaxWorkers \in Nat
    BY BoundsAssumption
<1>3. /\ st.offset \in 0..Size /\ st.count \in 0..Size /\ st.registered \in BOOLEAN /\ st.owner \in 0..MaxWorkers
      /\ st.proof \in Proofs \cup {Null}
    BY <1>1 DEF States
<1>4. /\ partial \in Seq(Bytes) \cup {Null} /\ ledger \in Seq(Lines) \cup {Null} /\ chunkCall \in ChunkCalls \cup {Null}
    BY DEF ReceiveTypeOK, Lines
<1>5. Null \notin Seq(Bytes) /\ Null \notin Seq(Lines) /\ Null \notin Proofs /\ Null \notin ChunkCalls
    BY NullAssumption DEF Lines
<1> QED BY <1>1, <1>2, <1>3, <1>4, <1>5

LEMMA TypesHere ==
    ASSUME st \in States, worker \in WorkerStates, synced \in BOOLEAN, acked \in Seq(Bytes),
           partial \in Seq(Bytes) \cup {Null}, ledger \in Seq(Lines) \cup {Null}, chunkCall \in ChunkCalls \cup {Null}
    PROVE  ReceiveTypeOK
BY DEF ReceiveTypeOK, States, WorkerStates, Lines

(* What of Inv is about the files and the progress saved of them.          *)
FilesOK == StateOK /\ SyncedOK /\ AckedOK

(* A step that leaves both alone.                                          *)
LEMMA FilesStay ==
    ASSUME FilesOK, partial' = partial, ledger' = ledger, acked' = acked, st'.offset = st.offset,
           st'.count = st.count, st'.registered = st.registered, synced' => synced
    PROVE  FilesOK'
BY DEF FilesOK, StateOK, SyncedOK, AckedOK, Prefix, Holds, Keeps

LEMMA CallBusy == ASSUME CallOK, ~VerifierGone PROVE chunkCall = Null
BY DEF CallOK

LEMMA InterruptHolds == ASSUME ReceiveInv, Interrupt PROVE ReceiveInv'
<1>1. ReceiveTypeOK'
    BY DEF ReceiveInv, Interrupt, ReceiveTypeOK
<1>2. FilesOK'
    BY FilesStay DEF ReceiveInv, FilesOK, Interrupt
<1>3. CallOK' /\ WorkerOK' /\ ProofIsCurrent'
    BY DEF ReceiveInv, Interrupt, CallOK, WorkerOK, ProofIsCurrent, VerifierGone
<1> QED BY <1>1, <1>2, <1>3 DEF ReceiveInv, FilesOK

LEMMA VerifyHolds == ASSUME ReceiveInv, Verify PROVE ReceiveInv'
<1>1. ReceiveTypeOK'
  <2>1. st \in States /\ st.offset \in 0..Size /\ st.count \in 0..Size
      BY Types DEF ReceiveInv
  <2>2. worker' \in WorkerStates
      BY <2>1 DEF Verify, WorkerStates
  <2> QED BY <2>2 DEF ReceiveInv, Verify, ReceiveTypeOK, WorkerStates
<1>2. FilesOK'
    BY FilesStay DEF ReceiveInv, FilesOK, Verify
<1>3. chunkCall = Null /\ chunkCall' = Null
    BY CallBusy DEF ReceiveInv, Verify, VerifierGone
<1>4. CallOK' /\ ProofIsCurrent'
    BY <1>3 DEF ReceiveInv, Verify, CallOK, ProofIsCurrent
<1>5. WorkerOK'
    BY DEF ReceiveInv, Verify, WorkerOK, VerifierGone
<1> QED BY <1>1, <1>2, <1>4, <1>5 DEF ReceiveInv, FilesOK

LEMMA DieHolds == ASSUME ReceiveInv, VerifierDies PROVE ReceiveInv'
<1>1. ReceiveTypeOK'
  <2>1. worker \in WorkerStates
      BY Types DEF ReceiveInv
  <2>2. worker' \in WorkerStates
      BY <2>1 DEF VerifierDies, WorkerStates
  <2> QED BY <2>2 DEF ReceiveInv, VerifierDies, ReceiveTypeOK, WorkerStates
<1>2. FilesOK'
    BY FilesStay DEF ReceiveInv, FilesOK, VerifierDies
<1>3. chunkCall = Null /\ chunkCall' = Null
    BY CallBusy DEF ReceiveInv, VerifierDies
<1>4. CallOK' /\ ProofIsCurrent'
    BY <1>3 DEF ReceiveInv, VerifierDies, CallOK, ProofIsCurrent
<1>5. worker'.pc = "dead"
    BY Types DEF ReceiveInv, VerifierDies, WorkerStates
<1>6. WorkerOK'
    BY <1>5 DEF WorkerOK, VerifierGone
<1> QED BY <1>1, <1>2, <1>4, <1>6 DEF ReceiveInv, FilesOK

LEMMA RecordErrorHolds == ASSUME ReceiveInv, RecordVerifierError PROVE ReceiveInv'
<1>1. /\ st' \in States /\ st'.offset = st.offset /\ st'.count = st.count /\ st'.registered = st.registered
      /\ st'.proof = st.proof /\ st'.owner = st.owner
    BY Types DEF ReceiveInv, RecordVerifierError, States
<1>2. worker' \in WorkerStates /\ worker'.pc = "exiting"
    BY Types DEF ReceiveInv, RecordVerifierError, WorkerStates
<1>3. ReceiveTypeOK'
    BY <1>1, <1>2 DEF ReceiveInv, RecordVerifierError, ReceiveTypeOK, WorkerStates, States
<1>4. FilesOK'
    BY <1>1, FilesStay DEF ReceiveInv, FilesOK, RecordVerifierError
<1>5. chunkCall = Null /\ chunkCall' = Null
    BY CallBusy DEF ReceiveInv, RecordVerifierError, VerifierGone
<1>6. CallOK' /\ ProofIsCurrent'
    BY <1>1, <1>5 DEF ReceiveInv, RecordVerifierError, CallOK, ProofIsCurrent
<1>7. WorkerOK'
    BY <1>1, <1>2 DEF ReceiveInv, RecordVerifierError, WorkerOK, VerifierGone
<1> QED BY <1>3, <1>4, <1>6, <1>7 DEF ReceiveInv, FilesOK

LEMMA ResumeHolds == ASSUME ReceiveInv, Resume PROVE ReceiveInv'
<1>1. st.owner + 1 \in 0..MaxWorkers /\ st.owner + 1 # 0
    BY Types DEF ReceiveInv, Resume
<1>2. /\ st' \in States /\ st'.offset = st.offset /\ st'.count = st.count /\ st'.registered = st.registered
      /\ st'.proof = Null /\ st'.owner # 0
    BY <1>1, Types DEF ReceiveInv, Resume, States
<1>3. worker' \in WorkerStates /\ worker'.pc = "verifying"
    BY Types DEF ReceiveInv, Resume, WorkerStates
<1>4. ReceiveTypeOK'
    BY <1>2, <1>3 DEF ReceiveInv, Resume, ReceiveTypeOK, WorkerStates, States
<1>5. FilesOK'
    BY <1>2, FilesStay DEF ReceiveInv, FilesOK, Resume
<1>6. CallOK' /\ ProofIsCurrent'
    BY <1>2 DEF Resume, CallOK, ProofIsCurrent
<1>7. WorkerOK'
    BY <1>2, <1>3 DEF WorkerOK, VerifierGone
<1> QED BY <1>4, <1>5, <1>6, <1>7 DEF ReceiveInv, FilesOK

LEMMA ReconcileHolds == ASSUME ReceiveInv, ReconcileVerifier PROVE ReceiveInv'
<1>1. /\ st' \in States /\ st'.offset = st.offset /\ st'.count = st.count /\ st'.registered = st.registered
      /\ st'.proof = st.proof /\ st'.owner = st.owner
  <2>1. st \in States /\ st.error \in {Null, "worker_failed", "worker_result_unknown"}
      BY Types DEF ReceiveInv, States
  <2>e. PICK e \in {Null, "worker_failed", "worker_result_unknown"} :
           e = IF st.error = Null /\ st.proof = Null THEN "worker_result_unknown" ELSE st.error
      BY <2>1
  <2>2. st' = [st EXCEPT !.stopped = TRUE, !.error = e]
      BY <2>e DEF ReconcileVerifier
  <2> QED BY <2>1, <2>2 DEF States
<1>2. ReceiveTypeOK'
    BY <1>1 DEF ReceiveInv, ReconcileVerifier, ReceiveTypeOK, States
<1>3. FilesOK'
    BY <1>1, FilesStay DEF ReceiveInv, FilesOK, ReconcileVerifier
<1>4. CallOK' /\ ProofIsCurrent'
    BY <1>1 DEF ReceiveInv, ReconcileVerifier, CallOK, ProofIsCurrent
<1>5. WorkerOK'
    BY <1>1 DEF ReceiveInv, ReconcileVerifier, WorkerOK, VerifierGone
<1> QED BY <1>2, <1>3, <1>4, <1>5 DEF ReceiveInv, FilesOK

LEMMA ProveHolds == ASSUME ReceiveInv, Prove PROVE ReceiveInv'
<1>1. /\ st \in States /\ worker \in WorkerStates /\ st.offset \in Nat /\ st.count \in Nat
      /\ partial \in Seq(Bytes) \cup {Null} /\ ledger \in Seq(Lines) \cup {Null} /\ Null \notin Seq(Lines)
      /\ st.offset \in 0..Size /\ st.owner \in 0..MaxWorkers /\ MaxWorkers \in Nat /\ st.registered \in BOOLEAN
    BY Types DEF ReceiveInv, States
<1>2. worker.pc = "verified" /\ ~VerifierGone /\ st.owner # 0
    BY DEF ReceiveInv, Prove, WorkerOK, VerifierGone
<1>3. chunkCall = Null /\ chunkCall' = Null
    BY <1>2, CallBusy DEF ReceiveInv, Prove
<1>4. CallOK'
    BY <1>3 DEF CallOK
<1>5. CASE ~Unmoved
  <2>1. st' = st /\ synced' = synced /\ partial' = partial /\ ledger' = ledger /\ acked' = acked
        /\ chunkCall' = chunkCall
        /\ worker' = [worker EXCEPT !.pc = "failed"] /\ st.proof = Null
      BY <1>2, <1>5 DEF ReceiveInv, Prove, WorkerOK
  <2>2. worker' \in WorkerStates /\ worker'.pc = "failed"
      BY <1>1, <2>1 DEF WorkerStates
  <2>3. ReceiveTypeOK'
      BY <2>1, <2>2 DEF ReceiveInv, ReceiveTypeOK, WorkerStates
  <2>4. FilesOK'
      BY <2>1, FilesStay DEF ReceiveInv, FilesOK
  <2>5. WorkerOK' /\ ProofIsCurrent'
      BY <1>2, <2>1, <2>2 DEF WorkerOK, ProofIsCurrent
  <2> QED BY <1>4, <2>3, <2>4, <2>5 DEF ReceiveInv, FilesOK
<1>6. CASE Unmoved
  <2>r. PICK r : r = IF ledger = Null THEN <<>> ELSE Trimmed(ledger, st.count)
      OBVIOUS
  <2>p. PICK p : p = [nonce |-> st.owner, offset |-> st.offset, records |-> r]
      OBVIOUS
  <2>1. /\ st' = [st EXCEPT !.proof = p] /\ synced' = TRUE /\ worker' = [worker EXCEPT !.pc = "exiting"]
        /\ partial' = partial /\ ledger' = ledger /\ acked' = acked
      BY <1>6, <2>r, <2>p DEF Prove, Proof
  <2>2. \/ Absent
        \/ partial # Null /\ ledger # Null /\ Len(partial) = st.offset /\ Len(ledger) = st.count
      BY <1>6 DEF Unmoved
  <2>3. ledger # Null /\ ~Absent => ledger \in Seq(Lines) /\ r = ledger
    <3>1. SUFFICES ASSUME ledger # Null, ~Absent PROVE ledger \in Seq(Lines) /\ r = ledger
        OBVIOUS
    <3>2. ledger \in Seq(Lines) /\ Len(ledger) <= st.count
        BY <1>1, <2>2, <3>1
    <3> QED BY <1>1, <2>r, <3>1, <3>2, TrimKeeps
  <2>4. r \in Seq(Records)
    <3>1. CASE ledger = Null
        BY <2>r, <3>1
    <3>2. CASE ledger # Null
      <4>1. ~Absent
          BY <3>2 DEF Absent
      <4>2. \A i \in 1..st.count : ledger[i] \in Records
        <5>1. CASE st.registered
            BY <5>1 DEF ReceiveInv, StateOK, Prefix
        <5>2. CASE ~st.registered
          <6>1. st.count = 0
              BY <5>2 DEF ReceiveInv, StateOK
          <6> QED BY <6>1
        <5> QED BY <5>1, <5>2
      <4>3. Len(ledger) = st.count /\ ledger \in Seq(Lines) /\ r = ledger
          BY <2>2, <2>3, <3>2, <4>1
      <4> QED BY <4>2, <4>3
    <3> QED BY <3>1, <3>2
  <2>5. st.owner \in 1..MaxWorkers
      BY <1>1, <1>2
  <2>6. p \in Proofs
      BY <1>1, <2>4, <2>5, <2>p DEF Proofs
  <2>7. /\ st' \in States /\ st'.offset = st.offset /\ st'.count = st.count /\ st'.registered = st.registered
        /\ st'.proof = p /\ st'.owner = st.owner
      BY <1>1, <2>1, <2>6 DEF States
  <2>8. worker' \in WorkerStates /\ worker'.pc = "exiting"
      BY <1>1, <2>1 DEF WorkerStates
  <2>9. ReceiveTypeOK'
      BY <1>3, <2>1, <2>7, <2>8 DEF ReceiveInv, ReceiveTypeOK, WorkerStates, States
  <2>10. StateOK' /\ AckedOK'
      BY <2>1, <2>7 DEF ReceiveInv, StateOK, AckedOK, Prefix, Holds, Keeps
  <2>11. st.registered => ~Absent
      BY DEF Absent
  <2>12. SyncedOK'
      BY <2>1, <2>2, <2>7, <2>11 DEF SyncedOK
  <2>13. WorkerOK'
      BY <1>2, <2>7, <2>8 DEF WorkerOK
  <2>14. ProofIsCurrent'
    <3>1. st.registered => ledger # Null
        BY DEF ReceiveInv, StateOK
    <3>2. p.offset = st.offset /\ p.records = r
        BY <2>p
    <3> QED BY <2>1, <2>2, <2>3, <2>7, <2>11, <3>1, <3>2 DEF ProofIsCurrent
  <2> QED BY <1>4, <2>9, <2>10, <2>12, <2>13, <2>14 DEF ReceiveInv
<1> QED BY <1>5, <1>6

(* Cutting the files behind the saved prefix keeps it and what was told.   *)
LEMMA TrimmedFiles ==
    ASSUME ReceiveTypeOK, StateOK, AckedOK, NEW p, NEW l,
           p = partial \/ p = Trimmed(partial, st.offset), l = ledger \/ l = Trimmed(ledger, st.count)
    PROVE  /\ p \in Seq(Bytes) \cup {Null} /\ l \in Seq(Lines) \cup {Null}
           /\ st.registered => /\ p # Null /\ l # Null /\ Prefix(p, l, st.offset, st.count)
                               /\ p = Trimmed(partial, st.offset) => Len(p) = st.offset
                               /\ l = Trimmed(ledger, st.count) => Len(l) = st.count
           /\ acked # <<>> => Keeps(p, acked, Len(acked))
<1>1. /\ st.offset \in Nat /\ st.count \in Nat /\ partial \in Seq(Bytes) \cup {Null}
      /\ ledger \in Seq(Lines) \cup {Null} /\ Null \notin Seq(Bytes) /\ Null \notin Seq(Lines)
      /\ acked \in Seq(Bytes) /\ st.registered \in BOOLEAN
    BY Types
<1>2. Trimmed(Null, st.offset) = Null /\ Trimmed(Null, st.count) = Null
    BY DEF Trimmed
<1>3. p \in Seq(Bytes) \cup {Null}
  <2>1. partial \in Seq(Bytes) => Trimmed(partial, st.offset) \in Seq(Bytes)
    <3>1. st.offset \in Nat /\ Null \notin Seq(Bytes)
        BY <1>1
    <3> QED BY <3>1, TrimKeeps
  <2> QED BY <1>1, <1>2, <2>1
<1>4. l \in Seq(Lines) \cup {Null}
  <2>1. ledger \in Seq(Lines) => Trimmed(ledger, st.count) \in Seq(Lines)
    <3>1. st.count \in Nat /\ Null \notin Seq(Lines)
        BY <1>1
    <3> QED BY <3>1, TrimKeeps
  <2> QED BY <1>1, <1>2, <2>1
<1>5. ASSUME st.registered
      PROVE  /\ p # Null /\ l # Null /\ Prefix(p, l, st.offset, st.count) /\ Keeps(p, partial, st.offset)
             /\ p = Trimmed(partial, st.offset) => Len(p) = st.offset
             /\ l = Trimmed(ledger, st.count) => Len(l) = st.count
  <2>1. /\ partial \in Seq(Bytes) /\ ledger \in Seq(Lines) /\ Prefix(partial, ledger, st.offset, st.count)
        /\ partial # Null /\ ledger # Null
      BY <1>1, <1>5 DEF StateOK
  <2>2. st.offset <= Len(partial) /\ st.count <= Len(ledger)
      BY <2>1 DEF Prefix
  <2>3. /\ Trimmed(partial, st.offset) \in Seq(Bytes) /\ Len(Trimmed(partial, st.offset)) = st.offset
        /\ Keeps(Trimmed(partial, st.offset), partial, st.offset)
    <3>1. st.offset \in Nat /\ partial \in Seq(Bytes) /\ partial # Null /\ st.offset <= Len(partial)
        BY <1>1, <2>1, <2>2
    <3> QED BY <3>1, TrimKeeps
  <2>4. /\ Trimmed(ledger, st.count) \in Seq(Lines) /\ Len(Trimmed(ledger, st.count)) = st.count
        /\ Keeps(Trimmed(ledger, st.count), ledger, st.count)
    <3>1. st.count \in Nat /\ ledger \in Seq(Lines) /\ ledger # Null /\ st.count <= Len(ledger)
        BY <1>1, <2>1, <2>2
    <3> QED BY <3>1, TrimKeeps
  <2>5. Keeps(partial, partial, st.offset) /\ Keeps(ledger, ledger, st.count)
      BY <2>2 DEF Keeps
  <2>6. p \in Seq(Bytes) /\ l \in Seq(Lines) /\ Keeps(p, partial, st.offset) /\ Keeps(l, ledger, st.count)
      BY <2>1, <2>3, <2>4, <2>5
  <2>7. Prefix(p, l, st.offset, st.count)
      BY <1>1, <2>1, <2>6, PrefixSurvives
  <2> QED BY <1>1, <2>3, <2>4, <2>6, <2>7
<1>6. ASSUME acked # <<>> PROVE Keeps(p, acked, Len(acked))
  <2>n. PICK n \in Nat : n = Len(acked)
      BY <1>1
  <2>1. n # 0 /\ n <= st.offset
      BY <1>1, <1>6, <2>n DEF AckedOK
  <2>2. st.registered
      BY <1>1, <2>1 DEF StateOK
  <2>3. Keeps(p, partial, st.offset) /\ Keeps(partial, acked, n)
      BY <1>5, <1>6, <2>2, <2>n DEF AckedOK
  <2>4. p \in Seq(Bytes)
      BY <1>3, <1>5, <2>2
  <2>5. Keeps(p, acked, n)
    <3>1. n <= Len(p)
        BY <1>1, <2>1, <2>3, <2>4 DEF Keeps
    <3>2. ASSUME NEW j \in 1..n PROVE p[j] = acked[j]
      <4>1. j \in 1..st.offset
          BY <1>1, <2>1, <3>2
      <4> QED BY <2>3, <3>2, <4>1 DEF Keeps
    <3> QED BY <3>1, <3>2 DEF Keeps
  <2> QED BY <2>5, <2>n
<1> QED BY <1>3, <1>4, <1>5, <1>6

LEMMA TrimHolds == ASSUME ReceiveInv, Trim PROVE ReceiveInv'
<1>1. /\ st \in States /\ worker \in WorkerStates /\ st' = st /\ chunkCall' = chunkCall /\ acked' = acked
      /\ worker.offset = st.offset /\ worker.count = st.count /\ st.proof = Null /\ st.owner # 0 /\ ~VerifierGone
    BY Types DEF ReceiveInv, Trim, WorkerOK, VerifierGone
<1>2. chunkCall = Null /\ chunkCall' = Null
    BY <1>1, CallBusy DEF ReceiveInv
<1>3. /\ partial' = partial \/ partial' = Trimmed(partial, st.offset)
      /\ ledger' = ledger \/ ledger' = Trimmed(ledger, st.count)
    BY <1>1 DEF Trim
<1>4. worker' \in WorkerStates /\ worker'.offset = worker.offset /\ worker'.count = worker.count
      /\ worker'.pc \in {"trimmed", "verified"}
    BY <1>1 DEF Trim, WorkerStates
<1>p. PICK p, l : p = partial' /\ l = ledger'
    OBVIOUS
<1>5. /\ p \in Seq(Bytes) \cup {Null} /\ l \in Seq(Lines) \cup {Null}
      /\ st.registered => p # Null /\ l # Null /\ Prefix(p, l, st.offset, st.count)
      /\ acked # <<>> => Keeps(p, acked, Len(acked))
    BY <1>3, <1>p, TrimmedFiles DEF ReceiveInv
<1>6. ReceiveTypeOK'
  <2>1. synced' \in BOOLEAN
      BY DEF Trim
  <2> QED BY <1>1, <1>2, <1>4, <1>5, <1>p, <2>1 DEF ReceiveInv, ReceiveTypeOK, States, WorkerStates, Lines
<1>7. StateOK'
    BY <1>1, <1>5, <1>p DEF ReceiveInv, StateOK, Prefix, Holds
<1>8. AckedOK'
    BY <1>1, <1>5, <1>p DEF ReceiveInv, AckedOK, Keeps
<1>9. SyncedOK'
  <2>1. synced' => synced /\ partial' = partial /\ ledger' = ledger
      BY DEF Trim
  <2> QED BY <1>1, <2>1 DEF ReceiveInv, SyncedOK
<1>10. CallOK' /\ WorkerOK' /\ ProofIsCurrent'
    BY <1>1, <1>2, <1>4 DEF CallOK, WorkerOK, ProofIsCurrent
<1> QED BY <1>6, <1>7, <1>8, <1>9, <1>10 DEF ReceiveInv

(* What a chunk call or a status reads, it has cut to the saved prefix     *)
(* unless the files are known to be unchanged.                             *)
LEMMA CutFiles ==
    ASSUME ReceiveInv, TrimUnlessSynced, st' = st, synced' = synced
    PROVE  /\ partial' \in Seq(Bytes) \cup {Null} /\ ledger' \in Seq(Lines) \cup {Null}
           /\ StateOK' /\ SyncedOK' /\ ProofIsCurrent'
           /\ st.registered => /\ partial' # Null /\ ledger' # Null
                               /\ Len(partial') = st.offset /\ Len(ledger') = st.count
           /\ acked # <<>> => Keeps(partial', acked, Len(acked))
           /\ partial = Null => partial' = Null
<1>p. PICK p, l : p = partial' /\ l = ledger'
    OBVIOUS
<1>1. /\ p = partial \/ p = Trimmed(partial, st.offset)
      /\ l = ledger \/ l = Trimmed(ledger, st.count)
      /\ synced => p = partial /\ l = ledger
      /\ st.registered /\ ~synced => p = Trimmed(partial, st.offset) /\ l = Trimmed(ledger, st.count)
    BY <1>p DEF TrimUnlessSynced, Absent
<1>2. /\ p \in Seq(Bytes) \cup {Null} /\ l \in Seq(Lines) \cup {Null}
      /\ st.registered => /\ p # Null /\ l # Null /\ Prefix(p, l, st.offset, st.count)
                          /\ p = Trimmed(partial, st.offset) => Len(p) = st.offset
                          /\ l = Trimmed(ledger, st.count) => Len(l) = st.count
      /\ acked # <<>> => Keeps(p, acked, Len(acked))
    BY <1>1, TrimmedFiles DEF ReceiveInv
<1>3. StateOK'
    BY <1>2, <1>p DEF ReceiveInv, StateOK, Prefix, Holds
<1>4. st.registered => Len(p) = st.offset /\ Len(l) = st.count
    BY <1>1, <1>2 DEF ReceiveInv, SyncedOK
<1>5. SyncedOK'
    BY <1>4, <1>p DEF SyncedOK
<1>6. ProofIsCurrent'
    BY <1>1, <1>p DEF ReceiveInv, ProofIsCurrent
<1>7. partial = Null => p = Null
    BY <1>1 DEF Trimmed
<1> QED BY <1>2, <1>3, <1>4, <1>5, <1>6, <1>7, <1>p

LEMMA AcceptHolds == ASSUME ReceiveInv, NEW chunks \in Batches, Accept(chunks) PROVE ReceiveInv'
<1>1. /\ st' = st /\ synced' = synced /\ acked' = acked /\ worker' = worker /\ VerifierGone
      /\ st.offset + Total(chunks) <= Size /\ ShortVerifies /\ TrimUnlessSynced
    BY DEF Accept
<1>2. /\ partial' \in Seq(Bytes) \cup {Null} /\ ledger' \in Seq(Lines) \cup {Null}
      /\ StateOK' /\ SyncedOK' /\ ProofIsCurrent'
      /\ st.registered => /\ partial' # Null /\ ledger' # Null
                          /\ Len(partial') = st.offset /\ Len(ledger') = st.count
      /\ acked # <<>> => Keeps(partial', acked, Len(acked))
    BY <1>1, CutFiles
<1>pc. PICK pc : pc = IF partial = Null THEN "create_partial" ELSE "register"
    OBVIOUS
<1>3. chunkCall' = [pc |-> pc, chunks |-> chunks] /\ pc \in CallPcs
    BY <1>pc DEF Accept, CallPcs
<1>4. chunkCall' \in ChunkCalls /\ chunkCall'.pc = pc /\ chunkCall'.chunks = chunks
    BY <1>3 DEF ChunkCalls
<1>5. ReceiveTypeOK'
  <2>1. /\ st' \in States /\ worker' \in WorkerStates /\ synced' \in BOOLEAN /\ acked' \in Seq(Bytes)
      BY <1>1, Types DEF ReceiveInv
  <2> QED BY <1>2, <1>4, <2>1 DEF ReceiveTypeOK, States, WorkerStates, Lines
<1>6. CallOK'
  <2>1. CASE partial = Null
    <3>1. ~st.registered /\ pc = "create_partial"
        BY <2>1, <1>pc DEF ReceiveInv, StateOK
    <3> QED BY <1>1, <1>4, <3>1 DEF CallOK, VerifierGone, Total
  <2>2. CASE partial # Null
    <3>1. st.registered /\ pc = "register"
        BY <1>1, <2>2, <1>pc DEF ShortVerifies, Absent
    <3> QED BY <1>1, <1>2, <1>4, <3>1 DEF CallOK, VerifierGone, Total
  <2> QED BY <2>1, <2>2
<1>7. AckedOK' /\ WorkerOK'
    BY <1>1, <1>2 DEF ReceiveInv, AckedOK, WorkerOK, Keeps, VerifierGone
<1> QED BY <1>2, <1>5, <1>6, <1>7 DEF ReceiveInv

LEMMA ReplayHolds ==
    ASSUME ReceiveInv, NEW offset \in 0..Size, NEW data \in Chunks, Replay(offset, data)
    PROVE  ReceiveInv'
<1>1. /\ st' = st /\ synced' = synced /\ chunkCall = Null /\ chunkCall' = Null /\ worker' = worker
      /\ offset + Len(data) <= st.offset /\ ShortVerifies /\ TrimUnlessSynced
      /\ acked' = Trimmed(partial, st.offset)
    BY DEF Replay
<1>2. /\ partial' \in Seq(Bytes) \cup {Null} /\ ledger' \in Seq(Lines) \cup {Null}
      /\ StateOK' /\ SyncedOK' /\ ProofIsCurrent'
      /\ st.registered => /\ partial' # Null /\ ledger' # Null
                          /\ Len(partial') = st.offset /\ Len(ledger') = st.count
    BY <1>1, CutFiles
<1>3. st.registered
  <2>1. Size \in Nat /\ MaxChunk \in Nat
      BY BoundsAssumption
  <2>2. PICK m \in 1..MaxChunk : data \in [1..m -> Bytes]
      BY DEF Chunks
  <2>3. Len(data) = m /\ m \in Nat /\ m # 0
      BY <2>1, <2>2
  <2>4. st.offset # 0
      BY <1>1, <2>1, <2>3
  <2> QED BY <2>4 DEF ReceiveInv, StateOK
<1>4. /\ partial \in Seq(Bytes) /\ partial # Null /\ st.offset \in Nat /\ st.offset <= Len(partial)
    BY <1>3, Types DEF ReceiveInv, StateOK, Prefix
<1>a. PICK a : a = acked'
    OBVIOUS
<1>5. a \in Seq(Bytes) /\ Len(a) = st.offset /\ Keeps(a, partial, st.offset)
    BY <1>1, <1>4, <1>a, TrimKeeps
<1>p. PICK p : p = partial'
    OBVIOUS
<1>6. p = partial \/ p = a
    BY <1>1, <1>a, <1>p DEF TrimUnlessSynced
<1>7. Keeps(p, a, st.offset)
    BY <1>4, <1>5, <1>6 DEF Keeps
<1>8. AckedOK'
    BY <1>1, <1>4, <1>5, <1>7, <1>a, <1>p DEF AckedOK, Keeps
<1>9. ReceiveTypeOK'
  <2>1. /\ st' \in States /\ worker' \in WorkerStates /\ synced' \in BOOLEAN
      BY <1>1, Types DEF ReceiveInv
  <2> QED BY <1>1, <1>2, <1>5, <1>a, <2>1 DEF ReceiveTypeOK, States, WorkerStates, Lines
<1>10. CallOK' /\ WorkerOK'
    BY <1>1 DEF ReceiveInv, CallOK, WorkerOK, VerifierGone
<1> QED BY <1>2, <1>8, <1>9, <1>10 DEF ReceiveInv

LEMMA CallFacts ==
    ASSUME ReceiveTypeOK, chunkCall # Null
    PROVE  /\ chunkCall \in ChunkCalls /\ chunkCall.pc \in CallPcs /\ chunkCall.chunks \in Batches
           /\ Data \in Seq(Bytes) /\ Total(chunkCall.chunks) = Len(Data) /\ Data = FlattenSeq(chunkCall.chunks)
           /\ Len(chunkCall.chunks) \in Nat /\ Len(chunkCall.chunks) # 0 /\ Len(chunkCall.chunks) <= Len(Data)
<1>1. chunkCall \in ChunkCalls
    BY Types
<1>2. chunkCall.pc \in CallPcs /\ chunkCall.chunks \in Batches
    BY <1>1 DEF ChunkCalls
<1>3. Data = FlattenSeq(chunkCall.chunks) /\ Total(chunkCall.chunks) = Len(Data)
    BY DEF Data, Total
<1> QED BY <1>1, <1>2, <1>3, BatchFacts, BatchCounts

LEMMA GoesOn ==
    ASSUME ReceiveTypeOK, chunkCall # Null, NEW pc \in CallPcs, CallGoes(pc)
    PROVE  /\ chunkCall' \in ChunkCalls /\ chunkCall' # Null /\ chunkCall'.pc = pc
           /\ chunkCall'.chunks = chunkCall.chunks
           /\ Data' = Data /\ Total(chunkCall'.chunks) = Total(chunkCall.chunks)
<1>1. chunkCall \in ChunkCalls /\ Null \notin ChunkCalls
    BY Types
<1>2. chunkCall' \in ChunkCalls /\ chunkCall'.pc = pc /\ chunkCall'.chunks = chunkCall.chunks
    BY <1>1 DEF CallGoes, ChunkCalls
<1> QED BY <1>1, <1>2 DEF Data, Total

LEMMA CreatePartialHolds == ASSUME ReceiveInv, CreatePartial PROVE ReceiveInv'
<1>1. /\ chunkCall # Null /\ chunkCall.pc = "create_partial" /\ CallGoes("create_ledger") /\ "create_ledger" \in CallPcs
      /\ partial' = <<>> /\ synced' = FALSE /\ st' = st /\ ledger' = ledger /\ worker' = worker /\ acked' = acked
    BY DEF CreatePartial, CallAt, CallPcs
<1>2. /\ chunkCall' \in ChunkCalls /\ chunkCall' # Null /\ chunkCall'.pc = "create_ledger"
      /\ chunkCall'.chunks = chunkCall.chunks
      /\ Total(chunkCall'.chunks) = Total(chunkCall.chunks)
    BY <1>1, GoesOn DEF ReceiveInv
<1>3. ~st.registered /\ st.offset = 0 /\ VerifierGone /\ st.offset + Total(chunkCall.chunks) <= Size
    BY <1>1 DEF ReceiveInv, CallOK, StateOK
<1>4. <<>> \in Seq(Bytes) /\ <<>> # Null /\ acked \in Seq(Bytes)
  <2>1. <<>> \in Seq(Bytes)
      OBVIOUS
  <2>2. Null \notin Seq(Bytes) /\ acked \in Seq(Bytes)
      BY Types DEF ReceiveInv
  <2> QED BY <2>1, <2>2
<1>5. ReceiveTypeOK'
    BY <1>1, <1>2, <1>4 DEF ReceiveInv, ReceiveTypeOK
<1>6. StateOK' /\ SyncedOK' /\ ProofIsCurrent' /\ WorkerOK'
    BY <1>1, <1>3 DEF ReceiveInv, StateOK, SyncedOK, ProofIsCurrent, WorkerOK, VerifierGone
<1>7. AckedOK'
  <2>1. Len(acked) <= 0
      BY <1>3 DEF ReceiveInv, AckedOK
  <2>2. acked = <<>>
      BY <1>4, <2>1
  <2> QED BY <1>1, <1>3, <2>1, <2>2 DEF AckedOK
<1>8. CallOK'
    BY <1>1, <1>2, <1>3, <1>4 DEF CallOK, VerifierGone, Total
<1> QED BY <1>5, <1>6, <1>7, <1>8 DEF ReceiveInv

LEMMA CreateLedgerHolds == ASSUME ReceiveInv, CreateLedger PROVE ReceiveInv'
<1>1. /\ chunkCall # Null /\ chunkCall.pc = "create_ledger" /\ CallGoes("register") /\ "register" \in CallPcs
      /\ ledger' = <<>> /\ synced' = FALSE /\ st' = st /\ partial' = partial /\ worker' = worker /\ acked' = acked
    BY DEF CreateLedger, CallAt, CallPcs
<1>2. /\ chunkCall' \in ChunkCalls /\ chunkCall' # Null /\ chunkCall'.pc = "register"
      /\ chunkCall'.chunks = chunkCall.chunks
      /\ Total(chunkCall'.chunks) = Total(chunkCall.chunks)
    BY <1>1, GoesOn DEF ReceiveInv
<1>3. /\ ~st.registered /\ st.offset = 0 /\ st.count = 0 /\ VerifierGone /\ partial = <<>> /\ partial # Null
      /\ st.offset + Total(chunkCall.chunks) <= Size
    BY <1>1 DEF ReceiveInv, CallOK, StateOK
<1>4. <<>> \in Seq(Lines) /\ <<>> # Null /\ acked \in Seq(Bytes)
  <2>1. <<>> \in Seq(Lines)
      OBVIOUS
  <2>2. Null \notin Seq(Lines) /\ acked \in Seq(Bytes)
      BY Types DEF ReceiveInv
  <2> QED BY <2>1, <2>2
<1>5. ReceiveTypeOK'
    BY <1>1, <1>2, <1>4 DEF ReceiveInv, ReceiveTypeOK, Lines
<1>6. StateOK' /\ SyncedOK' /\ ProofIsCurrent' /\ WorkerOK' /\ AckedOK'
    BY <1>1, <1>3 DEF ReceiveInv, StateOK, SyncedOK, ProofIsCurrent, WorkerOK, AckedOK, Keeps, VerifierGone
<1>8. CallOK'
    BY <1>1, <1>2, <1>3, <1>4 DEF CallOK, VerifierGone, Total
<1> QED BY <1>5, <1>6, <1>8 DEF ReceiveInv

LEMMA RegisterHolds == ASSUME ReceiveInv, Register PROVE ReceiveInv'
<1>1. /\ chunkCall # Null /\ chunkCall.pc = "register" /\ CallGoes("write") /\ "write" \in CallPcs
      /\ synced' = TRUE /\ st' = [st EXCEPT !.registered = TRUE, !.proof = Null]
      /\ ledger' = ledger /\ partial' = partial /\ worker' = worker /\ acked' = acked
    BY DEF Register, CallAt, CallPcs
<1>2. /\ chunkCall' \in ChunkCalls /\ chunkCall' # Null /\ chunkCall'.pc = "write"
      /\ chunkCall'.chunks = chunkCall.chunks
      /\ Total(chunkCall'.chunks) = Total(chunkCall.chunks)
    BY <1>1, GoesOn DEF ReceiveInv
<1>3. /\ VerifierGone /\ partial # Null /\ ledger # Null /\ Len(partial) = st.offset /\ Len(ledger) = st.count
      /\ st.offset + Total(chunkCall.chunks) <= Size
    BY <1>1 DEF ReceiveInv, CallOK
<1>4. /\ st' \in States /\ st'.offset = st.offset /\ st'.count = st.count /\ st'.registered = TRUE
      /\ st'.proof = Null /\ st'.owner = st.owner
    BY <1>1, Types DEF ReceiveInv, States
<1>5. ReceiveTypeOK'
    BY <1>1, <1>2, <1>4 DEF ReceiveInv, ReceiveTypeOK, States
<1>6. Prefix(partial, ledger, st.offset, st.count)
  <2>1. CASE st.registered
      BY <2>1 DEF ReceiveInv, StateOK
  <2>2. CASE ~st.registered
    <3>1. st.offset = 0 /\ st.count = 0 /\ Len(partial) = 0 /\ Len(ledger) = 0
        BY <1>3, <2>2 DEF ReceiveInv, StateOK
    <3> QED BY <3>1 DEF Prefix
  <2> QED BY <2>1, <2>2
<1>7. StateOK' /\ SyncedOK' /\ ProofIsCurrent' /\ AckedOK'
    BY <1>1, <1>3, <1>4, <1>6 DEF ReceiveInv, StateOK, SyncedOK, ProofIsCurrent, AckedOK, Keeps, Prefix, Holds
<1>8. CallOK' /\ WorkerOK'
    BY <1>1, <1>2, <1>3, <1>4 DEF CallOK, VerifierGone, WorkerOK, Total
<1> QED BY <1>5, <1>7, <1>8 DEF ReceiveInv

(* Bytes behind the saved prefix change nothing of what was told.          *)
LEMMA AckedKept ==
    ASSUME ReceiveTypeOK, StateOK, AckedOK, NEW q \in Seq(Bytes), Keeps(q, partial, st.offset), acked # <<>>
    PROVE  Keeps(q, acked, Len(acked))
<1>n. PICK n \in Nat : n = Len(acked)
    BY Types
<1>1. n <= st.offset /\ st.offset \in Nat /\ Keeps(partial, acked, n)
    BY <1>n, Types DEF AckedOK
<1>2. ASSUME NEW j \in 1..n PROVE q[j] = acked[j]
  <2>1. j \in 1..st.offset
      BY <1>1, <1>2
  <2> QED BY <1>1, <1>2, <2>1 DEF Keeps
<1>3. n <= Len(q)
    BY <1>1 DEF Keeps
<1> QED BY <1>n, <1>2, <1>3 DEF Keeps

(* Appending the first n bytes of f.                                       *)
LEMMA Appended ==
    ASSUME NEW S, NEW p \in Seq(S), NEW f \in Seq(S), NEW n \in 0..Len(f)
    PROVE  /\ p \o SubSeq(f, 1, n) \in Seq(S) /\ Len(p \o SubSeq(f, 1, n)) = Len(p) + n
           /\ Keeps(p \o SubSeq(f, 1, n), p, Len(p))
           /\ \A j \in 1..n : (p \o SubSeq(f, 1, n))[Len(p) + j] = f[j]
<1>s. PICK s : s = SubSeq(f, 1, n)
    OBVIOUS
<1>1. s \in Seq(S) /\ Len(s) = n /\ \A j \in 1..n : s[j] = f[j]
    BY <1>s
<1>q. PICK q : q = p \o s
    OBVIOUS
<1>2. q \in Seq(S) /\ Len(q) = Len(p) + n /\ \A j \in 1..Len(p) : q[j] = p[j]
  <2>0. s \in Seq(S)
      BY <1>1
  <2>1. p \o s \in Seq(S) /\ Len(p \o s) = Len(p) + Len(s)
      BY <2>0
  <2>2. \A j \in 1..Len(p) : q[j] = p[j]
      BY <1>1, <1>q
  <2> QED BY <1>1, <1>q, <2>1, <2>2
<1>3. ASSUME NEW j \in 1..n PROVE q[Len(p) + j] = f[j]
  <2>1. s[j] = f[j] /\ n \in Nat /\ Len(p) \in Nat
      BY <1>1, <1>3
  <2>i. PICK i : i = Len(p) + j
      OBVIOUS
  <2>2. i \in Nat /\ Len(p) < i /\ i <= Len(p) + Len(s) /\ i - Len(p) = j
      BY <1>1, <1>3, <2>1, <2>i
  <2>3. q[i] = s[i - Len(p)]
      BY <1>1, <1>q, <2>2
  <2> QED BY <2>1, <2>2, <2>3, <2>i
<1>4. Keeps(q, p, Len(p))
    BY <1>2 DEF Keeps
<1> QED BY <1>2, <1>3, <1>4, <1>q, <1>s

LEMMA WriteHolds == ASSUME ReceiveInv, NEW n \in 0..Size, Write(n) PROVE ReceiveInv'
<1>1. /\ chunkCall # Null /\ chunkCall.pc = "write" /\ n \in 0..Len(Data) /\ synced' = (synced /\ n = 0)
      /\ partial' = Trimmed(partial, st.offset) \o SubSeq(Data, 1, n)
      /\ st' = st /\ ledger' = ledger /\ worker' = worker /\ acked' = acked
      /\ (n = Len(Data) /\ CallGoes("record")) \/ (n < Len(Data) /\ chunkCall' = Null)
    BY DEF Write, CallAt
<1>2. /\ Data \in Seq(Bytes) /\ Len(Data) \in Nat /\ Total(chunkCall.chunks) = Len(Data)
    BY <1>1, CallFacts DEF ReceiveInv
<1>3. /\ VerifierGone /\ partial # Null /\ ledger # Null /\ Len(partial) = st.offset /\ Len(ledger) = st.count
      /\ st.offset + Total(chunkCall.chunks) <= Size /\ st.registered /\ st.proof = Null
    BY <1>1 DEF ReceiveInv, CallOK
<1>4. /\ partial \in Seq(Bytes) /\ st.offset \in Nat /\ st.count \in Nat /\ ledger \in Seq(Lines)
      /\ synced \in BOOLEAN /\ Null \notin Seq(Bytes)
    BY <1>3, Types DEF ReceiveInv
<1>5. Trimmed(partial, st.offset) = partial
    BY <1>3, <1>4 DEF Trimmed
<1>q. PICK q : q = partial'
    OBVIOUS
<1>6. /\ q \in Seq(Bytes) /\ Len(q) = st.offset + n /\ Keeps(q, partial, st.offset)
      /\ \A j \in 1..n : q[st.offset + j] = Data[j]
  <2>d. PICK d : d = Data
      OBVIOUS
  <2>1. d \in Seq(Bytes) /\ n \in 0..Len(d) /\ q = partial \o SubSeq(d, 1, n)
      BY <1>1, <1>2, <1>5, <1>q, <2>d
  <2>2. /\ q \in Seq(Bytes) /\ Len(q) = Len(partial) + n /\ Keeps(q, partial, Len(partial))
        /\ \A j \in 1..n : q[Len(partial) + j] = d[j]
      BY <1>4, <2>1, Appended
  <2> QED BY <1>3, <2>2, <2>d
<1>7. q # Null
    BY <1>4, <1>6
<1>8. Prefix(q, ledger, st.offset, st.count)
  <2>1. Prefix(partial, ledger, st.offset, st.count)
      BY <1>3 DEF ReceiveInv, StateOK
  <2>2. Keeps(ledger, ledger, st.count)
    <3>1. st.count <= Len(ledger)
      <4>1. Len(ledger) = st.count
          BY <1>3, Zenon
      <4>2. st.count \in Nat
          BY <1>4, Zenon
      <4> QED BY <4>1, <4>2
    <3> QED BY <3>1 DEF Keeps
  <2> QED BY <1>4, <1>6, <2>2, <2>1, PrefixSurvives
<1>9. StateOK'
    BY <1>1, <1>3, <1>7, <1>8, <1>q DEF ReceiveInv, StateOK, Prefix, Holds
<1>10. AckedOK'
  <2>1. acked # <<>> => Keeps(q, acked, Len(acked))
      BY <1>6, AckedKept DEF ReceiveInv
  <2> QED BY <1>1, <1>q, <2>1 DEF ReceiveInv, AckedOK, Keeps
<1>11. SyncedOK'
  <2>1. synced' => n = 0
      BY <1>1
  <2>2. n = 0 => Len(q) = st.offset
      BY <1>4, <1>6
  <2> QED BY <1>1, <1>3, <1>q, <2>1, <2>2 DEF SyncedOK
<1>12. WorkerOK' /\ ProofIsCurrent'
    BY <1>1, <1>3 DEF ReceiveInv, WorkerOK, ProofIsCurrent, VerifierGone
<1>13. chunkCall' \in ChunkCalls \cup {Null} /\ CallOK'
  <2>1. CASE n < Len(Data) /\ chunkCall' = Null
      BY <2>1 DEF CallOK
  <2>2. CASE n = Len(Data) /\ CallGoes("record")
    <3>1. /\ chunkCall' \in ChunkCalls /\ chunkCall' # Null /\ chunkCall'.pc = "record"
          /\ chunkCall'.chunks = chunkCall.chunks
          /\ Data' = Data /\ Total(chunkCall'.chunks) = Total(chunkCall.chunks)
        BY <1>1, <2>2, GoesOn DEF ReceiveInv, CallPcs
    <3>2. Len(q) = st.offset + Len(Data) /\ Holds(q, st.offset, Data)
        BY <1>4, <1>6, <2>2 DEF Holds
    <3>3. Lies'
        BY <1>1, <1>q, <3>1, <3>2 DEF Lies, Holds
    <3> QED BY <1>1, <1>3, <1>7, <1>q, <3>1, <3>3 DEF CallOK, VerifierGone, Total
  <2> QED BY <1>1, <2>1, <2>2
<1>14. ReceiveTypeOK'
  <2>1. synced' \in BOOLEAN
      BY <1>1
  <2> QED BY <1>1, <1>6, <1>13, <1>q, <2>1 DEF ReceiveInv, ReceiveTypeOK
<1> QED BY <1>9, <1>10, <1>11, <1>12, <1>13, <1>14 DEF ReceiveInv

(* The records of a batch are lines of the ledger.                         *)
LEMMA NewLines ==
    ASSUME ReceiveTypeOK, chunkCall # Null, st.offset + Total(chunkCall.chunks) <= Size
    PROVE  /\ NewRecords \in Seq(Records) /\ Len(NewRecords) = Len(chunkCall.chunks)
           /\ \A i \in 1..Len(chunkCall.chunks) : NewRecords[i] = Line(st.offset, chunkCall.chunks, i)
<1>c. PICK c : c = chunkCall.chunks
    OBVIOUS
<1>1. /\ c \in Batches /\ Len(c) \in Nat /\ Total(c) = Len(FlattenSeq(c)) /\ FlattenSeq(c) \in Seq(Bytes)
      /\ st.offset \in Nat /\ Size \in Nat
    BY <1>c, CallFacts, Types
<1>2. NewRecords = [i \in 1..Len(c) |-> Line(st.offset, c, i)]
    BY <1>c DEF NewRecords, Line, Total, Upto
<1>3. ASSUME NEW i \in 1..Len(c) PROVE Line(st.offset, c, i) \in Records
  <2>k. PICK k : k = i - 1
      OBVIOUS
  <2>1. k \in Nat /\ k < Len(c) /\ k + 1 = i
      BY <1>1, <1>3, <2>k
  <2>2. /\ Upto(c, k) \in Seq(Bytes) /\ Len(Upto(c, i)) = Len(Upto(c, k)) + Len(c[i])
        /\ Len(Upto(c, i)) <= Len(FlattenSeq(c))
      BY <1>1, <2>1, ChunkLies
  <2>3. c[i] \in Chunks /\ Len(c[i]) \in Nat
      BY <1>1, <1>3, BatchFacts
  <2>x. PICK x \in Nat, y \in Nat : x = Len(Upto(c, k)) /\ y = Len(FlattenSeq(c))
      BY <1>1, <2>2
  <2>z. PICK z \in Nat : z = Len(c[i])
      BY <2>3
  <2>4. x <= y /\ st.offset + y <= Size
    <3>1. x + z <= y
        BY <2>2, <2>x, <2>z
    <3>2. st.offset + y <= Size
        BY <1>1, <1>c, <2>x
    <3> QED BY <3>1, <3>2, <2>x, <2>z
  <2>5. st.offset + x \in 0..Size
      BY <1>1, <2>4
  <2> QED BY <2>3, <2>5, <2>x, <2>k DEF Line, Records
<1>4. NewRecords \in Seq(Records) /\ Len(NewRecords) = Len(c)
    BY <1>1, <1>2, <1>3
<1>5. \A i \in 1..Len(c) : NewRecords[i] = Line(st.offset, c, i)
    BY <1>2
<1> QED BY <1>4, <1>5, <1>c

LEMMA RecordHolds ==
    ASSUME ReceiveInv, NEW n \in 0..MaxBatch, NEW torn \in {<<>>, <<Torn>>}, Record(n, torn)
    PROVE  ReceiveInv'
<1>r. PICK r : r = NewRecords
    OBVIOUS
<1>1. /\ chunkCall # Null /\ chunkCall.pc = "record" /\ n \in 0..Len(r) /\ synced' = FALSE
      /\ ledger' = ledger \o SubSeq(r, 1, n) \o torn
      /\ st' = st /\ partial' = partial /\ worker' = worker /\ acked' = acked
      /\ (n = Len(r) /\ torn = <<>> /\ CallGoes("save")) \/ (n < Len(r) /\ chunkCall' = Null)
    BY <1>r DEF Record, CallAt
<1>2. /\ VerifierGone /\ partial # Null /\ ledger # Null /\ Len(ledger) = st.count /\ Lies
      /\ st.offset + Total(chunkCall.chunks) <= Size /\ st.registered /\ st.proof = Null
    BY <1>1 DEF ReceiveInv, CallOK
<1>3. /\ partial \in Seq(Bytes) /\ st.offset \in Nat /\ st.count \in Nat /\ ledger \in Seq(Lines)
      /\ Null \notin Seq(Lines)
    BY <1>2, Types DEF ReceiveInv
<1>4. /\ r \in Seq(Records) /\ Len(r) = Len(chunkCall.chunks)
      /\ \A i \in 1..Len(chunkCall.chunks) : r[i] = Line(st.offset, chunkCall.chunks, i)
    BY <1>1, <1>2, <1>r, NewLines DEF ReceiveInv
<1>5. r \in Seq(Lines) /\ Len(chunkCall.chunks) \in Nat /\ torn \in Seq(Lines)
  <2>1. Len(chunkCall.chunks) \in Nat
      BY <1>1, CallFacts DEF ReceiveInv
  <2>2. r \in Seq(Lines)
      BY <1>4 DEF Lines
  <2>3. Torn \in Lines
      BY DEF Lines
  <2>4. <<Torn>> \in Seq(Lines) /\ <<>> \in Seq(Lines)
      BY <2>3
  <2> QED BY <2>1, <2>2, <2>4
<1>k. PICK k : k = ledger \o SubSeq(r, 1, n)
    OBVIOUS
<1>6. /\ k \in Seq(Lines) /\ Len(k) = st.count + n /\ Keeps(k, ledger, st.count)
      /\ \A j \in 1..n : k[st.count + j] = r[j]
  <2>1. /\ k \in Seq(Lines) /\ Len(k) = Len(ledger) + n /\ Keeps(k, ledger, Len(ledger))
        /\ \A j \in 1..n : k[Len(ledger) + j] = r[j]
    <3>1. n \in 0..Len(r) /\ r \in Seq(Lines) /\ ledger \in Seq(Lines) /\ k = ledger \o SubSeq(r, 1, n)
        BY <1>1, <1>3, <1>5, <1>k
    <3> QED BY <3>1, Appended
  <2> QED BY <1>2, <2>1
<1>l. PICK l : l = ledger'
    OBVIOUS
<1>7. l \in Seq(Lines) /\ Keeps(l, ledger, st.count) /\ (torn = <<>> => l = k)
  <2>1. l = k \o torn /\ l \in Seq(Lines)
      BY <1>1, <1>5, <1>6, <1>k, <1>l
  <2>2. Len(l) = Len(k) + Len(torn) /\ \A j \in 1..Len(k) : l[j] = k[j]
    <3>1. k \in Seq(Lines) /\ torn \in Seq(Lines)
        BY <1>5, <1>6
    <3> QED BY <2>1, <3>1
  <2>3. Keeps(l, ledger, st.count)
    <3>1. st.count <= Len(l) /\ Len(torn) \in Nat /\ Len(k) \in Nat
      <4>1. Len(torn) \in Nat /\ Len(k) \in Nat
          BY <1>5, <1>6
      <4>2. n \in Nat /\ Len(k) = st.count + n /\ Len(l) = Len(k) + Len(torn)
          BY <1>4, <1>6, <2>2
      <4> QED BY <1>3, <4>1, <4>2
    <3>2. ASSUME NEW j \in 1..st.count PROVE l[j] = ledger[j]
      <4>1. j \in 1..Len(k)
          BY <1>1, <1>3, <1>6, <3>2
      <4> QED BY <1>6, <2>2, <3>2, <4>1 DEF Keeps
    <3> QED BY <3>1, <3>2 DEF Keeps
  <2>4. torn = <<>> => l = k
      BY <1>6, <2>1
  <2> QED BY <2>1, <2>3, <2>4
<1>8. l # Null
    BY <1>3, <1>7
<1>9. Prefix(partial, l, st.offset, st.count)
  <2>1. Keeps(partial, partial, st.offset) /\ Prefix(partial, ledger, st.offset, st.count)
      BY <1>2 DEF ReceiveInv, StateOK, Keeps, Prefix
  <2> QED BY <1>3, <1>7, <2>1, PrefixSurvives
<1>10. StateOK' /\ SyncedOK' /\ AckedOK'
  <2>1. StateOK'
    <3>1. st.count <= st.offset
        BY DEF ReceiveInv, StateOK
    <3>2. Prefix(partial', ledger', st.offset, st.count)
      <4>1. partial' = partial /\ ledger' = l
          BY <1>1, <1>l, Zenon
      <4> QED BY <1>9, <4>1
    <3>3. /\ st.registered' /\ partial' # Null /\ ledger' # Null
          /\ Prefix(partial, ledger, st.offset, st.count)'
        BY <1>1, <1>2, <1>8, <1>l, <3>2 DEF Prefix, Holds
    <3> QED BY <1>1, <3>1, <3>3 DEF StateOK
  <2>2. SyncedOK'
      BY <1>1 DEF SyncedOK
  <2>3. AckedOK'
      BY <1>1 DEF ReceiveInv, AckedOK, Keeps
  <2> QED BY <2>1, <2>2, <2>3
<1>11. WorkerOK' /\ ProofIsCurrent'
    BY <1>1, <1>2 DEF ReceiveInv, WorkerOK, ProofIsCurrent, VerifierGone
<1>12. chunkCall' \in ChunkCalls \cup {Null} /\ CallOK'
  <2>1. CASE n < Len(r) /\ chunkCall' = Null
      BY <2>1 DEF CallOK
  <2>2. CASE n = Len(r) /\ torn = <<>> /\ CallGoes("save")
    <3>1. /\ chunkCall' \in ChunkCalls /\ chunkCall' # Null /\ chunkCall'.pc = "save"
          /\ chunkCall'.chunks = chunkCall.chunks
          /\ Data' = Data /\ Total(chunkCall'.chunks) = Total(chunkCall.chunks)
        BY <1>1, <2>2, GoesOn DEF ReceiveInv, CallPcs
    <3>2. /\ Len(l) = st.count + Len(chunkCall.chunks)
          /\ \A i \in 1..Len(chunkCall.chunks) : l[st.count + i] = Line(st.offset, chunkCall.chunks, i)
        BY <1>4, <1>6, <1>7, <2>2
    <3>3. Lies'
        BY <1>1, <1>2, <3>1 DEF Lies, Holds
    <3> QED BY <1>1, <1>2, <1>8, <1>l, <3>1, <3>2, <3>3 DEF CallOK, VerifierGone, Total, Line, Upto
  <2> QED BY <1>1, <2>1, <2>2
<1>13. ReceiveTypeOK'
    BY <1>1, <1>7, <1>12, <1>l DEF ReceiveInv, ReceiveTypeOK, Lines
<1> QED BY <1>10, <1>11, <1>12, <1>13 DEF ReceiveInv

LEMMA SaveHolds == ASSUME ReceiveInv, Save PROVE ReceiveInv'
<1>d. PICK d, k : d = Len(Data) /\ k = Len(chunkCall.chunks)
    OBVIOUS
<1>1. /\ chunkCall # Null /\ chunkCall.pc = "save" /\ synced' = TRUE /\ st' = Saved /\ chunkCall' = Null
      /\ acked' \in {acked, Trimmed(partial, Saved.offset)}
      /\ partial' = partial /\ ledger' = ledger /\ worker' = worker
    BY DEF Save, CallAt
<1>2. /\ Data \in Seq(Bytes) /\ d \in Nat /\ Total(chunkCall.chunks) = d /\ Data = FlattenSeq(chunkCall.chunks)
      /\ chunkCall.chunks \in Batches /\ k \in Nat /\ k <= d
    BY <1>1, <1>d, CallFacts DEF ReceiveInv
<1>3. /\ VerifierGone /\ partial # Null /\ ledger # Null /\ Lies /\ Len(ledger) = st.count + k
      /\ \A i \in 1..k : ledger[st.count + i] = Line(st.offset, chunkCall.chunks, i)
      /\ st.offset + Total(chunkCall.chunks) <= Size /\ st.registered /\ st.proof = Null
    BY <1>1, <1>d DEF ReceiveInv, CallOK
<1>4. /\ partial \in Seq(Bytes) /\ st \in States /\ st.offset \in Nat /\ st.count \in Nat /\ ledger \in Seq(Lines)
      /\ Size \in Nat /\ acked \in Seq(Bytes)
    BY <1>3, Types DEF ReceiveInv
<1>5. Len(NewRecords) = k
    BY <1>1, <1>3, <1>d, NewLines DEF ReceiveInv
<1>t. PICK t, m : t = st.offset + d /\ m = st.count + k
    OBVIOUS
<1>6. st.count <= st.offset /\ t \in 0..Size /\ m \in 0..Size /\ m <= t /\ st.offset <= t
  <2>1. st.count <= st.offset
      BY DEF ReceiveInv, StateOK
  <2>2. st.offset + d <= Size /\ k <= d /\ k \in Nat /\ d \in Nat
      BY <1>2, <1>3
  <2>3. st.offset \in Nat /\ st.count \in Nat /\ Size \in Nat
      BY <1>4
  <2>4. t \in 0..Size /\ st.offset <= t
      BY <1>t, <2>2, <2>3
  <2>5. m \in Nat /\ m <= t
      BY <1>t, <2>1, <2>2, <2>3
  <2>6. m \in 0..Size
      BY <2>3, <2>4, <2>5
  <2> QED BY <2>1, <2>4, <2>5, <2>6
<1>7. /\ st' \in States /\ st'.offset = t /\ st'.count = m /\ st'.registered = st.registered
      /\ st'.proof = st.proof /\ st'.owner = st.owner
  <2>h. PICK h : h = IF t = Size THEN "RECEIVED" ELSE st.phase
      OBVIOUS
  <2>1. h \in {"RECEIVING", "RECEIVED"}
      BY <1>4, <2>h DEF States
  <2>2. st' = [st EXCEPT !.offset = t, !.count = m, !.phase = h]
      BY <1>1, <1>4, <1>5, <1>d, <1>t, <2>h DEF Saved, States
  <2> QED BY <1>4, <1>6, <2>1, <2>2 DEF States
<1>8. Saved.offset = t
    BY <1>1, <1>7
<1>9. Len(partial) = t /\ Holds(partial, st.offset, Data)
    BY <1>3, <1>d, <1>t DEF Lies
<1>10. Prefix(partial, ledger, t, m)
  <2>1. Prefix(partial, ledger, st.offset, st.count)
      BY <1>3 DEF ReceiveInv, StateOK
  <2>2. /\ Holds(partial, st.offset, FlattenSeq(chunkCall.chunks))
        /\ st.offset + Len(FlattenSeq(chunkCall.chunks)) <= Size
        /\ st.count + Len(chunkCall.chunks) <= Len(ledger)
        /\ \A i \in 1..Len(chunkCall.chunks) : ledger[st.count + i] = Line(st.offset, chunkCall.chunks, i)
      BY <1>2, <1>3, <1>4, <1>9, <1>d
  <2>3. Prefix(partial, ledger, st.offset + Len(FlattenSeq(chunkCall.chunks)), st.count + Len(chunkCall.chunks))
      BY <1>2, <1>4, <2>1, <2>2, PrefixGrows
  <2> QED BY <1>2, <1>d, <1>t, <2>3
<1>11. StateOK'
    BY <1>1, <1>3, <1>6, <1>7, <1>10 DEF StateOK, Prefix, Holds
<1>12. SyncedOK'
    BY <1>1, <1>3, <1>7, <1>9, <1>t DEF SyncedOK
<1>13. acked' \in Seq(Bytes) /\ AckedOK'
  <2>1. Trimmed(partial, t) = partial
      BY <1>3, <1>6, <1>9 DEF Trimmed
  <2>2. CASE acked' = acked
    <3>1. Len(acked) <= t
        BY <1>4, <1>6 DEF ReceiveInv, AckedOK
    <3> QED BY <1>1, <1>4, <1>7, <2>2, <3>1 DEF ReceiveInv, AckedOK, Keeps
  <2>3. CASE acked' = partial
    <3>1. Keeps(partial, partial, Len(partial)) /\ Len(partial) <= t
        BY <1>4, <1>6, <1>9 DEF Keeps
    <3> QED BY <1>1, <1>4, <1>7, <2>3, <3>1 DEF AckedOK, Keeps
  <2> QED BY <1>1, <1>8, <2>1, <2>2, <2>3
<1>14. ReceiveTypeOK'
    BY <1>1, <1>7, <1>13 DEF ReceiveInv, ReceiveTypeOK, States
<1>15. CallOK' /\ WorkerOK' /\ ProofIsCurrent'
    BY <1>1, <1>3, <1>7 DEF ReceiveInv, CallOK, WorkerOK, ProofIsCurrent, VerifierGone
<1> QED BY <1>11, <1>12, <1>13, <1>14, <1>15 DEF ReceiveInv

-----------------------------------------------------------------------------
LEMMA InitHolds == ASSUME ReceiveInit PROVE ReceiveInv
<1>1. Size \in Nat /\ MaxWorkers \in Nat
    BY BoundsAssumption
<1>2. ReceiveTypeOK
  <2>1. <<>> \in Seq(Bytes)
      OBVIOUS
  <2>2. 0 \in 0..Size /\ 0 \in 0..MaxWorkers
      BY <1>1
  <2> QED BY <2>1, <2>2 DEF ReceiveInit, ReceiveTypeOK
<1>3. AckedOK
  <2>1. Len(acked) = 0
      BY DEF ReceiveInit
  <2> QED BY <2>1 DEF ReceiveInit, AckedOK
<1>4. StateOK /\ SyncedOK /\ CallOK /\ WorkerOK /\ ProofIsCurrent
    BY DEF ReceiveInit, StateOK, SyncedOK, CallOK, WorkerOK, ProofIsCurrent, VerifierGone
<1> QED BY <1>2, <1>3, <1>4 DEF ReceiveInv

LEMMA StepHolds == ReceiveInv /\ [ReceiveNext]_receiveVars => ReceiveInv'
<1> SUFFICES ASSUME ReceiveInv, [ReceiveNext]_receiveVars PROVE ReceiveInv'
    OBVIOUS
<1>1. CASE \E chunks \in Batches : Accept(chunks)
    BY <1>1, AcceptHolds
<1>2. CASE \E offset \in 0..Size, data \in Chunks : Replay(offset, data)
    BY <1>2, ReplayHolds
<1>3. CASE CreatePartial \/ CreateLedger \/ Register
    BY <1>3, CreatePartialHolds, CreateLedgerHolds, RegisterHolds
<1>4. CASE \E n \in 0..Size : Write(n)
    BY <1>4, WriteHolds
<1>5. CASE \E n \in 0..MaxBatch, torn \in {<<>>, <<Torn>>} : Record(n, torn)
    BY <1>5, RecordHolds
<1>6. CASE Save \/ Interrupt
    BY <1>6, SaveHolds, InterruptHolds
<1>7. CASE Resume \/ Verify \/ Trim \/ Prove
    BY <1>7, ResumeHolds, VerifyHolds, TrimHolds, ProveHolds
<1>8. CASE RecordVerifierError \/ VerifierDies \/ ReconcileVerifier
    BY <1>8, RecordErrorHolds, DieHolds, ReconcileHolds
<1>9. CASE UNCHANGED receiveVars
  <2>1. /\ st' = st /\ partial' = partial /\ ledger' = ledger /\ synced' = synced /\ chunkCall' = chunkCall
        /\ worker' = worker /\ acked' = acked
      BY <1>9 DEF receiveVars
  <2>2. FilesOK'
      BY <2>1, FilesStay DEF ReceiveInv, FilesOK
  <2>3. ReceiveTypeOK' /\ WorkerOK' /\ ProofIsCurrent'
      BY <2>1 DEF ReceiveInv, ReceiveTypeOK, WorkerOK, ProofIsCurrent, VerifierGone
  <2>4. CallOK'
      BY <2>1 DEF ReceiveInv, CallOK, VerifierGone, Lies, Holds, Data, Total, Line, Upto
  <2> QED BY <2>2, <2>3, <2>4 DEF ReceiveInv, FilesOK
<1> QED BY <1>1, <1>2, <1>3, <1>4, <1>5, <1>6, <1>7, <1>8, <1>9 DEF ReceiveNext

(* A chunk that lies in a file is the slice the verification rereads.      *)
LEMMA SliceIs ==
    ASSUME NEW S, NEW p \in Seq(S), NEW d \in Seq(S), NEW a \in Nat,
           a + Len(d) <= Len(p), \A j \in 1..Len(d) : p[a + j] = d[j]
    PROVE  SubSeq(p, a + 1, a + Len(d)) = d
<1>s. PICK s : s = SubSeq(p, a + 1, a + Len(d))
    OBVIOUS
<1>1. s \in Seq(S) /\ Len(s) = Len(d)
    BY <1>s
<1>2. ASSUME NEW j \in 1..Len(d) PROVE s[j] = d[j]
  <2>1. s[j] = p[a + j]
      BY <1>s, <1>1, <1>2
  <2> QED BY <1>2, <2>1
<1> QED BY <1>1, <1>2, <1>s

LEMMA PrefixVerifies ==
    ASSUME ReceiveTypeOK, st.registered, partial # Null, ledger # Null, Prefix(partial, ledger, st.offset, st.count)
    PROVE  PrefixHolds
<1>1. /\ partial \in Seq(Bytes) /\ ledger \in Seq(Lines) /\ st.offset \in Nat /\ st.count \in Nat
    BY Types
<1>2. ASSUME NEW i \in 1..st.count
      PROVE  /\ ledger[i] # Torn
             /\ ledger[i].offset = IF i = 1 THEN 0 ELSE ledger[i-1].offset + Len(ledger[i-1].data)
             /\ ledger[i].offset + Len(ledger[i].data) <= Len(partial)
             /\ SubSeq(partial, ledger[i].offset + 1, ledger[i].offset + Len(ledger[i].data))
                   = ledger[i].data
  <2>1. /\ ledger[i] \in Records
        /\ ledger[i].offset = IF i = 1 THEN 0 ELSE ledger[i-1].offset + Len(ledger[i-1].data)
        /\ Holds(partial, ledger[i].offset, ledger[i].data)
      BY <1>2 DEF Prefix
  <2>a. PICK a, d : a = ledger[i].offset /\ d = ledger[i].data
      OBVIOUS
  <2>2. a \in Nat /\ d \in Seq(Bytes) /\ ledger[i] # Torn
      BY <2>1, <2>a, RecordFacts
  <2>3. a + Len(d) <= Len(partial) /\ \A j \in 1..Len(d) : partial[a + j] = d[j]
      BY <2>1, <2>a DEF Holds
  <2>4. SubSeq(partial, a + 1, a + Len(d)) = d
      BY <1>1, <2>2, <2>3, SliceIs
  <2> QED BY <2>1, <2>2, <2>3, <2>4, <2>a
<1> QED BY <1>1, <1>2 DEF PrefixHolds, Prefix

LEMMA ReceiveImplied == ASSUME ReceiveInv PROVE ReceivedIsHeld /\ ProofIsCurrent /\ ReceiveTypeOK
<1>1. RegisteredPrefixVerifies
    BY PrefixVerifies DEF ReceiveInv, StateOK, RegisteredPrefixVerifies, Verifies
<1>2. ASSUME acked # <<>>
      PROVE  /\ Len(acked) <= st.offset /\ Len(acked) <= Len(partial)
             /\ SubSeq(partial, 1, Len(acked)) = acked
  <2>n. PICK n : n = Len(acked)
      OBVIOUS
  <2>1. /\ acked \in Seq(Bytes) /\ st.offset \in Nat /\ n \in Nat /\ n # 0
        /\ partial \in Seq(Bytes) \cup {Null} /\ st.registered \in BOOLEAN
      BY <1>2, <2>n, Types DEF ReceiveInv
  <2>2. n <= st.offset /\ Keeps(partial, acked, n)
      BY <1>2, <2>n DEF ReceiveInv, AckedOK
  <2>3. st.registered
      BY <2>1, <2>2 DEF ReceiveInv, StateOK
  <2>4. partial \in Seq(Bytes)
      BY <2>1, <2>3 DEF ReceiveInv, StateOK
  <2>5. n <= Len(partial) /\ \A j \in 1..n : partial[0 + j] = acked[j]
      BY <2>2 DEF Keeps
  <2>6. SubSeq(partial, 0 + 1, 0 + Len(acked)) = acked
      BY <2>1, <2>4, <2>5, <2>n, SliceIs
  <2> QED BY <2>2, <2>5, <2>6, <2>n
<1> QED BY <1>1, <1>2 DEF ReceiveInv, AckedBytesHeld, ReceivedIsHeld

(* The files, the saved progress, the chunk call and the verify_partial    *)
(* worker agree after every step of any of them and every interruption     *)
(* (transfer_chunk, transfer_chunks, _execute, _reconcile_exit).           *)
THEOREM ReceiveInvariance == ReceiveSpec => []ReceiveInv
BY InitHolds, StepHolds, PTL DEF ReceiveSpec

(* What the host was told stays in received.part below the saved offset,   *)
(* and registered files always verify again (_verified_partial).           *)
THEOREM ReceivedStays == ReceiveSpec => []ReceivedIsHeld
BY ReceiveInvariance, ReceiveImplied, PTL

(* A proof of the resume worker is about the registered files as they are, *)
(* so the host may go on from its offset (prefix_verification).            *)
THEOREM ProofsAreCurrent == ReceiveSpec => []ProofIsCurrent
BY ReceiveInvariance, ReceiveImplied, PTL

-----------------------------------------------------------------------------
(***************************************************************************)
(* The flow host and the paging of results.                                *)
(***************************************************************************)
(* A function defined by recursion on 0..k, from the function of its step. *)
Recurs(f, a, step, k) == f = [n \in 0..k |-> IF n = 0 THEN a ELSE step[f[n - 1]][n]]

LEMMA RecursionExists ==
    ASSUME NEW S, NEW a \in S, NEW k \in Nat, NEW step \in [S -> [1..k -> S]]
    PROVE  \E f \in [0..k -> S] : Recurs(f, a, step, k)
<1> DEFINE Upon(f, m) == \A n \in 0..m : f[n] = IF n = 0 THEN a ELSE step[f[n - 1]][n]
<1>s. PICK D : D = {m \in Nat : m <= k => \E f \in [0..m -> S] : Upon(f, m)}
    OBVIOUS
<1>1. 0 \in D
  <2>1. PICK f : f = [n \in 0..0 |-> a]
      OBVIOUS
  <2>2. f \in [0..0 -> S] /\ Upon(f, 0)
      BY <2>1
  <2> QED BY <2>2, <1>s
<1>2. ASSUME NEW m \in Nat, m \in D PROVE m + 1 \in D
  <2>l. PICK l : l = m + 1
      OBVIOUS
  <2>0. l \in Nat /\ l - 1 = m /\ l # 0
      BY <2>l
  <2>1. CASE l > k
      BY <1>s, <2>l, <2>0, <2>1
  <2>2. CASE l <= k
    <3>0. m <= k
        BY <2>2, <2>l
    <3>1. PICK e \in [0..m -> S] : Upon(e, m)
        BY <1>2, <1>s, <3>0
    <3>v. PICK v : v = step[e[m]][l]
        OBVIOUS
    <3>2. m \in 0..m /\ e[m] \in S
        OBVIOUS
    <3>3. step[e[m]] \in [1..k -> S] /\ l \in 1..k
        BY <3>2, <2>0, <2>2
    <3>4. v \in S
        BY <3>3, <3>v
    <3>f. PICK f : f = [n \in 0..l |-> IF n = l THEN v ELSE e[n]]
        OBVIOUS
    <3>5. f \in [0..l -> S]
        BY <3>f, <3>4, <2>l
    <3>6. Upon(f, l)
      <4> SUFFICES ASSUME NEW n \in 0..l PROVE f[n] = IF n = 0 THEN a ELSE step[f[n - 1]][n]
          OBVIOUS
      <4>1. CASE n = l
        <5>1. f[n] = v /\ f[m] = e[m] /\ n - 1 = m /\ n # 0
            BY <4>1, <3>f, <2>0, <2>l
        <5> QED BY <5>1, <3>v, <4>1
      <4>2. CASE n # l
        <5>1. n \in 0..m /\ f[n] = e[n] /\ (n # 0 => f[n - 1] = e[n - 1])
            BY <4>2, <3>f, <2>l
        <5>2. e[n] = IF n = 0 THEN a ELSE step[e[n - 1]][n]
            BY <3>1, <5>1
        <5> QED BY <5>1, <5>2
      <4> QED BY <4>1, <4>2
    <3> QED BY <3>5, <3>6, <1>s, <2>l, <2>0
  <2> QED BY <2>0, <2>1, <2>2
<1>3. k \in D
    BY <1>1, <1>2, Induction
<1>4. PICK f \in [0..k -> S] : Upon(f, k)
    BY <1>3, <1>s
<1>5. f = [n \in 0..k |-> f[n]]
    BY <1>4
<1>6. f = [n \in 0..k |-> IF n = 0 THEN a ELSE step[f[n - 1]][n]]
    BY <1>4, <1>5
<1> QED BY <1>6 DEF Recurs

(* Sizes.                                                                  *)
Sums(f, rows) == f = [n \in 0..Len(rows) |-> IF n = 0 THEN 0 ELSE f[n - 1] + rows[n].size]

LEMMA SumExists ==
    ASSUME NEW rows \in Seq(Row)
    PROVE  \E f \in [0..Len(rows) -> Nat] : Sums(f, rows) /\ TotalSize(rows) = f[Len(rows)]
<1>k. PICK k : k = Len(rows) /\ k \in Nat
    OBVIOUS
<1>s. PICK step : step = [x \in Nat |-> [n \in 1..k |-> x + rows[n].size]]
    OBVIOUS
<1>1. \A n \in 1..k : rows[n].size \in Nat
  <2> TAKE n \in 1..k
  <2>1. rows[n] \in Row
      BY <1>k
  <2> QED BY <2>1 DEF Row
<1>2. step \in [Nat -> [1..k -> Nat]]
    BY <1>s, <1>1
<1>3. PICK f \in [0..k -> Nat] : Recurs(f, 0, step, k)
    BY <1>2, <1>k, RecursionExists
<1>4. \A n \in 0..k : n # 0 => step[f[n - 1]][n] = f[n - 1] + rows[n].size
  <2> SUFFICES ASSUME NEW n \in 0..k, n # 0 PROVE step[f[n - 1]][n] = f[n - 1] + rows[n].size
      OBVIOUS
  <2>1. n \in 1..k /\ f[n - 1] \in Nat
      BY <1>k
  <2> QED BY <1>s, <2>1
<1>5. f = [n \in 0..k |-> IF n = 0 THEN 0 ELSE step[f[n - 1]][n]]
    BY <1>3 DEF Recurs
<1>6. \A n \in 0..k : f[n] = IF n = 0 THEN 0 ELSE f[n - 1] + rows[n].size
    BY <1>4, <1>5
<1>7. Sums(f, rows)
  <2>1. f = [n \in 0..k |-> f[n]]
      OBVIOUS
  <2>2. f = [n \in 0..k |-> IF n = 0 THEN 0 ELSE f[n - 1] + rows[n].size]
      BY <1>6, <2>1
  <2> QED BY <2>2, <1>k DEF Sums
<1>g. PICK g : g = CHOOSE e : e = [n \in 0..Len(rows) |-> IF n = 0 THEN 0 ELSE e[n - 1] + rows[n].size]
    OBVIOUS
<1>8. TotalSize(rows) = g[Len(rows)]
    BY <1>g DEF TotalSize
<1>9. Sums(g, rows)
    BY <1>g, <1>7 DEF Sums
<1>10. g \in [0..k -> Nat]
  <2>d. PICK D : D = {n \in Nat : n <= k => g[n] \in Nat}
      OBVIOUS
  <2>0. \A n \in 0..k : g[n] = IF n = 0 THEN 0 ELSE g[n - 1] + rows[n].size
      BY <1>9, <1>k DEF Sums
  <2>1. 0 \in D
      BY <2>0, <2>d, <1>k
  <2>2. ASSUME NEW n \in Nat, n \in D PROVE n + 1 \in D
    <3>m. PICK m : m = n + 1
        OBVIOUS
    <3>1. m \in Nat /\ m - 1 = n /\ m # 0
        BY <3>m
    <3>2. ASSUME m <= k PROVE g[m] \in Nat
      <4>1. m \in 0..k /\ m \in 1..k /\ g[n] \in Nat
          BY <3>1, <3>2, <2>2, <2>d, <1>k
      <4>2. g[m] = g[m - 1] + rows[m].size
          BY <4>1, <3>1, <2>0
      <4> QED BY <4>1, <4>2, <3>1, <1>1
    <3> QED BY <3>1, <3>2, <3>m, <2>d
  <2>3. \A n \in 0..k : g[n] \in Nat
    <3>1. Nat \subseteq D
        BY <2>1, <2>2, Induction
    <3> QED BY <3>1, <2>d
  <2>4. g = [n \in 0..k |-> g[n]]
      BY <1>9, <1>k DEF Sums
  <2> QED BY <2>3, <2>4
<1> QED BY <1>8, <1>9, <1>10, <1>k

LEMMA SizeAdds ==
    ASSUME NEW s \in Seq(Row), NEW t \in Seq(Row)
    PROVE  /\ TotalSize(s) \in Nat /\ TotalSize(t) \in Nat
           /\ TotalSize(s \o t) = TotalSize(s) + TotalSize(t)
<1>c. s \o t \in Seq(Row)
    OBVIOUS
<1>u. PICK u \in Seq(Row) : u = s \o t
    BY <1>c
<1>k. PICK k \in Nat, m \in Nat : k = Len(s) /\ m = Len(t)
    OBVIOUS
<1>l. PICK l \in Nat : l = k + m
    OBVIOUS
<1>0. Len(u) = l /\ (\A n \in 1..k : u[n] = s[n]) /\ (\A n \in 1..m : u[k + n] = t[n])
    BY <1>u, <1>k, <1>l
<1>1. PICK f \in [0..k -> Nat] : Sums(f, s) /\ TotalSize(s) = f[k]
    BY <1>k, SumExists
<1>2. PICK g \in [0..m -> Nat] : Sums(g, t) /\ TotalSize(t) = g[m]
    BY <1>k, SumExists
<1>3. PICK h \in [0..l -> Nat] : Sums(h, u) /\ TotalSize(u) = h[l]
    BY <1>0, SumExists
<1>f. \A n \in 0..k : f[n] = IF n = 0 THEN 0 ELSE f[n - 1] + s[n].size
    BY <1>1, <1>k DEF Sums
<1>g. \A n \in 0..m : g[n] = IF n = 0 THEN 0 ELSE g[n - 1] + t[n].size
    BY <1>2, <1>k DEF Sums
<1>h. \A n \in 0..l : h[n] = IF n = 0 THEN 0 ELSE h[n - 1] + u[n].size
    BY <1>3, <1>0 DEF Sums
<1>4. f[k] = h[k]
  <2>d. PICK D : D = {n \in Nat : n <= k => f[n] = h[n]}
      OBVIOUS
  <2>1. 0 \in D
    <3>1. 0 \in 0..k /\ 0 \in 0..l
        BY <1>l
    <3>2. f[0] = 0 /\ h[0] = 0
        BY <3>1, <1>f, <1>h
    <3> QED BY <3>2, <2>d
  <2>2. ASSUME NEW n \in Nat, n \in D PROVE n + 1 \in D
    <3>q. PICK q \in Nat : q = n + 1
        OBVIOUS
    <3>2. ASSUME q <= k PROVE f[q] = h[q]
      <4>1. q \in 1..k /\ q \in 0..k /\ q \in 0..l /\ q - 1 = n /\ q # 0 /\ f[n] = h[n]
          BY <3>q, <3>2, <2>2, <2>d, <1>l
      <4>2. f[q] = f[n] + s[q].size /\ h[q] = h[n] + u[q].size /\ s[q] = u[q]
          BY <4>1, <1>f, <1>h, <1>0
      <4> QED BY <4>1, <4>2
    <3> QED BY <3>2, <3>q, <2>d
  <2>3. k \in D
      BY <2>1, <2>2, Induction
  <2> QED BY <2>3, <2>d
<1>5. h[l] = f[k] + g[m]
  <2>d. PICK D : D = {n \in Nat : n <= m => h[k + n] = f[k] + g[n]}
      OBVIOUS
  <2>1. 0 \in D
    <3>1. k + 0 = k /\ g[0] = 0 /\ f[k] \in Nat
        BY <1>g
    <3> QED BY <3>1, <1>4, <2>d
  <2>2. ASSUME NEW n \in Nat, n \in D PROVE n + 1 \in D
    <3>q. PICK q \in Nat : q = n + 1
        OBVIOUS
    <3>2. ASSUME q <= m PROVE h[k + q] = f[k] + g[q]
      <4>r. PICK r \in Nat : r = k + q
          OBVIOUS
      <4>1. q \in 1..m /\ q \in 0..m /\ r \in 0..l /\ q - 1 = n /\ q # 0 /\ r # 0 /\ r - 1 = k + n
          BY <3>q, <3>2, <1>l, <4>r
      <4>2. h[k + n] = f[k] + g[n]
          BY <2>2, <2>d, <3>q, <3>2
      <4>3. h[r] = h[k + n] + u[r].size
          BY <4>1, <1>h
      <4>4. g[q] = g[n] + t[q].size /\ u[r] = t[q]
          BY <4>1, <4>r, <1>g, <1>0
      <4>5. t[q] \in Row
          BY <4>1, <1>k
      <4>6. t[q].size \in Nat
          BY <4>5 DEF Row
      <4>7. n \in 0..m /\ g[n] \in Nat /\ f[k] \in Nat
          BY <4>1
      <4>8. PICK a \in Nat, b \in Nat, c \in Nat : a = f[k] /\ b = g[n] /\ c = t[q].size
          BY <4>6, <4>7
      <4>9. h[r] = (a + b) + c /\ g[q] = b + c
          BY <4>2, <4>3, <4>4, <4>8
      <4>10. (a + b) + c = a + (b + c)
          OBVIOUS
      <4> QED BY <4>8, <4>9, <4>10, <4>r
    <3> QED BY <3>2, <3>q, <2>d
  <2>3. m \in D
      BY <2>1, <2>2, Induction
  <2> QED BY <2>3, <2>d, <1>l
<1>6. f[k] \in Nat /\ g[m] \in Nat
    OBVIOUS
<1> QED BY <1>1, <1>2, <1>3, <1>5, <1>6, <1>u

LEMMA SizeWithin ==
    ASSUME NEW s \in Seq(Row), NEW n \in 0..Len(s)
    PROVE  TotalSize(SubSeq(s, 1, n)) <= TotalSize(s)
<1>0. Len(s) \in Nat /\ n \in Nat /\ n <= Len(s)
    OBVIOUS
<1>t. SubSeq(s, 1, n) \in Seq(Row) /\ SubSeq(s, n + 1, Len(s)) \in Seq(Row)
    BY <1>0
<1>1. PICK t \in Seq(Row), u \in Seq(Row) : t = SubSeq(s, 1, n) /\ u = SubSeq(s, n + 1, Len(s))
    BY <1>t
<1>2. s = t \o u
  <2>1. Len(t) = n /\ Len(u) = Len(s) - n
      BY <1>0, <1>1
  <2>2. (\A i \in 1..n : t[i] = s[i]) /\ (\A i \in 1..(Len(s) - n) : u[i] = s[n + i])
      BY <1>0, <1>1
  <2>3. t \o u \in Seq(Row) /\ Len(t \o u) = Len(s)
      BY <2>1, <1>0
  <2>4. ASSUME NEW i \in 1..Len(s) PROVE (t \o u)[i] = s[i]
    <3>1. CASE i <= n
        BY <2>1, <2>2, <3>1, <1>0
    <3>2. CASE i > n
      <4>1. PICK j : j = i - n
          OBVIOUS
      <4>2. j \in 1..Len(u) /\ i = n + j
          BY <4>1, <3>2, <2>1, <1>0
      <4>3. (t \o u)[i] = u[j]
          BY <4>2, <2>1, <1>0
      <4> QED BY <4>2, <4>3, <2>1, <2>2
    <3>3. i \in Nat /\ (i <= n \/ i > n)
        BY <1>0
    <3> QED BY <3>1, <3>2, <3>3
  <2>v. PICK v \in Seq(Row) : v = t \o u
      BY <2>3
  <2>5. Len(v) = Len(s) /\ \A i \in 1..Len(s) : v[i] = s[i]
      BY <2>3, <2>4, <2>v
  <2>6. v = s
      BY <2>5
  <2> QED BY <2>6, <2>v
<1>3. TotalSize(s) = TotalSize(t) + TotalSize(u) /\ TotalSize(t) \in Nat /\ TotalSize(u) \in Nat
    BY <1>2, SizeAdds
<1> QED BY <1>1, <1>3

LEMMA SizeEmpty == TotalSize(<<>>) = 0
<1>1. <<>> \in Seq(Row) /\ <<>> \o <<>> = <<>>
    OBVIOUS
<1>2. TotalSize(<<>>) \in Nat /\ TotalSize(<<>>) = TotalSize(<<>>) + TotalSize(<<>>)
    BY <1>1, SizeAdds
<1> QED BY <1>2

-----------------------------------------------------------------------------
(* The window.  After n sources it holds the first rows from the offset on *)
(* of the rows of those n sources, as many as the page and one more.       *)
Cutting == [skip : Nat, want : Nat, rows : Seq(Row)]

LEMMA Least2 ==
    ASSUME NEW a \in Nat, NEW b \in Nat
    PROVE  Min({a, b}) = IF a <= b THEN a ELSE b
<1>1. PICK m : m = IF a <= b THEN a ELSE b
    OBVIOUS
<1>2. m \in {a, b} /\ \A y \in {a, b} : m <= y
    BY <1>1
<1>3. \A x \in {a, b} : (\A y \in {a, b} : x <= y) => x = m
    BY <1>2
<1>4. Min({a, b}) = m
    BY <1>2, <1>3 DEF Min
<1> QED BY <1>1, <1>4

LEMMA DrainedIs ==
    ASSUME NEW c \in Cutting, NEW s \in Seq(Row)
    PROVE  /\ Drained(c, s) \in Cutting
           /\ c.want = 0 => Drained(c, s) = c
           /\ c.want # 0 /\ c.skip >= Len(s) =>
                 /\ Drained(c, s).skip = c.skip - Len(s)
                 /\ Drained(c, s).want = c.want
                 /\ Drained(c, s).rows = c.rows
           /\ c.want # 0 /\ c.skip < Len(s) =>
                 \E w \in Seq(Row) :
                    /\ Len(w) = IF c.skip + c.want <= Len(s) THEN c.want ELSE Len(s) - c.skip
                    /\ \A i \in 1..Len(w) : w[i] = s[c.skip + i]
                    /\ Drained(c, s).skip = 0
                    /\ Drained(c, s).want = c.want - Len(w)
                    /\ Drained(c, s).rows = c.rows \o w
<1>1. c.skip \in Nat /\ c.want \in Nat /\ c.rows \in Seq(Row) /\ Len(s) \in Nat
    BY DEF Cutting
<1>2. CASE c.want = 0
    BY <1>2 DEF Drained
<1>3. CASE c.want # 0 /\ c.skip >= Len(s)
  <2>1. Drained(c, s) = [c EXCEPT !.skip = c.skip - Len(s)]
      BY <1>3 DEF Drained
  <2>2. c.skip - Len(s) \in Nat
      BY <1>1, <1>3
  <2>3. c = [skip |-> c.skip, want |-> c.want, rows |-> c.rows]
      BY DEF Cutting
  <2>4. Drained(c, s) = [skip |-> c.skip - Len(s), want |-> c.want, rows |-> c.rows]
      BY <2>1, <2>3
  <2> QED BY <1>1, <1>3, <2>2, <2>4 DEF Cutting
<1>4. CASE c.want # 0 /\ c.skip < Len(s)
  <2>l. PICK last : last = IF c.skip + c.want <= Len(s) THEN c.skip + c.want ELSE Len(s)
      OBVIOUS
  <2>1. Min({c.skip + c.want, Len(s)}) = last
      BY <1>1, <2>l, Least2
  <2>2. last \in Nat /\ c.skip < last /\ last <= Len(s) /\ last - c.skip <= c.want
      BY <1>1, <1>4, <2>l
  <2>3. SubSeq(s, c.skip + 1, last) \in Seq(Row)
      BY <1>1, <2>2
  <2>w. PICK w \in Seq(Row) : w = SubSeq(s, c.skip + 1, last)
      BY <2>3
  <2>4. Len(w) = last - c.skip
      BY <1>1, <2>2, <2>w
  <2>5. \A i \in 1..Len(w) : w[i] = s[c.skip + i]
      BY <1>1, <2>2, <2>4, <2>w
  <2>6. Drained(c, s) = [skip |-> 0, want |-> c.want - Len(w), rows |-> c.rows \o w]
    <3>1. ~(c.skip >= Len(s))
        BY <1>1, <1>4
    <3>2. Drained(c, s) = [skip |-> 0,
                           want |-> c.want - Len(SubSeq(s, c.skip + 1, Min({c.skip + c.want, Len(s)}))),
                           rows |-> c.rows \o SubSeq(s, c.skip + 1, Min({c.skip + c.want, Len(s)}))]
        BY <1>4, <3>1, Zenon DEF Drained
    <3> QED BY <3>2, <2>1, <2>w
  <2>7. c.want - Len(w) \in Nat /\ c.rows \o w \in Seq(Row)
      BY <1>1, <2>2, <2>4
  <2>8. Drained(c, s) \in Cutting
      BY <2>6, <2>7 DEF Cutting
  <2>9. Len(w) = IF c.skip + c.want <= Len(s) THEN c.want ELSE Len(s) - c.skip
      BY <1>1, <2>l, <2>4
  <2>10. /\ Drained(c, s).skip = 0
         /\ Drained(c, s).want = c.want - Len(w)
         /\ Drained(c, s).rows = c.rows \o w
      BY <2>6
  <2>11. c.want # 0 /\ ~(c.skip >= Len(s))
      BY <1>1, <1>4
  <2> QED BY <2>5, <2>8, <2>9, <2>10, <2>11
<1>5. c.want = 0 \/ (c.want # 0 /\ c.skip >= Len(s)) \/ (c.want # 0 /\ c.skip < Len(s))
    BY <1>1
<1> QED BY <1>2, <1>3, <1>4, <1>5

Opening(offset) == [skip |-> offset, want |-> PageSize + 1, rows |-> <<>>]

(* What has been cut out of the rows u of the sources so far.              *)
CutOf(c, u, offset) ==
    /\ c.skip = IF offset >= Len(u) THEN offset - Len(u) ELSE 0
    /\ Len(c.rows) = IF offset >= Len(u) THEN 0
                     ELSE IF PageSize + 1 <= Len(u) - offset THEN PageSize + 1 ELSE Len(u) - offset
    /\ c.want = PageSize + 1 - Len(c.rows)
    /\ \A i \in 1..Len(c.rows) : c.rows[i] = u[offset + i]

LEMMA CutStep ==
    ASSUME NEW offset \in Nat, NEW c \in Cutting, NEW u \in Seq(Row), NEW s \in Seq(Row), CutOf(c, u, offset)
    PROVE  CutOf(Drained(c, s), u \o s, offset)
<1>p. PICK P \in Nat : P = PageSize + 1 /\ P > 0
    BY PagingAssumption
<1>d. PICK d \in Cutting : d = Drained(c, s)
    BY DrainedIs
<1>0. u \o s \in Seq(Row)
    OBVIOUS
<1>v. PICK v \in Seq(Row) : v = u \o s
    BY <1>0
<1>k. PICK k \in Nat, l \in Nat, m \in Nat : k = Len(u) /\ l = Len(s) /\ m = Len(c.rows)
    BY DEF Cutting
<1>1. Len(v) = k + l /\ (\A i \in 1..k : v[i] = u[i]) /\ (\A i \in 1..l : v[k + i] = s[i])
    BY <1>v, <1>k
<1>r. PICK r \in Seq(Row), skip \in Nat, want \in Nat : r = c.rows /\ skip = c.skip /\ want = c.want
    BY DEF Cutting
<1>2. /\ skip = IF offset >= k THEN offset - k ELSE 0
      /\ m = IF offset >= k THEN 0 ELSE IF P <= k - offset THEN P ELSE k - offset
      /\ want = P - m /\ Len(r) = m
      /\ \A i \in 1..m : r[i] = u[offset + i]
  <2>1. skip = IF offset >= k THEN offset - k ELSE 0
      BY <1>k, <1>r DEF CutOf
  <2>2. m = IF offset >= k THEN 0 ELSE IF P <= k - offset THEN P ELSE k - offset
      BY <1>p, <1>k DEF CutOf
  <2>3. want = P - m /\ Len(r) = m
      BY <1>p, <1>k, <1>r, PagingAssumption DEF CutOf
  <2>4. \A i \in 1..m : r[i] = u[offset + i]
      BY <1>k, <1>r DEF CutOf
  <2> QED BY <2>1, <2>2, <2>3, <2>4
<1>3. ASSUME NEW i \in 1..m PROVE offset + i \in 1..k /\ r[i] = v[offset + i]
  <2>1. offset + i \in 1..k
      BY <1>2
  <2> QED BY <2>1, <1>1, <1>2
<1>4. CASE want = 0
  <2>1. d = c
      BY <1>4, <1>r, <1>d, DrainedIs
  <2>2. offset < k /\ P <= k - offset /\ m = P /\ skip = 0
      BY <1>4, <1>2, <1>p
  <2>3. ~(offset >= k + l) /\ P <= k + l - offset
      BY <2>2
  <2>4. d.skip = 0 /\ d.rows = r /\ d.want = 0 /\ Len(r) = m
      BY <2>1, <2>2, <1>2, <1>4, <1>r
  <2>5. d.skip = IF offset >= Len(v) THEN offset - Len(v) ELSE 0
      BY <2>3, <2>4, <1>1
  <2>6. Len(d.rows) = IF offset >= Len(v) THEN 0 ELSE IF P <= Len(v) - offset THEN P ELSE Len(v) - offset
      BY <2>2, <2>3, <2>4, <1>1
  <2>7. d.want = P - Len(d.rows)
      BY <2>2, <2>4
  <2>8. \A i \in 1..Len(d.rows) : d.rows[i] = v[offset + i]
      BY <2>4, <1>3
  <2>z. CutOf(d, v, offset)
      BY <2>5, <2>6, <2>7, <2>8, <1>p, PagingAssumption DEF CutOf
  <2> QED BY <2>z, <1>d, <1>v
<1>5. CASE want # 0 /\ skip >= l
  <2>1. d.skip = skip - l /\ d.want = want /\ d.rows = r
      BY <1>5, <1>r, <1>k, <1>d, DrainedIs
  <2>2. skip - l = IF offset >= k + l THEN offset - (k + l) ELSE 0
      BY <1>2, <1>5
  <2>3. m = IF offset >= k + l THEN 0 ELSE IF P <= k + l - offset THEN P ELSE k + l - offset
      BY <1>2, <1>5
  <2>5. d.skip = IF offset >= Len(v) THEN offset - Len(v) ELSE 0
      BY <2>1, <2>2, <1>1
  <2>6. Len(d.rows) = IF offset >= Len(v) THEN 0 ELSE IF P <= Len(v) - offset THEN P ELSE Len(v) - offset
      BY <2>1, <2>3, <1>1, <1>2
  <2>7. d.want = P - Len(d.rows)
      BY <2>1, <1>2
  <2>8. \A i \in 1..Len(d.rows) : d.rows[i] = v[offset + i]
      BY <2>1, <1>2, <1>3
  <2>z. CutOf(d, v, offset)
      BY <2>5, <2>6, <2>7, <2>8, <1>p, PagingAssumption DEF CutOf
  <2> QED BY <2>z, <1>d, <1>v
<1>6. CASE want # 0 /\ skip < l
  <2>1. PICK w \in Seq(Row) : /\ Len(w) = IF skip + want <= l THEN want ELSE l - skip
                              /\ \A i \in 1..Len(w) : w[i] = s[skip + i]
                              /\ d.skip = 0 /\ d.want = want - Len(w) /\ d.rows = r \o w
    <3>1. c.want # 0 /\ c.skip < Len(s)
        BY <1>6, <1>r, <1>k
    <3>2. PICK w \in Seq(Row) :
                 /\ Len(w) = IF c.skip + c.want <= Len(s) THEN c.want ELSE Len(s) - c.skip
                 /\ \A i \in 1..Len(w) : w[i] = s[c.skip + i]
                 /\ Drained(c, s).skip = 0
                 /\ Drained(c, s).want = c.want - Len(w)
                 /\ Drained(c, s).rows = c.rows \o w
        BY <3>1, DrainedIs
    <3>3. Len(w) = IF skip + want <= l THEN want ELSE l - skip
        BY <3>2, <1>r, <1>k
    <3> QED BY <3>2, <3>3, <1>r, <1>d
  <2>n. PICK n \in Nat : n = Len(w)
      OBVIOUS
  <2>2. k + l > offset
      BY <1>2, <1>6
  <2>3. m + n = IF P <= k + l - offset THEN P ELSE k + l - offset
      BY <1>2, <1>6, <2>1, <2>n
  <2>q. r \o w \in Seq(Row)
      OBVIOUS
  <2>x. PICK x \in Seq(Row) : x = r \o w
      BY <2>q
  <2>4. Len(x) = m + n /\ (\A i \in 1..m : x[i] = r[i]) /\ (\A i \in 1..n : x[m + i] = w[i])
    <3>1. Len(x) = Len(r) + Len(w)
        BY <2>x
    <3>2. \A i \in 1..Len(r) : x[i] = r[i]
        BY <2>x
    <3>3. \A i \in 1..Len(w) : x[Len(r) + i] = w[i]
        BY <2>x
    <3> QED BY <3>1, <3>2, <3>3, <2>n, <1>2
  <2>5. ASSUME NEW i \in 1..(m + n) PROVE x[i] = v[offset + i]
    <3>1. CASE i <= m
        BY <3>1, <2>4, <1>3
    <3>2. CASE i > m
      <4>j. PICK j \in Nat : j = i - m /\ i = m + j
          BY <3>2
      <4>1. j \in 1..n
          BY <4>j, <3>2
      <4>2. x[i] = s[skip + j]
          BY <4>1, <4>j, <2>4, <2>1, <2>n
      <4>n. n <= l - skip
          BY <2>1, <2>n, <1>6
      <4>3. skip + j \in 1..l
          BY <4>1, <4>n, <1>6
      <4>4. v[k + (skip + j)] = s[skip + j]
          BY <4>3, <1>1
      <4>5. k + (skip + j) = offset + i
          BY <4>j, <1>2, <1>6
      <4> QED BY <4>2, <4>4, <4>5
    <3>3. i <= m \/ i > m
        OBVIOUS
    <3> QED BY <3>1, <3>2, <3>3
  <2>6. want - n = P - (m + n)
      BY <1>2
  <2>7. d.skip = IF offset >= Len(v) THEN offset - Len(v) ELSE 0
      BY <2>1, <2>2, <1>1
  <2>8. Len(d.rows) = IF offset >= Len(v) THEN 0 ELSE IF P <= Len(v) - offset THEN P ELSE Len(v) - offset
    <3>1. Len(d.rows) = m + n /\ ~(offset >= Len(v))
        BY <2>1, <2>2, <2>4, <2>x, <1>1
    <3>2. Len(v) = k + l
        BY <1>1
    <3>3. Len(d.rows) = IF P <= k + l - offset THEN P ELSE k + l - offset
        BY <3>1, <2>3
    <3> QED BY <3>1, <3>2, <3>3
  <2>9. d.want = P - Len(d.rows)
      BY <2>1, <2>4, <2>6, <2>n, <2>x
  <2>10. \A i \in 1..Len(d.rows) : d.rows[i] = v[offset + i]
      BY <2>1, <2>4, <2>5, <2>x
  <2>z. CutOf(d, v, offset)
      BY <2>7, <2>8, <2>9, <2>10, <1>p, PagingAssumption DEF CutOf
  <2> QED BY <2>z, <1>d, <1>v
<1>7. want = 0 \/ (want # 0 /\ skip >= l) \/ (want # 0 /\ skip < l)
    OBVIOUS
<1> QED BY <1>4, <1>5, <1>6, <1>7

Drains(f, sources, offset) ==
    f = [n \in 0..Len(sources) |-> IF n = 0 THEN Opening(offset) ELSE Drained(f[n - 1], sources[n])]

LEMMA WindowFunction ==
    ASSUME NEW sources \in Seq(Seq(Row)), NEW offset \in Nat
    PROVE  \E f : Drains(f, sources, offset) /\ Window(sources, offset) = f[Len(sources)].rows
<1>k. PICK k \in Nat : k = Len(sources)
    OBVIOUS
<1>0. Opening(offset) \in Cutting
    BY PagingAssumption DEF Opening, Cutting
<1>s. PICK step : step = [c \in Cutting |-> [n \in 1..k |-> Drained(c, sources[n])]]
    OBVIOUS
<1>1. ASSUME NEW c \in Cutting, NEW n \in 1..k PROVE Drained(c, sources[n]) \in Cutting
  <2>1. sources[n] \in Seq(Row)
      BY <1>k
  <2> QED BY <2>1, DrainedIs
<1>2. step \in [Cutting -> [1..k -> Cutting]]
    BY <1>s, <1>1
<1>3. PICK f \in [0..k -> Cutting] : Recurs(f, Opening(offset), step, k)
    BY <1>0, <1>2, RecursionExists
<1>4. ASSUME NEW n \in 0..k, n # 0 PROVE step[f[n - 1]][n] = Drained(f[n - 1], sources[n])
  <2>1. n \in 1..k /\ f[n - 1] \in Cutting
      BY <1>4
  <2> QED BY <1>s, <2>1
<1>5. f = [n \in 0..k |-> IF n = 0 THEN Opening(offset) ELSE step[f[n - 1]][n]]
    BY <1>3 DEF Recurs
<1>6. \A n \in 0..k : f[n] = IF n = 0 THEN Opening(offset) ELSE Drained(f[n - 1], sources[n])
    BY <1>4, <1>5
<1>7. f = [n \in 0..k |-> f[n]]
    OBVIOUS
<1>8. Drains(f, sources, offset)
    BY <1>6, <1>7, <1>k DEF Drains
<1>g. PICK g : g = CHOOSE e : e = [n \in 0..Len(sources) |->
                     IF n = 0 THEN Opening(offset) ELSE Drained(e[n - 1], sources[n])]
    OBVIOUS
<1>9. Drains(g, sources, offset)
    BY <1>g, <1>8 DEF Drains
<1>10. Window(sources, offset) = g[Len(sources)].rows
    BY <1>g DEF Window, Opening
<1> QED BY <1>9, <1>10

LEMMA WindowIs ==
    ASSUME NEW sources \in Seq(Seq(Row)), NEW offset \in Nat, offset <= Len(FlattenSeq(sources))
    PROVE  LET all == FlattenSeq(sources)
               w   == Window(sources, offset)
           IN  /\ w \in Seq(Row)
               /\ Len(w) = IF PageSize + 1 <= Len(all) - offset THEN PageSize + 1 ELSE Len(all) - offset
               /\ \A i \in 1..Len(w) : w[i] = all[offset + i]
<1>k. PICK k \in Nat : k = Len(sources)
    OBVIOUS
<1>1. PICK f : Drains(f, sources, offset) /\ Window(sources, offset) = f[Len(sources)].rows
    BY WindowFunction
<1>2. \A n \in 0..k : f[n] = IF n = 0 THEN Opening(offset) ELSE Drained(f[n - 1], sources[n])
    BY <1>1, <1>k DEF Drains
<1>d. PICK D : D = {n \in Nat : n <= k => f[n] \in Cutting /\ CutOf(f[n], Upto(sources, n), offset)}
    OBVIOUS
<1>3. 0 \in D
  <2>1. f[0] = Opening(offset)
      BY <1>2
  <2>2. Opening(offset) \in Cutting
      BY PagingAssumption DEF Opening, Cutting
  <2>3. Upto(sources, 0) = <<>>
      BY UptoSteps
  <2>4. CutOf(Opening(offset), <<>>, offset)
      BY PagingAssumption DEF CutOf, Opening
  <2> QED BY <2>1, <2>2, <2>3, <2>4, <1>d
<1>4. ASSUME NEW n \in Nat, n \in D PROVE n + 1 \in D
  <2>m. PICK m \in Nat : m = n + 1 /\ m - 1 = n /\ m # 0
      OBVIOUS
  <2>1. ASSUME m <= k PROVE f[m] \in Cutting /\ CutOf(f[m], Upto(sources, m), offset)
    <3>1. n <= k /\ n < Len(sources) /\ n <= Len(sources) /\ m \in 1..k /\ m \in 0..k
        BY <2>1, <2>m, <1>k
    <3>2. f[n] \in Cutting /\ CutOf(f[n], Upto(sources, n), offset)
        BY <3>1, <1>4, <1>d
    <3>3. Upto(sources, n) \in Seq(Row) /\ Upto(sources, m) = Upto(sources, n) \o sources[m]
        BY <3>1, <2>m, UptoSteps
    <3>4. sources[m] \in Seq(Row)
        BY <3>1, <1>k
    <3>5. f[m] = Drained(f[n], sources[m])
        BY <3>1, <2>m, <1>2
    <3> QED BY <3>2, <3>3, <3>4, <3>5, CutStep, DrainedIs
  <2> QED BY <2>1, <2>m, <1>d
<1>5. k \in D
    BY <1>3, <1>4, Induction
<1>6. Upto(sources, k) = FlattenSeq(sources) /\ Upto(sources, k) \in Seq(Row)
    BY <1>k, UptoSteps
<1>a. PICK all \in Seq(Row) : all = FlattenSeq(sources)
    BY <1>6
<1>c. PICK c \in Cutting : c = f[k] /\ CutOf(c, all, offset)
    BY <1>5, <1>6, <1>d, <1>a
<1>w. PICK w \in Seq(Row) : w = c.rows
    BY DEF Cutting
<1>7. w = Window(sources, offset) /\ offset <= Len(all) /\ Len(all) \in Nat
    BY <1>1, <1>c, <1>w, <1>k, <1>a
<1>8. Len(w) = IF PageSize + 1 <= Len(all) - offset THEN PageSize + 1 ELSE Len(all) - offset
  <2>1. Len(w) = IF offset >= Len(all) THEN 0
                 ELSE IF PageSize + 1 <= Len(all) - offset THEN PageSize + 1 ELSE Len(all) - offset
      BY <1>c, <1>w DEF CutOf
  <2>p. PICK P \in Nat : P = PageSize + 1 /\ P > 0
      BY PagingAssumption
  <2>2. Len(w) = IF offset >= Len(all) THEN 0 ELSE IF P <= Len(all) - offset THEN P ELSE Len(all) - offset
      BY <2>1, <2>p
  <2>3. Len(w) = IF P <= Len(all) - offset THEN P ELSE Len(all) - offset
      BY <2>2, <2>p, <1>7
  <2> QED BY <2>3, <2>p
<1>9. \A i \in 1..Len(w) : w[i] = all[offset + i]
    BY <1>c, <1>w DEF CutOf
<1> QED BY <1>7, <1>8, <1>9, <1>a

-----------------------------------------------------------------------------
(* The page.                                                               *)
LEMMA GreatestIn ==
    ASSUME NEW n \in Nat, NEW X, X \subseteq 1..n, X # {}
    PROVE  Max(X) \in X
<1>y. PICK Y : Y = {n - x : x \in X}
    OBVIOUS
<1>0. \A x \in X : n - x \in Nat
    OBVIOUS
<1>1. Y \subseteq Nat /\ Y # {}
    BY <1>y, <1>0
<1>2. PICK y \in Y : \A z \in Y : ~(z < y)
    BY <1>1, Least
<1>3. PICK x \in X : y = n - x
    BY <1>2, <1>y
<1>4. \A w \in X : x >= w
  <2> TAKE w \in X
  <2>1. n - w \in Y /\ ~(n - w < n - x)
      BY <1>y, <1>2, <1>3
  <2>2. w \in Nat /\ x \in Nat
      OBVIOUS
  <2> QED BY <2>1, <2>2
<1> QED BY <1>4 DEF Max

Paged == [cursor : Nat, data : Seq(Row), returned : Nat, page_size : Nat, truncated : BOOLEAN,
          next : Nat \cup {Nil}]

(* A page is the slice of the rows at its cursor.                          *)
Slice(p, all, offset) ==
    /\ p \in Paged
    /\ p.cursor = offset /\ p.returned = Len(p.data) /\ p.page_size = PageSize
    /\ offset + Len(p.data) <= Len(all)
    /\ \A i \in 1..Len(p.data) : p.data[i] = all[offset + i]
    /\ p.truncated <=> offset + Len(p.data) < Len(all)
    /\ p.truncated => Len(p.data) > 0 /\ p.next = offset + Len(p.data)
    /\ ~p.truncated => p.next = Nil

LEMMA SliceOf ==
    ASSUME NEW all \in Seq(Row), NEW offset \in Nat, NEW d \in Seq(Row), NEW t \in BOOLEAN,
           offset + Len(d) <= Len(all), \A i \in 1..Len(d) : d[i] = all[offset + i],
           t <=> offset + Len(d) < Len(all), t => Len(d) > 0
    PROVE  Slice(PageOf(offset, d, t), all, offset)
<1>p. PICK p : p = PageOf(offset, d, t)
    OBVIOUS
<1>n. PICK n : n = IF t THEN offset + Len(d) ELSE Nil
    OBVIOUS
<1>0. n \in Nat \cup {Nil} /\ PageSize \in Nat /\ Len(d) \in Nat
    BY <1>n, PagingAssumption
<1>1. p = [cursor |-> offset, data |-> d, returned |-> Len(d), page_size |-> PageSize,
           truncated |-> t, next |-> n]
    BY <1>p, <1>n DEF PageOf
<1>2. p \in Paged
    BY <1>0, <1>1 DEF Paged
<1>3. p.cursor = offset /\ p.data = d /\ p.returned = Len(d) /\ p.page_size = PageSize /\ p.truncated = t /\ p.next = n
    BY <1>1
<1>4. Slice(p, all, offset)
    BY <1>2, <1>3, <1>n DEF Slice
<1> QED BY <1>4, <1>p

LEMMA PageIs ==
    ASSUME NEW sources \in Seq(Seq(Row)), NEW offset \in Nat, offset <= Len(FlattenSeq(sources)),
           Page(sources, offset) # Nil
    PROVE  Slice(Page(sources, offset), FlattenSeq(sources), offset)
<1>a. PICK all \in Seq(Row) : all = FlattenSeq(sources)
    BY FlattenSteps
<1>w. PICK window \in Seq(Row) : window = Window(sources, offset)
    BY WindowIs
<1>p. PICK P \in Nat : P = PageSize /\ P > 0
    BY PagingAssumption
<1>1. Len(window) = IF P + 1 <= Len(all) - offset THEN P + 1 ELSE Len(all) - offset
    BY <1>a, <1>w, <1>p, WindowIs
<1>2. \A i \in 1..Len(window) : window[i] = all[offset + i]
    BY <1>a, <1>w, WindowIs
<1> DEFINE more == Len(window) > PageSize
<1>q. PICK q : q = IF more THEN PageSize ELSE Len(window)
    OBVIOUS
<1>3. q \in Nat /\ q <= Len(window)
    BY <1>q, <1>p
<1>4. SubSeq(window, 1, q) \in Seq(Row)
    BY <1>3
<1>c. PICK candidate \in Seq(Row) : candidate = SubSeq(window, 1, q)
    BY <1>4
<1>5. Len(candidate) = q /\ \A i \in 1..q : candidate[i] = window[i]
    BY <1>c, <1>3
<1>f. PICK fitting : fitting = {n \in 1..Len(candidate) : TotalSize(SubSeq(candidate, 1, n)) <= ResponseLimit}
    OBVIOUS
<1>6. offset <= Len(all) /\ Len(all) \in Nat /\ Len(window) \in Nat
    BY <1>a
<1>7. Page(sources, offset) = IF candidate = <<>> THEN PageOf(offset, <<>>, more)
                              ELSE IF fitting = {} THEN Nil
                              ELSE PageOf(offset, SubSeq(candidate, 1, Max(fitting)),
                                          more \/ Max(fitting) < Len(candidate))
  <2>1. ~(offset > Len(FlattenSeq(sources)))
      BY <1>a, <1>6
  <2> QED BY <2>1, <1>w, <1>q, <1>c, <1>f, Zenon DEF Page
<1>8. more => q = P /\ Len(all) - offset >= P + 1
    BY <1>1, <1>q, <1>p, <1>6
<1>9. ~more => q = Len(all) - offset
    BY <1>1, <1>q, <1>p, <1>6
<1> HIDE DEF more
<1>10. CASE candidate = <<>>
  <2>1. q = 0 /\ ~more
      BY <1>10, <1>5, <1>8, <1>p
  <2>2. Len(all) = offset
      BY <2>1, <1>9, <1>6
  <2>3. Page(sources, offset) = PageOf(offset, candidate, more)
      BY <1>7, <1>10
  <2>4. offset + Len(candidate) = Len(all) /\ Len(candidate) = 0
      BY <2>1, <2>2, <1>5, <1>6
  <2>5. Slice(PageOf(offset, candidate, FALSE), all, offset)
    <3>1. /\ offset + Len(candidate) <= Len(all) /\ ~(offset + Len(candidate) < Len(all))
          /\ \A i \in 1..Len(candidate) : candidate[i] = all[offset + i]
        BY <2>4, <1>6
    <3>t. PICK t \in BOOLEAN : t = FALSE
        OBVIOUS
    <3>2. (t <=> offset + Len(candidate) < Len(all)) /\ (t => Len(candidate) > 0)
        BY <3>1, <3>t
    <3>3. Slice(PageOf(offset, candidate, t), all, offset)
        BY <3>1, <3>2, SliceOf
    <3> QED BY <3>3, <3>t
  <2>6. more = FALSE
      BY <2>1 DEF more
  <2> QED BY <2>3, <2>5, <2>6, <1>a
<1>11. CASE candidate # <<>>
  <2>1. fitting # {}
      BY <1>7, <1>11
  <2>2. Max(fitting) \in 1..q
    <3>1. fitting \subseteq 1..q
        BY <1>f, <1>5
    <3> QED BY <3>1, <2>1, <1>3, GreatestIn
  <2>b. PICK best \in Nat : best = Max(fitting) /\ best \in 1..q
      BY <2>2
  <2>3. SubSeq(candidate, 1, best) \in Seq(Row)
      BY <2>b, <1>5, <1>3
  <2>d. PICK d \in Seq(Row) : d = SubSeq(candidate, 1, best)
      BY <2>3
  <2>4. Len(d) = best /\ \A i \in 1..best : d[i] = candidate[i]
      BY <2>b, <2>d, <1>5, <1>3
  <2>5. \A i \in 1..Len(d) : d[i] = all[offset + i]
    <3>1. ASSUME NEW i \in 1..best PROVE d[i] = all[offset + i]
      <4>1. i \in 1..q /\ i \in 1..Len(window)
          BY <2>b, <1>3, <1>6
      <4> QED BY <4>1, <2>4, <1>5, <1>2
    <3> QED BY <3>1, <2>4
  <2> DEFINE t == more \/ best < q
  <2>6. Page(sources, offset) = PageOf(offset, d, t)
      BY <1>7, <1>11, <2>1, <2>b, <2>d, <1>5
  <2>7. offset + best <= Len(all) /\ best > 0
      BY <2>b, <1>8, <1>9, <1>6
  <2>8. t <=> offset + best < Len(all)
      BY <2>b, <1>8, <1>9, <1>6
  <2>9. Slice(PageOf(offset, d, t), all, offset)
      BY <2>4, <2>5, <2>7, <2>8, SliceOf
  <2> QED BY <2>6, <2>9, <1>a
<1> QED BY <1>10, <1>11

-----------------------------------------------------------------------------
(* The inductive invariant of a run.  A run is on its way, or it has       *)
(* stopped with a result, or an exception has ended it.                    *)
LivePcs == {"connect", "contract", "status", "sleep", "pages", "files"}
EndPcs == {"close", "finalize", "report", "done"}
Outcomes == {"complete", "partial", "failed"}
Reasons ==
    {"finished", "deadline_exceeded", "request_timeout", "connect_failed", "call_failed",
     "duplicate_tool", "schema_invalid", "tools_missing", "invalid_arguments", "io_error",
     "raw_record_too_large", "log_budget", "tool_error", "protocol_error", "schema_mismatch",
     "flow_error", "status_budget", "result_budget", "page_budget", "filelist_truncated",
     "close_failed", "summary_overflow"}
Results == [outcome : Outcomes, reason : Reasons]

Cores == [pc : LivePcs \cup EndPcs \cup {"crash"}, open : BOOLEAN, found : SUBSET Tools, listed : Nat, status : Nat,
          counts : [Tools -> Nat], logBytes : Nat, records : Nat, logComplete : BOOLEAN,
          cursor : Nat \cup {Nil}, visited : SUBSET Nat, pages : Nat, rows : Seq(Row), rowsSaved : Nat,
          unread : Nat \cup {Nil}, files : {Nil, "complete", "truncated"}, result : Results \cup {Nil}]

AllOf(f) == FlattenSeq(f.sources)
Starts(s, t) == Len(s) <= Len(t) /\ \A i \in 1..Len(s) : s[i] = t[i]
CallsOf(c) == c.counts["get_flow_status"] + c.counts["get_flow_results"] + c.counts["list_flow_files"]

(* What holds of the files and the calls at every moment.                  *)
Kept(c, f) ==
    /\ c \in Cores
    /\ c.logBytes <= MaxLogBytes /\ TotalSize(c.rows) <= MaxResultBytes
    /\ c.counts["get_flow_status"] <= MaxStatusCalls
    /\ c.counts["get_flow_results"] <= MaxPages
    /\ c.counts["list_flow_files"] <= 1
    /\ Starts(c.rows, AllOf(f)) /\ c.rowsSaved <= Len(c.rows)
    /\ c.unread # Nil => c.unread = Len(c.rows)

(* On its way: nothing failed yet, and the cursor is the end of the rows.  *)
Live(c, f) ==
    /\ c.pc \in LivePcs
    /\ c.result = Nil /\ c.unread = Nil /\ c.logComplete /\ c.records = CallsOf(c)
    /\ c.rowsSaved = Len(c.rows) /\ c.counts["list_flow_files"] = 0
    /\ c.pc \in {"connect", "contract", "status", "sleep"} => c.status = c.counts["get_flow_status"]
    /\ c.pc = "sleep" => c.status # 0
    /\ c.pc # "files" => /\ Offset(c) = Len(c.rows)
                         /\ c.counts["get_flow_results"] = c.pages /\ c.pages < MaxPages
    /\ c.pc \in {"pages", "files"} => f.state = "FINISHED"
    /\ c.pc = "files" => c.rows = AllOf(f)

(* The result of a run that got through all three tools.                   *)
WholeRun(c, f) ==
    /\ f.state = "FINISHED" /\ c.rows = AllOf(f) /\ c.rowsSaved = Len(c.rows)
    /\ c.files = "complete" /\ c.logComplete /\ c.records = CallsOf(c)

(* The reason of a run that is stopped at time t.                          *)
Classified(reason, t) ==
    /\ reason = "deadline_exceeded" => t >= Deadline
    /\ t >= Deadline => reason \in {"deadline_exceeded"} \cup NoAnswer

Ended(c, f, t) ==
    /\ c.pc \in EndPcs /\ c.result \in Results
    /\ c.rowsSaved = Len(c.rows) \/ c.result.reason = "io_error" \/ c.pc = "done"
    /\ c.result.reason \in {"result_budget", "page_budget"} => c.unread # Nil
    /\ c.pc = "close" => Classified(c.result.reason, t)
    /\ c.result.outcome = "complete" => WholeRun(c, f)

Raised(c) == /\ c.pc \in {"crash", "done"} /\ c.result = Nil
             /\ c.unread = Nil /\ c.rowsSaved = Len(c.rows)

(* From the closing of the session on the deadline binds nothing.          *)
Unbound == {"finalize", "report", "done"}

Unreported == exit = [code |-> Nil, stdout |-> Nil, document |-> "none"]

Reported ==
    /\ exit.code = 0 <=> exit.stdout = "complete"
    /\ exit.stdout = "complete" => exit.document = "complete" /\ core.result.outcome = "complete"
    /\ exit.stdout # "overflow" => exit.document \in {"none", "torn", exit.stdout}

FlowInv ==
    /\ flow \in [sources : Flows, state : {"RUNNING", "FINISHED", "ERROR"}]
    /\ now \in Nat /\ (core.pc \notin Unbound => now <= Deadline)
    /\ Kept(core, flow)
    /\ \/ Live(core, flow)
       \/ Ended(core, flow, now)
       \/ Raised(core)
    /\ core.pc # "done" => Unreported
    /\ core.pc = "done" => \/ Raised(core) /\ exit.code = 1 /\ exit.stdout = Nil
                           \/ Ended(core, flow, now) /\ Reported

-----------------------------------------------------------------------------
(* The operators on a core: what they change and what they keep.           *)
SameFiles(d, c) ==
    /\ d.logBytes = c.logBytes /\ d.rows = c.rows /\ d.rowsSaved = c.rowsSaved
    /\ d.unread = c.unread /\ d.counts = c.counts /\ d.files = c.files
    /\ d.logComplete = c.logComplete /\ d.records = c.records

LEMMA CoreFields ==
    ASSUME NEW c \in Cores
    PROVE  /\ c.open \in BOOLEAN /\ c.found \in SUBSET Tools /\ c.listed \in Nat /\ c.status \in Nat
           /\ c.counts \in [Tools -> Nat] /\ c.logBytes \in Nat /\ c.records \in Nat
           /\ c.logComplete \in BOOLEAN /\ c.cursor \in Nat \cup {Nil} /\ c.visited \in SUBSET Nat
           /\ c.pages \in Nat /\ c.rows \in Seq(Row) /\ c.rowsSaved \in Nat
           /\ c.unread \in Nat \cup {Nil} /\ c.files \in {Nil, "complete", "truncated"}
BY DEF Cores

LEMMA CountFields ==
    ASSUME NEW c \in Cores
    PROVE  /\ c.counts["get_flow_status"] \in Nat /\ c.counts["get_flow_results"] \in Nat
           /\ c.counts["list_flow_files"] \in Nat
BY DEF Cores, Tools

LEMMA SameKept == ASSUME NEW d \in Cores, NEW c, NEW f, SameFiles(d, c), Kept(c, f) PROVE Kept(d, f)
BY DEF SameFiles, Kept

LEMMA StoppedIs ==
    ASSUME NEW c \in Cores, NEW o \in Outcomes, NEW r \in Reasons
    PROVE  LET d == Stopped(c, o, r)
           IN  /\ d \in Cores /\ d.pc = "close" /\ SameFiles(d, c)
               /\ d.result \in Results /\ d.result.outcome = o /\ d.result.reason = r
<1>r. PICK q : q = Result(o, r)
    OBVIOUS
<1>1. q \in Results /\ q.outcome = o /\ q.reason = r
    BY <1>r DEF Result, Results
<1>d. PICK d : d = [c EXCEPT !.pc = "close", !.result = q]
    OBVIOUS
<1>2. d = Stopped(c, o, r)
    BY <1>d, <1>r DEF Stopped
<1>3. d \in Cores
    BY <1>d, <1>1 DEF Cores, EndPcs
<1>4. d.pc = "close" /\ d.result = q
    BY <1>d DEF Cores
<1>5. SameFiles(d, c)
    BY <1>d DEF SameFiles, Cores
<1> QED BY <1>1, <1>2, <1>3, <1>4, <1>5

(* What a call that is stopped leaves.                                     *)
Halts == /\ Kept(core', flow) /\ Ended(core', flow, now') /\ core'.pc # "done"
         /\ now' \in Nat /\ (core'.pc \notin Unbound => now' <= Deadline)

MayStop(c, o, r) ==
    /\ core' = Stopped(c, o, r) /\ o \in {"partial", "failed"} /\ r \in Reasons
    /\ Kept(c, flow) /\ now' \in Nat /\ now' <= Deadline
    /\ c.rowsSaved = Len(c.rows) \/ r = "io_error"
    /\ r \in {"result_budget", "page_budget"} => c.unread # Nil
    /\ Classified(r, now')

LEMMA StopHalts ==
    ASSUME NEW c, NEW o, NEW r, MayStop(c, o, r)
    PROVE  Halts
<1>0. /\ core' = Stopped(c, o, r) /\ o \in {"partial", "failed"} /\ r \in Reasons
      /\ Kept(c, flow) /\ now' \in Nat /\ now' <= Deadline
      /\ c.rowsSaved = Len(c.rows) \/ r = "io_error"
      /\ r \in {"result_budget", "page_budget"} => c.unread # Nil
      /\ Classified(r, now')
    BY DEF MayStop
<1>1. c \in Cores /\ o \in Outcomes
    BY <1>0 DEF Kept, Outcomes
<1>d. PICK d : d = core'
    OBVIOUS
<1>2. /\ d \in Cores /\ d.pc = "close" /\ SameFiles(d, c)
      /\ d.result \in Results /\ d.result.outcome = o /\ d.result.reason = r
    BY <1>0, <1>1, <1>d, StoppedIs
<1>3. Kept(d, flow)
    BY <1>0, <1>2, SameKept
<1>4. Ended(d, flow, now')
    BY <1>0, <1>2 DEF Ended, EndPcs, SameFiles
<1> QED BY <1>0, <1>2, <1>3, <1>4, <1>d DEF Halts

LEMMA HaltsKeep ==
    ASSUME FlowInv, core.pc # "done", Frame, Halts
    PROVE  FlowInv'
<1>1. flow' = flow /\ exit' = exit
    BY DEF Frame
<1>2. Unreported'
    BY <1>1 DEF FlowInv, Unreported
<1>3. /\ Kept(core', flow') /\ Ended(core', flow', now') /\ core'.pc # "done" /\ now' \in Nat
      /\ (core'.pc \notin Unbound => now' <= Deadline)
    BY <1>1 DEF Halts
<1>4. flow' \in [sources : Flows, state : {"RUNNING", "FINISHED", "ERROR"}]
    BY <1>1 DEF FlowInv
<1> QED BY <1>2, <1>3, <1>4 DEF FlowInv

(* The same for a step after which the run goes on.                        *)
GoesOnFlow == /\ Kept(core', flow) /\ Live(core', flow)
              /\ now' \in Nat /\ now' <= Deadline

LEMMA GoesOnKeep ==
    ASSUME FlowInv, core.pc # "done", Frame, GoesOnFlow
    PROVE  FlowInv'
<1>1. flow' = flow /\ exit' = exit
    BY DEF Frame
<1>2. Unreported'
    BY <1>1 DEF FlowInv, Unreported
<1>3. Kept(core', flow') /\ Live(core', flow') /\ core'.pc # "done" /\ now' \in Nat /\ now' <= Deadline
    BY <1>1 DEF GoesOnFlow, Live, LivePcs
<1>4. flow' \in [sources : Flows, state : {"RUNNING", "FINISHED", "ERROR"}]
    BY <1>1 DEF FlowInv
<1> QED BY <1>2, <1>3, <1>4 DEF FlowInv

-----------------------------------------------------------------------------
(* The two limits of a call.                                               *)
LEMMA Budgets ==
    /\ Deadline \in Nat /\ RequestTimeout \in Nat /\ Deadline > 0 /\ RequestTimeout > 0
    /\ MaxStatusCalls \in Nat /\ MaxPages \in Nat /\ MaxPages > 0 /\ MaxResultBytes \in Nat
    /\ MaxLogBytes \in Nat /\ RecordLimit \in Nat /\ RecordLimit > 0 /\ MaxLogBytes >= RecordLimit
BY BudgetAssumption

LEMMA LimitIs ==
    ASSUME now \in Nat, now <= Deadline
    PROVE  /\ Remaining = Deadline - now /\ Remaining \in Nat
           /\ Limit \in Nat
           /\ Remaining <= RequestTimeout => now + Limit = Deadline
           /\ Remaining > RequestTimeout => now + Limit \in Nat /\ now + Limit < Deadline
           /\ now + Limit \in Nat /\ now + Limit <= Deadline
           /\ \A t \in now..(now + Limit - 1) : t \in Nat /\ t < Deadline
           /\ \A t \in now..(now + Limit) : t \in Nat /\ t <= Deadline
<1>1. Remaining = Deadline - now /\ Remaining \in Nat
    BY Budgets DEF Remaining
<1>2. Limit = IF Remaining <= RequestTimeout THEN Remaining ELSE RequestTimeout
    BY <1>1, Budgets, Least2 DEF Limit
<1>3. Limit \in Nat /\ Deadline \in Nat /\ RequestTimeout \in Nat
    BY <1>1, <1>2, Budgets
<1>4. Remaining <= RequestTimeout => now + Limit = Deadline
    BY <1>1, <1>2, <1>3
<1>5. Remaining > RequestTimeout => now + Limit \in Nat /\ now + Limit < Deadline
    BY <1>1, <1>2, <1>3
<1>6. now + Limit \in Nat /\ now + Limit <= Deadline
    BY <1>1, <1>3, <1>4, <1>5
<1>7. \A t \in now..(now + Limit - 1) : t \in Nat /\ t < Deadline
    BY <1>3, <1>6
<1>8. \A t \in now..(now + Limit) : t \in Nat /\ t <= Deadline
    BY <1>3, <1>6
<1> QED BY <1>1, <1>3, <1>4, <1>5, <1>6, <1>7, <1>8

LEMMA OverrunHalts ==
    ASSUME now \in Nat, now <= Deadline, NEW c, Kept(c, flow), c.rowsSaved = Len(c.rows),
           now' = now + Limit, core' = Overrun(c)
    PROVE  Halts
<1>1. now' \in Nat /\ now' <= Deadline
    BY LimitIs
<1>2. CASE Remaining <= RequestTimeout
  <2>1. core' = Stopped(c, "partial", "deadline_exceeded") /\ now' = Deadline
      BY <1>2, LimitIs DEF Overrun
  <2>2. now' >= Deadline
      BY <2>1, Budgets
  <2>3. MayStop(c, "partial", "deadline_exceeded")
      BY <1>1, <2>1, <2>2 DEF MayStop, Reasons, Classified, NoAnswer
  <2> QED BY <2>3, StopHalts
<1>3. CASE ~(Remaining <= RequestTimeout)
  <2>1. core' = Stopped(c, "failed", "request_timeout")
      BY <1>3 DEF Overrun
  <2>2. Remaining > RequestTimeout
      BY <1>3, LimitIs, Budgets
  <2>3. ~(now' >= Deadline)
      BY <2>2, LimitIs, Budgets
  <2>4. MayStop(c, "failed", "request_timeout")
      BY <1>1, <2>1, <2>3 DEF MayStop, Reasons, Classified, NoAnswer
  <2> QED BY <2>4, StopHalts
<1> QED BY <1>2, <1>3

LEMMA BoundedHalts ==
    ASSUME now \in Nat, now <= Deadline, NEW c, Kept(c, flow), c.rowsSaved = Len(c.rows), BoundedFails(c)
    PROVE  Halts
<1>1. CASE Remaining <= 0
  <2>1. core' = Stopped(c, "partial", "deadline_exceeded") /\ now' = now
      BY <1>1 DEF BoundedFails
  <2>2. now' \in Nat /\ now' <= Deadline /\ now' >= Deadline
      BY <1>1, <2>1, LimitIs, Budgets
  <2>3. MayStop(c, "partial", "deadline_exceeded")
      BY <2>1, <2>2 DEF MayStop, Reasons, Classified, NoAnswer
  <2> QED BY <2>3, StopHalts
<1>2. CASE ~(Remaining <= 0) /\ now' = now + Limit /\ core' = Overrun(c)
    BY <1>2, OverrunHalts
<1>3. CASE ~(Remaining <= 0) /\ now' \in now..(now + Limit) /\ core' = Stopped(c, "failed", "call_failed")
  <2>1. now' \in Nat /\ now' <= Deadline
      BY <1>3, LimitIs
  <2>3. MayStop(c, "failed", "call_failed")
      BY <1>3, <2>1 DEF MayStop, Reasons, Classified, NoAnswer
  <2> QED BY <2>3, StopHalts
<1> QED BY <1>1, <1>2, <1>3 DEF BoundedFails

LEMMA InTimeIs == ASSUME now \in Nat, now <= Deadline, InTime
                 PROVE now' \in Nat /\ now' <= Deadline /\ ~(now' >= Deadline)
<1>1. now' \in Nat /\ now' < Deadline
    BY LimitIs DEF InTime
<1> QED BY <1>1, Budgets

LEMMA StandStill == ASSUME now \in Nat, now <= Deadline, UNCHANGED now PROVE now' \in Nat /\ now' <= Deadline
OBVIOUS

-----------------------------------------------------------------------------
(* Calls.  What a counted and recorded call leaves as it was.              *)
Apart(d, c) ==
    /\ d.pc = c.pc /\ d.found = c.found /\ d.listed = c.listed /\ d.status = c.status
    /\ d.cursor = c.cursor /\ d.visited = c.visited /\ d.pages = c.pages /\ d.rows = c.rows
    /\ d.rowsSaved = c.rowsSaved /\ d.unread = c.unread /\ d.files = c.files /\ d.result = c.result

OneMore(d, c, tool) ==
    /\ d.counts[tool] = c.counts[tool] + 1
    /\ \A u \in Tools \ {tool} : d.counts[u] = c.counts[u]

LEMMA CountedIs ==
    ASSUME core \in Cores, NEW tool \in Tools
    PROVE  LET d == Counted(tool)
           IN  /\ d \in Cores /\ Apart(d, core) /\ OneMore(d, core, tool)
               /\ d.logBytes = core.logBytes /\ d.records = core.records
               /\ d.logComplete = core.logComplete
<1>n. PICK n : n = core.counts[tool] + 1
    OBVIOUS
<1>k. PICK k : k = [core.counts EXCEPT ![tool] = n]
    OBVIOUS
<1>d. PICK d : d = [core EXCEPT !.counts = k]
    OBVIOUS
<1>1. core.counts \in [Tools -> Nat]
    BY CoreFields
<1>2. n \in Nat
    BY <1>1, <1>n
<1>3. k \in [Tools -> Nat] /\ k[tool] = n /\ \A u \in Tools \ {tool} : k[u] = core.counts[u]
    BY <1>1, <1>2, <1>k
<1>4. Counted(tool) = d
    BY <1>n, <1>k, <1>d DEF Counted
<1>5. d \in Cores
    BY <1>3, <1>d DEF Cores
<1>6. Apart(d, core) /\ d.logBytes = core.logBytes /\ d.records = core.records /\ d.logComplete = core.logComplete
    BY <1>d DEF Cores, Apart
<1>7. d.counts = k
    BY <1>d DEF Cores
<1>8. OneMore(d, core, tool)
    BY <1>3, <1>7, <1>n DEF OneMore
<1> QED BY <1>4, <1>5, <1>6, <1>8

LEMMA LoggedIs ==
    ASSUME NEW c \in Cores, NEW size \in Nat, size <= RecordLimit
    PROVE  LET d == Logged(c, size)
           IN  /\ d \in Cores /\ Apart(d, c) /\ d.counts = c.counts
               /\ d.logBytes = c.logBytes + size /\ d.records = c.records + 1
               /\ d.logComplete = c.logComplete
<1>n. PICK n \in Nat, m \in Nat : n = c.logBytes + size /\ m = c.records + 1
    BY CoreFields
<1>d. PICK d : d = [c EXCEPT !.logBytes = n, !.records = m]
    OBVIOUS
<1>1. ~(size > RecordLimit)
    BY Budgets
<1>2. Logged(c, size) = d
    BY <1>1, <1>n, <1>d DEF Logged
<1>3. d \in Cores
    BY <1>d DEF Cores
<1>4. Apart(d, c) /\ d.counts = c.counts /\ d.logBytes = n /\ d.records = m /\ d.logComplete = c.logComplete
    BY <1>d DEF Cores, Apart
<1> QED BY <1>2, <1>3, <1>4, <1>n

(* A record that is too large: its marker takes one byte of the log.       *)
Marked(c) == [c EXCEPT !.logBytes = @ + 1, !.records = @ + 1, !.logComplete = FALSE]

LEMMA MarkedIs ==
    ASSUME NEW c \in Cores
    PROVE  /\ Marked(c) \in Cores /\ Apart(Marked(c), c) /\ Marked(c).counts = c.counts
           /\ Marked(c).logBytes = c.logBytes + 1
           /\ Logged(c, RecordLimit + 1) = Stopped(Marked(c), "failed", "raw_record_too_large")
<1>n. PICK n \in Nat, m \in Nat : n = c.logBytes + 1 /\ m = c.records + 1
    BY CoreFields
<1>d. PICK d : d = [c EXCEPT !.logBytes = n, !.records = m, !.logComplete = FALSE]
    OBVIOUS
<1>1. Marked(c) = d
    BY <1>n, <1>d DEF Marked
<1>2. d \in Cores
    BY <1>d DEF Cores
<1>3. Apart(d, c) /\ d.counts = c.counts /\ d.logBytes = n
    BY <1>d DEF Cores, Apart
<1>4. RecordLimit + 1 > RecordLimit
    BY Budgets
<1>5. Logged(c, RecordLimit + 1) = Stopped(Marked(c), "failed", "raw_record_too_large")
    BY <1>4 DEF Logged, Marked
<1> QED BY <1>1, <1>2, <1>3, <1>5, <1>n

(* One more call of the tool fits into the budget.                         *)
Affords(tool) ==
    /\ tool \in Tools
    /\ tool = "get_flow_status" => core.counts["get_flow_status"] + 1 <= MaxStatusCalls
    /\ tool = "get_flow_results" => core.counts["get_flow_results"] + 1 <= MaxPages
    /\ tool = "list_flow_files" => core.counts["list_flow_files"] + 1 <= 1

LEMMA CallIsKept ==
    ASSUME NEW tool, Affords(tool), NEW c, NEW d \in Cores, NEW f, Kept(core, f), Apart(c, core),
           OneMore(c, core, tool), Apart(d, c), d.counts = c.counts, d.logBytes <= MaxLogBytes
    PROVE  Kept(d, f) /\ d.rowsSaved = core.rowsSaved /\ d.rows = core.rows
<1>1. d.rows = core.rows /\ d.rowsSaved = core.rowsSaved /\ d.unread = core.unread
    BY DEF Apart
<1>2. tool \in {"get_flow_status", "get_flow_results", "list_flow_files"}
    BY DEF Affords, Tools
<1>3. /\ d.counts["get_flow_status"] <= MaxStatusCalls
      /\ d.counts["get_flow_results"] <= MaxPages
      /\ d.counts["list_flow_files"] <= 1
  <2>1. CASE tool = "get_flow_status"
      BY <2>1 DEF Affords, OneMore, Kept, Tools
  <2>2. CASE tool = "get_flow_results"
      BY <2>2 DEF Affords, OneMore, Kept, Tools
  <2>3. CASE tool = "list_flow_files"
      BY <2>3 DEF Affords, OneMore, Kept, Tools
  <2> QED BY <1>2, <2>1, <2>2, <2>3
<1> QED BY <1>1, <1>3 DEF Kept

(* What a call hands to its caller: the same run, one call further.        *)
Recorded(c, tool) ==
    /\ c \in Cores /\ Apart(c, core) /\ OneMore(c, core, tool) /\ Kept(c, flow)
    /\ c.records = core.records + 1 /\ c.logComplete = core.logComplete

LEMMA RecordedIs ==
    ASSUME Kept(core, flow), NEW tool, Affords(tool), ~LogFull, NEW size \in 1..RecordLimit
    PROVE  Recorded(Logged(Counted(tool), size), tool)
<1>0. core \in Cores /\ tool \in Tools /\ size \in Nat /\ size <= RecordLimit
    BY Budgets DEF Kept, Affords
<1>c. PICK c : c = Counted(tool)
    OBVIOUS
<1>1. /\ c \in Cores /\ Apart(c, core) /\ OneMore(c, core, tool)
      /\ c.logBytes = core.logBytes /\ c.records = core.records /\ c.logComplete = core.logComplete
    BY <1>0, <1>c, CountedIs
<1>d. PICK d : d = Logged(c, size)
    OBVIOUS
<1>2. /\ d \in Cores /\ Apart(d, c) /\ d.counts = c.counts
      /\ d.logBytes = c.logBytes + size /\ d.records = c.records + 1 /\ d.logComplete = c.logComplete
    BY <1>0, <1>1, <1>d, LoggedIs
<1>3. d.logBytes <= MaxLogBytes
  <2>1. core.logBytes + RecordLimit <= MaxLogBytes
      BY <1>0, CoreFields, Budgets DEF LogFull
  <2> QED BY <2>1, <1>0, <1>1, <1>2, CoreFields, Budgets
<1>4. Kept(d, flow)
    BY <1>1, <1>2, <1>3, CallIsKept
<1>5. Apart(d, core) /\ OneMore(d, core, tool)
    BY <1>1, <1>2 DEF Apart, OneMore
<1> QED BY <1>1, <1>2, <1>4, <1>5, <1>c, <1>d DEF Recorded

LEMMA CallHalts ==
    ASSUME now \in Nat, now <= Deadline, Kept(core, flow), core.rowsSaved = Len(core.rows),
           NEW tool, Affords(tool), CallFails(tool)
    PROVE  Halts
<1>0. core \in Cores /\ tool \in Tools
    BY DEF Kept, Affords
<1>c. PICK c : c = Counted(tool)
    OBVIOUS
<1>1. /\ c \in Cores /\ Apart(c, core) /\ OneMore(c, core, tool) /\ c.logBytes = core.logBytes
    BY <1>0, <1>c, CountedIs
<1>2. Kept(c, flow) /\ c.rowsSaved = Len(c.rows)
  <2>1. Apart(c, c) /\ c.logBytes <= MaxLogBytes
      BY <1>1 DEF Apart, Kept
  <2> QED BY <1>1, <2>1, CallIsKept
<1>3. CASE core' = Stopped(core, "partial", "log_budget") /\ UNCHANGED now
  <2>1. MayStop(core, "partial", "log_budget")
      BY <1>3 DEF MayStop, Reasons, Classified, NoAnswer
  <2> QED BY <2>1, StopHalts
<1>4. CASE core' = Stopped(core, "failed", "invalid_arguments") /\ UNCHANGED now
  <2>1. MayStop(core, "failed", "invalid_arguments")
      BY <1>4 DEF MayStop, Reasons, Classified, NoAnswer
  <2> QED BY <2>1, StopHalts
<1>5. CASE BoundedFails(Counted(tool))
    BY <1>2, <1>5, <1>c, BoundedHalts
<1>6. CASE InTime /\ core' = Stopped(Counted(tool), "failed", "io_error")
  <2>1. MayStop(c, "failed", "io_error")
      BY <1>2, <1>6, <1>c, InTimeIs DEF MayStop, Reasons, Classified, NoAnswer
  <2> QED BY <2>1, StopHalts
<1>7. CASE ~LogFull /\ InTime /\ core' = Logged(Counted(tool), RecordLimit + 1)
  <2>m. PICK m : m = Marked(c)
      OBVIOUS
  <2>1. m \in Cores /\ Apart(m, c) /\ m.counts = c.counts /\ m.logBytes = core.logBytes + 1
      BY <1>1, <2>m, MarkedIs
  <2>2. core.logBytes + 1 <= MaxLogBytes
    <3>1. core.logBytes + RecordLimit <= MaxLogBytes
        BY <1>0, <1>7, CoreFields, Budgets DEF LogFull
    <3> QED BY <3>1, <1>0, CoreFields, Budgets
  <2>3. Kept(m, flow) /\ m.rowsSaved = core.rowsSaved /\ m.rows = core.rows
      BY <1>1, <2>1, <2>2, CallIsKept
  <2>4. core' = Stopped(m, "failed", "raw_record_too_large")
      BY <1>1, <1>7, <1>c, <2>m, MarkedIs
  <2>5. MayStop(m, "failed", "raw_record_too_large")
      BY <1>7, <2>3, <2>4, InTimeIs DEF MayStop, Reasons, Classified, NoAnswer
  <2> QED BY <2>5, StopHalts
<1>8. ASSUME ~LogFull, InTime, NEW size \in 1..RecordLimit,
             NEW reason \in {"tool_error", "protocol_error", "schema_mismatch"},
             core' = Stopped(Logged(Counted(tool), size), "failed", reason)
      PROVE  Halts
  <2>d. PICK d : d = Logged(Counted(tool), size)
      OBVIOUS
  <2>1. Recorded(d, tool)
      BY <1>8, <2>d, RecordedIs
  <2>2. Kept(d, flow) /\ d.rowsSaved = Len(d.rows)
      BY <2>1 DEF Recorded, Apart
  <2>3. MayStop(d, "failed", reason)
      BY <1>8, <2>d, <2>2, InTimeIs DEF MayStop, Reasons, Classified, NoAnswer
  <2> QED BY <2>3, StopHalts
<1> QED BY <1>3, <1>4, <1>5, <1>6, <1>7, <1>8 DEF CallFails

-----------------------------------------------------------------------------
(* The steps of a run.                                                     *)
LEMMA AliveAt ==
    ASSUME FlowInv, core.pc \in LivePcs
    PROVE  /\ Live(core, flow) /\ Kept(core, flow) /\ core.pc # "done"
           /\ core \in Cores /\ core.rowsSaved = Len(core.rows)
           /\ now \in Nat /\ now <= Deadline
<1>1. core.pc \notin EndPcs /\ core.pc \notin {"crash", "done"}
    BY DEF LivePcs, EndPcs
<1>2. Live(core, flow)
    BY <1>1 DEF FlowInv, Ended, Raised
<1>3. core.pc \notin Unbound
    BY DEF LivePcs, Unbound
<1> QED BY <1>1, <1>2, <1>3 DEF FlowInv, Kept, Live

LEMMA MovesTo ==
    ASSUME NEW c \in Cores, NEW pc \in LivePcs \cup EndPcs \cup {"crash"}
    PROVE  LET d == [c EXCEPT !.pc = pc]
           IN  /\ d \in Cores /\ d.pc = pc /\ SameFiles(d, c) /\ d.found = c.found /\ d.listed = c.listed
               /\ d.status = c.status /\ d.cursor = c.cursor /\ d.visited = c.visited
               /\ d.pages = c.pages /\ d.result = c.result
BY DEF Cores, SameFiles

LEMMA LiveMoves ==
    ASSUME NEW c, NEW d, NEW f, Live(c, f), SameFiles(d, c), d.status = c.status, d.cursor = c.cursor,
           d.pages = c.pages, d.result = c.result, d.pc \in {"contract", "status"},
           c.pc \in {"connect", "contract", "sleep"}
    PROVE  Live(d, f)
BY DEF Live, LivePcs, SameFiles, Offset, CallsOf

LEMMA ConnectKeeps == ASSUME FlowInv, Connect PROVE FlowInv'
<1>0. core.pc = "connect" /\ Frame
    BY DEF Connect, RunAt
<1>1. /\ Live(core, flow) /\ Kept(core, flow) /\ core.pc # "done" /\ core \in Cores
      /\ core.rowsSaved = Len(core.rows) /\ now \in Nat /\ now <= Deadline
    BY <1>0, AliveAt DEF LivePcs
<1>2. CASE now' = now + Limit /\ core' = Overrun(core)
    BY <1>0, <1>1, <1>2, OverrunHalts, HaltsKeep
<1>3. CASE now' \in now..(now + Limit) /\ core' = Stopped(core, "failed", "connect_failed")
  <2>1. now' \in Nat /\ now' <= Deadline
      BY <1>1, <1>3, LimitIs, Budgets
  <2>2. MayStop(core, "failed", "connect_failed")
      BY <1>1, <1>3, <2>1 DEF MayStop, Reasons, Classified, NoAnswer
  <2> QED BY <1>0, <1>1, <2>2, StopHalts, HaltsKeep
<1>4. CASE now' \in now..(now + Limit - 1) /\ core' = [core EXCEPT !.pc = "contract", !.open = TRUE]
  <2>1. now' \in Nat /\ now' <= Deadline
      BY <1>1, <1>4, LimitIs, Budgets
  <2>d. PICK d : d = core'
      OBVIOUS
  <2>2. /\ d \in Cores /\ d.pc = "contract" /\ SameFiles(d, core) /\ d.status = core.status
        /\ d.cursor = core.cursor /\ d.pages = core.pages /\ d.result = core.result
      BY <1>1, <1>4, <2>d DEF Cores, LivePcs, SameFiles
  <2>3. Live(d, flow)
      BY <1>0, <1>1, <2>2, LiveMoves
  <2>4. Kept(d, flow)
      BY <1>1, <2>2, SameKept
  <2>5. GoesOnFlow
      BY <2>1, <2>3, <2>4, <2>d DEF GoesOnFlow
  <2> QED BY <1>0, <1>1, <2>5, GoesOnKeep
<1> QED BY <1>2, <1>3, <1>4 DEF Connect

LEMMA LoadContractKeeps == ASSUME FlowInv, LoadContract PROVE FlowInv'
<1>0. core.pc = "contract" /\ Frame
    BY DEF LoadContract, RunAt
<1>1. /\ Live(core, flow) /\ Kept(core, flow) /\ core.pc # "done" /\ core \in Cores
      /\ core.rowsSaved = Len(core.rows) /\ now \in Nat /\ now <= Deadline
    BY <1>0, AliveAt DEF LivePcs
<1>2. CASE BoundedFails(core)
    BY <1>0, <1>1, <1>2, BoundedHalts, HaltsKeep
<1>3. ASSUME InTime, NEW tools \in SUBSET Tools, NEW next \in {"none", "new", "seen"},
             NEW seen, seen = [core EXCEPT !.found = @ \cup tools, !.listed = @ + 1],
             core' \in
               IF tools \cap core.found # {} THEN {Stopped(core, "failed", "duplicate_tool")}
               ELSE IF seen.found = Tools
               THEN {Stopped(seen, "failed", "schema_invalid"), Stopped(seen, "failed", "io_error"),
                     [seen EXCEPT !.pc = "crash"], [seen EXCEPT !.pc = "status"]}
               ELSE IF next = "none" THEN {Stopped(seen, "failed", "tools_missing")}
               ELSE IF next = "seen" THEN {Stopped(seen, "failed", "protocol_error")}
               ELSE IF seen.listed = ListToolsMaxPages THEN {Stopped(seen, "failed", "tools_missing")}
               ELSE {seen}
      PROVE  FlowInv'
  <2>t. now' \in Nat /\ now' <= Deadline /\ ~(now' >= Deadline)
      BY <1>1, <1>3, InTimeIs
  <2>f. PICK found \in SUBSET Tools : found = core.found \cup tools
    <3>1. core.found \cup tools \in SUBSET Tools
        BY <1>1, CoreFields
    <3> QED BY <3>1
  <2>l. PICK listed \in Nat : listed = core.listed + 1
      BY <1>1, CoreFields
  <2>0. seen = [core EXCEPT !.found = found, !.listed = listed]
      BY <1>3, <2>f, <2>l
  <2>1. /\ seen \in Cores /\ seen.pc = "contract" /\ SameFiles(seen, core) /\ seen.status = core.status
        /\ seen.cursor = core.cursor /\ seen.pages = core.pages /\ seen.result = core.result
      BY <1>0, <1>1, <2>0 DEF Cores, SameFiles
  <2>2. Kept(seen, flow) /\ seen.rowsSaved = Len(seen.rows)
    <3>1. Kept(seen, flow)
        BY <1>1, <2>1, SameKept
    <3> QED BY <3>1, <1>1, <2>1 DEF SameFiles
  <2>3. CASE core' = Stopped(core, "failed", "duplicate_tool")
    <3>1. MayStop(core, "failed", "duplicate_tool")
        BY <1>1, <2>3, <2>t DEF MayStop, Reasons, Classified, NoAnswer
    <3> QED BY <3>1, <1>0, <1>1, StopHalts, HaltsKeep
  <2>4. ASSUME NEW r \in {"schema_invalid", "io_error", "tools_missing", "protocol_error"},
               core' = Stopped(seen, "failed", r)
        PROVE  FlowInv'
    <3>1. MayStop(seen, "failed", r)
        BY <2>2, <2>4, <2>t DEF MayStop, Reasons, Classified, NoAnswer
    <3> QED BY <3>1, <1>0, <1>1, StopHalts, HaltsKeep
  <2>5. CASE core' = [seen EXCEPT !.pc = "crash"]
    <3>d. PICK d : d = core'
        OBVIOUS
    <3>1. d \in Cores /\ d.pc = "crash" /\ SameFiles(d, seen) /\ d.result = seen.result
        BY <2>1, <2>5, <3>d, MovesTo
    <3>2. Kept(d, flow)
        BY <2>2, <3>1, SameKept
    <3>3. Raised(d)
        BY <1>1, <2>1, <3>1 DEF Raised, SameFiles, Live
    <3>4. flow' = flow /\ exit' = exit
        BY <1>0 DEF Frame
    <3>5. Unreported' /\ core'.pc # "done"
        BY <1>1, <3>1, <3>d, <3>4 DEF FlowInv, Unreported
    <3>6. flow' \in [sources : Flows, state : {"RUNNING", "FINISHED", "ERROR"}]
        BY <3>4 DEF FlowInv
    <3>7. Kept(core', flow') /\ Raised(core')
        BY <3>2, <3>3, <3>4, <3>d
    <3> QED BY <3>5, <3>6, <3>7, <2>t DEF FlowInv
  <2>6. CASE core' = [seen EXCEPT !.pc = "status"]
    <3>d. PICK d : d = core'
        OBVIOUS
    <3>1. /\ d \in Cores /\ d.pc = "status" /\ SameFiles(d, seen) /\ d.result = seen.result
          /\ d.status = seen.status /\ d.cursor = seen.cursor /\ d.pages = seen.pages
        BY <2>1, <2>6, <3>d, MovesTo DEF LivePcs
    <3>2. SameFiles(d, core)
        BY <2>1, <3>1 DEF SameFiles
    <3>3. Live(d, flow)
        BY <1>0, <1>1, <2>1, <3>1, <3>2, LiveMoves
    <3>4. Kept(d, flow)
        BY <1>1, <3>1, <3>2, SameKept
    <3>5. GoesOnFlow
        BY <2>t, <3>3, <3>4, <3>d DEF GoesOnFlow
    <3> QED BY <1>0, <1>1, <3>5, GoesOnKeep
  <2>7. CASE core' = seen
    <3>1. Live(seen, flow)
        BY <1>0, <1>1, <2>1, LiveMoves
    <3>2. GoesOnFlow
        BY <2>t, <2>2, <2>7, <3>1 DEF GoesOnFlow
    <3> QED BY <1>0, <1>1, <3>2, GoesOnKeep
  <2>8. \/ core' = Stopped(core, "failed", "duplicate_tool")
        \/ \E r \in {"schema_invalid", "io_error", "tools_missing", "protocol_error"} :
              core' = Stopped(seen, "failed", r)
        \/ core' = [seen EXCEPT !.pc = "crash"]
        \/ core' = [seen EXCEPT !.pc = "status"]
        \/ core' = seen
      BY <1>3
  <2> QED BY <2>3, <2>4, <2>5, <2>6, <2>7, <2>8
<1>4. CASE InTime /\ Listing(core)
    BY <1>3, <1>4, Zenon DEF Listing
<1> QED BY <1>2, <1>4 DEF LoadContract, Bounded

LEMMA WaitKeeps == ASSUME FlowInv, WaitFinished PROVE FlowInv'
<1>0. core.pc = "status" /\ Frame
    BY DEF WaitFinished, RunAt
<1>1. /\ Live(core, flow) /\ Kept(core, flow) /\ core.pc # "done" /\ core \in Cores
      /\ core.rowsSaved = Len(core.rows) /\ now \in Nat /\ now <= Deadline
    BY <1>0, AliveAt DEF LivePcs
<1>2. CASE core.status >= MaxStatusCalls
  <2>1. MayStop(core, "partial", "status_budget")
      BY <1>1, <1>2 DEF MayStop, Reasons, Classified, NoAnswer, WaitFinished
  <2> QED BY <2>1, <1>0, <1>1, StopHalts, HaltsKeep
<1>3. CASE ~(core.status >= MaxStatusCalls)
  <2>1. Affords("get_flow_status")
    <3>1. core.status = core.counts["get_flow_status"] /\ core.status \in Nat
        BY <1>0, <1>1, CoreFields DEF Live
    <3>2. core.status + 1 <= MaxStatusCalls
        BY <1>3, <3>1, Budgets
    <3> QED BY <3>1, <3>2 DEF Affords, Tools
  <2>2. CASE CallFails("get_flow_status")
      BY <1>0, <1>1, <2>1, <2>2, CallHalts, HaltsKeep
  <2>3. ASSUME ~LogFull, InTime, NEW size \in 1..RecordLimit,
               StatusSeen(Logged(Counted("get_flow_status"), size))
        PROVE  FlowInv'
    <3>c. PICK c : c = Logged(Counted("get_flow_status"), size)
        OBVIOUS
    <3>1. Recorded(c, "get_flow_status")
        BY <1>1, <2>1, <2>3, <3>c, RecordedIs
    <3>2. /\ c \in Cores /\ Apart(c, core) /\ OneMore(c, core, "get_flow_status") /\ Kept(c, flow)
          /\ c.records = core.records + 1 /\ c.logComplete = core.logComplete
        BY <3>1 DEF Recorded
    <3>t. now' \in Nat /\ now' <= Deadline /\ ~(now' >= Deadline)
        BY <1>1, <2>3, InTimeIs
    <3>3. c.rowsSaved = Len(c.rows)
        BY <1>1, <3>2 DEF Apart
    <3>4. ASSUME NEW r \in {"protocol_error", "flow_error"}, core' = Stopped(c, "failed", r)
          PROVE  FlowInv'
      <4>1. MayStop(c, "failed", r)
          BY <3>2, <3>3, <3>4, <3>t DEF MayStop, Reasons, Classified, NoAnswer
      <4> QED BY <4>1, <1>0, <1>1, StopHalts, HaltsKeep
    <3>5. /\ CallsOf(c) = CallsOf(core) + 1 /\ c.counts["list_flow_files"] = core.counts["list_flow_files"]
          /\ c.counts["get_flow_results"] = core.counts["get_flow_results"]
          /\ c.counts["get_flow_status"] = core.counts["get_flow_status"] + 1
      <4>1. /\ c.counts["list_flow_files"] = core.counts["list_flow_files"]
            /\ c.counts["get_flow_results"] = core.counts["get_flow_results"]
            /\ c.counts["get_flow_status"] = core.counts["get_flow_status"] + 1
          BY <3>2 DEF OneMore, Tools
      <4>2. PICK x \in Nat, y \in Nat, z \in Nat :
                 /\ x = core.counts["list_flow_files"] /\ y = core.counts["get_flow_results"]
                 /\ z = core.counts["get_flow_status"]
          BY <1>1, CountFields
      <4>3. CallsOf(core) = z + y + x /\ CallsOf(c) = (z + 1) + y + x
          BY <4>1, <4>2 DEF CallsOf
      <4>4. (z + 1) + y + x = (z + y + x) + 1
          OBVIOUS
      <4> QED BY <4>1, <4>3, <4>4
    <3>6. CASE flow.state = "FINISHED" /\ core' = [c EXCEPT !.pc = "pages"]
      <4>d. PICK d : d = core'
          OBVIOUS
      <4>1. /\ d \in Cores /\ d.pc = "pages" /\ SameFiles(d, c) /\ d.result = c.result
            /\ d.status = c.status /\ d.cursor = c.cursor /\ d.pages = c.pages
          BY <3>2, <3>6, <4>d, MovesTo DEF LivePcs
      <4>2. Kept(d, flow)
          BY <3>2, <4>1, SameKept
      <4>3. Live(d, flow)
        <5>1. d.counts = c.counts /\ CallsOf(d) = CallsOf(c)
            BY <4>1 DEF SameFiles, CallsOf
        <5>2. d.records = CallsOf(d)
            BY <1>1, <3>2, <3>5, <4>1, <5>1 DEF SameFiles, Live
        <5> QED BY <1>0, <1>1, <3>2, <3>5, <3>6, <4>1, <5>1, <5>2 DEF Live, LivePcs, SameFiles, Apart, Offset
      <4>4. GoesOnFlow
          BY <3>t, <4>2, <4>3, <4>d DEF GoesOnFlow
      <4> QED BY <1>0, <1>1, <4>4, GoesOnKeep
    <3>7. CASE core' = [c EXCEPT !.pc = "sleep", !.status = @ + 1]
      <4>n. PICK n \in Nat : n = c.status + 1 /\ n # 0
          BY <3>2, CoreFields
      <4>d. PICK d : d = core'
          OBVIOUS
      <4>0. d = [c EXCEPT !.pc = "sleep", !.status = n]
          BY <3>7, <4>d, <4>n
      <4>1. /\ d \in Cores /\ d.pc = "sleep" /\ SameFiles(d, c) /\ d.result = c.result
            /\ d.status = n /\ d.cursor = c.cursor /\ d.pages = c.pages
          BY <3>2, <4>0 DEF Cores, LivePcs, SameFiles
      <4>2. Kept(d, flow)
          BY <3>2, <4>1, SameKept
      <4>3. Live(d, flow)
        <5>1. d.counts = c.counts /\ CallsOf(d) = CallsOf(c)
            BY <4>1 DEF SameFiles, CallsOf
        <5>2. d.records = CallsOf(d)
            BY <1>1, <3>2, <3>5, <4>1, <5>1 DEF SameFiles, Live
        <5>3. d.status = d.counts["get_flow_status"]
            BY <1>0, <1>1, <3>2, <3>5, <4>1, <4>n, <5>1 DEF Live, Apart
        <5> QED BY <1>0, <1>1, <3>2, <3>5, <4>1, <4>n, <5>1, <5>2, <5>3
                DEF Live, LivePcs, SameFiles, Apart, Offset
      <4>4. GoesOnFlow
          BY <3>t, <4>2, <4>3, <4>d DEF GoesOnFlow
      <4> QED BY <1>0, <1>1, <4>4, GoesOnKeep
    <3>8. \/ \E r \in {"protocol_error", "flow_error"} : core' = Stopped(c, "failed", r)
          \/ flow.state = "FINISHED" /\ core' = [c EXCEPT !.pc = "pages"]
          \/ core' = [c EXCEPT !.pc = "sleep", !.status = @ + 1]
        BY <2>3, <3>c DEF StatusSeen
    <3> QED BY <3>4, <3>6, <3>7, <3>8
  <2>4. ToolCall("get_flow_status", StatusSeen)
      BY <1>3 DEF WaitFinished
  <2> QED BY <2>2, <2>3, <2>4 DEF ToolCall
<1> QED BY <1>2, <1>3

LEMMA SleepKeeps == ASSUME FlowInv, Sleep PROVE FlowInv'
<1>0. core.pc = "sleep" /\ Frame
    BY DEF Sleep, RunAt
<1>1. /\ Live(core, flow) /\ Kept(core, flow) /\ core.pc # "done" /\ core \in Cores
      /\ core.rowsSaved = Len(core.rows) /\ now \in Nat /\ now <= Deadline
    BY <1>0, AliveAt DEF LivePcs
<1>b. PICK back : back = StatusBackoff[Min({core.status, Len(StatusBackoff)})]
    OBVIOUS
<1>2. back \in Nat /\ back > 0
  <2>1. core.status \in Nat /\ core.status # 0
      BY <1>0, <1>1, CoreFields DEF Live
  <2>2. Len(StatusBackoff) = 5
      BY DEF StatusBackoff
  <2>3. Min({core.status, 5}) \in 1..5
      BY <2>1, Least2
  <2>4. \A i \in 1..5 : StatusBackoff[i] \in Nat /\ StatusBackoff[i] > 0
    <3> TAKE i \in 1..5
    <3>1. i = 1 \/ i = 2 \/ i = 3 \/ i = 4 \/ i = 5
        OBVIOUS
    <3> QED BY <3>1 DEF StatusBackoff
  <2> QED BY <2>2, <2>3, <2>4, <1>b
<1>d. PICK delay : delay = Min({back, Remaining})
    OBVIOUS
<1>3. delay \in Nat /\ delay <= Remaining /\ (delay <= 0 => Remaining <= 0)
    BY <1>1, <1>2, <1>d, LimitIs, Least2
<1>4. CASE delay <= 0
  <2>1. core' = Stopped(core, "partial", "deadline_exceeded") /\ now' = now
      BY <1>4, <1>b, <1>d DEF Sleep
  <2>2. now' >= Deadline /\ now' \in Nat /\ now' <= Deadline
      BY <1>1, <1>3, <1>4, <2>1, LimitIs, Budgets
  <2>3. MayStop(core, "partial", "deadline_exceeded")
      BY <1>1, <2>1, <2>2 DEF MayStop, Reasons, Classified, NoAnswer
  <2> QED BY <2>3, <1>0, <1>1, StopHalts, HaltsKeep
<1>5. CASE ~(delay <= 0)
  <2>1. now' = now + delay /\ core' = [core EXCEPT !.pc = "status"]
      BY <1>5, <1>b, <1>d DEF Sleep
  <2>2. now' \in Nat /\ now' <= Deadline
    <3>1. Remaining = Deadline - now /\ Deadline \in Nat
        BY <1>1, LimitIs, Budgets
    <3>2. delay <= Deadline - now
        BY <1>3, <3>1
    <3> QED BY <1>1, <1>3, <2>1, <3>1, <3>2
  <2>c. PICK d : d = core'
      OBVIOUS
  <2>3. /\ d \in Cores /\ d.pc = "status" /\ SameFiles(d, core) /\ d.status = core.status
        /\ d.cursor = core.cursor /\ d.pages = core.pages /\ d.result = core.result
      BY <1>1, <2>1, <2>c, MovesTo DEF LivePcs
  <2>4. Live(d, flow)
      BY <1>0, <1>1, <2>3, LiveMoves
  <2>5. Kept(d, flow)
      BY <1>1, <2>3, SameKept
  <2>6. GoesOnFlow
      BY <2>2, <2>4, <2>5, <2>c DEF GoesOnFlow
  <2> QED BY <1>0, <1>1, <2>6, GoesOnKeep
<1> QED BY <1>4, <1>5

(* A page the run accepts is the slice at its cursor; one that is said to  *)
(* be truncated without need points back to where it starts.               *)
LEMMA SoundPage ==
    ASSUME flow.sources \in Seq(Seq(Row)), NEW c, Offset(c) \in Nat, Offset(c) <= Len(AllOf(flow)),
           NEW p \in Pages(c), Sound(c, p)
    PROVE  /\ p \in Paged /\ p.cursor = Offset(c)
           /\ Offset(c) + Len(p.data) <= Len(AllOf(flow))
           /\ \A i \in 1..Len(p.data) : p.data[i] = AllOf(flow)[Offset(c) + i]
           /\ ~p.truncated => Offset(c) + Len(p.data) = Len(AllOf(flow))
           /\ p.truncated => p.next = Offset(c) \/ p.next = Offset(c) + Len(p.data)
<1>q. PICK q : q = Page(flow.sources, Offset(c))
    OBVIOUS
<1>1. q # Nil
    BY <1>q DEF Pages
<1>2. Slice(q, AllOf(flow), Offset(c))
    BY <1>q, <1>1, PageIs DEF AllOf
<1>3. /\ q \in Paged /\ q.cursor = Offset(c) /\ q.cursor \in Nat
      /\ Offset(c) + Len(q.data) <= Len(AllOf(flow))
      /\ \A i \in 1..Len(q.data) : q.data[i] = AllOf(flow)[Offset(c) + i]
      /\ ~q.truncated => Offset(c) + Len(q.data) = Len(AllOf(flow))
      /\ q.truncated => q.next = Offset(c) + Len(q.data)
  <2>1. q.data \in Seq(Row)
      BY <1>2 DEF Slice, Paged
  <2>2. Len(AllOf(flow)) \in Nat
      BY FlattenSteps DEF AllOf
  <2>3. ~q.truncated => Offset(c) + Len(q.data) = Len(AllOf(flow))
      BY <1>2, <2>1, <2>2 DEF Slice
  <2> QED BY <1>2, <2>3 DEF Slice
<1>4. \/ p = q \/ p = [q EXCEPT !.cursor = @ + 1] \/ p = [q EXCEPT !.returned = @ + 1]
      \/ p = [q EXCEPT !.page_size = @ + 1] \/ p = [q EXCEPT !.truncated = TRUE, !.next = Nil]
      \/ p = [q EXCEPT !.truncated = FALSE, !.next = q.cursor]
      \/ p = [q EXCEPT !.truncated = TRUE, !.next = q.cursor + 1, !.data = <<>>, !.returned = 0]
      \/ p = [q EXCEPT !.truncated = TRUE, !.next = q.cursor]
    BY <1>q, <1>1 DEF Pages
<1>5. CASE p = q
    BY <1>3, <1>5
<1>6. CASE p = [q EXCEPT !.cursor = @ + 1]
  <2>1. p.cursor = q.cursor + 1
      BY <1>3, <1>6 DEF Paged
  <2> QED BY <1>3, <2>1 DEF Sound
<1>7. CASE p = [q EXCEPT !.returned = @ + 1]
  <2>1. p.returned = q.returned + 1 /\ p.data = q.data
      BY <1>3, <1>7 DEF Paged
  <2>2. q.returned = Len(q.data) /\ q.returned \in Nat
      BY <1>2 DEF Slice, Paged
  <2>3. p.returned # Len(p.data)
    <3>n. PICK n \in Nat : n = q.returned
        BY <2>2
    <3>1. p.returned = n + 1 /\ Len(p.data) = n
        BY <2>1, <2>2, <3>n
    <3> QED BY <3>1
  <2> QED BY <2>3 DEF Sound
<1>8. CASE p = [q EXCEPT !.page_size = @ + 1]
  <2>1. p.page_size = q.page_size + 1
      BY <1>3, <1>8 DEF Paged
  <2>2. q.page_size = PageSize /\ q.page_size \in Nat
      BY <1>2 DEF Slice, Paged
  <2> QED BY <2>1, <2>2 DEF Sound
<1>9. CASE p = [q EXCEPT !.truncated = TRUE, !.next = Nil]
  <2>1. p.truncated = TRUE /\ p.next = Nil
      BY <1>3, <1>9 DEF Paged
  <2> QED BY <2>1 DEF Sound
<1>10. CASE p = [q EXCEPT !.truncated = FALSE, !.next = q.cursor]
  <2>1. p.truncated = FALSE /\ p.next = q.cursor
      BY <1>3, <1>10 DEF Paged
  <2>2. p.next # Nil
      BY <1>3, <2>1, PagingAssumption
  <2> QED BY <2>1, <2>2 DEF Sound
<1>11. CASE p = [q EXCEPT !.truncated = TRUE, !.next = q.cursor + 1, !.data = <<>>, !.returned = 0]
  <2>1. p.truncated = TRUE /\ p.data = <<>>
      BY <1>3, <1>11 DEF Paged
  <2> QED BY <2>1 DEF Sound
<1>12. CASE p = [q EXCEPT !.truncated = TRUE, !.next = q.cursor]
  <2>1. p.truncated = TRUE /\ p.next = q.cursor /\ p.data = q.data /\ p.cursor = q.cursor /\ p \in Paged
      BY <1>3, <1>12 DEF Paged
  <2> QED BY <1>3, <2>1
<1> QED BY <1>4, <1>5, <1>6, <1>7, <1>8, <1>9, <1>10, <1>11, <1>12

(* Rows written after a prefix.                                            *)
LEMMA StartsGrows ==
    ASSUME NEW all \in Seq(Row), NEW s \in Seq(Row), NEW d \in Seq(Row), Starts(s, all),
           Len(s) + Len(d) <= Len(all), \A i \in 1..Len(d) : d[i] = all[Len(s) + i]
    PROVE  /\ s \o d \in Seq(Row) /\ Len(s \o d) = Len(s) + Len(d)
           /\ Starts(s \o d, all)
           /\ Len(s) + Len(d) = Len(all) => s \o d = all
<1>1. s \o d \in Seq(Row) /\ Len(s \o d) = Len(s) + Len(d)
    OBVIOUS
<1>x. PICK x \in Seq(Row) : x = s \o d
    BY <1>1
<1>k. PICK k \in Nat, l \in Nat : k = Len(s) /\ l = Len(d)
    OBVIOUS
<1>2. Len(x) = k + l /\ (\A i \in 1..k : x[i] = s[i]) /\ (\A i \in 1..l : x[k + i] = d[i])
    BY <1>x, <1>k
<1>3. \A i \in 1..k : s[i] = all[i]
    BY <1>k DEF Starts
<1>4. ASSUME NEW i \in 1..(k + l) PROVE x[i] = all[i]
  <2>1. CASE i <= k
      BY <2>1, <1>2, <1>3
  <2>2. CASE i > k
    <3>j. PICK j \in Nat : j = i - k /\ i = k + j
        BY <2>2
    <3>1. j \in 1..l
        BY <3>j, <2>2
    <3>2. x[k + j] = d[j] /\ d[j] = all[k + j]
        BY <3>1, <1>2, <1>k
    <3> QED BY <3>2, <3>j
  <2>3. i <= k \/ i > k
      OBVIOUS
  <2> QED BY <2>1, <2>2, <2>3
<1>5. Starts(x, all)
    BY <1>2, <1>4, <1>k DEF Starts
<1>6. k + l = Len(all) => x = all
  <2> SUFFICES ASSUME k + l = Len(all) PROVE x = all
      OBVIOUS
  <2>1. Len(x) = Len(all) /\ \A i \in 1..Len(all) : x[i] = all[i]
      BY <1>2, <1>4
  <2> QED BY <2>1
<1> QED BY <1>1, <1>5, <1>6, <1>x, <1>k

LEMMA WrittenIs ==
    ASSUME NEW c \in Cores, NEW d \in Seq(Row), c.rows \o d \in Seq(Row)
    PROVE  /\ Written(c, d) \in Cores /\ Written(c, d).rows = c.rows \o d
           /\ Written(c, d).pc = c.pc /\ Written(c, d).status = c.status /\ Written(c, d).cursor = c.cursor
           /\ Written(c, d).visited = c.visited /\ Written(c, d).pages = c.pages
           /\ Written(c, d).result = c.result /\ Written(c, d).logBytes = c.logBytes
           /\ Written(c, d).rowsSaved = c.rowsSaved /\ Written(c, d).unread = c.unread
           /\ Written(c, d).counts = c.counts /\ Written(c, d).files = c.files
           /\ Written(c, d).logComplete = c.logComplete /\ Written(c, d).records = c.records
<1>r. PICK r \in Seq(Row) : r = c.rows \o d
    OBVIOUS
<1>1. Written(c, d) = [c EXCEPT !.rows = r]
    BY <1>r DEF Written
<1> QED BY <1>1, <1>r DEF Cores

(* One page, from the answer to the next state.                            *)
LEMMA CollectKeeps == ASSUME FlowInv, CollectPages PROVE FlowInv'
<1>0. core.pc = "pages" /\ Frame
    BY DEF CollectPages, RunAt
<1>1. /\ Live(core, flow) /\ Kept(core, flow) /\ core.pc # "done" /\ core \in Cores
      /\ core.rowsSaved = Len(core.rows) /\ now \in Nat /\ now <= Deadline
    BY <1>0, AliveAt DEF LivePcs
<1>2. Affords("get_flow_results")
  <2>1. core.counts["get_flow_results"] \in Nat /\ core.counts["get_flow_results"] < MaxPages
      BY <1>0, <1>1, CountFields DEF Live
  <2>2. core.counts["get_flow_results"] + 1 <= MaxPages
      BY <2>1, Budgets
  <2> QED BY <2>2 DEF Affords, Tools
<1>3. CASE CallFails("get_flow_results")
    BY <1>0, <1>1, <1>2, <1>3, CallHalts, HaltsKeep
<1>4. ASSUME ~LogFull, InTime, NEW size \in 1..RecordLimit,
             PageSeen(Logged(Counted("get_flow_results"), size))
      PROVE  FlowInv'
  <2>c. PICK c : c = Logged(Counted("get_flow_results"), size)
      OBVIOUS
  <2>1. Recorded(c, "get_flow_results")
      BY <1>1, <1>2, <1>4, <2>c, RecordedIs
  <2>2. /\ c \in Cores /\ Apart(c, core) /\ OneMore(c, core, "get_flow_results") /\ Kept(c, flow)
        /\ c.records = core.records + 1 /\ c.logComplete = core.logComplete
      BY <2>1 DEF Recorded
  <2>t. now' \in Nat /\ now' <= Deadline /\ ~(now' >= Deadline)
      BY <1>1, <1>4, InTimeIs
  <2>3. /\ c.counts["list_flow_files"] = core.counts["list_flow_files"]
        /\ c.counts["get_flow_status"] = core.counts["get_flow_status"]
        /\ c.counts["get_flow_results"] = core.counts["get_flow_results"] + 1
      BY <2>2 DEF OneMore, Tools
  <2>4. CallsOf(c) = CallsOf(core) + 1
      BY <2>3, <1>1, CountFields DEF CallsOf
  <2>5. /\ c.rowsSaved = Len(c.rows) /\ c.rows = core.rows /\ c.unread = Nil /\ c.result = Nil
        /\ c.pc = "pages" /\ Offset(c) = Len(c.rows) /\ c.logComplete /\ c.records = CallsOf(c)
        /\ c.counts["list_flow_files"] = 0 /\ c.counts["get_flow_results"] = c.pages + 1
        /\ flow.state = "FINISHED"
    <3>1. c.records = CallsOf(c)
        BY <1>1, <2>2, <2>4 DEF Live
    <3> QED BY <3>1, <1>0, <1>1, <2>2, <2>3 DEF Live, Apart, Offset
  <2>6. /\ c.rows \in Seq(Row) /\ Len(c.rows) \in Nat /\ c.rowsSaved \in Nat /\ c.pages \in Nat
        /\ c.visited \in SUBSET Nat
      BY <2>2, CoreFields
  <2>7. flow.sources \in Seq(Seq(Row))
      BY FlowsAssumption DEF FlowInv
  <2>a. PICK all \in Seq(Row) : all = AllOf(flow)
      BY <2>7, FlattenSteps DEF AllOf
  <2>8. Starts(c.rows, all) /\ Len(c.rows) <= Len(all)
      BY <2>2, <2>a DEF Kept, Starts
  <2>p. PICK p \in Pages(c) :
          IF ~Sound(c, p) THEN core' = Stopped(c, "failed", "protocol_error")
          ELSE IF TotalSize(c.rows) + TotalSize(p.data) > MaxResultBytes
          THEN core' = Stopped([c EXCEPT !.unread = p.cursor], "partial", "result_budget")
          ELSE \/ core' = Advanced(Written(c, p.data), p)
               \/ \E n \in 0..Len(p.data) :
                     core' = Stopped(Written(c, SubSeq(p.data, 1, n)), "failed", "io_error")
      BY <1>4, <2>c DEF PageSeen
  <2>9. CASE ~Sound(c, p)
    <3>1. MayStop(c, "failed", "protocol_error")
        BY <2>2, <2>5, <2>9, <2>p, <2>t DEF MayStop, Reasons, Classified, NoAnswer
    <3> QED BY <3>1, <1>0, <1>1, StopHalts, HaltsKeep
  <2>10. CASE Sound(c, p)
    <3>1. /\ p \in Paged /\ p.cursor = Len(c.rows)
          /\ Len(c.rows) + Len(p.data) <= Len(all)
          /\ \A i \in 1..Len(p.data) : p.data[i] = all[Len(c.rows) + i]
          /\ ~p.truncated => Len(c.rows) + Len(p.data) = Len(all)
          /\ p.truncated => p.next = Len(c.rows) \/ p.next = Len(c.rows) + Len(p.data)
      <4>1. Offset(c) \in Nat /\ Offset(c) <= Len(AllOf(flow))
          BY <2>5, <2>6, <2>8, <2>a
      <4>2. /\ p \in Paged /\ p.cursor = Offset(c)
            /\ Offset(c) + Len(p.data) <= Len(AllOf(flow))
            /\ \A i \in 1..Len(p.data) : p.data[i] = AllOf(flow)[Offset(c) + i]
            /\ ~p.truncated => Offset(c) + Len(p.data) = Len(AllOf(flow))
            /\ p.truncated => p.next = Offset(c) \/ p.next = Offset(c) + Len(p.data)
          BY <2>7, <2>10, <4>1, SoundPage
      <4> QED BY <2>5, <2>a, <4>2
    <3>d. PICK data \in Seq(Row) : data = p.data
        BY <3>1 DEF Paged
    <3>2. TotalSize(c.rows) \in Nat /\ TotalSize(data) \in Nat
        BY <2>6, SizeAdds
    <3>3. CASE TotalSize(c.rows) + TotalSize(data) > MaxResultBytes
      <4>u. PICK u \in Nat : u = p.cursor /\ u = Len(c.rows)
          BY <3>1, <2>6
      <4>e. PICK e : e = [c EXCEPT !.unread = u]
          OBVIOUS
      <4>1. /\ e \in Cores /\ e.unread = u /\ e.logBytes = c.logBytes /\ e.rows = c.rows
            /\ e.rowsSaved = c.rowsSaved /\ e.counts = c.counts
          BY <2>2, <4>e DEF Cores
      <4>2. Kept(e, flow)
          BY <2>2, <4>1, <4>u DEF Kept
      <4>3. core' = Stopped(e, "partial", "result_budget")
          BY <2>p, <2>10, <3>3, <3>d, <4>e, <4>u
      <4>4. e.unread # Nil
          BY <4>1, PagingAssumption
      <4>5. MayStop(e, "partial", "result_budget")
          BY <2>5, <2>t, <4>1, <4>2, <4>3, <4>4 DEF MayStop, Reasons, Classified, NoAnswer
      <4> QED BY <4>5, <1>0, <1>1, StopHalts, HaltsKeep
    <3>4. ASSUME ~(TotalSize(c.rows) + TotalSize(data) > MaxResultBytes),
                 NEW n \in 0..Len(data), core' = Stopped(Written(c, SubSeq(data, 1, n)), "failed", "io_error")
          PROVE  FlowInv'
      <4>0. Len(data) \in Nat /\ n \in Nat /\ n <= Len(data)
          BY <3>4
      <4>1. SubSeq(data, 1, n) \in Seq(Row)
          BY <4>0
      <4>s. PICK s \in Seq(Row) : s = SubSeq(data, 1, n)
          BY <4>1
      <4>2. Len(s) = n /\ \A i \in 1..n : s[i] = data[i]
          BY <4>0, <4>s
      <4>3. Len(c.rows) + Len(s) <= Len(all) /\ \A i \in 1..Len(s) : s[i] = all[Len(c.rows) + i]
        <5>1. \A i \in 1..n : i \in 1..Len(data)
            BY <4>0
        <5>2. Len(all) \in Nat
            OBVIOUS
        <5>3. Len(c.rows) + Len(data) <= Len(all) /\ \A i \in 1..Len(data) : data[i] = all[Len(c.rows) + i]
            BY <3>1, <3>d
        <5>4. Len(c.rows) + Len(s) <= Len(all)
            BY <5>2, <5>3, <2>6, <4>0, <4>2
        <5>5. \A i \in 1..n : s[i] = all[Len(c.rows) + i]
            BY <5>1, <5>3, <4>2
        <5> QED BY <4>2, <5>4, <5>5
      <4>4. c.rows \o s \in Seq(Row) /\ Len(c.rows \o s) = Len(c.rows) + n /\ Starts(c.rows \o s, all)
        <5>1. c.rows \o s \in Seq(Row) /\ Len(c.rows \o s) = Len(c.rows) + Len(s) /\ Starts(c.rows \o s, all)
            BY <2>6, <2>8, <4>3, StartsGrows
        <5> QED BY <5>1, <4>2
      <4>5. TotalSize(c.rows \o s) <= MaxResultBytes
        <5>1. TotalSize(s) <= TotalSize(data) /\ TotalSize(s) \in Nat
            BY <4>s, <3>4, SizeWithin, SizeAdds
        <5>2. TotalSize(c.rows \o s) = TotalSize(c.rows) + TotalSize(s)
            BY <2>6, SizeAdds
        <5> QED BY <5>1, <5>2, <3>2, <3>4, Budgets
      <4>e. PICK e : e = Written(c, s)
          OBVIOUS
      <4>6. /\ e \in Cores /\ e.rows = c.rows \o s /\ e.logBytes = c.logBytes /\ e.counts = c.counts
            /\ e.rowsSaved = c.rowsSaved /\ e.unread = c.unread
          BY <2>2, <4>4, <4>e, WrittenIs
      <4>7. e.rowsSaved <= Len(e.rows)
          BY <2>5, <2>6, <4>0, <4>4, <4>6
      <4>8. Kept(e, flow)
          BY <2>2, <2>5, <2>a, <4>4, <4>5, <4>6, <4>7 DEF Kept
      <4>9. MayStop(e, "failed", "io_error")
          BY <2>t, <3>4, <4>s, <4>e, <4>8 DEF MayStop, Reasons, Classified, NoAnswer
      <4> QED BY <4>9, <1>0, <1>1, StopHalts, HaltsKeep
    <3>5. ASSUME ~(TotalSize(c.rows) + TotalSize(data) > MaxResultBytes),
                 core' = Advanced(Written(c, data), p)
          PROVE  FlowInv'
      <4>0. Len(data) \in Nat /\ Len(all) \in Nat
          OBVIOUS
      <4>1. Len(c.rows) + Len(data) <= Len(all) /\ \A i \in 1..Len(data) : data[i] = all[Len(c.rows) + i]
          BY <3>1, <3>d
      <4>2. /\ c.rows \o data \in Seq(Row) /\ Len(c.rows \o data) = Len(c.rows) + Len(data)
            /\ Starts(c.rows \o data, all)
            /\ Len(c.rows) + Len(data) = Len(all) => c.rows \o data = all
          BY <2>6, <2>8, <4>1, StartsGrows
      <4>r. PICK r \in Seq(Row) : r = c.rows \o data
          BY <4>2
      <4>3. TotalSize(r) <= MaxResultBytes
        <5>1. TotalSize(r) = TotalSize(c.rows) + TotalSize(data)
            BY <2>6, <4>r, SizeAdds
        <5> QED BY <5>1, <3>2, <3>5, Budgets
      <4>w. PICK w : w = Written(c, data)
          OBVIOUS
      <4>4. /\ w \in Cores /\ w.rows = r /\ w.pc = c.pc /\ w.status = c.status /\ w.cursor = c.cursor
            /\ w.visited = c.visited /\ w.pages = c.pages /\ w.result = c.result
            /\ w.logBytes = c.logBytes /\ w.rowsSaved = c.rowsSaved /\ w.unread = c.unread
            /\ w.counts = c.counts /\ w.files = c.files /\ w.logComplete = c.logComplete
            /\ w.records = c.records
          BY <2>2, <4>2, <4>w, <4>r, WrittenIs
      <4>n. PICK n \in Nat, m \in Nat : n = c.rowsSaved + Len(data) /\ m = c.pages + 1
          BY <2>6, <4>0
      <4>d. PICK d : d = [w EXCEPT !.rowsSaved = n, !.pages = m]
          OBVIOUS
      <4>5. d = [w EXCEPT !.rowsSaved = @ + Len(p.data), !.pages = @ + 1]
          BY <4>4, <4>d, <4>n, <3>d
      <4>6. /\ d \in Cores /\ d.rows = r /\ d.pc = c.pc /\ d.status = c.status /\ d.cursor = c.cursor
            /\ d.visited = c.visited /\ d.pages = m /\ d.result = c.result
            /\ d.logBytes = c.logBytes /\ d.rowsSaved = n /\ d.unread = c.unread
            /\ d.counts = c.counts /\ d.files = c.files /\ d.logComplete = c.logComplete
            /\ d.records = c.records
          BY <4>4, <4>d DEF Cores
      <4>7. d.rowsSaved = Len(d.rows)
          BY <2>5, <4>2, <4>6, <4>n, <4>r
      <4>8. d.rowsSaved <= Len(d.rows)
          BY <4>6, <4>7
      <4>9. Kept(d, flow)
          BY <2>2, <2>5, <2>a, <4>2, <4>3, <4>6, <4>8, <4>r DEF Kept
      <4>c. CallsOf(d) = CallsOf(c)
          BY <4>6 DEF CallsOf
      <4>10. core' = IF ~p.truncated THEN [d EXCEPT !.pc = "files", !.unread = Nil]
                     ELSE IF p.next \in w.visited \cup {p.cursor} THEN Stopped(d, "failed", "protocol_error")
                     ELSE IF d.pages >= MaxPages
                     THEN Stopped([d EXCEPT !.unread = p.next], "partial", "page_budget")
                     ELSE [d EXCEPT !.cursor = p.next, !.visited = @ \cup {p.cursor}]
          BY <3>5, <3>d, <4>w, <4>5 DEF Advanced
      <4>11. CASE ~p.truncated
        <5>e. PICK e : e = [d EXCEPT !.pc = "files", !.unread = Nil]
            OBVIOUS
        <5>1. core' = e
            BY <4>10, <4>11, <5>e
        <5>2. /\ e \in Cores /\ e.pc = "files" /\ SameFiles(e, d) /\ e.result = Nil
            BY <2>5, <4>6, <5>e DEF Cores, LivePcs, SameFiles
        <5>3. Kept(e, flow)
            BY <4>9, <5>2, SameKept
        <5>4. r = all
            BY <3>1, <3>d, <4>2, <4>11, <4>r
        <5>5. Live(e, flow)
          <6>1. CallsOf(e) = CallsOf(d)
              BY <5>2 DEF SameFiles, CallsOf
          <6> QED BY <2>5, <2>a, <4>c, <4>6, <4>7, <5>2, <5>4, <6>1 DEF Live, LivePcs, SameFiles
        <5>6. GoesOnFlow
            BY <2>t, <5>1, <5>3, <5>5 DEF GoesOnFlow
        <5> QED BY <1>0, <1>1, <5>6, GoesOnKeep
      <4>12. CASE p.truncated /\ p.next \in w.visited \cup {p.cursor}
        <5>1. core' = Stopped(d, "failed", "protocol_error")
            BY <4>10, <4>12
        <5>2. MayStop(d, "failed", "protocol_error")
            BY <2>t, <4>7, <4>9, <5>1 DEF MayStop, Reasons, Classified, NoAnswer
        <5> QED BY <5>2, <1>0, <1>1, StopHalts, HaltsKeep
      <4>13. CASE p.truncated /\ p.next \notin w.visited \cup {p.cursor}
        <5>1. p.next = Len(r)
            BY <3>1, <3>d, <4>2, <4>13, <4>r
        <5>x. PICK x \in Nat : x = p.next /\ x = Len(r)
            BY <5>1
        <5>2. CASE d.pages >= MaxPages
          <6>e. PICK e : e = [d EXCEPT !.unread = x]
              OBVIOUS
          <6>1. core' = Stopped(e, "partial", "page_budget")
              BY <4>10, <4>13, <5>2, <5>x, <6>e
          <6>2. /\ e \in Cores /\ e.unread = x /\ e.logBytes = d.logBytes /\ e.rows = d.rows
                /\ e.rowsSaved = d.rowsSaved /\ e.counts = d.counts
              BY <4>6, <6>e DEF Cores
          <6>3. Kept(e, flow)
              BY <4>6, <4>9, <5>x, <6>2 DEF Kept
          <6>4. e.unread # Nil
              BY <6>2, PagingAssumption
          <6>5. MayStop(e, "partial", "page_budget")
              BY <2>t, <4>7, <6>1, <6>2, <6>3, <6>4 DEF MayStop, Reasons, Classified, NoAnswer
          <6> QED BY <6>5, <1>0, <1>1, StopHalts, HaltsKeep
        <5>3. CASE ~(d.pages >= MaxPages)
          <6>v. PICK v \in SUBSET Nat : v = d.visited \cup {p.cursor}
            <7>1. d.visited \cup {p.cursor} \in SUBSET Nat
                BY <2>6, <3>1, <4>6
            <7> QED BY <7>1
          <6>e. PICK e : e = [d EXCEPT !.cursor = x, !.visited = v]
              OBVIOUS
          <6>1. core' = e
              BY <4>10, <4>13, <5>3, <5>x, <6>e, <6>v
          <6>2. /\ e \in Cores /\ e.pc = d.pc /\ e.cursor = x /\ SameFiles(e, d) /\ e.result = d.result
                /\ e.pages = d.pages
              BY <4>6, <6>e DEF Cores, SameFiles
          <6>3. Kept(e, flow)
              BY <4>9, <6>2, SameKept
          <6>4. Live(e, flow)
            <7>1. CallsOf(e) = CallsOf(d)
                BY <6>2 DEF SameFiles, CallsOf
            <7>2. Offset(e) = Len(e.rows)
                BY <4>6, <5>x, <6>2, PagingAssumption DEF Offset, SameFiles
            <7>3. e.pages < MaxPages
                BY <4>6, <5>3, <6>2, Budgets
            <7>4. e.counts["get_flow_results"] = e.pages
                BY <2>5, <4>6, <4>n, <6>2 DEF SameFiles
            <7> QED BY <2>5, <4>c, <4>6, <4>7, <6>2, <7>1, <7>2, <7>3, <7>4 DEF Live, LivePcs, SameFiles
          <6>5. GoesOnFlow
              BY <2>t, <6>1, <6>3, <6>4 DEF GoesOnFlow
          <6> QED BY <1>0, <1>1, <6>5, GoesOnKeep
        <5> QED BY <5>2, <5>3
      <4> QED BY <4>11, <4>12, <4>13
    <3> QED BY <2>p, <2>10, <3>3, <3>4, <3>5, <3>d
  <2> QED BY <2>9, <2>10
<1>5. ToolCall("get_flow_results", PageSeen)
    BY DEF CollectPages
<1> QED BY <1>3, <1>4, <1>5 DEF ToolCall

LEMMA ListFilesKeeps == ASSUME FlowInv, ListFiles PROVE FlowInv'
<1>0. core.pc = "files" /\ Frame
    BY DEF ListFiles, RunAt
<1>1. /\ Live(core, flow) /\ Kept(core, flow) /\ core.pc # "done" /\ core \in Cores
      /\ core.rowsSaved = Len(core.rows) /\ now \in Nat /\ now <= Deadline
    BY <1>0, AliveAt DEF LivePcs
<1>2. Affords("list_flow_files")
    BY <1>1 DEF Live, Affords, Tools
<1>3. CASE CallFails("list_flow_files")
    BY <1>0, <1>1, <1>2, <1>3, CallHalts, HaltsKeep
<1>4. ASSUME ~LogFull, InTime, NEW size \in 1..RecordLimit,
             FilesSeen(Logged(Counted("list_flow_files"), size))
      PROVE  FlowInv'
  <2>c. PICK c : c = Logged(Counted("list_flow_files"), size)
      OBVIOUS
  <2>1. Recorded(c, "list_flow_files")
      BY <1>1, <1>2, <1>4, <2>c, RecordedIs
  <2>2. /\ c \in Cores /\ Apart(c, core) /\ OneMore(c, core, "list_flow_files") /\ Kept(c, flow)
        /\ c.records = core.records + 1 /\ c.logComplete = core.logComplete
      BY <2>1 DEF Recorded
  <2>t. now' \in Nat /\ now' <= Deadline /\ ~(now' >= Deadline)
      BY <1>1, <1>4, InTimeIs
  <2>3. CallsOf(c) = CallsOf(core) + 1
    <3>1. /\ c.counts["list_flow_files"] = core.counts["list_flow_files"] + 1
          /\ c.counts["get_flow_status"] = core.counts["get_flow_status"]
          /\ c.counts["get_flow_results"] = core.counts["get_flow_results"]
        BY <2>2 DEF OneMore, Tools
    <3> QED BY <3>1, <1>1, CountFields DEF CallsOf
  <2>4. /\ c.rowsSaved = Len(c.rows) /\ c.logComplete /\ c.records = CallsOf(c)
        /\ flow.state = "FINISHED" /\ c.rows = AllOf(flow)
    <3>1. c.records = CallsOf(c)
        BY <1>1, <2>2, <2>3 DEF Live
    <3> QED BY <3>1, <1>0, <1>1, <2>2 DEF Live, Apart
  <2>5. CASE core' = Stopped([c EXCEPT !.files = "complete"], "complete", "finished")
    <3>e. PICK e : e = [c EXCEPT !.files = "complete"]
        OBVIOUS
    <3>1. /\ e \in Cores /\ e.logBytes = c.logBytes /\ e.rows = c.rows /\ e.rowsSaved = c.rowsSaved
          /\ e.unread = c.unread /\ e.counts = c.counts /\ e.files = "complete"
          /\ e.logComplete = c.logComplete /\ e.records = c.records
        BY <2>2, <3>e DEF Cores
    <3>2. Kept(e, flow)
        BY <2>2, <3>1 DEF Kept
    <3>d. PICK d : d = Stopped(e, "complete", "finished")
        OBVIOUS
    <3>3. /\ d \in Cores /\ d.pc = "close" /\ SameFiles(d, e) /\ d.result \in Results
          /\ d.result.outcome = "complete" /\ d.result.reason = "finished"
        BY <3>1, <3>d, StoppedIs DEF Outcomes, Reasons
    <3>4. Kept(d, flow)
        BY <3>2, <3>3, SameKept
    <3>5. WholeRun(d, flow)
      <4>1. CallsOf(d) = CallsOf(c)
          BY <3>1, <3>3 DEF CallsOf, SameFiles
      <4> QED BY <4>1, <2>4, <3>1, <3>3 DEF WholeRun, SameFiles
    <3>6. Ended(d, flow, now')
        BY <2>t, <3>3, <3>5 DEF Ended, EndPcs, WholeRun, Classified
    <3>7. Halts
        BY <2>t, <2>5, <3>e, <3>d, <3>3, <3>4, <3>6 DEF Halts
    <3> QED BY <3>7, <1>0, <1>1, HaltsKeep
  <2>6. CASE core' = Stopped([c EXCEPT !.files = "truncated"], "partial", "filelist_truncated")
    <3>e. PICK e : e = [c EXCEPT !.files = "truncated"]
        OBVIOUS
    <3>1. /\ e \in Cores /\ e.logBytes = c.logBytes /\ e.rows = c.rows /\ e.rowsSaved = c.rowsSaved
          /\ e.unread = c.unread /\ e.counts = c.counts
        BY <2>2, <3>e DEF Cores
    <3>2. Kept(e, flow)
        BY <2>2, <3>1 DEF Kept
    <3>3. MayStop(e, "partial", "filelist_truncated")
        BY <2>t, <2>4, <2>6, <3>e, <3>1, <3>2 DEF MayStop, Reasons, Classified, NoAnswer
    <3> QED BY <3>3, <1>0, <1>1, StopHalts, HaltsKeep
  <2> QED BY <1>4, <2>c, <2>5, <2>6 DEF FilesSeen
<1>5. ToolCall("list_flow_files", FilesSeen)
    BY DEF ListFiles
<1> QED BY <1>3, <1>4, <1>5 DEF ToolCall

-----------------------------------------------------------------------------
(* After the run.                                                          *)
LEMMA EndedAt ==
    ASSUME FlowInv, core.pc \in {"close", "finalize", "report"}
    PROVE  /\ Ended(core, flow, now) /\ Kept(core, flow) /\ core.pc # "done" /\ core \in Cores
           /\ now \in Nat /\ (core.pc = "close" => now <= Deadline)
<1>1. core.pc \notin LivePcs /\ core.pc \notin {"crash", "done"}
    BY DEF LivePcs
<1>2. Ended(core, flow, now)
    BY <1>1 DEF FlowInv, Live, Raised
<1> QED BY <1>1, <1>2 DEF FlowInv, Kept, Unbound

(* A stopped run keeps its result or takes another that is not complete.   *)
MayChange(c, d, pc, r) ==
    /\ d = [c EXCEPT !.pc = pc, !.result = r] /\ pc \in EndPcs /\ pc # "close" /\ r \in Results
    /\ \/ r = c.result
       \/ r.outcome = "partial" /\ r.reason = "close_failed" /\ c.rowsSaved = Len(c.rows)
       \/ r.outcome = "failed" /\ r.reason = "io_error"
       \/ r.outcome = "failed" /\ r.reason = "summary_overflow" /\ pc = "done"

LEMMA Changes ==
    ASSUME NEW c \in Cores, Ended(c, flow, now), Kept(c, flow), c.pc # "done", NEW d, NEW pc, NEW r, NEW t,
           MayChange(c, d, pc, r)
    PROVE  d \in Cores /\ d.pc = pc /\ d.result = r /\ Kept(d, flow) /\ Ended(d, flow, t)
<1>0. d = [c EXCEPT !.pc = pc, !.result = r] /\ pc \in EndPcs /\ pc # "close" /\ r \in Results
    BY DEF MayChange
<1>1. d \in Cores /\ d.pc = pc /\ d.result = r /\ SameFiles(d, c)
    BY <1>0 DEF Cores, SameFiles
<1>2. Kept(d, flow)
    BY <1>1, SameKept
<1>3. CallsOf(d) = CallsOf(c) /\ d.rowsSaved = c.rowsSaved /\ d.rows = c.rows /\ d.unread = c.unread
    BY <1>1 DEF CallsOf, SameFiles
<1>4. CASE r = c.result
  <2>1. WholeRun(c, flow) => WholeRun(d, flow)
      BY <1>1, <1>3 DEF WholeRun, SameFiles
  <2> QED BY <1>0, <1>1, <1>2, <1>3, <1>4, <2>1 DEF Ended
<1>5. CASE r.outcome = "partial" /\ r.reason = "close_failed" /\ c.rowsSaved = Len(c.rows)
    BY <1>0, <1>1, <1>2, <1>3, <1>5 DEF Ended
<1>6. CASE r.outcome = "failed" /\ r.reason = "io_error"
    BY <1>0, <1>1, <1>2, <1>3, <1>6 DEF Ended
<1>7. CASE r.outcome = "failed" /\ r.reason = "summary_overflow" /\ pc = "done"
    BY <1>0, <1>1, <1>2, <1>3, <1>7 DEF Ended
<1> QED BY <1>1, <1>2, <1>4, <1>5, <1>6, <1>7 DEF MayChange

LEMMA ClosingIs == ASSUME now \in Nat, Closing PROVE now' \in Nat
<1>1. CASE core.open
  <2>1. CloseTime \in Nat
      BY BudgetAssumption
  <2> QED BY <1>1, <2>1 DEF Closing
<1>2. CASE ~core.open
    BY <1>2 DEF Closing
<1> QED BY <1>1, <1>2

LEMMA CloseKeeps == ASSUME FlowInv, Close PROVE FlowInv'
<1>0. core.pc = "close" /\ Frame /\ Closing
    BY DEF Close, RunAt, Frame
<1>1. /\ Ended(core, flow, now) /\ Kept(core, flow) /\ core.pc # "done" /\ core \in Cores
      /\ now \in Nat
    BY <1>0, EndedAt
<1>t. now' \in Nat
    BY <1>0, <1>1, ClosingIs
<1>2. core.result \in Results
    BY <1>1 DEF Ended
<1>r. PICK r : r = Result("partial", "close_failed")
    OBVIOUS
<1>3. r \in Results /\ r.outcome = "partial" /\ r.reason = "close_failed"
    BY <1>r DEF Result, Results, Outcomes, Reasons
<1>4. PICK q \in Results : /\ core' = [core EXCEPT !.pc = "finalize", !.result = q]
                           /\ (q = core.result \/ (q = r /\ core.result.outcome = "complete"))
  <2>1. [core EXCEPT !.pc = "finalize"] = [core EXCEPT !.pc = "finalize", !.result = core.result]
      BY <1>1 DEF Cores
  <2>2. \/ core' = [core EXCEPT !.pc = "finalize"]
        \/ core' = [core EXCEPT !.pc = "finalize",
                                !.result = IF core.result.outcome = "complete" THEN r ELSE core.result]
      BY <1>r DEF Close, Complete
  <2>3. CASE core' = [core EXCEPT !.pc = "finalize", !.result = core.result]
    <3> PICK q : q = core.result
        OBVIOUS
    <3>1. q \in Results /\ core' = [core EXCEPT !.pc = "finalize", !.result = q] /\ q = core.result
        BY <1>2, <2>3
    <3> QED BY <3>1
  <2>4. CASE core' = [core EXCEPT !.pc = "finalize", !.result = r] /\ core.result.outcome = "complete"
      BY <1>3, <2>4
  <2> QED BY <2>1, <2>2, <2>3, <2>4
<1>5. q = r => core.rowsSaved = Len(core.rows) \/ q = core.result
    BY <1>1, <1>4 DEF Ended, WholeRun
<1>6. core' \in Cores /\ core'.pc = "finalize" /\ Kept(core', flow) /\ Ended(core', flow, now')
  <2>d. PICK d : d = core'
      OBVIOUS
  <2>2. \/ q = core.result
        \/ q.outcome = "partial" /\ q.reason = "close_failed" /\ core.rowsSaved = Len(core.rows)
      BY <1>3, <1>4, <1>5
  <2>4. d = [core EXCEPT !.pc = "finalize", !.result = q]
      BY <1>4, <2>d
  <2>5. MayChange(core, d, "finalize", q)
      BY <2>2, <2>4 DEF MayChange, EndPcs
  <2>6. d \in Cores /\ d.pc = "finalize" /\ Kept(d, flow) /\ Ended(d, flow, now')
      BY <1>1, <2>5, Changes
  <2> QED BY <2>6, <2>d
<1>7. Halts
    BY <1>t, <1>6 DEF Halts, Unbound
<1> QED BY <1>0, <1>1, <1>7, HaltsKeep

LEMMA FinalizeKeeps == ASSUME FlowInv, Finalize PROVE FlowInv'
<1>0. core.pc = "finalize" /\ Frame /\ now' = now
    BY DEF Finalize, RunAt, Frame
<1>1. /\ Ended(core, flow, now) /\ Kept(core, flow) /\ core.pc # "done" /\ core \in Cores
      /\ now \in Nat
    BY <1>0, EndedAt
<1>2. core.result \in Results
    BY <1>1 DEF Ended
<1>r. PICK r : r = Result("failed", "io_error")
    OBVIOUS
<1>3. r \in Results /\ r.outcome = "failed" /\ r.reason = "io_error"
    BY <1>r DEF Result, Results, Outcomes, Reasons
<1>4. PICK q \in Results : core' = [core EXCEPT !.pc = "report", !.result = q] /\ (q = core.result \/ q = r)
  <2>1. [core EXCEPT !.pc = "report"] = [core EXCEPT !.pc = "report", !.result = core.result]
      BY <1>1 DEF Cores
  <2> QED BY <1>2, <1>3, <1>r, <2>1 DEF Finalize
<1>6. core' \in Cores /\ core'.pc = "report" /\ Kept(core', flow) /\ Ended(core', flow, now)
  <2>d. PICK d : d = core'
      OBVIOUS
  <2>1. q = core.result \/ q = r
      BY <1>4
  <2>2. q = core.result \/ (q.outcome = "failed" /\ q.reason = "io_error")
      BY <1>3, <2>1
  <2>4. d = [core EXCEPT !.pc = "report", !.result = q]
      BY <1>4, <2>d
  <2>3. MayChange(core, d, "report", q)
      BY <2>2, <2>4 DEF MayChange, EndPcs
  <2>5. d \in Cores /\ d.pc = "report" /\ Kept(d, flow) /\ Ended(d, flow, now)
      BY <1>1, <2>3, Changes
  <2> QED BY <2>5, <2>d
<1>7. Halts
    BY <1>0, <1>1, <1>6 DEF Halts, Unbound
<1> QED BY <1>0, <1>1, <1>7, HaltsKeep

LEMMA ReportKeeps == ASSUME FlowInv, Report PROVE FlowInv'
<1>0. core.pc = "report" /\ flow' = flow /\ now' = now
    BY DEF Report, RunAt
<1>1. /\ Ended(core, flow, now) /\ Kept(core, flow) /\ core.pc # "done" /\ core \in Cores
      /\ now \in Nat
    BY <1>0, EndedAt
<1>2. core.result \in Results
    BY <1>1 DEF Ended
<1>f. PICK f : f = Result("failed", "summary_overflow")
    OBVIOUS
<1>i. PICK i : i = Result("failed", "io_error")
    OBVIOUS
<1>3. /\ f \in Results /\ f.outcome = "failed" /\ f.reason = "summary_overflow"
      /\ i \in Results /\ i.outcome = "failed" /\ i.reason = "io_error"
    BY <1>f, <1>i DEF Result, Results, Outcomes, Reasons
<1>4. PICK q, document, stdout :
          /\ q \in Results
          /\ Exited(q, document, stdout) /\ stdout \in {q.outcome, "overflow"}
          /\ \/ q = core.result /\ document = core.result.outcome
             \/ q \in {f, i} /\ document \in {"none", "torn", "failed"}
  <2>1. PICK end \in {<<core.result, core.result.outcome>>}
                       \cup {<<Result("failed", "summary_overflow"), d>> : d \in {"none", "torn", "failed"}}
                       \cup {<<Result("failed", "io_error"), d>> : d \in {"none", "torn"}} :
               \E stdout \in {end[1].outcome, "overflow"} : Exited(end[1], end[2], stdout)
      BY DEF Report
  <2>2. PICK stdout \in {end[1].outcome, "overflow"} : Exited(end[1], end[2], stdout)
      BY <2>1
  <2>q. PICK q : q = end[1]
      OBVIOUS
  <2>d. PICK document : document = end[2]
      OBVIOUS
  <2>3. \/ q = core.result /\ document = core.result.outcome
        \/ q \in {f, i} /\ document \in {"none", "torn", "failed"}
      BY <2>q, <2>d, <1>f, <1>i
  <2>4. q \in Results
      BY <2>3, <1>2, <1>3
  <2>5. Exited(q, document, stdout) /\ stdout \in {q.outcome, "overflow"}
      BY <2>2, <2>q, <2>d
  <2> QED BY <2>3, <2>4, <2>5
<1>5. core' \in Cores /\ core'.pc = "done" /\ core'.result = q /\ Kept(core', flow) /\ Ended(core', flow, now)
  <2>d. PICK d : d = core'
      OBVIOUS
  <2>1. d = [core EXCEPT !.pc = "done", !.result = q]
      BY <1>4, <2>d DEF Exited
  <2>q. q = core.result \/ q = f \/ q = i
      BY <1>4
  <2>2. \/ q = core.result
        \/ q.outcome = "failed" /\ q.reason = "io_error"
        \/ q.outcome = "failed" /\ q.reason = "summary_overflow"
      BY <1>3, <2>q
  <2>3. MayChange(core, d, "done", q)
      BY <1>4, <2>1, <2>2 DEF MayChange, EndPcs
  <2>4. d \in Cores /\ d.pc = "done" /\ d.result = q /\ Kept(d, flow) /\ Ended(d, flow, now)
      BY <1>1, <2>3, Changes
  <2> QED BY <2>4, <2>d
<1>6. Reported'
  <2>1. exit' = [code |-> IF stdout = "complete" THEN 0 ELSE 2, stdout |-> stdout, document |-> document]
      BY <1>4 DEF Exited
  <2>2. /\ exit'.code = IF stdout = "complete" THEN 0 ELSE 2
        /\ exit'.stdout = stdout /\ exit'.document = document
      BY <2>1
  <2>3. q.outcome \in {"complete", "partial", "failed"}
      BY <1>4 DEF Results, Outcomes
  <2>4. stdout = "complete" => q.outcome = "complete" /\ document = "complete"
      BY <1>3, <1>4, <2>3
  <2>5. stdout # "overflow" => document \in {"none", "torn", stdout}
      BY <1>3, <1>4, <2>3
  <2> QED BY <1>5, <2>2, <2>4, <2>5 DEF Reported
<1>7. Kept(core', flow') /\ Ended(core', flow', now') /\ core'.pc = "done"
    BY <1>0, <1>5
<1>8. /\ flow' \in [sources : Flows, state : {"RUNNING", "FINISHED", "ERROR"}]
      /\ now' \in Nat
    BY <1>0, <1>1 DEF FlowInv
<1> QED BY <1>6, <1>7, <1>8 DEF FlowInv, Unbound

LEMMA RunCrashesKeeps == ASSUME FlowInv, RunCrashes PROVE FlowInv'
<1>0. /\ core.pc = "crash" /\ flow' = flow /\ Closing /\ core' = [core EXCEPT !.pc = "done"]
      /\ exit' = [exit EXCEPT !.code = 1]
    BY DEF RunCrashes, RunAt
<1>1. Raised(core) /\ Kept(core, flow) /\ core \in Cores /\ Unreported
    BY <1>0 DEF FlowInv, Live, LivePcs, Ended, EndPcs, Kept
<1>d. PICK d : d = core'
    OBVIOUS
<1>2. d \in Cores /\ d.pc = "done" /\ SameFiles(d, core) /\ d.result = core.result
    BY <1>0, <1>1, <1>d, MovesTo DEF EndPcs
<1>3. Kept(d, flow) /\ Raised(d)
  <2>1. Kept(d, flow)
      BY <1>1, <1>2, SameKept
  <2> QED BY <2>1, <1>1, <1>2 DEF Raised, SameFiles
<1>4. exit'.code = 1 /\ exit'.stdout = Nil
    BY <1>0, <1>1 DEF Unreported
<1>5. Kept(core', flow') /\ Raised(core') /\ core'.pc = "done"
    BY <1>0, <1>2, <1>3, <1>d
<1>6. /\ flow' \in [sources : Flows, state : {"RUNNING", "FINISHED", "ERROR"}]
      /\ now' \in Nat
    BY <1>0, ClosingIs DEF FlowInv
<1> QED BY <1>4, <1>5, <1>6 DEF FlowInv, Unbound

LEMMA FlowEndsKeeps == ASSUME FlowInv, FlowEnds PROVE FlowInv'
<1>1. PICK state \in {"FINISHED", "ERROR"} :
         /\ flow' = [flow EXCEPT !.state = state] /\ flow.state = "RUNNING"
         /\ now' = now /\ core' = core /\ exit' = exit
    BY DEF FlowEnds
<1>2. /\ flow' \in [sources : Flows, state : {"RUNNING", "FINISHED", "ERROR"}]
      /\ flow'.sources = flow.sources
    BY <1>1 DEF FlowInv
<1>3. Kept(core, flow')
    BY <1>2 DEF FlowInv, Kept, AllOf
<1>4. Live(core, flow) => Live(core, flow')
    BY <1>1 DEF Live
<1>5. Ended(core, flow, now) => Ended(core, flow', now)
    BY <1>1 DEF Ended, WholeRun
<1> QED BY <1>1, <1>2, <1>3, <1>4, <1>5 DEF FlowInv, Unreported, Reported

LEMMA FlowStill == ASSUME FlowInv, UNCHANGED flowVars PROVE FlowInv'
<1>1. flow' = flow /\ now' = now /\ core' = core /\ exit' = exit
    BY DEF flowVars
<1> QED BY <1>1 DEF FlowInv, Unreported, Reported

LEMMA FlowInitInv == ASSUME FlowInit PROVE FlowInv
<1>s. flow \in [sources : Flows, state : {"RUNNING", "FINISHED"}] /\ now = 0
    BY DEF FlowInit
<1>1. flow \in [sources : Flows, state : {"RUNNING", "FINISHED", "ERROR"}] /\ flow.sources \in Seq(Seq(Row))
    BY <1>s, FlowsAssumption
<1>y. PICK counts : counts = [t \in Tools |-> 0]
    OBVIOUS
<1>z. counts \in [Tools -> Nat] /\ \A t \in Tools : counts[t] = 0
    BY <1>y
<1>2. core = [pc |-> "connect", open |-> FALSE, found |-> {}, listed |-> 0, status |-> 0,
              counts |-> counts, logBytes |-> 0, records |-> 0, logComplete |-> TRUE,
              cursor |-> Nil, visited |-> {}, pages |-> 0, rows |-> <<>>, rowsSaved |-> 0,
              unread |-> Nil, files |-> Nil, result |-> Nil]
    BY <1>y DEF FlowInit
<1>3. core \in Cores
    BY <1>2, <1>z DEF Cores, LivePcs
<1>4. /\ core.pc = "connect" /\ core.status = 0 /\ core.counts = counts /\ core.logBytes = 0 /\ core.records = 0
      /\ core.logComplete /\ core.cursor = Nil /\ core.pages = 0 /\ core.rows = <<>> /\ core.rowsSaved = 0
      /\ core.unread = Nil /\ core.result = Nil
    BY <1>2
<1>5. counts["get_flow_status"] = 0 /\ counts["get_flow_results"] = 0 /\ counts["list_flow_files"] = 0
    BY <1>z DEF Tools
<1>6. Kept(core, flow)
  <2>1. Starts(core.rows, AllOf(flow))
    <3>1. Len(AllOf(flow)) \in Nat
        BY <1>1, FlattenSteps DEF AllOf
    <3> QED BY <1>4, <3>1 DEF Starts
  <2> QED BY <2>1, <1>3, <1>4, <1>5, SizeEmpty, Budgets DEF Kept
<1>7. Live(core, flow)
  <2>1. Offset(core) = Len(core.rows) /\ CallsOf(core) = 0
      BY <1>4, <1>5 DEF Offset, CallsOf
  <2> QED BY <2>1, <1>4, <1>5, Budgets DEF Live, LivePcs
<1>8. Unreported
    BY DEF FlowInit, Unreported
<1> QED BY <1>1, <1>4, <1>6, <1>7, <1>8, <1>s, Budgets DEF FlowInv

LEMMA FlowStep == FlowInv /\ [FlowNext]_flowVars => FlowInv'
<1> SUFFICES ASSUME FlowInv, [FlowNext]_flowVars PROVE FlowInv'
    OBVIOUS
<1>1. CASE FlowEnds BY <1>1, FlowEndsKeeps
<1>2. CASE Connect BY <1>2, ConnectKeeps
<1>3. CASE LoadContract BY <1>3, LoadContractKeeps
<1>4. CASE WaitFinished BY <1>4, WaitKeeps
<1>5. CASE Sleep BY <1>5, SleepKeeps
<1>6. CASE CollectPages BY <1>6, CollectKeeps
<1>7. CASE ListFiles BY <1>7, ListFilesKeeps
<1>8. CASE Close BY <1>8, CloseKeeps
<1>9. CASE Finalize BY <1>9, FinalizeKeeps
<1>10. CASE Report BY <1>10, ReportKeeps
<1>11. CASE RunCrashes BY <1>11, RunCrashesKeeps
<1>12. CASE UNCHANGED flowVars BY <1>12, FlowStill
<1> QED BY <1>1, <1>2, <1>3, <1>4, <1>5, <1>6, <1>7, <1>8, <1>9, <1>10, <1>11, <1>12 DEF FlowNext, Done

-----------------------------------------------------------------------------
(* What the invariant says of the four properties.                         *)
LEMMA PagesAreSlices == ASSUME FlowInv PROVE PageIsSlice
<1>1. flow.sources \in Seq(Seq(Row))
    BY FlowsAssumption DEF FlowInv
<1>a. PICK all \in Seq(Row) : all = AllRows
    BY <1>1, FlattenSteps DEF AllRows
<1>2. ASSUME NEW offset \in 0..Len(all), NEW p, p = Page(flow.sources, offset), p # Nil
      PROVE  /\ p.data = SubSeq(all, offset + 1, offset + Len(p.data))
             /\ p.truncated <=> offset + Len(p.data) < Len(all)
             /\ p.truncated => p.next > offset
  <2>1. offset \in Nat /\ offset <= Len(all) /\ Len(all) \in Nat
      OBVIOUS
  <2>2. Slice(p, all, offset)
      BY <1>1, <1>2, <1>a, <2>1, PageIs DEF AllRows
  <2>d. PICK d \in Seq(Row) : d = p.data
      BY <2>2 DEF Slice, Paged
  <2>3. Len(d) \in Nat /\ offset + Len(d) <= Len(all) /\ \A i \in 1..Len(d) : d[i] = all[offset + i]
      BY <2>2, <2>d DEF Slice
  <2>4. SubSeq(all, offset + 1, offset + Len(d)) = d
      BY <2>1, <2>3, SliceIs
  <2>5. p.truncated <=> offset + Len(d) < Len(all)
      BY <2>2, <2>d DEF Slice
  <2>6. p.truncated => p.next = offset + Len(d) /\ Len(d) > 0
      BY <2>2, <2>d DEF Slice
  <2>7. offset + Len(d) > offset \/ ~(Len(d) > 0)
      BY <2>1, <2>3
  <2> QED BY <2>d, <2>4, <2>5, <2>6, <2>7
<1> QED BY <1>2, <1>a DEF PageIsSlice

LEMMA PrefixOf ==
    ASSUME NEW s \in Seq(Row), NEW t \in Seq(Row), Starts(s, t)
    PROVE  IsPrefix(s, t)
<1>1. Len(s) \in Nat /\ Len(t) \in Nat /\ Len(s) <= Len(t) /\ 0 + Len(s) <= Len(t)
    BY DEF Starts
<1>2. \A i \in 1..Len(s) : t[0 + i] = s[i] /\ s[0 + i] = s[i]
    BY DEF Starts
<1>3. SubSeq(t, 0 + 1, 0 + Len(s)) = s
    BY <1>1, <1>2, SliceIs
<1>4. SubSeq(s, 0 + 1, 0 + Len(s)) = s
    BY <1>1, <1>2, SliceIs
<1>5. 0 + 1 = 1 /\ 0 + Len(s) = Len(s)
    BY <1>1
<1> QED BY <1>1, <1>3, <1>4, <1>5 DEF IsPrefix

LEMMA FlowImplied == ASSUME FlowInv PROVE CompleteIsWhole /\ SavedIsExact /\ StopIsExplained
<1>0. /\ Kept(core, flow) /\ core \in Cores /\ AllRows = AllOf(flow)
      /\ flow.sources \in Seq(Seq(Row)) /\ now \in Nat
    BY FlowsAssumption DEF FlowInv, Kept, AllRows, AllOf
<1>a. PICK all \in Seq(Row) : all = AllRows
    BY <1>0, FlattenSteps DEF AllRows
<1>1. Live(core, flow) => core.pc # "done" /\ core.result = Nil /\ core.unread = Nil
                          /\ core.rowsSaved = Len(core.rows)
    BY DEF Live, LivePcs
<1>e. core.pc # "done" => exit.code = Nil /\ exit.stdout = Nil
    BY DEF FlowInv, Unreported
<1>2. CompleteIsWhole
  <2> SUFFICES ASSUME exit.code = 0
               PROVE  /\ flow.state = "FINISHED"
                      /\ core.rows = AllRows /\ core.rowsSaved = Len(AllRows)
                      /\ core.files = "complete"
                      /\ core.logComplete
                      /\ core.records = core.counts["get_flow_status"] + core.counts["get_flow_results"]
                                          + core.counts["list_flow_files"]
      BY DEF CompleteIsWhole
  <2>1. core.pc = "done"
      BY <1>e, PagingAssumption
  <2>2. Ended(core, flow, now) /\ Reported
      BY <2>1 DEF FlowInv
  <2>3. WholeRun(core, flow)
      BY <2>2 DEF Ended, Reported
  <2> QED BY <2>3, <1>0 DEF WholeRun, CallsOf
<1>3. SavedIsPrefix
  <2>1. IsPrefix(core.rows, AllRows)
      BY <1>0, <1>a, CoreFields, PrefixOf DEF Kept
  <2>2. core.rowsSaved <= Len(core.rows)
      BY <1>0 DEF Kept
  <2>3. core.rowsSaved = Len(core.rows) \/ core.result.reason = "io_error" \/ core.pc = "done"
      BY <1>1 DEF FlowInv, Ended, Raised
  <2> QED BY <2>1, <2>2, <2>3 DEF SavedIsPrefix
<1>4. ResumePointIsRight
    BY <1>0, <1>1 DEF ResumePointIsRight, FlowInv, Kept, Ended, Raised
<1>5. BudgetsHold
    BY <1>0 DEF BudgetsHold, Kept, FlowInv, Unbound
<1>6. TimeoutsAreClassified
    BY DEF TimeoutsAreClassified, FlowInv, Live, LivePcs, Ended, Raised, Classified
<1>7. ReportsAgree
    BY <1>e DEF ReportsAgree, FlowInv, Reported
<1> QED BY <1>2, <1>3, <1>4, <1>5, <1>6, <1>7 DEF SavedIsExact, StopIsExplained

(* FlowInv is inductive: the account of a run holds at every moment.       *)
THEOREM FlowInvariance == FlowSpec => []FlowInv
<1>1. FlowInit => FlowInv
    BY FlowInitInv
<1> QED BY <1>1, FlowStep, PTL DEF FlowSpec

(* paginate_window_result over get_flow_results: every page of every flow  *)
(* is a slice of its rows at the cursor, says truncated exactly when rows  *)
(* follow, and points past its own start.                                  *)
THEOREM PagesSlice == FlowSpec => []PageIsSlice
<1>1. FlowInv => PageIsSlice
    BY PagesAreSlices
<1> QED BY <1>1, FlowInvariance, PTL

(* execute of velo_flow: exit code 0 only with every row on disk once and  *)
(* in order, every answered call recorded and the list of files complete.  *)
THEOREM CompleteRunsAreWhole == FlowSpec => []CompleteIsWhole
<1>1. FlowInv => CompleteIsWhole
    BY FlowImplied
<1> QED BY <1>1, FlowInvariance, PTL

(* OutputSink.append_rows_page and _collect_pages: rows.jsonl is always a  *)
(* prefix of the rows, and a reported resume point is its end.             *)
THEOREM SavedStaysExact == FlowSpec => []SavedIsExact
<1>1. FlowInv => SavedIsExact
    BY FlowImplied
<1> QED BY <1>1, FlowInvariance, PTL

(* _bounded, _call and execute: no budget is exceeded before the session   *)
(* is being closed, a run that stops at its deadline says so unless it     *)
(* ended without an answer, and its reports agree.                         *)
THEOREM StopsAreExplained == FlowSpec => []StopIsExplained
<1>1. FlowInv => StopIsExplained
    BY FlowImplied
<1> QED BY <1>1, FlowInvariance, PTL
=============================================================================
