------------------------- MODULE SchedulerEvidence --------------------------
(***************************************************************************)
(* The scheduler evidence of a Linux guest (velociraptor_linux_scheduler,  *)
(* _cron and _boot_install): an ordinary root process writes a payload and *)
(* a definition, a manager loads the definition and executes the payload,  *)
(* and a collector proves that chain while it happens.                     *)
(*                                                                         *)
(* The collector is two threads.  The drain thread takes a read lease on   *)
(* every version when its writer closed it, and holds every open of the    *)
(* manager until it has compared the opened inode with the leased version. *)
(* The caller's tick observes the invocation and acts once: it extends the *)
(* kernel scope to the fired instance (timer, service, cron) or installs   *)
(* the captured unit (install).  Root, manager and whoever rewrites or     *)
(* replaces the files go on meanwhile.                                     *)
(*                                                                         *)
(* Two artifacts stand for all: "definition" for the service and timer     *)
(* units or the crontab.  Rows carry whether root was alive when they were *)
(* written, which is all that their time stamps are compared with.         *)
(***************************************************************************)
EXTENDS LinuxFaults, FiniteSets, Sequences

VARIABLES
    mechanism, \* "timer", "service", "cron" or "install"
    disk,      \* disk[n]: [ino, ver] of the file named n, ver 0: absent
    root,      \* root's progress: exec, payload, definition, exit
    prefix,    \* how many of root's kernel events generation 1 holds
    manager,   \* [load, def, fire, img, fd, after]: what the manager really did
    drain,     \* [at, queue, held, error, broken, finish]
    rows,      \* raw.ndjson
    extension, \* the scope's extension: "no", "asked", "applied"
    observer   \* [at, invocation, attempted, installed]: the caller's thread

evidenceVars == <<mechanism, disk, root, prefix, manager, drain, rows, extension, observer>>

Artifacts == {"payload", "definition"}
Absent == [ino |-> 0, ver |-> 0]
EvidenceInit ==
    /\ disk = [n \in Artifacts |-> Absent] /\ root = 0 /\ prefix = 0 /\ rows = <<>> /\ extension = "no"
    /\ manager = [load |-> "no", def |-> 0, fire |-> "no", img |-> 0, fd |-> Absent, after |-> FALSE]
    /\ drain = [at |-> "off", queue |-> <<>>, held |-> [n \in Artifacts |-> Absent], now |-> "none",
                error |-> FALSE, broken |-> FALSE, finish |-> FALSE]
    /\ observer = [at |-> "off", invocation |-> FALSE, attempted |-> FALSE, installed |-> 0]

Row(kind, name, f) == [kind |-> kind, name |-> name, ino |-> f.ino, ver |-> f.ver, alive |-> root < 4]
Record(row) == rows' = Append(rows, row)
Note(kind) == Record(Row(kind, "none", Absent))
Positions(rs, kind, name) == {i \in DOMAIN rs : rs[i].kind = kind /\ rs[i].name = name}
Has(rs, kind) == Positions(rs, kind, "none") # {}
Held(n) == drain.held[n] # Absent
Leased(n) == Held(n) /\ drain.at # "over"

-----------------------------------------------------------------------------
(* Root, the kernel's record of it, and whoever changes the files.         *)

Post(event) == IF drain.at \in {"on", "leased"} THEN [drain EXCEPT !.queue = Append(@, event)] ELSE drain
Event(is, n, f) == [is |-> is, name |-> n, ino |-> f.ino, ver |-> f.ver]

RootExec ==
    /\ root = 0 /\ observer.at # "off" /\ root' = 1
    /\ UNCHANGED <<faults, extension, mechanism, disk, prefix, manager, drain, rows, observer>>
RootWrites(n) ==
    /\ root = IF n = "payload" THEN 1 ELSE 2
    /\ root' = root + 1 /\ disk' = [disk EXCEPT ![n] = [ino |-> 1, ver |-> 1]]
    /\ drain' = Post(Event("close", n, disk'[n]))
    /\ UNCHANGED <<faults, extension, mechanism, prefix, manager, rows, observer>>
RootExits ==
    /\ root = 3 /\ root' = 4
    /\ UNCHANGED <<faults, extension, mechanism, disk, prefix, manager, drain, rows, observer>>
KernelDrains ==
    /\ prefix < root /\ prefix' = prefix + 1
    /\ UNCHANGED <<faults, extension, mechanism, disk, root, manager, drain, rows, observer>>

Writable(n) == disk[n] # Absent /\ observer.at # "off" /\ observer.installed = 0
(* Somebody opens the file for writing: that breaks a lease.  The write    *)
(* then waits for the lease, which the kernel takes away after a while.    *)
Rewrite(n) ==
    /\ Writable(n) /\ Fault
    /\ \E written \in (IF Leased(n) THEN BOOLEAN ELSE {TRUE}) :
          /\ disk' = IF written THEN [disk EXCEPT ![n].ver = @ + 1] ELSE disk
          /\ drain' = [(IF written THEN Post(Event("close", n, disk'[n])) ELSE drain)
                       EXCEPT !.broken = @ \/ Leased(n)]
    /\ UNCHANGED <<extension, mechanism, root, prefix, manager, rows, observer>>
(* A file that was written elsewhere is moved over the name: no event.     *)
Replace(n) ==
    /\ Writable(n) /\ Fault
    /\ disk' = [disk EXCEPT ![n] = [ino |-> @.ino + 1, ver |-> @.ver + 1]]
    /\ UNCHANGED <<extension, mechanism, root, prefix, manager, drain, rows, observer>>

-----------------------------------------------------------------------------
(* The manager: an open waits for the drain thread, then reads whatever    *)
(* the opened inode holds.                                                 *)

Contents(n) == IF disk[n].ino = manager.fd.ino THEN disk[n].ver ELSE manager.fd.ver
Opens(n) == IF drain.at \in {"on", "leased"} THEN "opening" ELSE "allowed"

ManagerOpens ==
    /\ mechanism # "install" /\ manager.load = "no" /\ disk["definition"] # Absent
    /\ manager' = [manager EXCEPT !.load = Opens("definition"), !.fd = disk["definition"]]
    /\ drain' = Post(Event("load", "definition", disk["definition"]))
    /\ UNCHANGED <<faults, extension, mechanism, disk, root, prefix, rows, observer>>
ManagerLoads ==
    /\ manager.load = "allowed"
    /\ manager' = [manager EXCEPT !.load = "yes", !.def = Contents("definition"), !.fd = Absent]
    /\ UNCHANGED <<faults, extension, mechanism, disk, root, prefix, drain, rows, observer>>
Fires ==
    /\ manager.load = "yes" /\ manager.fire = "no" /\ observer.at # "closed"
    /\ manager' = [manager EXCEPT !.fire = Opens("payload"), !.fd = disk["payload"], !.after = root = 4]
    /\ drain' = Post(Event("exec", "payload", disk["payload"]))
    /\ UNCHANGED <<faults, extension, mechanism, disk, root, prefix, rows, observer>>
Execs ==
    /\ manager.fire = "allowed"
    /\ manager' = [manager EXCEPT !.fire = "runs", !.img = Contents("payload"), !.fd = Absent]
    /\ UNCHANGED <<faults, extension, mechanism, disk, root, prefix, drain, rows, observer>>
PayloadExits ==
    /\ manager.fire = "runs" /\ manager' = [manager EXCEPT !.fire = "gone"]
    /\ UNCHANGED <<faults, extension, mechanism, disk, root, prefix, drain, rows, observer>>

-----------------------------------------------------------------------------
(* The collector's start and its drain thread.                             *)

(* The scope is applied already: root is its target.                       *)
CollectorStarts ==
    /\ observer.at = "off"
    /\ observer' = [observer EXCEPT !.at = "idle"] /\ drain' = [drain EXCEPT !.at = "on"]
    /\ Note("ready")
    /\ UNCHANGED <<faults, extension, mechanism, disk, root, prefix, manager>>

Allow(m, is) == IF is = "load" THEN [m EXCEPT !.load = "allowed"] ELSE [m EXCEPT !.fire = "allowed"]
AllowAll == [manager EXCEPT !.load = IF @ = "opening" THEN "allowed" ELSE @,
                            !.fire = IF @ = "opening" THEN "allowed" ELSE @]
Release == [drain EXCEPT !.at = "over", !.queue = <<>>, !.now = "none"]
(* The thread's end: its group is closed, which lets every waiting open    *)
(* go on, and its leases are given back.                                   *)
(* Mutant: the group is kept open, waiting opens stay unanswered.          *)
Stops_Silently(failed) == drain' = [Release EXCEPT !.error = @ \/ failed] /\ UNCHANGED manager
Stops(failed) == drain' = [Release EXCEPT !.error = @ \/ failed] /\ manager' = AllowAll

(* What an event's open file holds: the name still leads to that inode.    *)
Current(e) == disk[e.name].ino = e.ino
Seen(e) == [ino |-> e.ino, ver |-> disk[e.name].ver]
(* CLOSE_WRITE: only the first version of a name, by a writer who lives.   *)
Leasable(e) == Current(e) /\ ~Held(e.name) /\ root < 4
(* A permission event of the manager: the version that is leased.          *)
UsesHeld(e) == Current(e) /\ Held(e.name) /\ Seen(e) = drain.held[e.name]

DrainHandles ==
    /\ drain.at = "on" /\ ~drain.finish /\ ~drain.broken /\ drain.queue # <<>>
    /\ LET e == Head(drain.queue)
           rest == [drain EXCEPT !.queue = Tail(@)]
       IN  IF e.is = "close"
           THEN IF Leasable(e)
                THEN /\ drain' = [rest EXCEPT !.at = "leased", !.held[e.name] = Seen(e), !.now = e.name]
                     /\ UNCHANGED <<manager, rows>>
                ELSE Stops(TRUE) /\ UNCHANGED rows
           ELSE IF UsesHeld(e)
                THEN /\ drain' = rest /\ manager' = Allow(manager, e.is)
                     /\ Record(Row(IF e.is = "load" THEN "manager-open" ELSE "exec-open", e.name, Seen(e)))
                ELSE Stops(TRUE) /\ UNCHANGED rows
    /\ UNCHANGED <<faults, extension, mechanism, disk, root, prefix, observer>>
(* The lease is known to the other thread before its row is written.       *)
DrainRecords ==
    /\ drain.at = "leased"
    /\ Record(Row("closed-write", drain.now, drain.held[drain.now]))
    /\ drain' = [drain EXCEPT !.at = "on", !.now = "none"]
    /\ UNCHANGED <<faults, extension, mechanism, disk, root, prefix, manager, observer>>
DrainStops ==
    /\ drain.at = "on" /\ (drain.finish \/ drain.broken) /\ Stops(~drain.finish)
    /\ UNCHANGED <<faults, extension, mechanism, disk, root, prefix, rows, observer>>
(* The collection's deadline, lost events.                                 *)
DrainFails ==
    /\ drain.at = "on" /\ ~drain.finish /\ Fault /\ Stops(TRUE)
    /\ UNCHANGED <<extension, mechanism, disk, root, prefix, rows, observer>>

-----------------------------------------------------------------------------
(* qualify: what the rows and root's kernel events prove.  Positions are   *)
(* row numbers; k is how many of root's events are known.                  *)

Only(rs, kind, name) == CHOOSE i \in Positions(rs, kind, name) : TRUE
(* One closed version of every artifact, written by root while it lived.   *)
Captured(rs, k) ==
    /\ \A n \in Artifacts : /\ Cardinality(Positions(rs, "closed-write", n)) = 1
                            /\ rs[Only(rs, "closed-write", n)].alive \/ k < 4
    /\ k >= 3
    /\ Only(rs, "closed-write", "payload") < Only(rs, "closed-write", "definition")
Same(a, b) == a.ino = b.ino /\ a.ver = b.ver
Loads(rs) == Positions(rs, "manager-open", "definition")
LoadIsBound(rs) ==
    /\ Loads(rs) # {}
    /\ \A i \in Loads(rs) : Same(rs[i], rs[Only(rs, "closed-write", "definition")])
ExecIsBound(rs) ==
    /\ Cardinality(Positions(rs, "exec-open", "payload")) = 1
    /\ Same(rs[Only(rs, "exec-open", "payload")], rs[Only(rs, "closed-write", "payload")])
(* write, load, exec, invocation; a timer fires after root's end.          *)
InOrder(rs) ==
    LET x == Only(rs, "exec-open", "payload")
    IN  /\ \E l \in Loads(rs) : Only(rs, "closed-write", "definition") < l /\ l < x
        /\ x < Only(rs, "invocation", "payload")
Ordered(rs, k) ==
    /\ InOrder(rs)
    /\ mechanism = "timer" => k = 4 /\ rs[Only(rs, "invocation", "payload")].ino = 1
Chain(rs, k) ==
    /\ Cardinality(Positions(rs, "invocation", "payload")) = 1
    /\ Captured(rs, k) /\ LoadIsBound(rs) /\ ExecIsBound(rs)
(* crond must have dispatched after root's end, which must be known.       *)
CronOrdered(rs, k) == k = 4 /\ InOrder(rs) /\ ~rs[Only(rs, "exec-open", "payload")].alive
CronQualifies(rs, k) == Chain(rs, k) /\ CronOrdered(rs, k)
Qualifies(rs, k) == IF mechanism = "cron" THEN CronQualifies(rs, k) ELSE Chain(rs, k) /\ Ordered(rs, k)
(* verify_captured: root's exit, after its writes, is the last fact asked. *)
InstallCaptured(rs, k) ==
    /\ Captured(rs, k) /\ k = 4
    /\ \A n \in Artifacts : rs[Only(rs, "closed-write", n)].alive
InstallQualifies(rs, k) ==
    /\ InstallCaptured(rs, k)
    /\ \A kind \in {"install-intent", "install-result"} : Cardinality(Positions(rs, kind, "definition")) = 1
    /\ ~Has(rs, "install-refused")
    /\ Same(rs[Only(rs, "install-result", "definition")], rs[Only(rs, "closed-write", "definition")])
(* normalize: only over rows that were closed, without an error and        *)
(* without a broken lease.                                                 *)
ClosedWhole(rs) ==
    /\ Cardinality(Positions(rs, "closed", "none")) = 1
    /\ rs[Only(rs, "closed", "none")].ver = 0
Normalizes == ClosedWhole(rows) /\ (IF mechanism = "install" THEN InstallQualifies(rows, prefix) ELSE Qualifies(rows, prefix))

-----------------------------------------------------------------------------
(* The caller's thread: tick and admission.                                *)

(* Mutant: a broken lease is left to the drain thread.                     *)
Healthy_Error == ~drain.error
Healthy == ~drain.error /\ ~drain.broken
(* tick up to invocation-probe: the exec that was seen is the main process.*)
TickProbes ==
    /\ observer.at = "idle" /\ ~observer.invocation /\ mechanism \in {"timer", "service"}
    /\ ~drain.error /\ Positions(rows, "exec-open", "payload") # {} /\ manager.fire = "runs"
    /\ Note("invocation-probe") /\ observer' = [observer EXCEPT !.at = "probed", !.invocation = TRUE]
    /\ UNCHANGED <<faults, extension, mechanism, disk, root, prefix, manager, drain>>
(* The manager's properties were read; the process must be the same still. *)
(* ino 1 of this row: the trigger came after root's exit.                  *)
Invocation == Record(Row("invocation", "payload", [ino |-> IF manager.after THEN 1 ELSE 0, ver |-> 0]))
(* fragment_binding, when the unit is linked: the link leads to the held   *)
(* inode.                                                                  *)
FragmentBinds == disk["definition"].ino = drain.held["definition"].ino
TickObserves ==
    /\ observer.at = "probed" /\ observer' = [observer EXCEPT !.at = "idle"]
    /\ \E link \in BOOLEAN :
          IF manager.fire = "runs" /\ (link => FragmentBinds) THEN Invocation ELSE UNCHANGED rows
    /\ UNCHANGED <<faults, extension, mechanism, disk, root, prefix, manager, drain>>
(* CronCollector.tick reads daemon, log and marker of a process that runs. *)
CronTick ==
    /\ observer.at = "idle" /\ ~observer.invocation /\ mechanism = "cron"
    /\ ~drain.error /\ Positions(rows, "exec-open", "payload") # {} /\ manager.fire = "runs"
    /\ observer' = [observer EXCEPT !.invocation = TRUE] /\ Invocation
    /\ UNCHANGED <<faults, extension, mechanism, disk, root, prefix, manager, drain>>

(* admit: once.  The qualified instance must run, the window be open; then *)
(* the scope is asked to extend to it.                                     *)
Admissible == Healthy /\ ~drain.finish /\ Qualifies(rows, prefix) /\ manager.fire = "runs"
MayAdmit ==
    /\ observer.at = "idle" /\ ~observer.attempted
    /\ Positions(rows, "invocation", "payload") # {}
Admit ==
    /\ MayAdmit /\ Admissible /\ extension' = "asked"
    /\ Note("admission-intent") /\ observer' = [observer EXCEPT !.at = "admitting", !.attempted = TRUE]
    /\ UNCHANGED <<faults, mechanism, disk, root, prefix, manager, drain>>
(* Not qualified, window over, or the scope is not active.                 *)
AdmitRefuses ==
    /\ MayAdmit
    /\ Note("admission-insufficient") /\ observer' = [observer EXCEPT !.attempted = TRUE]
    /\ UNCHANGED <<faults, extension, mechanism, disk, root, prefix, manager, drain>>
(* The scope's worker attaches the second generation; the call may end     *)
(* before it did, or without its answer (LinuxScope).                      *)
ScopeExtends ==
    /\ extension = "asked" /\ extension' = "applied"
    /\ UNCHANGED <<faults, mechanism, disk, root, prefix, manager, drain, rows, observer>>
Admitted(receipt) ==
    /\ observer.at = "admitting" /\ (receipt => extension = "applied")
    /\ observer' = [observer EXCEPT !.at = "idle"]
    /\ Note(IF receipt /\ Healthy /\ manager.fire = "runs" THEN "admission-ready" ELSE "admission-insufficient")
    /\ UNCHANGED <<faults, extension, mechanism, disk, root, prefix, manager, drain>>

-----------------------------------------------------------------------------
(* The caller's thread: the one installation.                              *)

MayInstall ==
    /\ observer.at = "idle" /\ ~observer.attempted /\ mechanism = "install"
    /\ \A n \in Artifacts : Held(n)
(* verify_captured up to root's exit, the one fact that may still come.    *)
Installable == Healthy /\ ~drain.finish /\ Captured(rows, prefix)
HeldContents(n) == disk[n].ino # drain.held[n].ino \/ disk[n].ver = drain.held[n].ver
InstallTick ==
    /\ MayInstall /\ (Installable => prefix = 4)
    /\ IF Installable /\ InstallCaptured(rows, prefix) /\ (\A n \in Artifacts : HeldContents(n))
       THEN /\ Record(Row("install-intent", "definition", drain.held["definition"]))
            /\ observer' = [observer EXCEPT !.at = "installing"]
       ELSE Note("install-refused") /\ observer' = [observer EXCEPT !.attempted = TRUE]
    /\ UNCHANGED <<faults, extension, mechanism, disk, root, prefix, manager, drain>>
(* The unit's copy, the protection of the payload and the link.            *)
InstallCopies ==
    /\ observer.at = "installing"
    /\ observer' = [observer EXCEPT !.at = "reloading", !.installed = rows[Only(rows, "install-intent", "definition")].ver]
    /\ UNCHANGED <<faults, extension, mechanism, disk, root, prefix, manager, drain, rows>>
(* daemon-reload and the proof of the load; what was installed stays, also *)
(* when that fails.                                                        *)
InstallEnds(loaded) ==
    /\ observer.at = "reloading" /\ observer' = [observer EXCEPT !.at = "idle", !.attempted = TRUE]
    /\ IF loaded THEN UNCHANGED faults /\ Record([rows[Only(rows, "install-intent", "definition")] EXCEPT !.kind = "install-result"])
       ELSE Fault /\ Note("install-refused")
    /\ UNCHANGED <<extension, mechanism, disk, root, prefix, manager, drain>>

-----------------------------------------------------------------------------
(* close: the owned units are stopped, the thread is asked to end and      *)
(* awaited, and the verdict of both threads is the last row.               *)

CloseBegins ==
    /\ observer.at = "idle" /\ observer' = [observer EXCEPT !.at = "closing"]
    /\ IF observer.attempted THEN UNCHANGED rows
       ELSE Note(IF mechanism = "install" THEN "install-refused" ELSE "admission-insufficient")
    /\ \E stopped \in BOOLEAN :
          /\ IF stopped THEN UNCHANGED faults ELSE mechanism # "install" /\ Fault
          /\ drain' = [drain EXCEPT !.finish = TRUE, !.error = @ \/ ~stopped]
          /\ manager' = IF stopped /\ manager.fire = "runs" THEN [manager EXCEPT !.fire = "gone"] ELSE manager
    /\ UNCHANGED <<extension, mechanism, disk, root, prefix>>
CloseEnds ==
    /\ observer.at = "closing" /\ drain.at = "over" /\ observer' = [observer EXCEPT !.at = "closed"]
    /\ Record(Row("closed", "none", [ino |-> 0, ver |-> IF Healthy THEN 0 ELSE 1]))
    /\ UNCHANGED <<faults, extension, mechanism, disk, root, prefix, manager, drain>>
(* The thread did not end in two seconds: nothing more is written.         *)
CloseTimesOut ==
    /\ observer.at = "closing" /\ drain.at # "over" /\ observer' = [observer EXCEPT !.at = "unclosed"]
    /\ UNCHANGED <<faults, extension, mechanism, disk, root, prefix, manager, drain, rows>>

WorldNext == RootExec \/ ScopeExtends \/ (\E n \in Artifacts : RootWrites(n) \/ Rewrite(n) \/ Replace(n)) \/ RootExits \/ KernelDrains
    \/ ManagerOpens \/ ManagerLoads \/ Fires \/ Execs \/ PayloadExits
CollectorNext == CollectorStarts \/ DrainHandles \/ DrainRecords \/ DrainStops \/ DrainFails
    \/ TickProbes \/ TickObserves \/ CronTick \/ Admit \/ AdmitRefuses \/ (\E receipt \in BOOLEAN : Admitted(receipt))
    \/ InstallTick \/ InstallCopies \/ (\E loaded \in BOOLEAN : InstallEnds(loaded))
    \/ CloseBegins \/ CloseEnds \/ CloseTimesOut
EvidenceNext == WorldNext \/ CollectorNext

-----------------------------------------------------------------------------
(* Properties.                                                             *)

ClosedVersion(n) == rows[Only(rows, "closed-write", n)].ver
(* An accepted chain is what happened: the manager loaded the very bytes   *)
(* the definition's row holds and executed the payload's; an accepted      *)
(* installation put the captured unit in place.  A file that is rewritten  *)
(* after the open was allowed and before it was read is caught by its      *)
(* lease, one that is moved over the name by the inode.                    *)
ChainIsTrue ==
    Normalizes => IF mechanism = "install" THEN observer.installed = ClosedVersion("definition")
                  ELSE manager.def = ClosedVersion("definition") /\ manager.img = ClosedVersion("payload")

(* The scope is extended at most once, and an admission that is reported   *)
(* ready was for the process that runs the captured payload, with the      *)
(* scope's second generation attached.                                     *)
AdmissionIsTrue ==
    /\ Cardinality(Positions(rows, "admission-intent", "none")) <= 1
    /\ Has(rows, "admission-ready") =>
         extension = "applied" /\ manager.img = ClosedVersion("payload") /\ manager.def = ClosedVersion("definition")

Queued(is) == drain.at # "over" /\ \E i \in DOMAIN drain.queue : drain.queue[i].is = is

(* No open waits for a drain thread that is gone: the manager, which may   *)
(* be process 1, always goes on.                                           *)
OpensAreAnswered ==
    /\ manager.load = "opening" => Queued("load")
    /\ manager.fire = "opening" => Queued("exec")

(* Whatever the collector accepts, online or replayed, is what happened.   *)
EvidenceIsTrue == ChainIsTrue /\ AdmissionIsTrue
=============================================================================
