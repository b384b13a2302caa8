# A TLA+ verification of mcp-velociraptor

This directory holds TLA+ models of the parts of mcp-velociraptor that keep
state across failures, TLC configurations that check them on small instances, and
proofs checked by TLAPS. `PROJECT.json` maps every definition to the source
lines it stands for and lists components, runs, mutants, hazards, findings and
theorems.

Check a run with `tlc -config <run>.cfg <module>` (the module named for the run in
`PROJECT.json`), the proofs with `tlapm <module>.tla` for each of `GuestTerminalProofs`,
`GuestTaskProofs`, `GuestAndFlowProofs`, `HostPartialProofs`, `AttemptLedgerProofs`,
`SessionControllerProofs`, `LinuxCollectionProofs` and `TransferCoordinatorProofs`.

## 1. The system

mcp-velociraptor is an MCP server in front of a Velociraptor server, with host
tools that use it. The repository consists of:

| part | state | operations | with whom |
| --- | --- | --- | --- |
| MCP core (`velociraptor_mcp_core`, `_api`, `_fixed_tools`, `_dynamic_artifacts`, `_transport`, bridge) | the selected client, artifact catalog, HTTP sessions | tools: run VQL, start / wait / cancel flows, page results, download files | host tools, Velociraptor |
| Flow host (`velo_flow`) | one output directory: calls.jsonl, rows.jsonl, contract.json, result.json | connect, list tools, wait for a flow, page its results, list files, report | MCP core, over HTTP |
| Transfer, guest engine (`velo_transfer/guest_service`, `guest_worker`, `protocol`, `storage`) | per task: state file, action ledger, received.part, chunks.jsonl, stage, destination; per guest: worker lease, root lock | begin, status, chunk(s), finish (prepare, commit, release), abort; workers package, verify_partial, prepare, commit, release | host coordinator; other users of the disk |
| Transfer, host (`velo_transfer/host_*`, `result`, `adapters`) | journal with phase, operations, receipts, attempts; package or partial, stage, destination; result document | start / resume / abort of a run: content, prepare, publish, release, clean up | guest engine, through an MCP or a WinRM channel |
| Host store (`host_journal`, `host_partial`) | state.json, evidence files, received.part, chunks.jsonl, the writer lock | create, load, save, write_evidence; start, resume, append, verify, release | other host processes of the same task |
| Observation (`velociraptor_observation_*`) | sessions, work rows, request journals, attempt ledger, archives | admit, hand over, cancel, begin, accept, append, seal, close, drain, export | MCP core, its SDK, threads and child processes |
| Linux scope (`velociraptor_linux_scope`, `_worker`, `_probe`) | state.json, request and response files, probe generations | apply, update, extend, withdraw, status, stop, export | the worker process, the kernel probe |
| Linux evidence (`_scheduler`, `_cron`, `_boot_install`) | raw rows, read leases, the extension of the scope | tick, drain, admit, install, close, qualify | systemd, crond, the writers of the files |
| Linux boot (`_boot_service`, `_boot_resume`) | two sealed directories | collect, resume, finish, replay | the scope, a running unit |
| `agent_poc`, `deploy/linux` | - | a demonstration client, a deployment script | - |

How they interact. The flow host and the transfer host call MCP tools over HTTP;
a call may be answered, be answered by an error, time out, or be executed although
nobody waits any more. The transfer host never trusts an answer it did not get: it
asks `transfer_status` and compares operation ids, input digests and receipts with
its journal. In the guest, calls run one at a time, but the workers are
processes of their own that outlive the call (and the service); they share
with it the state files, the lease and one non-blocking lock.

What is hard, and what makes each part correct:

* **Terminal protocol** (`protocol.py`). The ledger is rebuilt from its snapshot by
  replaying it through its own methods on every request. Correct if no reachable
  snapshot is refused, nothing once disclosed is regenerated, and a release rests on
  the publication of the stored prepare.
* **Guest workers and leases**. Three records of who is working (task owner, lease,
  OS lock), written by different steps of different processes. Correct if no
  worker works unregistered, two never work together, a running one is never
  orphaned, and a dead one does not block the guest for ever.
* **Push reception**. Two files and two saves per chunk call, each interruptible,
  and a resume worker that truncates. Correct if acknowledged bytes are never lost.
* **Guest jobs**. Rename, receipt and deletions are separate steps, and workers die
  between them. Correct if a receipt means a published tree, nothing is deleted without authorization, RELEASED means
  clean.
* **Host coordinator**. Runs die and are resumed over a channel that loses
  and delays requests. Correct if its result is true, accepted by its own
  validator, complete only with proof, and if a run with no further fault finishes.
* **Flow host and result paging**. Cursors over several sources, five budgets and
  two time limits. Correct if `complete` means all rows once and in order, and if no
  limit is exceeded and no stop misreported.
* **Observation ledger and journals**. Several threads extend one catalog and their own
  journals under several locks; any publication may fail after its file is in place.
  Correct if the catalog on disk always verifies, an END row describes what the request
  really left, nothing but a failure makes the ledger unknown, and what was
  admitted can always be finished within the limits.
* **Host store**. The state file is replaced by rename, the chunk is three writes, a
  second process may start at any time, power may fail between a rename and the sync of
  its directory. Correct if nothing acknowledged is lost, no fact is taken back, a
  failed save says what it left, and no accident looks like tampering.
* **Observation sessions**. One event loop, the SDK's own tasks, threads and
  children all touch a request, while a DELETE or the end of the service closes its
  session. Correct if a closed session is quiet for good, a journal has one owner, two
  requests the SDK would confuse never overlap, and limits count what is in flight.
* **Linux collection**. The collector watches a machine that goes on: pids are reused,
  files replaced, services restarted, and the probe's worker may die. Correct if what it accepts is
  what happened, no recorded process changes what was exported, and every open it holds up is
  answered before its drain is gone.

`PROJECT.json` lists every component and, under `hazards`, the places where such
things can go wrong, each with the properties that watch it.

## 2. Modules

    TerminalRules --> GuestTerminal --> GuestTerminalProofs
         |                ^ refines
         |--------> GuestTask --> GuestTaskProofs
         |--------> TransferCoordinator --> TransferCoordinatorProofs
    GuestWorkers, GuestReceive ----> GuestAndFlowProofs
    FlowResults --> FlowCoordinator ---^
    HostJournal --> HostPartial --> HostPartialProofs
    RequestJournal --> AttemptLedger --> AttemptLedgerProofs
    SessionController --> SessionControllerProofs
    LinuxFaults --> LinuxScope --> BootResume --------> LinuxCollection --> LinuxCollectionProofs
         |--------> SchedulerEvidence ---------------------^

GuestTask holds two instances of GuestTerminalProofs, one per direction: the ledger its
jobs must implement, together with the lemmas about it.

Each `MC...` module is the instance TLC checks: it extends its module and adds only
symmetry sets or the finite input sets of a configuration.

**TerminalRules** has the methods of `GuestTerminal` (begin, complete, fail,
authorize, restore) as operators from one snapshot to the next, without variables.
Three modules share it, so the ledger that is proved about is the one the other
models use. A digest is the value it covers; the immutable binding is the value
"K", any other one "foreign".

**GuestTerminal** is one task's ledger: `terminal` is the snapshot on disk, `told` a
history of what answers have disclosed. Actions: `Begin` (with any inputs, also
stale or foreign), the completions and failures a worker may report for any
operation id, authorization of the release, status. Each restores, applies and saves.

**GuestWorkers** has several tasks, the service call in progress (`call`, one step
per save), and the life of each worker process: launched, waiting for activation,
activated, holding the root lock, working, exiting, dead. `task[t].owner`,
`lease` and `root` are the three records that have to agree. Service
crashes, failed saves, deadlines and reboots (a lease of another boot) happen at any
point; `Requests` says which calls arrive for which task, `Expiring` which tasks meet
their deadline.

**GuestReceive** has the bytes of received.part, the lines of chunks.jsonl and the
saved state. A chunk call is create, register, write, record, save, each of which may be
the last or be torn; `Resume`, `Verify`, `Trim`, `Prove` are the verify_partial worker.

**GuestTask** is `transfer_finish` and the jobs prepare, commit and release, step by
step on disk: stage, manifest.json, publish intent, rename, receipt, deletions, proof,
finalisation. `OtherUsers` changes sources and destination. The worker raises or is
killed between any two steps. Both directions are explored. Its abstract
specification is GuestTerminal: `ImplementsLedger` says that each step is a ledger
step or leaves the ledger alone.

**TransferCoordinator** is `TransferCoordinator.run` with the content, publication
and cleanup steps it calls, its journal, its files and its result. The guest is
what the host can see of it: the TerminalRules ledger, one worker, one error. A call
is answered, lost, executed without an answer, or left under way (`late`) and executed
after the host gave up. A run may be killed between two saves and started again.

**FlowResults** is the server side of paging (`get_flow_results`,
`paginate_window_result`): a window over the sources in order, cut to the page size
and to the response limit. **FlowCoordinator** is one run of `velo_flow` against
it: `core` is the coordinator with its two streams, `exit` what the process leaves
behind. Every call may fail, be late, be answered by an error, or by a page that
contradicts itself or the request; every write may fail. A call that gets a limit of its own may fail
at that limit as well as before it, because the SDK is given the same limit and its timer may fire first. An
abandoned call is assumed to unwind at once. Closing the session has no limit in the code: `Closing`
takes up to `CloseTime`, whatever the deadline is.

**RequestJournal** has the journal of one observed request as operators: what may be
appended, sealed, confirmed, and which chain of files its reader accepts
(`Verifies`). **AttemptLedger** has the catalog's files, the confirmed count, the attempts,
and for each the journal (what the writer believes) and the chain (what is on disk).
A request is a thread: begin (reserve, publish, or reject), accept (journal, lock, ACK
row), the scope that claims the journal and emits events, seal, close, finish (verify the
originals, lock, END row, retire). The catalog lock is a variable because rows are
published while it is held and other threads run in between. Session closes read
a prefix behind the controller's barrier (all handlers of the session have
exited) and issue it later; `CloseStart` to `CloseCleanup` end the instance. A `Fault` is
a native failure, before or after the file is in place, or a controller that refuses a
prefix for its retained budget. An attempt that could not be settled keeps its slot
(`stuck`), as in the code.

**HostJournal** has one task directory and several host processes. `writer`, `create`,
`load`, `save` and `write_evidence` are taken apart where they can be interrupted:
temporary file, rename, sync of the directory, and after a failure the reading back
that decides what the caller is told (`Verdict`). `disk` is what the running kernel
shows, `durable` what a power loss leaves. A saved state is its `facts`, which
`_phase_data` guards, and the reception's field `rp`. **HostPartial** gives that field
its meaning: `start`, `resume` (truncate the two files to what is registered,
compare the prefix), `append` (bytes, line, journal), `verify`, `release`. It extends the
journal rather than assuming an abstract one, so a chunk meets every failure of a save.

**SessionController** is the observed HTTP instance. `row[r]` is one request: where
its HTTP task is, whether the SDK's dispatcher has it, who claimed its journal, its
threads, its child. The HTTP task hands a message over and may leave before the handler
starts (it answers a notification with 202 at once, and a client may go); `Send` and `Dispatch` are the two
moments at which the SDK takes the message and starts the handler, wherever that task is by then. `sess[s]` and `close[s]` are a session and the close of it. An action is what runs
between two awaits of the event loop, or under one lock; the handler, the
threads of `observation_workers`, the runner of the SDK, the reaping of children and
the exporter's native thread go on between any two of them.

**LinuxScope** is the kernel scope: the operator's call, the worker and its probe,
which share nothing but files. Requests and responses exist before they are
written. **SchedulerEvidence** is one round of evidence: an ordinary root process writes a
payload and a definition, the manager loads and executes them, the drain thread leases
every closed version and answers every permission event, the tick admits or
installs once, and the rows are qualified afterwards. **BootResume** is the boot service:
collect, resume and finish, one reading of the machine per step, and the replay of
the two sealed directories. **LinuxCollection** composes them: a round has one mechanism
(`create_collector`), and all share the budget of faults of the guest (`LinuxFaults`).

### What is abstracted

Hashes are collision free and equal to what they digest. Receipts and
operation ids are fresh identifiers (uuid4 never repeats). File contents are values;
in TransferCoordinator all bytes of a package are one value. Time is a clock
only in FlowCoordinator, where calls and sleeps take time and everything else takes none;
elsewhere a deadline is an event that may happen at any time (`Expire`). Error
codes are reduced to the classes the code tells apart. JSON layout, wording and
logging are left out. In SessionController measured memory is not counted: a gate over
it may refuse at any time, within the faults. In the Linux modules the texts of units,
crontabs and journals are the versions they parse to, and a time stamp is what it is
compared with: whether root was alive, whether a deadline has passed.

## 3. Runs

| run | instance | checks |
| --- | --- | --- |
| GuestTerminal_push | push, 5 ids (symmetric), 2 codes | `RestoreAccepts`, `DisclosuresHold`, `ReleaseChain`, `Irrevocable` |
| GuestWorkers_safety | 2 tasks (one may be aborted and may expire), 2 workers, 1 crash or reboot, fair | `RegisteredBeforeWork`, `StoppedIsGone`, `WorkIsHandedOver`; liveness `EveryWorkerIsReconciled` |
| GuestReceive_safety | 4 bytes of 2 values, chunks up to 2, batches up to 2, 3 workers | `ReceivedIsHeld`, `ProofIsCurrent` |
| GuestTask_jobs | both directions, 6 workers, 2 faults, fair | `ReceiptsAreTrue`, `DeletionIsAuthorized`; refinement `ImplementsLedger`; liveness `JobsEnd` |
| TransferCoordinator_safety | both directions, 2 runs, 1 fault, 1 late request, fair | `ResultIsTrue`, `HostMatchesGuest`, `NoFalseConflict`, `QuietRunCompletes`, `ClaimsAreBacked`; liveness `RunEnds` |
| HostPartial_reception | 2 host processes (symmetric), 3 starts, 7 revisions, a package of 2 bytes, 1 fault | `AckedIsHeld`, `NoFalseAlarm`, `FactsAreKept` |
| FlowCoordinator_run | up to 3 rows in up to 2 sources, pages of 2, a close of up to 1 tick (also past the deadline) | `PageIsSlice`, `CompleteIsWhole`, `SavedIsExact`, `StopIsExplained` |
| AttemptLedger_safety | 2 attempts of 2 keys in 2 sessions, both active, limits at their minimum, 2 faults | `CatalogIsValid`, `EndIsTrue`, `ReservesSuffice` |
| SessionController_close | 4 requests of every kind, 1 session, one id in both JSON types, 2 pending, 1 binary, 1 fault | `ClosedIsQuiescent`, `ClaimedOnce`, `IdsAreExclusive`, `SessionsAreBounded` |
| LinuxCollection_rounds | all five mechanisms, 2 calls on the scope after apply, 1 fault | `ExportIsFinal`, `ReceiptIsTrue`, `EvidenceIsTrue`, `OpensAreAnswered`, `ObservationIsTrue`, `ResumeIsTrue` |
| GuestTask_manifest (violation) | 5 workers, 2 faults | finding 1 |
| SessionController_unknown (violation) | 5 requests (initialize, initialized, binary), 1 pending, 1 fault | finding 2 |

Where one question has several sides, the property is a conjunction of named parts, each
with its own comment in its module: `WorkIsHandedOver` (`LeaseHandover`, `OwnerHandover`),
`ReceivedIsHeld` (`AckedBytesHeld`, `RegisteredPrefixVerifies`), `ReceiptsAreTrue`
(`ReceiptIsPublished`, `PublishedNeverFails`, `ReleasedIsClean`), `JobsEnd`
(`IntentIsCommitted`, `AuthorizedIsReleased`), `ResultIsTrue` (`ResultIsValid`,
`CompleteIsProved`), `ClaimsAreBacked` (`FalseIsKnown`, `CleanupIsAuthorized`), `SavedIsExact`
(`SavedIsPrefix`, `ResumePointIsRight`), `StopIsExplained` (`BudgetsHold`,
`TimeoutsAreClassified`, `ReportsAgree`), `EndIsTrue` (`EndIsEvidence`, `NoFalseUnknown`),
`AckedIsHeld` (`AckedIsDurable`, `TakenIsHeld`), `NoFalseAlarm` (with `VerdictIsTrue`),
`EvidenceIsTrue` (`ChainIsTrue`, `AdmissionIsTrue`), `ReservesSuffice` (`SealAlwaysFits`,
`NoReserveMissing` and three counts).

The `TypeOK` of the modules documents their state; GuestTerminal's and
AttemptLedger's are proved. Each property is stated in prose above its definition. Every
property of a passing run has a mutant in `PROJECT.json`, a plausible bug in one
definition (a dropped guard, a missing reset, a swapped order) that makes TLC find it
violated.

Why the bounds suffice. Five ids are the most one task ever draws (three
operations, two receipts), so no behaviour of a ledger is cut off. Two tasks with
two workers are the smallest instance in which the lease of one task meets a
call of the other; a third worker repeats a launch that already happened, and the
tasks are alike, so it does not matter which of them may be aborted. Four bytes
in chunks of one or two let a batch end inside, at and behind the saved offset; three
workers let a proof be overtaken twice. In GuestTask two faults hit two
different steps of a job and of its retry, and six workers still leave one for every
job of both attempts. Two host runs with a fault and a late request are a start and a
resume, with the first killed or failing at any step; the attempt limit (three per
action) is reached within them. Two faults, and a third run (2.1 million states), were
checked once without the liveness property and gave the same result. Three starts of two host
processes are a process that is killed, its successor, and a rival of either; seven
revisions are the longest reception of two chunks with its release and a fact saved in between.
In the flow run a page can be full, shortened by the response
limit, split by a source boundary, or one row short of a budget; every budget
is the reason of a stop in some behaviour. Two attempts are the fewest with a duplicate,
with two threads between begin and finish, and with one session closing while another
works; two faults hit two of them. Every limit of the ledger has the smallest value `_budgets`
admits, so that one missing unit shows; an instance with a third attempt behind
two that used their shares (1.9 million states) was checked once without faults. A session's
four requests are its initialization and three more of any kind, which is what a
cancellation of a call against a third request needs; the id in both JSON types
is the pair the SDK's table would confuse. In the Linux run one fault (a kill, a
replaced file, a reused process id, a restarted service or manager) happens between any
two readings; two calls after apply are an extension and the stop that meets it.

Deadlock is not checked where the system may stop: a finished task, a used-up bound.
FlowCoordinator has an explicit final step and is checked for deadlock.

### Fairness

* GuestWorkers: the service carries out a call in progress (weak); a worker
  process runs (weak; the code kills it at its deadline); hosts poll every task (strong,
  because each status call competes with the others for the one call slot;
  `TransferCoordinator._wait` polls in a loop).
* GuestTask: as long as service, worker or the host's repetition has a step, one is
  taken (weak, one disjunction).
* TransferCoordinator: the running host process takes its next step, and so does the
  guest's worker (weak each). Restarting a run, faults, the deadline and other
  users are never forced.

No fairness is assumed of crashes, kills, reboots, late requests or other users. The
other modules are checked for safety only.

## 4. Proofs

`GuestTerminalProofs` proves, for every direction, every set of ids and codes:

| theorem | states |
| --- | --- |
| `TypeCorrect` | `Spec => []TypeOK` |
| `RestoreNeverRefuses` | every snapshot ever saved is accepted by restore and restored to itself |
| `NothingIsRegenerated` | every operation and receipt ever disclosed is the one in the ledger |
| `ReleaseIsChained` | a release names the publication of the stored prepare |
| `PhaseIsImplied` | at most one action is in progress, and the phase is the one the entries imply |
| `AcceptedIsIrrevocable` | no step retracts a receipt, an authorization or a finished entry |

Assumptions: the direction is push or pull; None is no id, code, receipt or snapshot
(`DirectionAssumption`, `NoneAssumption`, `ReceiptsAreNotNone` in TerminalRules; TLC
evaluates them in GuestTerminal_push).

The argument. None of the six is inductive, because restore decides what the next
state is: `RestoreAccepts` needs to know which snapshots occur at all. The inductive
invariant `IInv` is `LedgerShape(terminal)` with the type of `told` and
`DisclosuresHold`. `LedgerShape` says, entry by entry, what each status implies:
which inputs it holds, which receipt it produced, which later entries can exist,
whether the release is authorized, and the phase that follows. Three lemmas
(`ReplayPrepare`, `ReplayCommit`, `ReplayRelease`) follow restore through its
three replays and give `RestoreIdentity`: on a ledger of this shape restore is the
identity. With it each action reduces to one method, and a lemma per method
(`BegunGood`, `PrepareDoneGood`, `CommitDoneGood`, `AuthorizedGood`,
`ReleaseDoneGood`, `ActionFailedGood`) shows that it keeps the shape and what was
accepted. `StepGood` combines them, `Invariance` is the induction, the rest follows
from `IInv`.

`GuestTaskProofs` proves, for all ids and codes and any number of workers and faults:

| theorem | states |
| --- | --- |
| `TasksHold` | the inductive invariant `Inv`, below |
| `ReceiptsTellTheTruth` | `ReceiptsAreTrue`: a publication receipt is for the tree its intent renamed into place, a tree in place never fails its commit, RELEASED leaves no temporary and no worker |
| `DeletionsAreAuthorized` | `Spec => DeletionIsAuthorized`: nothing is deleted before the authorization and the targets are saved |
| `JobsImplementTheLedger` | `Spec => ImplementsLedger`: the refinement of GuestTerminal, both directions |
| `TypesHold` | `Spec => []TypeOK` |

Assumptions: `NoneIsAbsent` (None is no value it stands in for), `CodesAssumption` (the codes
`_child` records are codes) and `IdsSuffice`: whatever four ids a task has drawn, another is left. That is what `uuid4`
gives: a drawn id is new. Without it a worker could be unable to draw, which the code cannot.
The ledger part of `Inv` is `LedgerShape`, taken from the
instances: every job step is a ledger step (`LedgerBegins`, `LedgerSteps`) or leaves the ledger
alone, so `StepGood` keeps the shape, and `RestoreIdentity` says that the restore in front of every
method changes nothing. What is left is about the worker: `Requested` and `Employed` (a launch is for an
operation in progress, whose worker runs until it records the outcome), `Intended` (the publish intent
carries the stored prepare and an id used nowhere else), `Placed` (a published tree has an intent and an open
commit), `Cleared` (deleting implies the authorization; a finished release left nothing). `Intended` is
why ids must be fresh: the receipt is made steps before it is stored. Worker steps that keep the ledger share the
shapes `Moves`, `Stays` and `GoesOn`; every other action has a lemma of its own.

`GuestAndFlowProofs` proves of GuestWorkers, for any number of tasks, workers, requests, crashes and
reboots:

| theorem | states |
| --- | --- |
| `WorkersInvariance` | the inductive invariant `IInv`, below |
| `WorkersAreRegistered` | `RegisteredBeforeWork`: owner record, lease and root lock agree on who works |
| `StoppedWorkersAreGone` | `StoppedIsGone`: a stopped owner is dead, without lock and lease |
| `WorkChangesHands` | `Spec => WorkIsHandedOver`: lease and owner are only taken from the dead, in this boot |

Assumptions: `NoneAssumption` and `RecordsAssumption` (None is none of the other
values), `CountsAssumption`, and `RequestsAssumption` (hosts call the modelled operations
on tasks). `RegisteredBeforeWork` is not inductive: a worker that only waits for its token says
nothing yet, so the step that activates it needs to know that owner and lease were
saved for it. `IInv` therefore speaks of every process that is *entitled*: alive, and
it has the token or the call in progress is about to send it (`EntitledOwns`). Around it: `TokenSent` (no
one gets past the handshake without the token), `RootHeld` (the lock's holder, worker or
reconcile, knows it), `CallKnown` (what a call has read of the task it deals with is still
true), `OwnersStarted`, `LeaseOfTask` (a lease is of the boot of its owner's task, which is
why a reconcile cut short cleared no foreign lease) and `StoppedDead`. Every action but the launch and the reboot
is *mild*: it entitles nobody, marks an owner stopped or clears the lease only for a dead process.
`MildKeeps` shows once what mild steps preserve; one lemma per action shows that it is mild, `LaunchInv` and
`RebootKeeps` treat the other two, `NextKeeps` combines them.

The same module proves of GuestReceive, with which GuestWorkers shares neither variable nor constant, for any
package size, bytes, chunk and batch limit, short prefix and number of resume workers:

| theorem | states |
| --- | --- |
| `ReceiveInvariance` | the inductive invariant `ReceiveInv`, below |
| `ReceivedStays` | `ReceivedIsHeld`: acknowledged bytes stay below the saved offset, registered files verify again |
| `ProofsAreCurrent` | `ProofIsCurrent`: a resume proof is about the registered files as they are |

Assumptions: `BoundsAssumption` (positive chunk and batch limits, which policy.py refuses otherwise) and
`NullAssumption` (the absent value is no file, ledger, proof or call). Neither property is inductive: a call
acknowledges in its last step what it wrote four steps before. `ReceiveInv` says of every place what is on disk:

- `StateOK`: registered files begin with the saved prefix: `Prefix` reads record by record that the ledger's
  lines follow each other without a gap and that received.part holds their data up to the saved offset.
- `CallOK`: before the first write of a call both files end with the prefix; then the payload lies behind it
  (`Lies`), and in front of the last save also its records, each at the offset the batch gives it (`Line`).
- `SyncedOK`: files as the saved identity knows them end with the prefix, so what need not be reread is not cut.
- `WorkerOK`: a worker cuts to the progress that is still the saved one, because no call runs beside it; until
  it has proved the prefix there is no proof.
- `AckedOK`: what was told is the beginning of received.part below the saved offset.

Truncations, torn writes and interruptions keep `Prefix` because they keep the first bytes and lines
(`PrefixSurvives`, `TrimmedFiles`); the last save extends it by a whole batch (`PrefixGrows`). A batch is
flattened by a fold, so `UptoSteps` and `ChunkLies` show, by a smallest counterexample, where each chunk lies in the
flattened payload. TLC checked `ReceiveInv` with two workers on 97,143 states.

`AttemptLedgerProofs` proves, for every number of attempts, sessions, keys and faults and all
limits and sizes that satisfy the assumptions:

| theorem | states |
| --- | --- |
| `CatalogAlwaysValid` | `Spec => []CatalogIsValid`: after every step, every failure included, the reader accepts the catalog |
| `EndsAreTrue` | `Spec => []EndIsTrue`: an END describes its originals for good, an issued prefix is complete, and only a failure from outside makes the ledger unknown |
| `ReservesAlwaysSuffice` | `Spec => []ReservesSuffice`: what `_budgets` checks is enough for seals, keys, rows, slots and bytes |
| `SealsFit`, `ReservesAreEnough` | its first two parts, from a smaller invariant |
| `LedgerHolds` | the inductive invariant `Ledger` |

Assumptions: `RequestBudgets`, `LedgerBudgets`, `ExportBudget` are the checks of
`_budgets` and `_precheck_loaded` that refuse any other configuration; `SizesEncode` and
`KeysFit` are the size checks in front of the ledger; `NoneIsNoJournal` and `NoneIsNoLock` say
that None is neither a journal nor an attempt. `Ledger` is the conjunction of seven parts, each with
a lemma per group of actions and one for the step (`...Next`):

- `IInv`: types, a journal for every request between accept and its last close, room for the
  seal, and `SharesHold`: `seenBytes` and `reserve` grow by at most one share per attempt.
- `Placed`: which state, slot and reason fit each place of an attempt; who holds the catalog
  lock; only the last attempt can be in begin; nothing but finished attempts once close has begun;
  DUPLICATE exactly for a key an earlier attempt brought.
- `Journals`: until a write fails, what lies in a request's directory is what its journal
  believes, link by link; behind close it is sealed, so finish finds `OriginalsKnown`.
- `Cataloged`: only the last file can be unconfirmed, and then the ledger is unknown and no
  attempt holds the lock; every row is true of its attempt (`RowsTrue`), is there once (`Once`) and is there when it is
  owed (`Presence`); the tallies count rows; every row verifies (`AllVerify`). A row that may come next
  (`Fits`) keeps all that; each row the ledger publishes fits. `RowsBounded` counts the rows by an
  injection into types and attempts, so the limit of `_publish` is never met.
- `EndsHold`: every END describes its originals; `OriginalsKept` says no step touches them.
- `Cuts`: a prefix read holds an END of every attempt of its session.
- `NoFalse`: unknown only after a fault. `PrefixFound` shows that a known ledger whose handlers have
  exited passes every check of `_session_prefix`, the export limit included.

Sums of bytes and files are folds. What the proofs need of them (`SumTakes`, `SumOfBounded`,
`BytesAppend`) is proved without an induction theorem, by a smallest counterexample among the
subsets of the finite set summed over (`SmallestSet`). TLC checked `Ledger` on 747,573 states.

`HostPartialProofs` proves, for any number of host processes, starts, faults, revisions,
facts and chunks, and any package:

| theorem | states |
| --- | --- |
| `JournalInvariance` | a process at work holds the writer lock, so there is at most one; a state about to be renamed keeps the facts of the one it replaces |
| `FactsSurvive` | `Spec => FactsAreKept`: while the machine runs, each state.json follows the one before it by one revision and keeps its facts |
| `ReceptionInvariance` | the inductive invariant `Inv`, below |
| `ReceptionHeld` | `Spec => []AckedIsHeld`: what a caller was told it need not send again survives a power loss, and the registered prefix of received.part is the accepted chunks in order |
| `AlarmsAreTrue` | `Spec => []NoFalseAlarm`: unless somebody else changed the file, nothing looks corrupt or changed; a failed save tells its caller what happened |

Assumptions: `NoneAssumption` (None is no host, channel or receipt), `CodesAssumption` (None is no
error code), `BytesAssumption` (the package is a sequence of bytes, `Noise` is none of them) and
`AbsentAssumption` (None is no record, no sequence and no error code: `null` in the journal).

`FactsAreKept` is not inductive
by itself: a rename happens steps after the check of `save`, and another
process could have written in between. `JournalInv` closes the gap: `LockHeld` (who is at
work holds the lock), `DirectoryFirst` (no state without its directory) and
`CommitKeeps` (what was checked against the loaded state is still right against the
one on disk when the rename comes). The steps of a process fall into four shapes: those that leave
the state file alone (`Quiet`), those that end in front of a rename with a checked state
(`Saving`, by `SaveChecked`), the rename itself (`RenameInv`), and start,
create, leave and power loss, each with a lemma. `QuietShapes` and `PartialShapes` show that
every action of the journal and of the reception has one of them, `StepKeeps` combines them.

The reception's invariant `Inv` extends `JournalInv`. Its first half is about the stores: the
registered prefix of received.part is what was taken (`PartHeld`, with `IsByte` allowing for bytes
somebody else changed), the registered lines follow each other and describe those bytes
(`LedgerHeld`), what is durable is an earlier registration (`DurableBehind`, `Grown`), and the journal
counts what was taken (`TakenCounts`). Its second half says for each place of a process what it rests
on (`Able`): what it loaded is on disk, what it is about to rename (`Pending`) registers one line and
its bytes that already are at the ends of the files (`Adds`, `Tailed`), and the fingerprint
`_continuity` stands for files that were registered for good (`Trusts`). Two arguments carry the
proof: a process that does not hold the lock rests on nothing (`OthersRest`), so only the
one at work has to be followed (`Landed`, and its forms for a step, a refusal, a failing write and a
save); and bytes and lines are only ever added or cut behind the registered ones (`PartChanges`,
`LedgerChanges`), so a power loss that takes back a registration leaves files that hold the
earlier one too (`PowerLossHolds`). `LinesDoHold` is the reason there is no false alarm: resume's check
passes for whatever files a killed or failing process left behind. TLC checked `Inv` on the
1,030,596 states of the run's instance.

`SessionControllerProofs` proves, for all sets of rows, sessions and request ids and all
budgets:

| theorem | states |
| --- | --- |
| `InstanceHolds` | the inductive invariant `Inv`, below |
| `JournalsAreClaimedOnce` | `ClaimedOnce`: HTTP task and handler never both claim a journal, and a message the SDK has waits unclaimed and unfinished for its handler, also when its HTTP task has left |
| `IdsExclude` | `IdsAreExclusive`: ids the SDK's table confuses are never in its hands together |
| `SessionsStayBounded` | `SessionsAreBounded`: open sessions and creations never exceed `max_sessions` |
| `ClosedSessionsAreQuiescent` | `ClosedIsQuiescent`: nothing of a closed session can act any more |

Assumption: `BudgetAssumption`, the validation of the limits. `Inv` says what one row keeps
(`WorkOk`; its part `HandedOver` says that the journal of a message the SDK has waits for the handler), how rows relate (`Numbered`; `Ordered`: what was handed over found every earlier row it
conflicts with gone), what holds outside of the service (`Serves`, `ClaimsEnd`), that a session has one
initialize which ends before the close (`OneInitialize`, `Handshaken`), how far its close is
(`Closes`), and the count (`Counted`: `pending` is the number of rows that create). Most actions are
*mild*: each row becomes one it may become (`Becomes`), no session is created, no close passes its
barrier; `MildKeeps` treats them at once. The admissions, creation and the steps of a close
have lemmas of their own. TLC checked `Inv` on the 1,581,920 states of the run's instance before it was proved.

`LinuxCollectionProofs` proves, for every fault budget and any number of calls, generations and
opens, about the composition `CollectionSpec`:

| theorem | states |
| --- | --- |
| `CollectionsHold` | the inductive invariant `IInv`, below |
| `ExportsAreFinal` | `ExportIsFinal`: behind an export state.json is final, the worker is gone, and a probe runs only in a scope that failed, if a worker died before it saved it |
| `ReceiptsAreTrue` | `ReceiptIsTrue`: an applied scope has its newest probe, a confirmed stop left neither worker nor probe |
| `ObservationsAreTrue` | `ObservationIsTrue`: a sealed bundle is about one process of one unit and the pinned payload |
| `ResumesAreTrue` | `ResumeIsTrue`: resume, replay and finish are about the bundle's process and the scope's first generation |
| `OpensGetAnswers` | `OpensAreAnswered`: the manager waits for no drain that is gone |
| `EvidenceInvariance` | the inductive invariant `EvidenceInv`, below |
| `EvidenceHolds` | `EvidenceIsTrue`: an accepted chain is what the manager loaded and executed, or what was installed |

Assumption: `ScopeBounds`, the number of calls is a number. `IInv` is the conjunction of three
invariants. `ScopeInv`: what the worker holds, what it saved and what a caller read agree about the newest
generation (`AppliedTo`, `StoppedWhole` are said of file and memory alike, since the worker dies between
changing one and the other). `BootInv`: what each reading of the unit established is still true of the past,
though not of the unit now; the identity of a process is its instance, which only grows. `OpensInv`:
`OpensAreAnswered` with its types, inductive as it stands. TLC checked `IInv` on 2,632,812 states.

`EvidenceInv` relates the rows to what happened, in ten parts. The files: nobody but root makes them
(`DiskStands`); while a lease is unbroken its inode holds the leased version (`LeaseHolds`); a leased version has
exactly one row, once the drain thread is back at its queue (`WritesAreRecorded`). The opens on their way: an open of the
manager waits with the inode it opened, and whatever was written to it since broke the lease or left a close
behind it in the queue that the drain thread will not accept (`QueueInv`, `Spoiled`). The manager: what was allowed, loaded and
executed is the leased version, or the collection is spoiled (`LoadInv`, `ExecInv`). The caller's thread: a close without an
error is written only behind the end of the drain thread and without a break (`EndInv`); an admission and an
installation rest on leases that stay what they were (`AdmitInv`, `InstallInv`). The hard case is the
order of lease and open: an execution is bound only if the payload was recorded before the definition
(`PayloadFirst`), since then its lease stood when the manager, which had the definition, opened it. A rewrite
between the answer of the drain thread and the read breaks the lease; a close that was requested at that moment
leaves no row of an invocation (the last part of `ExecInv`). TLC checked `EvidenceInv` on the 5,934,808 states of three faults.

`TransferCoordinatorProofs` proves, for both directions and any number of runs, faults and late
requests:

| theorem | states |
| --- | --- |
| `Invariance` | the inductive invariant `Inv`, below |
| `HostMatches` | `HostMatchesGuest`: what the journal pins is what the guest recorded |
| `ConflictsAreTrue` | `NoFalseConflict`: a conflict is reported only when somebody changed the sources or the destination |
| `ResultsAreTrue` | `ResultIsTrue`: a document is one its schema admits, and completion was proved by the guest |
| `ClaimsHold` | `ClaimsAreBacked`: while the last result of a push denies its publication there is none, unless a commit was executed whose answer the host had given up on; temporaries go only after the release |
| `TypesHold` | `TypeOK` |
| `QuietInvariance` | the inductive invariant `QuietInv` of runs without a fault, below |
| `QuietRunsComplete` | `QuietRunCompletes`: such a run completes the transfer, whatever the runs before it left |

Assumptions: `NoneIsAbsent` (None is no identifier, code, phase or receipt), `IdsSuffice` (whatever
four identifiers a transfer has drawn, there is another: uuid4), `CodesAssumption` (the two codes
the worker records) and the bounds are numbers. `Inv` relates values rather than variables, because a
step of the host passes through journals it does not save one by one:

- `LedgerOK` and `GuestOK`: receipts and phase belong to the operations, the worker runs for an action
  in progress, the publish intent is the commit's, `source_changed` is recorded only of changed sources.
- `JournalOK` and `Agree`: what is journaled is pinned and is the guest's; every operation at the guest has
  the inputs the journal saved for it before the call (`LateOK`: so has every request under way), and a
  commit under way is marked as uncertain or published unless a request was executed late.
- `FilesOK`: the tree is at the destination of a pull only under an intent, and then nothing is staged.
- `HostOK`: what each location of the process rests on, cleanup on `ReleasedAs` in particular.
- `ResultOK`: the last document is true of the state it was made in and stays true.

The proof has two halves. What the guest does, by itself or for a request, evolves its task
(`Evolves`: what was recorded stays), and `SceneKept` says that the host's part of `Inv` outlives that.
A step of the host is a journal update (`Ingests`, `Restates`, `SetPhaseOK`) followed by going on,
asking, raising or ending; each of these *lands* in a state that keeps `Inv` (`Lands`), so the 24
steps (`HostStepHolds`) are compositions of such lemmas. `IngestAgrees` is the reason there is no false
conflict: `_ingest` never refuses a status. TLC checked `Inv` on the 127,598 states of the run's instance.

`QuietInv` adds to `Inv` what a run relies on in order to complete:

- `OrderOK`, in every state: nothing reaches the guest before the journal says begun, a package is there before
  that, a pull publishes what it has staged, and the guest's last worker is the one its phase implies.
- `Smooth`: the run has met no fault, late request or change by other users, it did not start over an error
  or a running prepare of the guest, nothing aborted it or ran out, nothing of the adapter is left to
  clean up and no action has used its attempts up.
- `EaseOK`, of a smooth run: at no location does what the guest holds make the next step raise; the guest has
  no error while the run connects, begins, polls and publishes, its worker has stopped before a chunk is sent
  or verified, and an error of a lost verify worker is cleared by the next call.
- `EndOK`, of a smooth run: its document says complete, or a temporary or a stage was left unregistered.

An earlier run may have crashed at any location, so `OrderOK` is shown of every step and the rest from the
start of each run: `Start` finds no error it did not inherit, a step of the host that ends in a smooth state began
in one (`SmoothBefore`), and it either leaves the run at ease or ends it with a document `EndOK` admits. TLC
checked `QuietInv` with three runs, two faults and a late request: 2,125,700 states.

`GuestAndFlowProofs` proves of FlowCoordinator over FlowResults, for all flows, page sizes, limits and budgets:

| theorem | states |
| --- | --- |
| `FlowInvariance` | the inductive invariant `FlowInv`, below |
| `PagesSlice` | `PageIsSlice`: each page is a slice of the rows at its cursor, truncated exactly when rows follow |
| `CompleteRunsAreWhole` | `CompleteIsWhole`: exit code 0 only with all rows once and in order, all calls recorded, the files listed |
| `SavedStaysExact` | `SavedIsExact`: rows.jsonl is a prefix of the rows, a resume point is its end |
| `StopsAreExplained` | `StopIsExplained`: no budget is exceeded up to the stop; deadline_exceeded is reported only at the deadline, and at the deadline nothing else unless the run ended without an answer; the reports agree |

Assumptions: `PagingAssumption` (a page has room for a row; null is no number), `BudgetAssumption` (what
the request validation demands of limits and budgets) and `FlowsAssumption` (a flow is a sequence of sources
of rows).

The argument. `FlowInv` is the account of a run at every moment. `Kept` is what holds of files and calls throughout:
budgets, and rows that are a prefix of the flow's (`Starts`). Beyond it a run is on its way (`Live`: nothing has
failed, every answered call is recorded, the cursor is the number of rows written), or it has stopped
with a result (`Ended`: complete only for a `WholeRun`, with a reason `Classified` admits), or an exception has ended
it (`Raised`); `Unreported` and `Reported` add what the process leaves behind. `CompleteIsWhole` rests on `Live`:
a run whose page ends without `truncated` has all rows only because the cursor was theirs from the first page on. A call
is logged, counted and judged by operators on `core`; `StopHalts`, `GoesOnKeep` and `CallHalts` say what each
keeps, and one lemma per action combines them.

Paging is two recursive functions and a cut. `WindowFunction` unfolds the window by recursion over the sources,
`CutStep` treats one source, and `WindowIs` says that the window is the rows from the offset on up to one
more than a page, which is how `truncated` is known; `PageIs` follows it through the page size and the response limit
(`SizeAdds` for the sum of row sizes). Their inductions are smallest counterexamples (`Induction`), since the
library's theorems take operators as parameters. TLC checked `FlowInv` on 1,739,343 states.

Only model-checked, because out of the prover's reach: liveness under
fairness (`EveryWorkerIsReconciled`, `JobsEnd`, `RunEnds`).

## 5. Findings

1. `GuestTask_manifest`: docs/transfer-guest-engine.md says a registered push stage
   can be re-extracted after an interrupted prepare. A worker killed while it
   writes manifest.json leaves a file that exists and is incomplete; every retry
   refuses it, and the prepare stays in progress for good.
2. `SessionController_unknown`: a comment of the controller (1148-1149) says that no
   successful publication begins after UNKNOWN. `_admit_binary` (850) sets DRAINING when
   its budget is full before it asks for UNKNOWN: an instance that a failed initialize
   made UNKNOWN is DRAINING again, and the close of a session publishes its cut.

### Limits the properties allow for

The models reach the following, and the properties say so where they exclude it:

* `status` of a task is refused while the lease names a dead worker of another task
  (guest_service.py:573); polling the other task clears it.
* A first chunk call interrupted between creating the files and saving the state that
  registers them cannot be resumed (guest_service.py:1150); the files are kept.
* A commit request whose answer the host gave up on may still be under way when a status without it
  clears `publication_unknown` (host_coordinator.py:180). The run then reports `published_ever=false`, and
  the commit can publish afterwards, although docs/transfer-result.md:17 keeps an unknown publication null.
  `FalseIsKnown` and the stability clause of `ResultIsValid` hold up to the moment such a commit is
  executed, and exclude exactly the runs in which it was (`bounds.overdue`); they do not show that none is.
* The error of a release worker that is gone stops every resumed run before it
  repeats the release (host_coordinator.py:208), and a push resumed while its
  prepare worker runs ends unresolved (host_coordinator.py:214): `Leftover`, excluded from
  `QuietRunCompletes`.
* Each action has three attempts for the life of the transfer; a leftover control
  file is never cleared; a stage or package created but not registered needs manual
  reconciliation: `Excused`.
* A pull whose packaging worker was killed is polled until the deadline
  (`PackagerLost`, excluded from `RunEnds`).
* A file missing from a published tree ends as cleanup_pending rather than conflict
  (host_coordinator.py:808).
* A pull killed between the rename and its record, then resumed by a run that
  cannot connect, reports `published_ever=false` for a destination that is in place,
  where docs/transfer-result.md:17 keeps an unknown publication null
  (host_publication.py:174); `FalseIsKnown` is about pushes.
* Leaving the session (`__aexit__`, velo_flow/__main__.py:103) is awaited without a limit, whereas
  docs/flow-host-coordinator.md:74-78 bounds the awaits it lists. A run may end any time after its
  deadline: `BudgetsHold` is about the time up to the stop, `TimeoutsAreClassified` about the reason given there.
* At the deadline a failing call is reported as call_failed (connect_failed) if the SDK's own timer
  fires first (coordinator.py:177-178, 187-189), and a used-up budget or an invalid argument
  in its own name: `NoAnswer`.
* A contract.json that cannot be created ends `velo_flow` without a summary (its
  SpecError is not a RunStop); `next_unread_cursor` is set only by the result and the
  page budget.
* A save whose directory sync failed may be undone by a power loss;
  `FactsAreKept` is about the time the machine runs, `AckedIsHeld` covers what was acknowledged.
* A worker that is killed between starting a probe and saving it (worker.py:95-105) leaves one that recovery
  does not know of (scope.py:236-250). It ends the scope as FAILED and an export may follow while the probe
  still holds its stderr.txt, an exported original, open. `ExportIsFinal` admits this probe and no other. A request
  file that its operator has created and not yet written may be exported too.
* The Linux collector tries to admit or install once. A tick between the registration
  of a lease and the row that closes the version, or a kernel prefix that lags, uses the
  attempt up and the round is refused (boot_install.py, only a missing root exit is retried).
* An installation refused after a failed reload leaves the unit installed. Its replay
  does not bind the payload's inode after protection.
* `resume` compares the live instance with the bundle, but not the inodes of fragment
  and payload, the manager or the end of the window: the replay does, so that a sealed
  resume may fail to replay (`ResumeIsTrue` tells the two apart). A resume that
  fails after apply leaves the scope to its deadline or to a finish.
* `normalize_boot_resume` says "No live access happens here" (boot_resume.py:1044), but
  rebuilds the path binding on the replaying machine (`BindingRebuilds`).
* Requests and responses of a scope are created before they are written: a request
  read in between fails the worker, a response read in between raises in its caller.

## 6. Not modelled

* Directory walks, packing and hashing (manifest, bundle, filesystem) and the archive,
  namespace and native handles of the observation service: file I/O whose outcome is an
  input of the models. Wire framing, request validation, policy, PowerShell and
  native Windows calls have no state of their own.
* The MCP core and the Velociraptor API: tool definitions and query text around
  calls of a server; paging is modelled in FlowResults, what a call may return is an input of
  the flow and transfer hosts.
* Observation maintenance and its configuration: an offline tool that never runs beside
  the service.
* Linux domain model and CLI: validation of recorded evidence. The agent demonstration and the
  deployment script.

In modelled components: channel selection and the
probe of the adapters; corruption checks of stored envelopes beyond one changed byte; peer identities
and budgets of the host other than the deadline; refused flow requests (exit code 3);
the startup of an attempt ledger and the byte sizes of its catalog rows; maintenance
sessions, measured memory and HTTP parsing of the session controller; in the Linux collectors the syntax
of unit files, crontabs and journal entries, time windows, and the walk through the
process tree of a writing root (`verify_captured`, boot_install.py:245-262, shares its
`members` between two readings, so a root that forked before it wrote is refused).

## 7. Plan

Done: terminal protocol, guest jobs and workers, host coordinator, session controller and Linux collections with
the proofs of their safety properties, both receptions and the host journal with the proofs of the journal's
facts and of what is acknowledged, flow host with paging,
attempt ledger with request journals, each with the proofs of their safety properties. Left:

1. One composition of SessionController with AttemptLedger: the controller's rows as the
   ledger's threads. Both are checked with what the other may do as nondeterminism.
2. Liveness of the session's close, under the time limits of the controller.
3. Maintenance of closed archives.
