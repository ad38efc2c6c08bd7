# Verification of the WorkSpace / 3agent runtime

WorkSpace (3agent) is a local-first AI work runtime in Python. Tasks are bound
to immutable contracts and budgets, compiled into execution plans, dispatched
node by node through checkpointed schedulers, and served by local models on
shared GPUs. This directory holds TLA+ specifications of the parts whose
correctness depends on interleaving, crashes, stale reads and limits, the TLC
configurations that model-check them, and TLAPS proofs of the main results.

## Inventory

| Part | State | Operations | Hard behaviour |
|---|---|---|---|
| Writer lease (`runtime_writer_lease.py`) | one row per (task, plan): run, generation, status | claim, resume, supersede, release, currency check inside other transactions | a superseded process that is still alive; two processes with one run_id |
| Checkpoints and fence (`execution_checkpoint.py`, `execution_checkpoint_writer_fence.py`) | dispatch rows, observation rows, cancellation events, fence receipts, hash-chained events | record dispatch / observation / cancellation, replay of each, load, verify | load is several reads; a crash between any two transactions |
| Dispatch budget (`execution_dispatch_budget.py`, `execution_budget.py`, `store.py`) | steps used, reservation index, deadline | preflight, reserve in the caller's transaction, charges by others | check and charge are two steps; charge and dispatch must be one |
| Execution scheduler (`execution_scheduler.py`, `runtime_scheduler.py`, `execution_runtime_composition.py`) | in-memory copy: observations, tickets in flight, tickets to recover, approvals, sequence counter, cancelled | restore, issue_dispatch, accept_observation, cancel | works on memory read once at start |
| Revocation (`capability_revocation.py`) | revoked capabilities of a task | revoke, live check | revocation between check and commit |
| Wall-clock scheduler (`persistent_scheduler.py`) | schedule rows, claim rows, event chain | register, enable, disable, claim due, mark expired, complete | clock read before the lock is obtained; several hosts tick; late completion against expiry; one bad row rolls back a tick |
| GPU admission (`resource_budget.py`, `worker_pool.py`) | reservation file, admission lock, generation lock | admit: decide, reserve, run, release | decision and reservation are separate critical sections; crashes leave entries; several managers share a card |
| Linked budgets (`linked_execution_budget.py`, `sqlite_budget_guard.py`) | parent and child budget rows | reserve on both, retry on a locked database | one of two charges failing |
| Recovery decision (`runtime_checkpoint.py`, `runtime_dispatch_recovery.py`) | captured against live fingerprints, counters, revocations | evaluate | rollback of counters, order of the verdicts |
| Workflows (`workflow_state_machine.py`, `workflow_dispatch.py`, `workflow.py`, `workflow_drafts.py`) | state file of a run, task and lane statuses, validator ledger, drafts | prepare, start, decide, V2 execute, lanes, report, review | a crash between any two files and rows; two lane threads on one budget; decisions with an old fingerprint |
| Residency and worker pool (`model_residency.py`, `worker_pool.py`) | resident models with users and idle times | acquire, release, evict, route | eviction against use |
| Adaptive learning (`adaptive_learning_*.py`) | event ledger and version rows, signed checkpoint journal, witness file, revision receipts | stage, promote, archive, roll back, rotate, ceremony, claim, revise, gates | three files written one after another; a state captured in three queries; two processes with their own authority; reviews of a state that has moved on |
| Candidate skills (`candidate_skill*.py`, `promotion_gate.py`) | review states | admit, evaluate, promote | review against change |
| Security monitoring (`security_monitoring/`) | approved assets, hourly locks, hourly receipts, observations and contexts, report lock file, bundle, archive, report receipts | initialize, hourly run, reporting cycle, archive retry | overlapping calls; a lock reclaimed by age; a crash between evidence and receipt; windows read one by one; an archive that comes and goes |
| Chat, identity, egress (`chat_gateway.py`, `chat_history.py`, `workspace_auth.py`, `egress_broker.py`) | sessions, jobs, history | sign in, post, cancel | lockout counters, cancellation of a job |
| Diagnostics, vulnerability intelligence, datasets, benchmarks, reports, frontends | none, or files written once | probes, matching, rendering | sequential |

The execution runtime is a chain of calls: a caller claims the lease, the
composition builds the fenced repository with that lease and restores an
`ExecutionScheduler` from it; every protected write checks the lease in its own
SQLite transaction, and a dispatch also charges the task's budget there. The
wall-clock scheduler shares the task store and the contract rows with it. The
admission manager is independent of both and is called around each generation.
The workflow controllers run agents over the task store: they write task
statuses, validator results and linked budgets next to a state file of their
own. The learning gateways bracket each store transaction by a verification and
a signed record; the revision services call the gateways. The hourly runs and
the reports of the monitoring share one database and no lock.

## Modules

| Module | Models |
|---|---|
| `RuntimeWriterLease` | the lease row: `ClaimLease`, `IsCurrent`, `ReleaseLease` |
| `TaskExecutionBudget` | step budget and reservation index: `StepAvailable`, `ReserveStep`, `ChargeOther`, `Expire` |
| `ExecutionCheckpoint` | the tables and one operator per transaction: `RecordDispatch`, `RecordObservation`, `RecordCancellation`, their replays, `BindingsValid`; extends the two above |
| `ExecutionRuntime` | the composition: instances that start, crash, issue, settle, cancel and release |
| `DispatchLedger` | abstract specification of the runtime: a ledger of dispatches without leases, memory or processes |
| `ExecutionRuntimeProofs` | theorems about `ExecutionRuntime` |
| `PersistentScheduler` | the wall-clock scheduler and its callers |
| `PersistentSchedulerProofs` | theorems about `PersistentScheduler` |
| `ResourceAdmission` | the admission manager, its callers and the model server |
| `ResourceAdmissionProofs` | sums over finite sets, and theorems about `ResourceAdmission` |
| `WorkflowGraph` | contract graphs and what the V2, V3 and V4 controllers admit |
| `TaskRuntime` | the task store as the controllers and agents use it: statuses, validator results, linked budgets |
| `WorkflowStateMachine` | the V3/V4 state machine: prepare, start, every kind of node, pause and decision, parallel lanes, endings, crashes; extends the two above |
| `WorkflowRunner` | the V2 dispatch and `run_task` |
| `WorkflowRuntime` | all of them over one workflow, fairness and properties |
| `WorkflowGraphProofs` | what admission guarantees of a contract's graph |
| `WorkflowRuntimeProofs` | theorems about `WorkflowRuntime` |
| `LearningStore` | ledger and version rows; each operation a set-valued function of the database |
| `LearningCheckpoint` | journal, witness and the gateways; a call is verify, commit, recheck, three queries, append, witness, return |
| `LearningRuntime` | ceremony, revision coordinator, receipts and gates over the gateways, and the properties |
| `LearningStoreProofs` | what the operations of the store keep true of a database |
| `LearningRuntimeProofs` | theorems about `LearningRuntime` |
| `HourlyMonitoring` | inventory synchronization and the hourly run under its lock |
| `DailyReporting` | the reporting cycle, the archive and its retry; extends the hourly runs it reads |
| `SecurityMonitoring` | both over one database, crashes and properties |
| `SecurityMonitoringProofs` | theorems about `SecurityMonitoring` |
| `MCExecutionRuntime`, `MCPersistentScheduler`, `MCResourceAdmission`, `MCWorkflowRuntime`, `MCLearningRuntime`, `MCSecurityMonitoring` | instances for TLC |

### Execution runtime

The durable variables are the tables; `done`, `inFlight`, `recovery`,
`approved`, `sequence` and `cancelled` are the attributes `_observations`,
`_in_flight`, `_recovery_required`, `_approved_nodes`, `_dispatch_sequence` and
`_cancelled` of an `ExecutionScheduler`. Every SQLite transaction is one step
(`BEGIN IMMEDIATE` serializes writers), and so is every read outside one: `load`
is `RequireCurrent`, `ReadDispatches`, `ReadObservations`, `Restore`;
`issue_dispatch` is `Admit`, `Preflight`, `CommitDispatch`. A transaction that
raises changes nothing; a refusal that leaves memory alone too is not a step,
one that consumes a sequence number is (`DispatchFailed`). Digests, canonical
JSON and the event hash chain are abstracted to equality of what they protect:
a ticket is its node and sequence number, a lease is its generation, a receipt
is the `generation` field of the row it binds. Observation payloads are their
status. Of the budget only the step dimension and the deadline are kept.

### Wall-clock scheduler

Time is an integer. Each call reads the clock (`ReadClock`) and runs its
transaction later, so `stamp` may be behind the clock and behind earlier
commits; the clock itself does not run backwards. A cron expression is the set
of minutes it matches within the horizon. `claim_due` is one action: the window
of due rows, the skipped, disabled and claimed ones, and the cases in which the
whole transaction raises (`ClaimDueRaises`). The contract row of a task can be
absent or lost: the code's own auto-disable path is what handles that.

### GPU admission

`Probe` and `Allow`/`Busy`/`Deny` are the two reads of a snapshot under the
admission lock; `Reserve` and `Release` take the lock again. The locks are the
places a request can be, so a crash frees them as the operating system does.
One memory pool stands for one GPU. A denial needs no reason in the model: the
RAM, temperature, power and utilisation limits may refuse anything. `Load` and
`Unload` are the model server, which is outside the repository. A load takes
what was estimated, at once. `Expire` removes an entry at any moment at which
nobody holds the admission lock, also between a decision that counted on it and
the reservation, which then writes a new entry of one byte; `lapsed` is history
and remembers that this has happened.

### Workflows

A contract is a graph with a role for each node; `AdmitV2`, `AdmitV3` and
`AdmitV4` are the admission code, so TLC also submits contracts that must be
refused. `file` is the state file of the run, `call` the controller's call with
its place in the code, `lane` the two lane threads, `status`, `results`, `used`
the rows of the task store. Every durable write is a step of its own and `Crash`
may follow any of them; what is in memory is lost, and the code has no resume
for a run that was interrupted while it was running. Between the written
`running` or `executing` and the `try` block the code records an activity and
loads the contract, and `_mark_runtime_failure` can itself raise: `Escape` is an
exception there, which ends the call and leaves the file as it is (`escaped` is
history). An exception after the file has left `running` changes nothing durable
and is not a step. `prepare` writes its files as one step. Agents are external: an agent starts, and returns or raises; what
they do to the task's status is modelled from `agents/research.py` and
`agents/presentation.py`. `shown` remembers the fingerprints administrators have
seen, so decisions can come late. `ran` and `decided` are history.

### Adaptive learning

The store is `[ledger, versions]`; an operation maps a database to the set of
its possible successors, empty when the code raises. A process has its own
checkpoint authority with a thread lock, so a process makes one call at a time
and two processes interleave at every step. The database, the journal and the
witness are three files; a call may stop between any two writes and inside the
append (`TornAppend`). Hashes and signatures stand for what they protect: since
nothing rewrites a file, the digest of a state is the number of its events and
rows and what its last event is about, and the detection of tampering is not
modelled. `capture_learning_store_state` is three queries, each a transaction of
its own, and what is captured to be signed takes a step for each (`ReadLedger`,
`ReadVersions`, `Capture`), so that others commit in between. A verification is
one step, at its read of the journal: the store only grows and a signed state is
never ahead of it, so a store that matches the record later matched it then. The
history field `own` of a record is the event the signing call wrote itself, or 0
for a call that replayed what was stored. The worker that writes a
revision is outside and may offer nothing or something wrong. Sessions, the
keyring files and the grants are constants.

### Security monitoring

Every SQLite transaction is one step, and so are the listing of the ids and the
read of each row. `call` holds the place and the local variables of a process.
Time is counted in ticks and only `Tick` moves it. The owner of a lock is its
process. `Timed` are the processes the hourly timer starts: `RunCap` is the
`TimeoutStartSec=15min` of their systemd service and `StaleAfter` the 20 minutes
after which a lock is reclaimed, so `RunCap <= StaleAfter`, and `Tick` does not
pass such a run once it has lasted `RunCap`. A run of the command line or of the
console has no limit; `outlived` is history and holds the hours whose lock was
taken from such a run while it was at work. The collectors are one step that
covers any subset of the assets whose row was read as enabled. A file or
directory that is written under a temporary name appears when it is renamed. The
archive is mounted or not at every step. Its mount is tested once; unmounted
after that, the path leads below the bare mount point (`bare`), where the copy
succeeds.

## Runs

| Run | Shows | Bounds |
|---|---|---|
| `runtime_safety` | coherence of memory, restartability, single hand-out, abandoned work, cancellation, step accounting, concurrency, refinement of `DispatchLedger` | 2 instances of 2 runs, 3 nodes (one dependency, one approval), 2 generations, 3 sequence numbers, 2 steps for 3 nodes, one foreign charge, concurrency 1, one revocable tool |
| `settlement` | every dispatch settles or is abandoned | 1 node that needs approval, 2 instances, 2 generations |
| `scheduler_safety` | no overlap, no replay, no drift, intervals advance | interval 2 and a cron schedule, 2 callers, 4 instants, limit 1, window 2 |
| `scheduler_liveness` | a due schedule is served unless blocked rows fill the window or the tick raises | 2 interval schedules and a cron schedule that stops matching, 1 caller, 2 instants, limit 1, window 2 |
| `scheduler_stale_enable` | finding: enable moves a cron row back | 2 callers, 4 instants |
| `admission_serialized` | resident and promised memory fit until an entry lapses under a decision | 2 callers, 3 models of which two large ones exclude each other |
| `admission_two_workers` | finding: managers that share a card | one single-GPU and one dual-GPU worker |
| `workflow` | done only when verified and approved, edges followed, no agent repeated, aggregate budget exact, decisions informed, pauses durable, every run comes to rest unless it crashed or an exception escaped | the plain chain, chains with one or two control nodes in every place with and without exits, 4 parallel graphs; 2 lanes, 5 units of budget |
| `workflow_waiting` | finding: a task left waiting | the same contracts |
| `learning` | signed records are single steps and what a writing call signs is its own event, success is signed and informed, at most one unsigned event per process, only reviewed knowledge is active, receipts are true, revisions apply over their base | operator and reviewer process with different keys; one item, its creation, a revision and another patch; a grant for the revision; ledger of 6 events (3 of them initial), journal of 4 records |
| `monitoring` | finalized hours are final unless an untimed run outlived its lock, receipts truthful, windows nested, archive receipts backed by a copy | 2 processes of which the timer starts one, 3 calls of any kind, 1 configured asset and rows of an earlier configuration, 3 instants in one hour, 2 attempts, 1 period |
| `monitoring_gap` | finding: a run over a part of the inventory | 2 configured assets, 2 calls |

Why the bounds are enough to be interesting: two instances are a holder and a
superseded one, and a third adds no new relation to a lease that has one owner;
three nodes give a dependency and an independent node that compete for the
concurrency and the budget; two generations give work that is left behind; three
sequence numbers let every node be dispatched when no commit fails, and leave
gaps when one does. Two tickets in flight at once are covered by the theorems
only (`OneGenerationUnsettled` is a theorem and in no run for this reason). Four
instants hold two occurrences of the interval and two of the cron
schedule, with one tick late. Two callers are what a race needs. Three
schedules and a window of two rows are the least in which two blocked rows starve
a third; a cron row without a further match makes ticks raise. The workflow
family reaches every admission rule from both sides, and five units run out
inside a lane, between the lanes and after the join. Three events after the
initial ones let a stage, a promotion and a revision, an archive or a rollback
of the other process meet; four records hold a bootstrap, a rotation and two
mutations. A third authority, which can commit between the first and the last
query of a capture, and the enterprise level are covered by the theorems. Three
monitoring calls are a crashed run, a second one that reclaims
its lock and a third that races it or reports; one hour suffices because hours
share nothing but the inventory, and one period because periods share nothing but
the bundle. The theorems remove these bounds for all
safety properties of the passing runs.

The runtime, workflow, learning and monitoring runs switch the deadlock check
off: a plan whose nodes are settled, a workflow that has ended, a store at its
bounds or a day with all its calls made has nothing left to do. The others keep
it on.

Definitions whose comment begins with "Mutant" or "A plausible slip" are wrong
on purpose: `PROJECT.json` pairs each checked property with one of them, and TLC
finds the property violated when it takes the place of the definition it
follows. No specification uses them.

### Fairness

`settlement` assumes that an instance that is down is started again, that a
start which crashes do not interrupt for ever completes (strong fairness, since
crashes disable its steps again and again), that an executor reports, and that
a call under way returns. These are what a supervisor and the executors
provide; nothing is assumed of the caller, the operator or the clock.
`scheduler_liveness` assumes that a host keeps calling `claim_due`: it reads the
clock again whenever it is idle (weak) and among its calls the tick comes up
again and again (strong). Executors, operators and the clock may stop.
`workflow` assumes that a call that was made and its lane threads go on (weak):
agents end, since the gateways they call have timeouts, and threads are scheduled.
Nothing is assumed of administrators, and `RunsToRest` excepts a crash and an
exception outside the handlers, because the code has no restart of a running
workflow.

### Findings

1. `scheduler_stale_enable`: `enable` computes the next cron run from a clock
   that may be older than the last claim, and every later tick fails on the
   UNIQUE constraint.
2. `admission_two_workers`: the dual-GPU worker and the single-GPU workers do
   not share reservations.
3. `workflow_waiting`: an agent leaves its task in WAITING_HUMAN, the workflow
   then pauses for an approval and remembers that status; a rejection restores
   it and ends the workflow, against the comment at
   `workflow_state_machine.py:856`.
4. `monitoring_gap`: the inventory is disabled and enabled again outside any
   lock, so a second call can make an hourly run list a part of the inventory.
   The run is then completed with full coverage of that part, and the missing
   asset does not show as a data gap.

### Limits of what holds

- The fence is shown for live instances with distinct run identifiers
  (`DistinctRuns`): `claim` returns the same generation to a second live process
  with the same run_id, and the two are then not separated.
- `claim_due` takes a window of `_MAX_DUE_PER_TICK` due rows before it skips
  blocked ones, so as many unresolved schedules as the window is wide starve the
  rest; and a cron expression without a match in 370 days raises inside the
  tick's transaction and stops all schedules. `DueIsClaimed` excepts these two
  cases (`WindowBlocked`, `TickRaises`), the run reaches both, and nothing else
  holds a due schedule up.
- A capability is checked before the commit of a dispatch; a revocation in
  between takes effect at the next check.
- `CommitmentsFit` is shown for one manager with the generation lock. Without it
  two requests can pass the same check before either reserves. Its one exception
  is an entry of a crashed request that reaches its lifetime between a decision
  that counted on it and the reservation: the entry is written again with one
  byte, and later requests are admitted on that. Without the exception TLC finds
  the limit exceeded with one manager.
- An exception between the written `running` (or `executing`) and the `try` block
  of `start`, `decide_checkpoint` and `execute`, or inside
  `_mark_runtime_failure`, leaves a file that says running behind a call that
  has ended; nothing resumes it.
- Two authorities that race, or a crash between commit and record, leave the
  learning store without further writes: the next verification fails. This is
  the intended answer of the code, and `UnsignedBounded` shows that it comes
  before any process has committed a second unsigned event.
- A rotation record may sign a mutation another process committed in between, so
  `RecordsStepwise` excepts rotations. A call that replayed what was stored
  captures whatever another authority has committed since, and signs it as its
  own kind when the kinds agree, or, with three authorities, when a third event
  of its kind comes before the last query. `RecordsStepwise` excepts the records
  of replays and holds for the calls that wrote an event.
- The plain promotion does not look at the base a candidate was written against;
  only the gates do (`RevisionsOverBase`).
- A run of the command line or the console that lasts longer than 20 minutes
  loses its lock to the next caller and goes on writing, since no write looks at
  the lock. `FinalizedIsFinal` excepts the hours in which this happened; runs of
  the timer are stopped before.
- An archive that is unmounted between the test of the mount and the copy gets
  nothing, and the receipt says archived: the copy is below the bare mount point.
  `ReceiptsBacked` says that it is in one of the two places.
- A report process that dies leaves its lock file, and the cycle of that day
  stays blocked until the file is removed.

## Proofs

`ExecutionRuntimeProofs` proves, for every finite plan, every set of instances
and all bounds, from the named assumptions on the constants: `TypeCorrect`; and
under `DistinctRuns` the invariant `FenceInvariant` (`FenceHolds`) with its
consequences `MemoryStaysCoherent`, `RestartAlwaysPossible`,
`NoAutomaticReplay`, `ConcurrencyBounded`, `BudgetExact`,
`OneGenerationUnsettled`, the action properties `CancellationIsFinal` and
`AbandonedIsFinal`, and `RuntimeImplementsLedger`.

None of the properties is inductive alone. That a dispatch is safe to record is
decided on memory, several steps before the commit, so the argument is about
memory: `InstanceInvariant` says that a generation belongs to one run and never
comes back, so at most one instance holds the current lease
(`HolderUnique`); that the holder's partial copies during `load`, and its
memory afterwards, equal the tables (`HolderCoherent`); and that a call under
way was admitted on memory that has not changed since. A step of another
instance cannot write (`IsCurrent` fails for it), and a step that changes the
lease makes the old holder's clause vacuous. `TablesInvariant` collects what
commits preserve because of that. The proof has one lemma per action or group
of actions, and frame lemmas for the instances a step does not touch. The
ledger refinement adds that an ACTIVE lease has a positive generation
(`LeaseIssued`), since a cancellation is recorded as a generation.

`PersistentSchedulerProofs` proves `TypeCorrect`, `NeverOverlaps`,
`NeverReplayed` and `IntervalsDurablyAdvanced` for any schedules, cron sets,
intervals, callers and limits. The invariant `ClaimInvariant` adds that an
unregistered schedule has no claims. `ClaimsAreOnGrid` adds `GridInvariant`: the
next run of an interval schedule, and not only its claims, is a whole number of
intervals after the first one. `NextIntervalLater` is the arithmetic
behind it, and `LeastNatural` shows that the next cron minute exists when any
match is left.

`SecurityMonitoringProofs` proves all properties of the `monitoring` run for
any inventory, processes, periods and bounds, from `MonitoringAssumption` and
`ReportingAssumption` (of which only `RunCap <= StaleAfter` for the runs of the
timer and the order of the windows say something about the system).

- `TypeCorrect` needs what a call has set at each place (`Shape`), and that a
  bounded set of attempts has a largest one (`LastAttemptIs`).
- `HoursAreFinal`: a run of the timer that holds a lock is not older than
  `RunCap`, so the lock is not stale for any clock read since, and nobody takes
  or releases it; the lock of another run is taken only with the hour being
  added to `outlived` (`OwnerInvariant`). Hence, in all other hours, one run at a
  time works on an hour (`HolderAlone`),
  what it read of the hour's attempts stays true until it writes
  (`OpenCall`), and a terminal run is always the last attempt
  (`TerminalIsLast`), which is why `_latest_terminal_receipt` finds it.
  `TimerHoursAreFinal` follows: when the timer starts every run, no hour is ever
  excepted.
- `ReceiptsAreTruthful`: from the first step of any hourly call on, the enabled
  rows are configured ones, although calls disable them under each other; and a
  covered asset is still to be stored, being bound, or bound (`TruthfulCall`).
- `WindowsAreNested`: a window only grows (`WindowGrows`), so each window that
  was read is inside the next longer one as it is now (`NestedCall`).
- `ReportsAreBacked`: the bundle is written once, and the archive and the bare
  mount point hold that bundle or nothing (`BackedInvariant`).

`ResourceAdmissionProofs` proves `TypeCorrect` for any managers, and
`CommitmentsAlwaysFit` and `LimitUntilLapse` under `OneManager`: one manager
configuration, with its generation lock. The run `admission_two_workers` shows
that the hypothesis is needed. The first part of the module is about sums: the
community module's sum over a finite set equals any function that adds up in
every order (`Adds`, `SumIs`), which gives removal, union and monotonicity. The
induction behind it is `FamilyInduction`, a statement about families of sets
and not about a predicate, so that the provers can use it. The invariant
`AdmissionInv` says that an entry of the reservation file stands for the whole
size of its model, so that resident plus reserved bytes are the size of one set,
the models held (`ProjectionIs`); that the lock admits one call; that the
snapshot of a call that is probing can only be too high; and that once a call is
allowed its model fits beside everything held. The last part is what survives
the gap between decision and reservation, an unload of a model that was seen
loaded, entries left by crashes and entries that expire; it holds until an entry
on which a call in the gap counts expires (`lapsed`), and so do both theorems.

`WorkflowRuntimeProofs` proves all safety properties of the `workflow` run for
any contracts, nodes and budgets: `TypeCorrect`, `DoneMeansVerified`,
`WorkFollowsEdges`, `NodesRunOnce`, `BudgetIsAggregate`, `DecisionsAreInformed`,
`PausesAreDurable`. `ContractAssumption` says that contracts are finite graphs
and that there are two lanes, as `_parallel_plan` requires.

- `WorkflowGraphProofs` turns the admission code into facts: every node but a
  join has one parent, a parallel contract has one fork, two lanes of a research
  and a presentation and one join, and the report is behind the join. Reachability
  is used in the form that a set of nodes closed under parents which has a node
  has all its ancestors.
- `WorkflowInv` is the inductive invariant, and none of its parts is inductive
  alone. `ControlInv` says where the call, the file and the lanes can be
  together. `EdgeInv` says that the visited nodes are closed under parents, so
  the node the controller moves to has not been visited (`ChildIsNew`,
  `JoinIsNew`): this is why nothing runs twice (`RanInv` for the state machine,
  `Ran2Inv` for the V2 chain). `LaneInv` and `JoinInv` carry the verification of
  the lanes across the join to the report.
- `DoneInv` and `PauseInv` need each other: a rejection or an exception restores
  the status from before the pause, which must not be DONE.
- `StepBudget`: a lane's grant is charged to both rows in one transaction or to
  neither.

`LearningStoreProofs` shows that every operation of the store takes a `Sound`
database to a sound one: rows are unique, a level is reached only through the
levels below with accepted receipts, an activation has its snapshot row, and a
staged revision was staged over its base. `LearningRuntimeProofs` then proves
all properties of the `learning` run for any processes, keys, candidates, grants
and bounds and any sound initial store (`InitialAssumption`; `NoneAssumption`
only keeps the absent record apart from records).

- `TypeCorrect` and `ActiveIsReviewed` follow from soundness and from the store
  and the journal only growing, so that everything a call has remembered stays
  true (`CallStays`).
- `SuccessesAreSigned`: when a call may return, a record of the accepted chain
  covers the whole store (`ReturnIs`), and the chain only grows (`SignedGrows`).
- `SuccessesAreInformed`, `GatesPromoteOverBase`: between verification and capture
  another process may commit, but then the capture sees more than one new event
  and the call does not succeed.
- `RecordsAreStepwise`: a call counts the ledger after it wrote its event, so the
  count includes that event (`Counts`). The verified head covered the whole store,
  so when the count is one more than the head's, the new event is its own
  (`Captures`), whatever the later queries return, and of the call's kind.
- `UnsignedIsBounded`: the invariant counts the unsigned events together with the
  processes that may still write one, which are those at the place after a
  verification (`UnsignedInv`). A write moves one from the second number to the
  first, and a verification succeeds only when the first is zero.
- `ReceiptsAreTrue`: a receipt is completed only by the process whose gateway
  call returned with success for that revision.

Only model-checked: the liveness properties `DispatchesSettle`, `DueIsClaimed`
and `RunsToRest`, since fairness is outside the prover's reach.

## Not modelled

Hash chains, canonical encodings and signatures (their tamper evidence is not a
property of interleavings); the cron parser and time zones; placement of a model
over several GPUs; workflow drafts, the compilers that produce contracts, and a
contract file that is changed behind the controller; contradiction analysis,
reflection, maintenance reports, retrieval and effectiveness of the learning
store, which only read it; keyring files and sessions; the collectors, parsers,
analysers, alerting, capture and console of the monitoring, and
`DiscoveryEnrollmentService.enroll` (`discovery_enrollment.py:194`), which also
writes enabled rows to `approved_assets` and has no caller outside the tests; text, HTTP and
document code; probes, vulnerability matching, datasets and benchmarks. Most of
the repository's lines are in these last parts: pure transformations, file
formats and pages without shared state, for which a model would repeat the code.
`PROJECT.json` lists every part with the reason.

## Plan

1. An abstract occurrence ledger that `PersistentScheduler` implements, and the
   refinement as a theorem.
2. `RuntimeScheduler.evaluate` as an operator over plans, with the propagation
   of BLOCKED compared with a reachability definition over all small plans; the
   recovery decision of `runtime_dispatch_recovery.py` in the same way.
3. Workflow drafts and their review; model residency against admission; the
   jobs, sessions and lockout counters of the chat gateway.
