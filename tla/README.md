# Nodyra in TLA+

Nodyra is a self-hosted workflow automation platform. A FastAPI control plane
(`src/apps/api`) stores workflows and runs in PostgreSQL (SQLite on a laptop),
turns schedules and webhooks into runs, queues them in a durable table, and
dispatches them to a local asyncio engine (`src/packages/core/nodyra/engine`),
to warm worker processes, or to remote runners. This directory follows a run
through that system: how a trigger becomes one run, who may execute and settle
it, which process executes it and in which build of its environment, and how
its graph is planned and executed. Each part is a TLA+ model with TLC runs;
most have TLAPS proofs.

| File | What it is |
| --- | --- |
| `RunLedger.tla` | one run's queue row, Run row, attempts, operators and background loops |
| `RunLease.tla` | the abstract lease that `RunLedger` implements |
| `Scheduler.tla` | the DAG engine with nested loops and metanodes |
| `GraphPlan.tla` | how that engine plans a graph: needed nodes, cycle check, loop regions, plans |
| `RuntimePool.tla` | the gates, worker processes and sub-workflow processes of one API process |
| `EnvironmentBuilds.tla` | leased builds of environments, composed with `RuntimePool` |
| `Triggers.tla` | schedules, their outbox of occurrences, webhook deduplication |
| `MC*.tla`, `*.cfg` | TLC instances |
| `*_proofs.tla` | theorems about the module of that name; `RunLedgerRows_proofs.tla` continues `RunLedger_proofs.tla` |
| `PROJECT.json` | components, runs, mutants, the map from definitions to source lines, findings, hazards, theorems |

Paths below are relative to `src/apps/api/app/services/` (control plane) or
`src/packages/core/nodyra/engine/` (engine) unless they say otherwise.

## 1. Inventory

### 1.1 Components that decide what happens to a run

| Component | State it keeps | Operations | What makes it correct |
| --- | --- | --- | --- |
| Durable run queue (`queue.py`) | `RunQueueEntry`: status, lease token and deadline, attempts, available_at, replay_seed | enqueue, lease, mark_running, heartbeat, complete, wait_for_approval, resume_waiting, fail, replay, cancel, requeue_expired_leases, dispatch loop | one owner at a time; bounded attempts; nothing is lost when a worker dies |
| Run executor (`runner.py`) | `Run` row; `_active_runs` (in-process tasks) | start_run, cancel_run, `_execute_queued_entry`, `_execute_run_impl`, claim, lease heartbeat | Run and queue row agree; a cancelled run stops; a park does not lose input or history |
| Outcome persistence (`run_persistence.py`, `run_lifecycle.py`) | both rows, NodeRun rows | persist_run_outcome and its fallback | stale attempts write nothing; only legal transitions |
| Checkpoints and approvals (`run_checkpoints.py`, `run_resume.py`) | `Run.checkpoint`, waiting rows | `_save_checkpoint`, resume_waiting_run_from_approval | no checkpoint from a fenced attempt; an approval finds its run |
| Stuck-run detector (`stuck_run_detector.py`) | none of its own | detect_stuck_runs | does not rewrite history |
| Runner fleet (`remote_dispatch.py`, `providers/agent.py`) | runners, their connections and load, futures of assigned runs | queue_run, mark_stale_runners_offline, assign and answer | a lost runner's runs run elsewhere |
| Graph planning (`validation.py`, `loops.py`, `scheduler.py`) | none: computed per execution | validate_graph, `_needed_nodes`, `_topo_order`, `_loop_regions`, `_build_plan` | nothing needed is left out, nothing waits for itself, each node has one driver |
| DAG scheduler (`scheduler.py`, `node_exec.py`) | dependency counters, ready queue, semaphores, deadline | `_execute_nodes` and its workers | dependency order, limits, worst verdict, no orphans |
| Loop and metanode drivers (`loops.py`, `metanodes.py`) | nested calls of the scheduler | `_run_loop`, `_run_conditional_loop`, `_run_metanode` | the same, across nesting |
| Runtime pool (`runtime_pool.py`) | per environment: semaphore, idle list, workers, generation, pause; process-wide: ceiling, memory budget, sub-workflow permits | dispatch, acquire, spawn, release, recycle, reap, drain, unpause, resize, dispatch_subworkflow | no leaked slot, one run per worker, no worker of an old build, nobody waits for ever |
| Environment builds (`environment_builds.py`, `backends/__init__.py`) | leased build jobs, the environment row, its directory, the build lock | enqueue, lease, heartbeat, complete, fail, sweep; build in a task or in a spawn | what is ready is what was asked for; a paused pool is unpaused |
| Triggers (`triggers.py`) | `last_fired`, the outbox of occurrences, run deduplication keys | tick, claim, dispatch, finish; webhook deliveries | each occurrence and each event runs once |
| Leader election, drain (`leader_election.py`, `drain_state.py`) | an advisory lock on one connection, a drain flag | acquire, set | one leader, one truth |
| Event broker (`events.py`) | subscribers, replay buffers | publish, subscribe | no event lost or out of order |
| Command approvals (`mcp_approvals.py`) | single-use grants, snapshots | request, approve, consume | a grant covers only the state it was given for |

Sandbox pool, the agent loop, the runner and runtime processes,
limits, artifacts, credentials, front ends, node library, importers and the web
editor are listed in `PROJECT.json` with the reason why each is not modelled.

### 1.2 How they interact

A scheduler tick or a webhook delivery calls `start_run` under a
deduplication key (`Triggers`). `start_run` writes the two rows. It either
starts a task in the process (an *inline* run, registered in `_active_runs`) or
leaves the row queued. Every API replica runs the dispatch loop: it sweeps
expired leases, leases a row under a fresh token and starts
`_execute_queued_entry`, which reloads the Run and calls `_execute_run`. That
claims the row (`mark_running`), starts a heartbeat for the lease, executes the
graph through one of the execution backends, saves checkpoints, and hands the
outcome to `persist_run_outcome` (`RunLedger`). Beside the attempt act the users
(cancel, replay, approve), the stuck-run detector, the offline-runner sweep and
other replicas. They meet in the database only: in `FOR UPDATE` transactions,
in unlocked transactions that overlap at READ COMMITTED, and in the token
compared by every fenced write.

The local backend passes two gates and takes a worker process of the run's
environment (`RuntimePool`). When the environment's packages change, a build
job drains its pool, rebuilds the directory and lets runs in again
(`EnvironmentBuilds`); a run that meets a paused pool goes back to the queue.

Inside an execution, `_execute_impl` plans the graph (`GraphPlan`) and
`_execute_nodes` runs a pool of asyncio workers over the plan (`Scheduler`). A
Loop Start or metanode met by a worker calls `_execute_nodes` again, while the
worker stays occupied and keeps its type slot (never a node slot).

The models meet where the code does: `GraphPlan`'s result is what `Scheduler`
takes as constants, `EnvironmentBuilds` extends `RuntimePool` and runs with it,
`FindPaused`/`Requeue` of the pool are `Park*`/`lease` of the ledger, and
`Triggers`' unique key is the reason why the ledger has one run to look at.

### 1.3 What is hard about it

- A worker may die, stall or lose its database connection at any await.
- The two ledgers (queue row and Run row) are written by a dozen functions, in
  one transaction or in several.
- A stale attempt comes back with an outcome after the run was cancelled,
  handed on, failed or replayed.
- Two schedulers may believe they are leader; a delivery may be repeated.
- A dispatch may be cancelled at every await between the gates and its worker,
  while other tasks change the same idle list.
- A build reads rows in several transactions while users edit them.
- Workers of nested scheduler calls share semaphores while they wait for each
  other, and any of them may fail or be cancelled at any await.

`PROJECT.json` lists 40 hazards, each at the line where it bites, with the
properties that cover it or the reason why none does.

## 2. RunLedger

### 2.1 State and actions

One run is the whole protocol: no transaction writes rows of two runs on behalf
of one of them. Which row a worker leases next (priority, fairness between
organisations, labels) is therefore not part of this module.

| Variable | Code |
| --- | --- |
| `entry` | the `RunQueueEntry` row; `lease` is the deadline as the code compares it (`none`, `live`, `past`), `due` is `available_at <= now`, `seed` says that `replay_seed` carries the trigger's input |
| `run` | the `Run` row: status, number of nodes in the checkpoint, whether successful NodeRun rows exist, whether `runner_id` is set |
| `att[t]` | the attempt holding token `t`: the await point it has reached (`pc`), whether it is inline, whether it has the input, nodes done, outcome, a heartbeat in flight, a checkpoint the debouncer holds back, the rows its open transaction read |
| `req[r]` | a replay, an approval or an offline sweep between its unlocked read and its commit |
| `sweep` | the lease sweep between its unlocked read of the Run and its commit |

| Actions | Code |
| --- | --- |
| `StartInline`, `StartParked` | `start_run` |
| `lease`; `SweepRead`, `SweepCommit`, `SweepFails` | the dispatch loop's `lease`; `requeue_expired_leases` |
| `LoadRun`, `MissingGraph` | `_execute_queued_entry` |
| `_mark_queued_run_started`, `ClaimRead`, `ClaimCommit`, `ClaimFails` | the claim of `_execute_run` and `mark_running` |
| `Heartbeat*` | the lease heartbeat: unlocked read, commit, failure, renewal deadline |
| `Dispatch`, `ExecuteNode`, `Finish` | `_execute_run_impl` |
| `SaveRead`, `SaveCommit`, `SaveFails` | `_save_checkpoint`, during the run and in the last flush: its fence is read when its UPDATE starts, its write follows |
| `queue_run`, `ParkRead`, `ParkCommit`, `ParkFails` | what it does when no runtime or runner takes the run |
| `PersistRead`, `PersistCommit`, `PersistFails`, `FallbackRead`, `FallbackCommit` | `persist_run_outcome` and its fallback: lock of the entry and unlocked read of the Run, then the commit |
| `CancelTask`, `Crash` | shutdown or reconciliation of a task, death of the process |
| `cancel_run`, `ReplayRead`, `ReplayCommit`, `OfflineRead`, `OfflineCommit`, `ApprovalRead`, `ApprovalCommit`, `RewriteFails`, `detect_stuck_runs` | operators and background loops |
| `LeaseElapses`, `BackoffElapses` | time |

The database is PostgreSQL at READ COMMITTED. A transaction that selects every
row it writes `FOR UPDATE` is one action. One that reads a row without a lock is
a read and a commit; `Flush` writes the columns whose new value differs from the
snapshot, as SQLAlchemy does. `persist_run_outcome`, its fallback and the sweep
are of that kind too: they hold the entry's lock in between (`Unlocked` makes the
other writers of the entry wait), but they read the Run without one, so the
writers of the Run alone get in: the stuck-run detector, a missing graph,
`queue_run`, an unfenced park, a checkpoint.

`Overlap` says whether other transactions may run in between; with
`Overlap = FALSE` a commit whose snapshot is out of date fails. That is an
assumption of some theorems and runs, never of the code: at READ COMMITTED the
commit goes through, and section 9 lists what it breaks. `LedgerReadCommitted`
checks what holds without it.

What is abstracted: the content of nodes, checkpoints and events; the wording
of errors and the attempts log; early flushes inside a transaction (they take the
row's lock earlier, within the same window); the read of the Run in a park, which
writes it whatever it says; the connections and futures of remote runners, seen
as the outcome `Finish` chooses. Each element of `Requests` makes one rewrite.

### 2.2 The abstract lease

`RunLease` says what all those transactions amount to for a reader who does not
care about rows: a run is in one phase; it passes to an attempt only from the
queue; only its owner settles it, in its last step; operators may close or
reopen it; a completed run is never touched again; and a success or a wait shown
to the user is backed by the phase. `ImplementsLease` maps `RunLedger` to it:
`phase` from `entry.status`, `owner` is the lease token, `shown` the verdict of
the Run row, `work` the attempts. It is checked with every event of
`LedgerFencing`, the writers that skip the fence included, and proved for all
instances (section 10), in both cases without overlapping commits: with them it
is false (section 9), and `OwnershipThroughQueue`, which admits that one race by
name, is what is left of it. The abstract `Forget`
and the freedom in `End` are what those writers cost: they may hide a verdict
from the user, never invent one.

### 2.3 Properties

| Property | Says |
| --- | --- |
| `ImplementsLease` | every step is a step of the abstract lease or changes nothing it shows; no overlapping commits |
| `OwnershipThroughQueue` | a token gives way to another only by being cleared, but for a claim that read the row free and commits over a later lease (`StaleClaim`); also at READ COMMITTED |
| `TokenIsLease` | a token is on the row exactly while it is leased or running; also at READ COMMITTED |
| `TerminalIsFinal` | a terminal Run status changes by an operator's replay only, but for the detector's error, which an outcome or a sweep that looked at the Run before it overwrites; also at READ COMMITTED |
| `DeadlineBeforeWork` | an owner that runs user code has a deadline the sweep can see (swept rows are started with `lease_expires_at` NULL, `queue.py:656-665`, so the claim must set it); no overlapping commits |
| `SuccessIsMirrored` | a Run shown as success is completed in the queue; no overlapping commits |
| `Agreement` | the two ledgers agree on success, on waiting and on cancellation (a Run cancelled after its entry was dead-lettered leaves it so); no overlapping commits |
| `LeaseableIsDispatchable` | what a worker may lease is what `_execute_queued_entry` accepts; no overlapping commits |
| `CancelledHasNoCheckpoint` | no attempt revives the checkpoint of a cancelled run; no overlapping commits |
| `AttemptBudget` | parks, crashes and expiries together stay within `max_attempts`; no overlapping commits |
| `NeverLost` | a queued or running run settles, waits or is dead-lettered (a dead-lettered entry counts whatever its Run says, and a wrong verdict of the detector counts as settled) |
| `CancelStopsWork` | the attempts of a cancelled run stop |

### 2.4 Runs

| Run | Instance | Distinct states | Question |
| --- | --- | --- | --- |
| `LedgerFencing` | 2 attempts, 1 rewrite, 1 try, remote pool; crashes, parks, missing graphs, cancellations, replays, silent runners; no overlap | 865 thousand | as long as commits do not overlap, can a stale attempt, a replay or a lost runner break the lease, the mirror or the deadline? |
| `LedgerReadCommitted` | 2 attempts, 2 tries, local, overlapping transactions; crashes, database errors, waits, cancellations, shutdowns, stuck sweeps | 555 thousand | what holds at plain READ COMMITTED? |
| `LedgerAgreement` | 3 attempts, 1 rewrite, 2 tries, local; crashes, waits, approvals, cancellations; no overlap | 1.19 million | do the ledgers agree, and is what can be leased also accepted? |
| `LedgerSettles` | 2 attempts, 1 try, local, `FairSpec`; crashes, stuck sweeps, parks, database errors, cancellations; no overlap | 171 thousand | does every run settle, and does a cancelled one stop? |

The instances leave out the events that are known to break a property (section
9), each through its `Events` constant: `LedgerAgreement` has no parks, silent
runners, database errors or bulk replays, `LedgerReadCommitted` neither parks nor
the operators' rewrites (replays, approvals, offline sweeps), and the other three
no overlapping commits.

Why the bounds are enough: every action touches the rows and at most one
attempt, so an error needs an owner and a stale attempt (2 tokens); the third
token of `LedgerAgreement` gives a stale, a current and a next attempt. Two
tries make both branches of `fail` and of the sweep occur; where one try keeps an
instance small, the retry branch is reached after an inline start, which spends
none. One node separates "nothing saved" from "all saved". One rewrite in flight
suffices to race an attempt; two replays racing each other are outside the bound.
Tokens and requests are symmetric in the safety runs; the liveness run uses no
symmetry. Deadlock is not checked, because a run is over once its rows are
settled and its attempts have ended (tokens are finite).

Tokens are finite, so a safety run may end with the row queued and no token left
to lease it. `LedgerSettles` has enough of them: an inline start spends no
attempt, one try spends one, and that makes two tokens.

### 2.5 Fairness

`FairSpec` assumes what the code's loops do: dispatch ticks lease and sweep,
the detector wakes up, a task reaches its next await, the heartbeat wakes up,
time passes. `Finish` is fair for runs that are not cancelled because the
runtime host retires a runtime without progress
(`runtime_no_progress_timeout_seconds`). Nothing makes an execution succeed, a
commit succeed, an operator act or a process survive. For `CancelStopsWork` no
fairness of user code is assumed: the heartbeat alone must stop it.

## 3. Scheduler

### 3.1 State and actions

A *scope* is one call of `_execute_nodes`: `Root`, one iteration of a loop, or
the sub-graph of a metanode. A *unit* is a node of one scope's plan; a loop
region is one unit (its Loop Start) and so is a metanode.

| Variable | Code |
| --- | --- |
| `unit[u]` | where the worker that took `u` stands (`pc`), its verdict, the outputs that were taken |
| `indegree` | `_execute_nodes`'s counters |
| `scope[s]` | the call: phase, accumulated `run_status`, `completed` |
| `nodeFree`, `typeFree` | the semaphores shared by all scopes outside a metanode's sub-graph |
| `late` | the deadline has passed |

| Actions | Code |
| --- | --- |
| `Take`, `AcquireType`, `AcquireNode` | a worker takes a unit, checks the deadline, waits for the type slot, then for the node slot (`scheduler.py:284-330`) |
| `RunNode`, `Fault` | the node returns a verdict; an exception leaves `_one` |
| `StartIteration`, `FinishLoop`, `FinishMetanode`, `RaiseRow`, `AbortRows`, `InterruptRows`, `RowsEnded` | the loop and metanode drivers |
| `Return`, `Raise`, `Supervise`, `CancelUnit` | a scope returns, raises, or cancels and observes its task group (`scheduler.py:450-460`) |
| `CancelCaller`, `DeadlinePasses` | environment |

asyncio runs one task at a time, so an action is the code between two awaits.
The FIFO order of the queue and of the semaphores is abstracted to any order.
The number of rows a loop runs is any number up to the scopes it drives.
Disabled nodes and tool nodes count as successes, data as the set of outputs
taken, cached outputs as `Cached`. Conditional and reduce loops are loops of
`Concurrency` 1 that fail on error. Retries, hooks and schema checks are inside
a node's verdict. A synchronous node's thread that goes on after its task was
cancelled is not modelled. Faults of plain nodes come from event callbacks,
which a metanode's sub-graph has none of; faults of drivers from their set-up.

`_build_plan`, `_loop_regions`, `_needed_nodes` and `_topo_order` are inputs
here: the constants `Deps`, `ScopeOf` and `Driver` are what they return, and
`GraphPlan` (section 6) is how. `NestingAssumption` says of them that calls are
finitely many and nested in `Root`, and that a metanode calls its sub-graph once.

### 3.2 Properties

| Property | Says |
| --- | --- |
| `StartsAfterDeps` | nothing leaves `blocked` before what it depends on completed |
| `SlotsConserved` | free and held slots add up to the limit after every skip, failure, abort and cancellation |
| `ReportsWorst` | a call that returns ran its whole plan and reports the worst verdict, whatever finished last |
| `NoStartAfterEnd` | no node starts once the outermost call has ended |
| `Terminates` | nested drivers and limits never make everyone wait for everyone |

The counter behind them (`IndegreeCounts`: it is the number of unfinished
dependencies) is proved and not run.

### 3.3 Run, bounds and fairness

`SchedulerNested` runs the graph drawn in `MCScheduler.tla`: two roots, a
concurrent loop of two rows, a sequential loop whose row holds a metanode, one
limited type, one node slot, two workers per scope (50 in the code), a pause, a
deadline, a cancellation and faults in a driver and in a node: 249 thousand
distinct states. Every kind of unit is nested in another, two rows compete for
the node slot and for the type slots, and a row can fail while the other one
waits at either semaphore or runs. `NoStartAfterEnd` holds there because no
row of the concurrent loop faults or nests another loop or a metanode (section 9
tells what happens when one does); `EndIsFinal` proves that this is enough.

`FairSpec` has weak fairness of each unit and each scope: a task that can go on
does, and a node returns (nodes have time-outs). Neither deadline, cancellation
nor fault has to come. The type limit is on a plain node's type; a limit on a
driver's own type is discussed in section 9.

## 4. RuntimePool

### 4.1 State and actions

One API or worker process, with the pools of its environments. asyncio runs one
task at a time and nothing suspends inside the pool's lock or the gates'
conditions, so an action is the code between two awaits and those locks
disappear.

| Variable | Code |
| --- | --- |
| `pool[e]` | the `_EnvPool`: free slots of its semaphore, idle list, `_all`, generation, pause |
| `proc[p]` | a worker process: its life, the generation it was stamped with, runs served, contents of the directory it was started on |
| `run[r]` | where the dispatch of `r` stands (memory, admission, worker, resolving, starting, executing, closing) and the process it holds |
| `gate`, `committed` | `_ResizableAdmission` (capacity, holders) and `_RssBudget` |
| `call[c]`, `permits` | sub-workflow calls and the semaphore that throttles their processes |

| Actions | Code |
| --- | --- |
| `Dispatch`, `Reserve`, `Admit`, `CancelWaiting`, `Resize` | the gates (`runtime_pool.py`, `dispatch`) |
| `FindPaused`, `Reuse`, `Recycle`, `SpawnWorker`, `StartWorker`, `WorkerReady`, `SpawnFails` | `acquire` and `spawn` |
| `RunReturns`, `RunErrors`, `StopRun`, `StoppedRunEnds` | the ways a dispatch ends, each with its `release` |
| `ReapIdle`, `Drain`, `Unpause`, `ExitProcess` | the reaper, `drain_env`, `unpause_env`, the operating system |
| `CallWorkflow`, `CallAdmitted`, `CallProceeds`, `CallEnds`, `CallCancelled` | `dispatch_subworkflow` and its soft throttle |
| `Requeue` | the durable queue hands a parked run out again |

Left out: `shutdown`, the unforced drain that nothing calls, the throttle per
organisation, the protocol on the pipe. The autoscaler sets any ceiling at any
time. A subprocess whose spawn was cancelled is outside the pool and dropped.
FIFO order among waiters is abstracted to any order.

### 4.2 Properties, run, fairness

| Property | Says |
| --- | --- |
| `SlotsConserved` | slots, places under the ceiling and permits each go back exactly once, whatever ends a dispatch at whatever await |
| `NoSharedWorker` | no process serves two runs, or a run while it waits in an idle list |
| `IdleIsCurrent` | after a drain nothing of an older generation waits in an idle list |
| `WithinBudget` | reservations fit the budget, but for one run alone |
| `DispatchEnds` | gates, ceilings, deep call chains and oversized environments block nobody for ever |

That memory reservations go back exactly once, too, is `ReservationsCounted`,
which is proved (section 10) and not run.

`PoolDispatch` (282 thousand distinct states): two environments — one elastic
(one to two workers), one that spawns a process per run and is larger than the
budget — three runs, two process identities, a quota of one run per worker,
ceilings 1 and 2, one drain, and a call chain (`outer` makes `inner`) deeper
than the one permit. That is the smallest instance where two runs compete for
one pool, a third for budget and ceiling only, a recycled and a drained worker
meet a release, and a caller holds the permit its callee waits for.

`Fairness`: waiters are served, because the conditions and semaphores wake them;
executions end, because the heartbeat and run time-outs kill a silent worker; a
process asked to exit is killed after three seconds; a drained pool is unpaused
by its build (which `EnvironmentBuilds` replaces by the real thing).

## 5. EnvironmentBuilds

### 5.1 State and actions

The module extends `RuntimePool` and composes with it: its `BuildNext` uses the
pool's actions, with the spawn of a worker replaced by the one that resolves
its interpreter under the build lock and may build inline.

| Variable | Code |
| --- | --- |
| `env[e]` | the environment row (configuration, status) and what its directory holds |
| `job[j]` | an `EnvironmentBuildJob` row |
| `builder[b]`, `awaiting` | a `process_environment_build_job` task, its heartbeat, the processes its drain still closes |
| `lock`, `making`, `resolved` | the process's build lock, the configuration a build has read, the spawns that have an interpreter |
| `faults` | crashes of this process, exceptions in tasks; bounded together |

| Actions | Code |
| --- | --- |
| `RequestBuild` | an edit or rebuild: row and `enqueue_environment_build` |
| `Lease`, `Sweep` | the dispatch loop; a job nobody renews |
| `BeginJob`, `DrainPool`, `TaskBuilds`, `TaskBuilt`, `Record`, `TaskEnds` | the task, transaction by transaction |
| `HeartbeatDies`, `RecordRaises`, `TaskRaises` | what a task's exceptions do (below) |
| `EnvironmentReady`, `SpawnBuilds`, `SpawnBuilt`, `SpawnStarts`, `SpawnGivesUp` | the spawn's own way to an interpreter |
| `Crash` | this process dies; rows and directories stay |

A database transaction is one step. Where one raises, the code's handlers decide:
an exception in the first transaction leaves the job leased and the pool alone
(`environment_builds.py:370-404`); one in the transaction of the outcome fails the
job in the `except` branch, and one in there leaves the job running for the sweep
(449-463); one in `_unpause_if_terminal` is swallowed (487-488). A heartbeat whose
commit raised is over, and what it raised comes out of `await heartbeat` in the
`finally` (467-468), so that the unpause after it is skipped; the dispatch loop
swallows it (503-504). `AfterOutcome` is that `finally`.

A worker may be started while the directory is being removed or built: it is
started on any of the contents that are present (`Present`). Tasks have no names,
so a replica starts its first idle one (`FirstIdle`). Deleting an environment, cancelling its
jobs and disabled builds are left out, and of the pool's steps the reaper and
the sub-workflow calls.

### 5.2 Properties, run, fairness

| Property | Says |
| --- | --- |
| `PausedStaysOwed` | a paused pool loses the job or task that would unpause it in four ways only: a job is superseded, a task ends in another replica, a task ends on an exception (its dead heartbeat's, or one that the unpause swallows), the sweep fails a job for good |
| `ReadyIsBuilt` | with no build due or under way, "ready" means that the directory holds the configuration asked for |
| `BuildsSettle` | an environment always comes back to "no build due", and to "pool open" unless a task met an exception |
| `SettledIsFresh` | ... and its warm workers run what the directory holds (violated, section 8) |

`Builds` (561 thousand distinct states): one environment with one warm worker,
one run, an edit from `v0` to `v1` (and rebuilds), two jobs with one and two
attempts, two tasks of this process, one fault (a crash or an exception in any of
the places above). Two jobs let one supersede the other while it runs; two tasks
let an expired job be built twice; one attempt and two give both branches of
`fail`. The second job may fail twice, the first only once: a first job that is
retried after the edit can leave the pool paused for ever (section 9), which
`PausedStaysOwed` names as the exception it is and `BuildsSettle` cannot admit.
Builders in other replicas, edits back and forth, a second fault, and an exception
in the first transaction of a last attempt that is also the first (here only job 1
has a single attempt, and nothing is built before it) break `ReadyIsBuilt`, so the
instance has none of them.

`BuildFairness`: the dispatch loop leases and sweeps, tasks and spawns reach
their next await, processes asked to exit do. Users edit finitely often, since
jobs are finite.

## 6. GraphPlan

`_execute_impl` is one execution of a pure pipeline; the module steps through
it for every graph and request of the instance: `validate_graph`,
`_needed_nodes` (its work list in any order), `_topo_order` (its heap), the loop
regions and their validation, the plan of every scope, and then `RunNode`,
`EnterLoop`, `LeaveLoop` run the plans, one row per loop, so that the properties
are about what gets executed and when, not about the plan's fields. A node is
its position in `graph.nodes`, since that is all the code's order depends on.
Ports, schemas and the inlining of transparent metanodes are left out.

| Property | Says |
| --- | --- |
| `NeededIsLeast` | a targeted run needs the least set closed under what its nodes read, cut at cached nodes |
| `CycleVerdict` | a graph is refused for a cycle exactly when it has one |
| `OrderIsStable` | the order depends on edges and insertion order alone (proved, not run: `execute` uses the verdict only) |
| `FedFirst` | no node runs before a node it reads from, into, within and out of loop bodies |
| `TargetsRun` | a finished run has executed its targets |
| `NoStall` | contracting loops to units leaves no plan that waits for itself |
| `RunsOnce` | one scope executes a node (violated, section 8) |

`FedFirst`, `TargetsRun` and `NoStall` have a condition: every Loop End is
downstream of its start and fed by its own loop (`TargetsRun` also: no cached
node inside a loop). The validation does not enforce it; section 9 tells what
happens without it.

`GraphPlans` (511 thousand distinct states): every graph of four nodes with up
to four edges and six shapes of loops (none, one in two directions, two nested,
two apart, two starts with one body node), two loops around a node inserted in
two orders with any two further edges, and seven requests (whole graph, one or
two targets, with or without a cached node). Four edges close every cycle of
four nodes; five nodes are the fewest for a loop in a loop.
`PlanTripleNest` has the six nodes of three nested loops, inserted in any order.

There is no fairness: the pipeline ends by itself, and deadlock is checked.

## 7. Triggers

| Variable | Code |
| --- | --- |
| `clock` | slots: the times at which a schedule is due |
| `scheduled`, `last_fired` | the sources with a schedule and the column that the tick advances |
| `occ` | the outbox: `ScheduleOccurrence` rows |
| `tick[t]` | a caller of `_tick`, with the `now` it read and the occurrence and token it holds |
| `dlv[d]` | a webhook request: its position among the workflows of its path, what it started and what it acknowledged as a repeat |
| `runs` | runs by deduplication key: the unique index |

Tickers are the leader, a replica that has lost the advisory lock's connection
and does not know, and `/internal/scheduler/tick`: nothing keeps them apart, so
the leader election is subsumed. `Fire` is the locked transaction that advances
`last_fired` and writes the occurrence; `_claim_schedule_occurrence`,
`_existing_occurrence_run`, `StartOccurrence` and `_finish_schedule_occurrence`
are the leased dispatch; `CheckKey`, `StartWebhook` and `Answer` a delivery's
read of the key, its insert and its answer. `start_run` may commit, find the key
taken, fail, or commit and raise. `Crash`, `Expire`, `Elapse`, `Redeliver` and
`SetDeployment` are the environment. Polls, provider subscriptions, cron
arithmetic, and address, token and signature checks are left out.

| Property | Says |
| --- | --- |
| `FiresOnce` | one occurrence per schedule and slot; deliveries of one event start one run of a workflow between them |
| `DispatchedRan` | a dispatched occurrence has its run, found again after a crash |
| `SettledIsFinal` | a slow holder changes nothing that its successor settled |
| `OccurrencesSettle` | no occurrence is lost |
| `AcknowledgedRan` | what production acknowledges as a repeat has run in production (violated, section 8) |

`TriggerRuns` (184 thousand distinct states): two tickers over a workflow's and
a deployment's schedule, three occurrences, two slots, two attempts (ten in the
code), two faults; or two deliveries of one key to two workflows, a repeat or a
test before, beside or after production. Two attempts separate retry from
giving up; two tickers are a slow holder and its successor; a third would meet
the same row lock.

`FairSpec`: the loops tick for ever, a tick goes on, leases and retry delays
elapse. Slots, crashes and what `start_run` does are not assumed.

## 8. Disagreements between the code and what it says

Each is the shortest behaviour that TLC finds in a run of its own.

| Run | Behaviour | What the code says |
| --- | --- | --- |
| `PlanTripleNest` | `_loop_regions` takes the first region in insertion order as parent (`loops.py:64`); with three nested loops the middle driver executes the innermost Loop End as a node | `loops.py:365-366`: the skip set leaves nodes of nested loops to their own driver; `packages/nodes/nodyra_nodes/builtin.py:998-999`: this function is never called directly |
| `BuildsStaleWorker` | a worker started on the old directory, and ready after the drain, is stamped with the new generation (`runtime_pool.py:826`), kept warm and serves later runs | `runtime_pool.py:783-786`: a warm worker running the previous environment's code must never serve runs after a rebuild |
| `WebhookDuplicates` | a test delivery takes the event's key; the production delivery is acknowledged as a repeat and runs nothing (`triggers.py:1012`, `models.py:860-865`) | `triggers.py:956-958`: idempotency is for production only |

## 9. Seen in the code, without a run

Behaviours the models reach, or that reading showed, and that no run of its own
records.

Ledger, overlapping transactions at READ COMMITTED (`Overlap = TRUE`; TLC finds
each in an instance of two or three attempts):

- `mark_running` takes no lock (`queue.py:441-464`). An inline attempt whose lease
  elapsed is swept; its claim reads the queued row without a token; a worker leases
  the row; the claim commits and puts its own token over the worker's. This is
  `StaleClaim`, the step `OwnershipThroughQueue` admits; `ImplementsLease` is false.
- A park reads its row (`queue.py:554-568`), the row is swept and leased for the
  last time, and the park commits: the row is queued with its budget used up, and
  one more lease makes `attempts` exceed `max_attempts` (`AttemptBudget`). Without
  parks TLC finds no such behaviour.
- The fence of `_save_checkpoint` is an `EXISTS` on the queue row under no lock
  (`run_checkpoints.py:130-141`, "Atomic attempt fence"). An UPDATE that waits for
  the Run's row lock of `cancel_run` (`runner.py:961-973`) looks at the Run again
  and not at the fence, and puts a checkpoint on the cancelled Run
  (`CancelledHasNoCheckpoint`).
- `persist_run_outcome` and its fallback read the Run without a lock
  (`run_persistence.py:359`, `579`), and so does the sweep (`queue.py:701-709`).
  The detector's error, committed in between, is overwritten by a success, or the
  Run is queued again. `TerminalIsFinal` admits this race and no other.
- An approval reads both rows waiting (`run_resume.py:49-58`) without a lock: after
  a cancellation in between it queues the cancelled run again, and two decisions at
  once can put the status queued beside the token of the lease that the first one
  led to. A replay or an offline sweep can do the same.

Ledger, in any case:

- A stale attempt that finds no runner writes Run.status although `fail()`
  refused its token (`runner.py:1649-1655`), against `models.py:1428-1430`.
- The offline sweep leaves Run.status `pending` (`remote_dispatch.py:346`), which
  the dispatcher does not accept, against `config.py:150-153`.
- The bulk replay queues the entry and leaves the Run in `error`
  (`routers/ops.py:559`), against `routers/ops.py:549-551`.
- The sweep dead-letters the entry and leaves the Run queued or running
  (`queue.py:710`), against `runner.py:1636-1639`.
- An inline run parked before its first checkpoint executes again without its
  trigger's input (`runner.py:800`), against `runner.py:795-798`. A whole-run
  replay starts without it too.
- The stuck detector judges a run by NodeRun rows that are written at its end.
  With the persistence fallback of a waiting run it can leave a Run in error
  with its row waiting; `Agreement` is therefore checked without it.
- `_cancel_reconcile` cancels tasks of rows read in an earlier transaction.
- On SQLite the single-flight lock is released before the Run is inserted; the
  check ignores Runs in `pending`.
- Approvals consume attempts; the offline sweep requeues whatever the budget says.

Engine:

- A row of a concurrent loop that raises anything but a row error leaves the
  other rows running after the run has ended (`loops.py:526`), against
  `scheduler.py:455-456`. So does the cancellation of a concurrent loop whose
  rows nest a loop or a metanode: the `gather` (`loops.py:525`) ends with the
  first row that is cancelled, and the run with it, while another row still has
  to pass the cancellation on to what it nests.
- A row that paused or timed out is collected as success (`loops.py:487`),
  against `scheduler.py:45-47`.
- A type limit on `loop_start` or on a metanode's type deadlocks when such a
  driver nests another of its type: the outer driver keeps the type slot.
- The deadline is read before the wait for a slot and is not passed to loops and
  metanodes, so nodes start after it (against `scheduler.py:286-288`); a nested
  engine call resets `run_deadline_var`.
- Loop and metanode drivers run although an upstream output was not taken or
  failed (`scheduler.py:6-8`).
- A Loop End upstream of its start passes validation and stalls the scheduler,
  which `scheduler.py:464-466` calls unreachable. A Loop End fed from outside its
  loop is not waited for. A cached node inside a body makes a targeted run skip
  the loop. A targeted Loop End that is not connected to its start never runs.
- `execute` discards the order `_topo_order` computes and uses its verdict only.

Pool and builds:

- A task whose job was superseded meanwhile returns before the `finally` that
  unpauses. Usually the newer job's task does it, but one edit is enough for the
  pool to stay paused for ever: while the first job runs, the job of the edit is
  built and unpauses; the first then drains, its build fails, it is queued again
  with attempts left (three is the default), and its next task finds it out of
  date and returns. A builder in another replica, or edits back and forth, do it
  too.
- A heartbeat that died of a failed commit raises out of the task's `finally`
  before the unpause (`environment_builds.py:467-475`); an exception in the unpause
  is swallowed (487-488); and the sweep, when it fails a job for good, does not
  unpause. Each leaves the pool paused for ever, against
  `environment_builds.py:471-474` and 479.
- A job that is out of attempts when its first transaction raises is failed by the
  sweep without a build; a spawn that read the configuration before the edit then
  ends "ready" on the old one. With `max_attempts` of at least two (three is the
  default) that takes another fault before.
- `drain_env` pauses only a pool that exists, and only in its own process: the
  first run of an environment under rebuild, and other replicas, are not held.
- The build lock is a lock of the process: builders of two replicas break
  `ReadyIsBuilt`. So do two faults in one: the heartbeat of a last attempt dies,
  the sweep fails its job, the build ends "ready" on the old configuration, and
  the process dies before the task of the edit has built.
- Edits back and forth can leave an environment pending without a job, and so can
  a crash; a heartbeat that dies lets a superseded job succeed; a spawn cancelled
  while it builds leaves the row at "building".
- The memory gate is first-fit: small runs can starve one with a large estimate.
  (With finitely many dispatches, as here, everyone is served.)
- The subprocess of a cancelled spawn is not killed.
- A parked run whose attempts are used up ends in error; `Requeue` in the pool
  hands it out again, which asks more of the pool, not less.

Triggers and others:

- After its last attempt an occurrence may say "failed" although a slow holder's
  run was committed.
- A poll commits its cursor before it starts the runs of its events
  (`triggers.py:1143-1150`) and has neither key nor row check: a crash loses
  events, two leaders duplicate them, against `leader_election.py:12-16`.
- The drain flag is also kept per process, and the local value wins
  (`drain_state.py:35`): a drain lifted on another replica goes on here.
- A runner's capacity is read before the run is counted
  (`providers/agent.py:214`).

The passing runs leave out the event that breaks a property, and say so above:
`LedgerFencing`, `LedgerAgreement` and `LedgerSettles` overlapping commits, and
each ledger run the events of section 2.4; `SchedulerNested` faults and nested
drivers in the concurrent loop's rows; `Builds` other replicas, a second fault,
edits back and forth and a retry of the first job; `GraphPlans` what the
conditions of `FedFirst`, `TargetsRun` and `NoStall` exclude. The theorems admit
all events but those their assumptions name.

## 10. Proofs

| Theorem | Assumes beyond the module's constants | Says for all values of the constants |
| --- | --- | --- |
| `RunLedger_proofs!TypeCorrect` | | `[]TypeOK` |
| `LedgerInvariant` | `~Overlap` | `[]LedgerInv` |
| `SuccessMirrored`, `WaitingMirrored`, `TokenLease` | `~Overlap` | the mirrors and `TokenIsLease` |
| `LedgerImplementsLease` | `~Overlap` | `ImplementsLease`: the refinement of `RunLease` |
| `TerminalFinal` | no `park`, `missing_graph`, `runner_offline`, `approval` | `TerminalIsFinal` with its one race, overlapping transactions or not |
| `RunLedgerRows_proofs!RetriesBounded` | `~Overlap`; no `approval`, `runner_offline` | `AttemptBudget` |
| `DeadlineHeld` | `~Overlap` | `DeadlineBeforeWork` |
| `CancelledStaysEmpty` | `~Overlap`; no `bulk_replay` | `CancelledHasNoCheckpoint` |
| `LedgersAgree` | `~Overlap`; no `park`, `missing_graph`, `stuck`, `bulk_replay` | `Agreement` |
| `LeasedIsDispatched` | the same, no `runner_offline` | `LeaseableIsDispatchable` |
| `TokenLeaseReadCommitted` | no `replay`, `bulk_replay`, `runner_offline`, `approval` | `TokenIsLease`, overlapping transactions or not |
| `OwnershipOnlyThroughQueue` | `~Overlap`, or none of those four | `OwnershipThroughQueue`: at READ COMMITTED a token is replaced without being cleared by a stale claim only |
| `RunLease_proofs!LeaseHonest`, `LeaseHistory` | | what the abstract lease guarantees its reader: `Honest`, `History` |
| `Scheduler_proofs!SchedulerInvariant`, `SchedulerTypes`, `CountersRight`, `NoEarlyStart`, `SlotConservation`, `WorstVerdict` | | `SchedulerInv`, `TypeOK`, `IndegreeCounts`, `StartsAfterDeps`, `SlotsConserved`, `ReportsWorst` |
| `EndIsFinal` | `PlainRows`: the rows of concurrent loops hold neither loops nor metanodes nor nodes that raise, and no cycle of dependencies | `NoStartAfterEnd` |
| `RuntimePool_proofs!PoolInvariant`, `TypeCorrect`, `SlotConservation`, `PoolIsBounded`, `ExclusiveWorkers`, `WarmIsCurrent` | | `PoolInv`, `TypeOK`, `SlotsConserved`, `PoolBounded`, `NoSharedWorker`, `IdleIsCurrent` |
| `BudgetInvariant`, `MemoryBounded` | | `ReservationsCounted`, `WithinBudget` |
| `EnvironmentBuilds_proofs!BuildInvariant`, `BuildTypes`, `PoolSafeUnderBuilds` | | `BuildInv`, `BuildTypeOK`, and all of the pool's invariants under builds, edits and crashes |
| `PausedKeepsOwed` | | `PausedStaysOwed`, any number of replicas, edits, crashes and exceptions |
| `ReadyBuilt` | edits go forward (some `rank` of configurations never falls), `MaxFaults <= 1` (a crash or an exception), `Local = Builders`, every job has two attempts at least | `ReadyIsBuilt` |
| `GraphPlan_proofs!PlanInvariant`, `TypeCorrect`, `NeededLeast`, `CycleExact`, `StableOrder` | | `PlanInv` (planning only), `TypeOK`, `NeededIsLeast`, `CycleVerdict`, `OrderIsStable`, for graphs of any size |
| `FeedInvariant`, `ProducersFirst`, `NeverStalls` | the properties' own condition: every loop is fed (`LoopsAreFed`) | `FeedInv` (planning and running), `FedFirst`, `NoStall`, for graphs of any size and loops nested to any depth |
| `TargetsHaveRun` | the property's own condition: every loop is fed and no cached node is inside a loop | `TargetsRun`, for graphs of any size and loops nested to any depth |
| `Triggers_proofs!TriggerInvariant`, `TypeCorrect`, `FiresOnlyOnce`, `DispatchedHasRun`, `SettledForGood` | | `TriggerInv`, `TypeOK`, `FiresOnce`, `DispatchedRan`, `SettledIsFinal` |

**Ledger.** `TokenIsLease` and the two mirrors are not inductive by themselves.
A claim commits what an earlier read allowed, so `LedgerInv` adds
`SnapshotsChecked`: the check still holds of the snapshot, hence with `~Overlap`
of the row. A persist applies the outcome the attempt carries, so it adds
`OutcomeDecided`; between its read and its commit, and between those of the sweep,
it holds the entry's lock, so it adds `LocksHeld`: who holds the lock still owns
the row it locked. The mirrors rest on `TokenIsLease`: whoever moves the entry out
of `completed` or `waiting` would need the token it no longer has. The step proof
has a lemma per part and a case per action; lemmas about what each action leaves
alone dispose of the rest. The refinement goes action by action: each step of the
ledger is named as a step of the lease, or as a stutter, under `LedgerInv`.

`TerminalFinal` assumes nothing of overlaps. Its invariant is about what open
transactions remember: what a persist or a sweep has seen of the Run can have
changed, while the entry is locked, only by the detector. It excludes four events
because each writes a Run status without looking at the one it replaces.

**What the two rows say together.** Nearly every action touches the two rows, and
most properties of theirs do not care which attempt did it. `RowMoves` therefore
states once what one step does to the rows (`RowMove`: one disjunct per kind of
move, such as leased, resumed, claimed, parked, settled, swept, cancelled or
replayed, with the statuses it leaves from and leaves behind), and each theorem
is a case per kind of move. Their strengthenings: a queued row has budget left
(`Budgeted`: every way back into the queue but an approval and the offline sweep
compares `attempts` first); the Run of a cancelled row is settled
(`CancelledIsSettled`), so no owner can save on it; an open row has an open Run
(`Aligned`), which is what a park that rewrites the Run, the missing graph and the
stuck detector break; a sweep that will requeue without a look back has not seen
the Run running (`SweptRun`); for `DeadlineHeld`, `PcMoves` says which await points
follow which, so that work begins only by a claim, which sets the deadline.

With overlapping transactions `LedgerInv` fails: a claim or a park commits over
a row that moved on since its read, and what that breaks is in section 9. Three
theorems remain: `TokenLeaseReadCommitted`, `OwnershipOnlyThroughQueue` and
`TerminalFinal`. The first two have an invariant of their own, `OverlapInv`. An ORM
commit writes only the columns in which the row differs from what was read: a claim
that read a queued row writes both status and token (the stale claim), one that
read its own running row neither, and one that read a leased row would write the
status alone, beside the token of whoever came next. Nobody reads a leased row: the
task it was leased to marks it running before it claims, and other tasks do not
match its token (`LeasedIsAwaited`, `SnapshotsOwned`). An operator's rewrite
(replay, approval, offline sweep) reads a settled or a waiting row, and its late
commit can put a new status beside the token of a later lease.

**Scheduler.** The invariant joins the counters to the set of unfinished
dependencies. A completion lowers each dependent's counter by one and takes one
element from one finite set, so a counter at zero means an empty set, which is
what starting early would contradict. Two parts are there for induction only:
units of an idle scope are blocked, so that beginning a scope loses nothing, and
a returned scope has only finished units, so that beginning it again would.
`SlotsConserved` is cardinality arithmetic over holders. `ReportsWorst` follows
from `VerdictSoFar`.

`NoStartAfterEnd` relates a node to a call any number of levels above it. Its
invariant (`NestInv`) says that what is in flight belongs to a call that goes on
(`InFlightIsActive`) and that a call that goes on has a driver that is driving it
or is taking it down (`RowsAreDriven`), hence in flight itself; a cancelled row of a
concurrent loop is the exception, and in it nothing starts. The calls that go
on above a node that can start are thus closed outwards, and by `NestingAssumption` such a set
contains `Root`: while a node can start, the outermost call has not ended. A
sequential loop drives one row at a time (`OneRowAtATime`), so its driver cannot
leave one behind. A concurrent one can, if a row raises or has to pass a
cancellation on; `PlainRows` excludes both, and with it a row never raises while
it is driven (`RowsDoNotRaise`), for which it must not stall either
(`NoUnitForgotten`: a unit whose counter is zero has been queued).

**Pool.** Neither `NoSharedWorker` nor `IdleIsCurrent` is inductive: a release
appends to the idle list the process of its run, so one has to know that nobody
else has it and that its stamp means what it says. `PoolInv` therefore says that
every process has one owner (`HeldWorkers`, `EnteredIsOwned`): a run, one idle
list, or nobody any more, and that what is entered in the pool's `_all` under
the current generation has not been asked to exit. `UnopenedIsUnused` and
`PermitsAreUsed` keep the counters of pools not yet created and of calls at what
their owners say.

`WithinBudget` needs that the gate's counter is the sum of the reservations that
runs hold (`ReservationsCounted`). The provers have no induction over a sum, so
it is a cardinality: a run that holds `n` megabytes holds the units `<<run, 1>>`
to `<<run, n>>`, and the counter is the number of units. A run that enters adds
its own units to the set, one that leaves takes exactly them out, and a
reservation goes back once because the units of two runs are disjoint.

**Builds.** The builds change the pool by the pool's own steps or by a crash,
which leaves the pool as it is created, so `PoolInv` carries over
(`PoolSafeUnderBuilds`). `PausedStaysOwed` needs `TasksHaveJobs`: the job of a
task was enqueued, and a job that counts as taken has a task or a lease that
will expire; then a case per step shows that whoever ends owing has unpaused
the pool, is re-queued, or is one of the four exceptions. `ReadyIsBuilt` is far
from inductive. Its strengthening says who is ahead of whom: configurations of
jobs never overtake the row's (`Ranked`, the one use of `rank`), the lock is held
by the one who builds (`LockIsHeld`), no job has two tasks before the first fault
(`TasksUndisturbed`), and a build or a directory that is behind has a current job
that is still to read the configuration (`BuildsCatchUp`). The fault is why one is
allowed and two are not: with all leases undisturbed until then, the job that was
to catch up is still active after a crash and will be swept and built. An exception
loses an attempt instead. If it is not the job's last, the sweep queues it again;
if it is, the job has built before, since every job has two attempts
(`RetriesCaughtUp`), and what it was to catch up with has been caught up with
(`NoLostLease`, `CatchUpLostLease`).

**Plan.** The search keeps "what is on the work list or expanded is closed up to
the work list, and inside every closed set", which at the empty list is
`NeededIsLeast`. The sort keeps "a counter is the number of predecessors not yet
emitted, the heap is where it is zero"; a heap that empties early leaves a set
in which every node has a predecessor, which is a cycle, and the least element
of the heap is the least ready node, which is `OrderIsStable`.

`FeedInv` takes this through the regions and the plans to the run. It is stated
over what the code computes, so the computations are characterised first.
`_descendants` is the least set that holds the successors and is closed under
them (`DescendantsAreLeast`); in an acyclic graph a node is not in its own. Of an
accepted graph, `FoundRegionsSound` says what the rest needs of the regions: a
body lies between its start and its end and is entered at the start, and spans
nest. Without a cycle (`CycleVerdict` is part of the invariant for this) a loop
inside another has the smaller body (`InnerLoop`), so the smallest owner is the innermost (`OwnerIsInnermost`), the walk of
`_owner_unit` outward ends at a unit or at the top within as many hops as there
are nodes (`OwnerUnitFound`), and a plan waits for what its units read and for
nothing else (`BuiltPlan`). `BodyIsCovered` is the reason why the choice of a
loop's parent, which depends on the order of insertion, is harmless: whichever
of the enclosing loops it is, every node of a body is a unit of the body's plan
or owned by one. The run then keeps "what is done has run, with all that its
loop owns" and "what has run has run after what it reads from". Units that wait
for each other would be downstream of each other (`NobodyWaits`), and the search
that reached a node of a loop went on to the loop's start (`StartNeeded`).

The functions of the model are recursive over a number of hops. Their values
are reasoned about by the least element of a set of naturals (`LeastExists`,
from the well-foundedness of inclusion among finite sets), which needs no
induction scheme with an operator for its parameter.

**Triggers.** `FiresOnce` needs that no row of a source is ahead of its
`last_fired`, which `Fire` compares under the row lock; `DispatchedRan` and
`SettledIsFinal` that a token is on a row exactly while it is dispatching, that
a ticker past its claim holds one, which its finish compares with the row's, and
believes in a run only if the index has its key, and that a key taken by an
occurrence was taken for its workflow; the webhook half that a delivery has
started something only if the index has its key.

The only assumptions are the named `ASSUME`s of the modules; TLC evaluates them
in every run.

**Model-checked only.** Liveness (`NeverLost`, `CancelStopsWork`, `Terminates`,
`DispatchEnds`, `BuildsSettle`, `OccurrencesSettle`) is out of TLAPS's reach, as
is `ENABLED`. Every safety property and every property of steps that a passing
run checks has a theorem, under the assumptions of the table. `ReadyIsBuilt` is the
one whose run is outside them: there job 1 has a single attempt.

## 11. Not modelled

Most of the repository's code is not control of runs: nearly four hundred
nodes (`packages/nodes`), HTTP routers that read and write rows, the
AI builder and MCP tools, importers and exporters, the web editor. Each acts on
a run through the operations above or is one verdict of one node, and has no
protocol of its own to check; so the modules map a small share of all lines and
a large share of those that decide what happens to a run.

With a protocol of their own, and not modelled yet: the choice of the entry a
worker leases (priority, organisations, labels) and `_cancel_reconcile`;
single-flight admission; connections, capacity and answers of remote runners;
the drain flag; the event broker; command approvals; the sandbox pool; polls of
provider triggers (nothing in the code bounds their duplicates or losses). Per
component, `PROJECT.json` gives the reason.

## 12. Plan

Done: `RunLedger` with `RunLease`, `Scheduler`, `GraphPlan`, `RuntimePool`,
`EnvironmentBuilds`, `Triggers`, and proofs about each.

Next, in this order:

1. `QueueLease`: which entry is leased, the dispatch budget, `_cancel_reconcile`
   over several runs; `SingleFlight` on PostgreSQL and SQLite.
2. `RunnerFleet`: connections, pick and assign, answers, reconnects, capacity.
3. `EventBroker`, a log read by cursors; `CommandApprovals`; `Drain`;
   `SandboxPool`.
