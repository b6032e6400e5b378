------------------------- MODULE EnvironmentBuilds -------------------------
(***************************************************************************)
(* Environment builds composed with the runtime pool they drain:           *)
(*   src/apps/api/app/services/environment_builds.py  the leased job queue, *)
(*   src/apps/api/app/services/backends/__init__.py   the build itself,     *)
(* and the start of a worker, which resolves its interpreter through the   *)
(* same per-environment lock and may build inline.                         *)
(*                                                                         *)
(* The job and environment rows are shared by all replicas; the pool, the  *)
(* lock and the Local builders belong to the process the pool models.  A   *)
(* database transaction is one step.                                       *)
(***************************************************************************)
EXTENDS RuntimePool

CONSTANTS
  Jobs,           \* job rows, 1..n in the order of their creation
  Builders,       \* process_environment_build_job tasks that can run at once
  Local,          \* those of this process; the others run in other replicas
  MaxAttempts,    \* [Jobs -> Nat], the max_attempts of a job
  EditTo,         \* [Images -> SUBSET Images], configurations an edit leads to
  FirstImage,     \* configuration every environment is built from at first
  MaxFaults       \* bound on crashes of this process and exceptions in its tasks

ASSUME BuildAssumption ==
  /\ IsFiniteSet(Jobs)
  /\ Jobs = 1..Cardinality(Jobs)
  /\ Envs # {}
  /\ Local \subseteq Builders
  /\ MaxAttempts \in [Jobs -> Nat \ {0}]
  /\ EditTo \in [Images -> SUBSET Images]
  /\ FirstImage \in Images
  /\ Builders \cap Runs = {}
  /\ "free" \notin Builders \cup Runs
  /\ MaxFaults \in Nat

VARIABLES
  env,       \* [Envs -> row: configuration and status; disk: the directory]
  job,       \* [Jobs -> EnvironmentBuildJob row]
  builder,   \* [Builders -> the task, the job it took, its heartbeat]
  awaiting,  \* [Builders -> processes the task's drain still closes]
  lock,      \* [Envs -> holder of the build lock of this process]
  making,    \* [Builders \cup Runs -> configuration being built]
  resolved,  \* runs whose spawn has been given an interpreter
  faults     \* crashes and exceptions so far

buildVars == <<env, job, builder, awaiting, lock, making, resolved, faults>>
vars == <<poolVars, buildVars>>

NoJob == 0
Free == "free"

ACTIVE_STATUSES == {"queued", "leased", "running"}
TERMINAL_STATUSES == {"succeeded", "failed", "superseded"}

NoTask == [pc |-> "idle", job |-> NoJob, beats |-> FALSE]

NoFaults == [crashes |-> 0, errors |-> 0]

FaultLeft == faults.crashes + faults.errors < MaxFaults

Raises == FaultLeft /\ faults' = [faults EXCEPT !.errors = @ + 1]

BuildInit ==
  /\ Init
  /\ env = [e \in Envs |-> [config |-> FirstImage, status |-> "ready", disk |-> FirstImage]]
  /\ job = [j \in Jobs |-> [status |-> "none", env |-> CHOOSE e \in Envs : TRUE,
                            config |-> FirstImage, attempts |-> 0]]
  /\ builder = [b \in Builders |-> NoTask]
  /\ awaiting = [b \in Builders |-> {}]
  /\ lock = [e \in Envs |-> Free]
  /\ making = [x \in Builders \cup Runs |-> NoImage]
  /\ resolved = {}
  /\ faults = NoFaults

----------------------------------------------------------------------------
(* The job queue                                                           *)

Active(e) == {j \in Jobs : job[j].status \in ACTIVE_STATUSES /\ job[j].env = e}

_has_other_active_job(j) == Active(job[j].env) \ {j} # {}

\* enqueue_environment_build: the active jobs are walked in their order; one of
\* the same configuration is returned as it is, and those met before it that do
\* not run yet are superseded.  Otherwise a job is added and the row is pending.
Enqueue(e, config) ==
  LET same == {j \in Active(e) : job[j].config = config}
      passed == {j \in Active(e) : \A i \in same : j < i}
      stale == {j \in passed : job[j].status \in {"queued", "leased"}}
      fresh == {j \in Jobs : job[j].status = "none"}
      superseded == [j \in Jobs |-> IF j \in stale THEN [job[j] EXCEPT !.status = "superseded"]
                                    ELSE job[j]]
  IN
  IF same # {}
  THEN /\ job' = superseded
       /\ env' = [env EXCEPT ![e].config = config]
  ELSE /\ \E new \in fresh :
            /\ \A j \in fresh : new <= j
            /\ job' = [superseded EXCEPT ![new] = [status |-> "queued", env |-> e,
                                                   config |-> config, attempts |-> 0]]
       /\ env' = [env EXCEPT ![e].config = config, ![e].status = "pending"]

\* The packages or the backend of an environment are edited, or (with its own
\* configuration) a rebuild is asked for.
RequestBuild(e, config) ==
  /\ config \in EditTo[env[e].config] \cup {env[e].config}
  /\ Enqueue(e, config)
  /\ UNCHANGED <<poolVars, builder, awaiting, lock, making, resolved, faults>>

\* Tasks have no names: a replica's first idle one is the next to be started.
FirstIdle(replica) == CHOOSE b \in replica : builder[b].pc = "idle"

\* lease_environment_build by the dispatch loop, which starts a task for it.
Lease(b, j) ==
  /\ builder[b].pc = "idle"
  /\ b = FirstIdle(IF b \in Local THEN Local ELSE Builders \ Local)
  /\ job[j].status = "queued"
  /\ job' = [job EXCEPT ![j].status = "leased", ![j].attempts = @ + 1]
  /\ builder' = [builder EXCEPT ![b] = [pc |-> "begin", job |-> j, beats |-> TRUE]]
  /\ UNCHANGED <<poolVars, env, awaiting, lock, making, resolved, faults>>

\* fail_environment_build, shared by the task and the sweep.
Fail(j) ==
  LET e == job[j].env IN
  IF job[j].attempts < MaxAttempts[j]
  THEN /\ job' = [job EXCEPT ![j].status = "queued"]
       /\ env' = [env EXCEPT ![e].status = "pending"]
  ELSE /\ job' = [job EXCEPT ![j].status = "failed"]
       /\ env' = [env EXCEPT ![e].status =
                    IF _has_other_active_job(j) THEN "pending" ELSE "error"]

\* Fault: the environment's row is given a status of the job's vocabulary.
Faulty_Complete(j) ==
  /\ job' = [job EXCEPT ![j].status = "succeeded"]
  /\ env' = [env EXCEPT ![job[j].env].status = "succeeded"]

\* complete_environment_build.
Complete(j) ==
  /\ job' = [job EXCEPT ![j].status = "succeeded"]
  /\ env' = IF _has_other_active_job(j)
            THEN [env EXCEPT ![job[j].env].status = "pending"] ELSE env

\* Fault: only running jobs are swept, a crash before the first transaction is
\* forgotten.
Faulty_Sweep(j) ==
  /\ job[j].status = "running"
  /\ ~ \E b \in Builders : builder[b].job = j /\ builder[b].beats
  /\ Fail(j)
  /\ UNCHANGED <<poolVars, builder, awaiting, lock, making, resolved, faults>>

\* requeue_expired_environment_build_leases: a job whose lease nobody renews.
Sweep(j) ==
  /\ job[j].status \in {"leased", "running"}
  /\ ~ \E b \in Builders : builder[b].job = j /\ builder[b].beats
  /\ Fail(j)
  /\ UNCHANGED <<poolVars, builder, awaiting, lock, making, resolved, faults>>

\* _heartbeat_until_stopped has no handler: a failed commit ends it.
HeartbeatDies(b) ==
  /\ Raises
  /\ builder[b].beats /\ builder[b].pc # "begin"
  /\ builder' = [builder EXCEPT ![b].beats = FALSE]
  /\ UNCHANGED <<poolVars, env, job, awaiting, lock, making, resolved>>

----------------------------------------------------------------------------
(* The build                                                               *)

\* _build_environment_locked, first half: the row says building, the
\* configuration is read from it and the old directory is removed.
StartBuild(x, e) ==
  /\ making' = [making EXCEPT ![x] = env[e].config]
  /\ env' = [env EXCEPT ![e].status = "building", ![e].disk = NoImage]

\* Second half: the outcome overwrites whatever the row says by now.
EndBuild(x, e, ok) ==
  /\ making' = [making EXCEPT ![x] = NoImage]
  /\ env' = [env EXCEPT ![e].status = IF ok THEN "ready" ELSE "error",
                        ![e].disk = IF ok THEN making[x] ELSE NoImage]

\* Fault: builds of one environment are not serialised.
Faulty_CanLock(x, e) == TRUE

\* The build lock is a lock of the process.
CanLock(x, e) == x \in Local \cup Runs => lock[e] = Free

LockTo(x, e, holder) == lock' = IF x \in Local \cup Runs THEN [lock EXCEPT ![e] = holder] ELSE lock

----------------------------------------------------------------------------
(* process_environment_build_job                                           *)

Task(b, pc) == builder' = [builder EXCEPT ![b].pc = pc]

JobEnv(b) == job[builder[b].job].env

\* The first transaction.  A job that is no longer active is left alone; one
\* whose configuration is not the environment's any more is superseded; both
\* end the task without touching the pool.
BeginJob(b) ==
  LET j == builder[b].job
      e == job[j].env
  IN
  /\ builder[b].pc = "begin"
  /\ \/ /\ job[j].status \notin ACTIVE_STATUSES
        /\ builder' = [builder EXCEPT ![b] = NoTask]
        /\ UNCHANGED <<env, job>>
     \/ /\ job[j].status \in ACTIVE_STATUSES
        /\ env[e].config # job[j].config
        /\ job' = [job EXCEPT ![j].status = "superseded"]
        /\ env' = IF _has_other_active_job(j) THEN [env EXCEPT ![e].status = "pending"] ELSE env
        /\ builder' = [builder EXCEPT ![b] = NoTask]
     \/ /\ job[j].status \in ACTIVE_STATUSES
        /\ env[e].config = job[j].config
        /\ job' = [job EXCEPT ![j].status = "running"]
        /\ env' = [env EXCEPT ![e].status = "building"]
        /\ Task(b, "drain")
  /\ UNCHANGED <<poolVars, awaiting, lock, making, resolved, faults>>

\* drain_env(force=True): the pool of this process, if the environment has one.
DrainPool(b) ==
  LET e == JobEnv(b) IN
  /\ builder[b].pc = "drain"
  /\ IF b \in Local /\ pool[e].open
     THEN /\ Drain(e)
          /\ awaiting' = [awaiting EXCEPT ![b] = {p \in ToClose(e) : Alive(p)}]
     ELSE UNCHANGED <<poolVars, awaiting>>
  /\ Task(b, "build")
  /\ UNCHANGED <<env, job, lock, making, resolved, faults>>

\* Every drained worker has exited and the build lock is free.
TaskBuilds(b) ==
  LET e == JobEnv(b) IN
  /\ builder[b].pc = "build"
  /\ awaiting[b] = {}
  /\ CanLock(b, e)
  /\ LockTo(b, e, b)
  /\ StartBuild(b, e)
  /\ Task(b, "building")
  /\ UNCHANGED <<poolVars, job, awaiting, resolved, faults>>

TaskBuilt(b, ok) ==
  LET e == JobEnv(b) IN
  /\ builder[b].pc = "building"
  /\ EndBuild(b, e, ok)
  /\ LockTo(b, e, Free)
  /\ Task(b, "record")
  /\ UNCHANGED <<poolVars, job, awaiting, resolved, faults>>

\* The finally: awaiting a heartbeat that died raises what it died of, and the
\* task ends there, short of the unpause.
AfterOutcome(b) ==
  builder' = [builder EXCEPT ![b] =
                IF builder[b].beats THEN [builder[b] EXCEPT !.pc = "unpause", !.beats = FALSE]
                ELSE NoTask]

\* The outcome is read back from the environment's row, whoever wrote it last.
Record(b) ==
  LET j == builder[b].job IN
  /\ builder[b].pc = "record"
  /\ IF env[job[j].env].status = "ready" THEN Complete(j) ELSE Fail(j)
  /\ AfterOutcome(b)
  /\ UNCHANGED <<poolVars, awaiting, lock, making, resolved, faults>>

\* The transaction of the outcome raises; the except branch fails the job, or
\* raises as well and leaves it running for the sweep.
RecordRaises(b) ==
  /\ builder[b].pc = "record"
  /\ Raises
  /\ \/ Fail(builder[b].job)
     \/ UNCHANGED <<job, env>>
  /\ AfterOutcome(b)
  /\ UNCHANGED <<poolVars, awaiting, lock, making, resolved>>

\* Fault: a job that failed for good does not unpause.
Faulty_TaskEnds(b) ==
  /\ builder[b].pc = "unpause"
  /\ IF job[builder[b].job].status = "succeeded" /\ b \in Local /\ pool[JobEnv(b)].paused
     THEN Unpause(JobEnv(b))
     ELSE UNCHANGED poolVars
  /\ builder' = [builder EXCEPT ![b] = NoTask]
  /\ UNCHANGED <<env, job, awaiting, lock, making, resolved, faults>>

\* _unpause_if_terminal.
TaskEnds(b) ==
  LET e == JobEnv(b) IN
  /\ builder[b].pc = "unpause"
  /\ IF /\ job[builder[b].job].status \in TERMINAL_STATUSES
        /\ b \in Local
        /\ pool[e].paused
     THEN Unpause(e)
     ELSE UNCHANGED poolVars
  /\ builder' = [builder EXCEPT ![b] = NoTask]
  /\ UNCHANGED <<env, job, awaiting, lock, making, resolved, faults>>

\* The first transaction raises, which leaves the job leased; or
\* _unpause_if_terminal raises, swallows it and leaves the pool as it is.
TaskRaises(b) ==
  /\ builder[b].pc \in {"begin", "unpause"}
  /\ Raises
  /\ builder' = [builder EXCEPT ![b] = NoTask]
  /\ UNCHANGED <<poolVars, env, job, awaiting, lock, making, resolved>>

----------------------------------------------------------------------------
(* The spawn of a worker: ensure_environment_ready                         *)

\* The environment is built: its interpreter is returned.
EnvironmentReady(r) ==
  LET e == EnvOf[r] IN
  /\ At(r, "resolving") /\ r \notin resolved
  /\ lock[e] = Free
  /\ env[e].status = "ready" /\ env[e].disk # NoImage
  /\ resolved' = resolved \cup {r}
  /\ UNCHANGED <<poolVars, env, job, builder, awaiting, lock, making, faults>>

\* It is not (pending, failed, or its directory is gone): the spawn builds it.
SpawnBuilds(r) ==
  LET e == EnvOf[r] IN
  /\ At(r, "resolving") /\ r \notin resolved
  /\ lock[e] = Free
  /\ env[e].status # "ready" \/ env[e].disk = NoImage
  /\ lock' = [lock EXCEPT ![e] = r]
  /\ StartBuild(r, e)
  /\ UNCHANGED <<poolVars, job, builder, awaiting, resolved, faults>>

\* A build that failed leaves the run resolving, without the lock, until its
\* spawn fails.
SpawnBuilt(r, ok) ==
  LET e == EnvOf[r] IN
  /\ lock[e] = r
  /\ EndBuild(r, e, ok)
  /\ lock' = [lock EXCEPT ![e] = Free]
  /\ IF ok
     THEN resolved' = resolved \cup {r} /\ UNCHANGED poolVars
     ELSE resolved' = resolved /\ SpawnFails(r)
  /\ UNCHANGED <<job, builder, awaiting, faults>>

\* What the directory holds: a build, or part of one.
Present(e) ==
  ({env[e].disk}
     \cup {making[b] : b \in {b \in Builders : builder[b].pc = "building" /\ JobEnv(b) = e}}
     \cup {making[r] : r \in {r \in Runs : lock[e] = r}}) \ {NoImage}

\* The subprocess starts on what the directory holds, without the lock.
SpawnStarts(r, p) ==
  /\ r \in resolved
  /\ \E image \in Present(EnvOf[r]) : StartWorker(r, p, image)
  /\ resolved' = resolved \ {r}
  /\ UNCHANGED <<env, job, builder, awaiting, lock, making, faults>>

\* A spawn that fails or is cancelled; cancelled while it builds, it lets go of
\* the lock and leaves the row at building.
SpawnGivesUp(r) ==
  LET e == EnvOf[r] IN
  /\ SpawnFails(r)
  /\ resolved' = resolved \ {r}
  /\ lock' = IF lock[e] = r THEN [lock EXCEPT ![e] = Free] ELSE lock
  /\ making' = [making EXCEPT ![r] = NoImage]
  /\ UNCHANGED <<env, job, builder, awaiting, faults>>

----------------------------------------------------------------------------

PoolRunStep(r) == RunStep(r) /\ UNCHANGED buildVars

PoolResize(c) == Resize(c) /\ UNCHANGED buildVars

ProcessExits(p) ==
  /\ ExitProcess(p)
  /\ awaiting' = [b \in Builders |-> awaiting[b] \ {p}]
  /\ UNCHANGED <<env, job, builder, lock, making, resolved, faults>>

\* This process dies: its pool, its runs (which the durable queue hands out
\* again) and its tasks are gone; the rows and the directory stay as they are.
Crash ==
  /\ FaultLeft
  /\ faults' = [faults EXCEPT !.crashes = @ + 1]
  /\ pool' = [e \in Envs |-> ClosedPool]
  /\ proc' = [p \in Procs |-> Blank]
  /\ run' = [r \in Runs |-> IF At(r, "ended") THEN run[r] ELSE [pc |-> "idle", proc |-> NoProc]]
  /\ gate' = [gate EXCEPT !.inUse = 0]
  /\ committed' = 0
  /\ call' = [c \in Calls |-> [pc |-> "idle", permit |-> FALSE]]
  /\ permits' = SubCap
  /\ builder' = [b \in Builders |-> IF b \in Local THEN NoTask ELSE builder[b]]
  /\ awaiting' = [b \in Builders |-> {}]
  /\ lock' = [e \in Envs |-> Free]
  /\ making' = [x \in Builders \cup Runs |-> IF x \in Builders \ Local THEN making[x] ELSE NoImage]
  /\ resolved' = {}
  /\ UNCHANGED <<env, job>>

TaskStep(b) ==
  \/ BeginJob(b) \/ DrainPool(b) \/ TaskBuilds(b)
  \/ \E ok \in BOOLEAN : TaskBuilt(b, ok)
  \/ Record(b) \/ TaskEnds(b)

TaskFault(b) == HeartbeatDies(b) \/ RecordRaises(b) \/ TaskRaises(b)

SpawnProgress(r) ==
  \/ EnvironmentReady(r) \/ SpawnBuilds(r)
  \/ \E ok \in BOOLEAN : SpawnBuilt(r, ok)
  \/ \E p \in Procs : SpawnStarts(r, p)
  \/ SpawnGivesUp(r)

Leases(b) == \E j \in Jobs : Lease(b, j)

\* Of the pool's steps two are left out: the reaper, which closes idle workers
\* of any generation, and sub-workflow calls, which no drain touches.
BuildNext ==
  \/ \E e \in Envs, config \in Images : RequestBuild(e, config)
  \/ \E b \in Builders : Leases(b) \/ TaskStep(b) \/ TaskFault(b)
  \/ \E j \in Jobs : Sweep(j)
  \/ \E r \in Runs : PoolRunStep(r) \/ SpawnProgress(r)
  \/ \E p \in Procs : ProcessExits(p)
  \/ \E c \in Ceilings : PoolResize(c)
  \/ Crash

\* The dispatch loop polls, its tasks and the builds of spawns end, and a
\* process that was asked to exit does.
BuildFairness ==
  /\ WF_vars(\E b \in Builders : Leases(b))
  /\ \A b \in Builders : WF_vars(TaskStep(b))
  /\ \A j \in Jobs : WF_vars(Sweep(j))
  /\ \A r \in Runs : WF_vars(SpawnProgress(r))
  /\ \A p \in Procs : WF_vars(proc[p].state = "closing" /\ ProcessExits(p))

BuildSpec == BuildInit /\ [][BuildNext]_vars

FairBuildSpec == BuildSpec /\ BuildFairness

----------------------------------------------------------------------------
(* Properties                                                              *)

BuildTypeOK ==
  /\ TypeOK
  /\ env \in [Envs -> [config : Images, status : {"pending", "building", "ready", "error"},
                       disk : Images \cup {NoImage}]]
  /\ job \in [Jobs -> [status : {"none"} \cup ACTIVE_STATUSES \cup TERMINAL_STATUSES,
                       env : Envs, config : Images, attempts : Nat]]
  /\ builder \in [Builders -> [pc : {"idle", "begin", "drain", "build", "building", "record",
                                     "unpause"},
                               job : Jobs \cup {NoJob}, beats : BOOLEAN]]
  /\ awaiting \in [Builders -> SUBSET Procs]
  /\ lock \in [Envs -> {Free} \cup Local \cup Runs]
  /\ making \in [Builders \cup Runs -> Images \cup {NoImage}]
  /\ resolved \subseteq Runs
  /\ faults \in [crashes : Nat, errors : Nat]

Working(e) == {b \in Builders : builder[b].pc # "idle" /\ JobEnv(b) = e}

\* Jobs of the environment that are not over, or that a task will yet end.
Owing(e) ==
  {j \in Jobs : /\ job[j].env = e
                /\ \/ job[j].status \in ACTIVE_STATUSES
                   \/ \E b \in Builders : builder[b].job = j /\ builder[b].pc # "begin"}

Owed(e) == pool[e].paused => Owing(e) # {}

JobSuperseded(e) ==
  \E j \in Jobs : /\ job[j].env = e
                  /\ job[j].status # "superseded" /\ job'[j].status = "superseded"

EndsElsewhere(e) ==
  \E b \in Builders \ Local : /\ builder[b].pc = "unpause" /\ JobEnv(b) = e
                              /\ builder'[b].pc = "idle"

\* The heartbeat had died, or the unpause itself raises.
EndsOnException(e) ==
  \E b \in Builders : /\ \/ (Record(b) \/ RecordRaises(b)) /\ ~ builder[b].beats
                         \/ TaskRaises(b)
                      /\ JobEnv(b) = e

\* The sweep fails a job for good, and does not unpause.
GivenUp(e) ==
  \E j \in Jobs : job[j].env = e /\ Sweep(j) /\ job'[j].status = "failed"

\* A paused pool keeps somebody who may unpause it: a job that is not over, or
\* a task that has not ended.  The code's comment ("Resume dispatching runs once
\* the build job can no longer retry") admits no exception; the code has four: a
\* job is superseded, a task ends in another replica, a task ends on an
\* exception (its dead heartbeat's, or a swallowed one), and the sweep gives a
\* job up.  No failed build, retry, newer request, overlapping drain, crash or
\* second task on the job is a fifth.
PausedStaysOwed ==
  [][\A e \in Envs :
       Owed(e) => Owed(e)' \/ JobSuperseded(e) \/ EndsElsewhere(e)
                          \/ EndsOnException(e) \/ GivenUp(e)]_vars

\* Once no build is due or under way, an environment that says it is ready
\* holds the configuration the user asked for, although a build reads the
\* configuration after its job was checked against it and writes its outcome
\* over a newer request's.
ReadyIsBuilt ==
  \A e \in Envs :
    (env[e].status = "ready" /\ Active(e) = {} /\ Working(e) = {} /\ lock[e] = Free)
      => env[e].disk = env[e].config

\* A task has a job that was enqueued, and its heartbeat runs until its first
\* transaction at least.
TasksHaveJobs ==
  \A b \in Builders :
    /\ builder[b].pc = "idle" <=> builder[b].job = NoJob
    /\ builder[b].pc # "idle" => job[builder[b].job].status # "none"
    /\ builder[b].pc = "begin" => builder[b].beats

\* The build lock of this process is held by the task or the spawn that builds.
LockIsHeld ==
  \A e \in Envs :
    /\ \A b \in Local : lock[e] = b <=> builder[b].pc = "building" /\ JobEnv(b) = e
    /\ \A r \in Runs : lock[e] = r => EnvOf[r] = e

\* Until a task meets an exception or the process dies, a job that a task works
\* on is nobody else's, and is neither queued nor expired; and a job that counts
\* as taken is worked on.
WithJob == {"begin", "drain", "build", "building", "record"}

TasksUndisturbed ==
  faults = NoFaults =>
    /\ \A b \in Builders : builder[b].pc \in WithJob =>
         /\ builder[b].beats
         /\ IF builder[b].pc = "begin"
            THEN job[builder[b].job].status \notin {"queued", "running"}
            ELSE job[builder[b].job].status = "running"
         /\ \A c \in Builders : builder[c].pc \in WithJob /\ builder[c].job = builder[b].job => b = c
    /\ \A j \in Jobs : job[j].status \in {"leased", "running"} =>
         \E b \in Builders : builder[b].pc \in WithJob /\ builder[b].job = j

\* The configuration of the job is the one the environment asks for.
Current(j) == job[j].config = env[job[j].env].config

\* A current job that will still read the configuration: it is queued, will be
\* swept and queued again, or its task has not built yet.
ToBuild(e) ==
  \E j \in Jobs :
    /\ job[j].env = e /\ job[j].status # "none" /\ Current(j)
    /\ \/ job[j].status = "queued"
       \/ job[j].status = "leased" /\ job[j].attempts < MaxAttempts[j]
       \/ \E b \in Builders :
            /\ builder[b].job = j
            /\ \/ builder[b].pc = "begin" /\ job[j].status \in ACTIVE_STATUSES
               \/ builder[b].pc \in {"drain", "build"}

CaughtUp(e) ==
  /\ env[e].status = "ready" => env[e].disk = env[e].config
  /\ lock[e] # Free => making[lock[e]] = env[e].config

\* A build or a directory that is behind the configuration has a current job
\* that will catch up; a task that has built for a current job has caught up, and
\* so has every build after it.
BuildsCatchUp ==
  /\ \A e \in Envs :
       /\ lock[e] # Free /\ making[lock[e]] # env[e].config => ToBuild(e)
       /\ env[e].status = "ready" /\ env[e].disk # env[e].config =>
            ToBuild(e) \/ \E j \in Active(e) : Current(j)
  /\ \A b \in Builders : builder[b].pc = "building" /\ Current(builder[b].job) =>
       making[b] = env[JobEnv(b)].config
  /\ \A b \in Builders : builder[b].pc = "record" /\ Current(builder[b].job) =>
       CaughtUp(JobEnv(b))

\* A job that is tried again has built before: losing its last attempt to a first
\* transaction that raises leaves nothing behind.
Retried(j) ==
  \/ job[j].status = "queued" /\ job[j].attempts > 0
  \/ job[j].status = "leased" /\ job[j].attempts > 1

RetriesCaughtUp ==
  faults = NoFaults =>
    \A j \in Jobs : Retried(j) /\ Current(j) => CaughtUp(job[j].env)

\* Once builds are done, every worker that waits for a run was started on the
\* directory's present contents.
SettledIsFresh ==
  \A e \in Envs :
    (env[e].status = "ready" /\ Active(e) = {} /\ Working(e) = {} /\ lock[e] = Free) =>
      \A i \in DOMAIN pool[e].idle : proc[pool[e].idle[i]].image = env[e].disk

\* Whatever builds are requested, fail, are retried or lose their worker, an
\* environment comes back to where no build is due; and, unless a task met an
\* exception, to where its pool takes runs.
BuildsSettle ==
  \A e \in Envs : []<>(Active(e) = {} /\ (pool[e].paused => faults.errors > 0))

=============================================================================
