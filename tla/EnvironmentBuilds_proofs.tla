---------------------- MODULE EnvironmentBuilds_proofs ----------------------
(***************************************************************************)
(* What the builds guarantee for every number of environments, jobs, tasks, *)
(* runs and faults: the pool keeps its invariant when builds drain and      *)
(* unpause it and when the process crashes; a paused pool is abandoned in    *)
(* four ways only; and a settled environment holds what was asked for.      *)
(***************************************************************************)
EXTENDS EnvironmentBuilds, RuntimePool_proofs

USE EnvOfAssumption, SizesAssumption, GatesAssumption, CallsAssumption, NamesAssumption,
    FiniteAssumption, BuildAssumption DEF Free, NoJob

----------------------------------------------------------------------------
(* Types                                                                   *)

Statuses == {"pending", "building", "ready", "error"}

EnvRows == [config : Images, status : Statuses, disk : Images \cup {NoImage}]

JobStatuses == {"none"} \cup ACTIVE_STATUSES \cup TERMINAL_STATUSES

JobRows == [status : JobStatuses, env : Envs, config : Images, attempts : Nat]

TaskStates == {"idle", "begin", "drain", "build", "building", "record", "unpause"}

Tasks == [pc : TaskStates, job : Jobs \cup {NoJob}, beats : BOOLEAN]

(* What the variables of the builds are, besides the pool's.               *)
RowsOK ==
  /\ env \in [Envs -> EnvRows]
  /\ job \in [Jobs -> JobRows]
  /\ builder \in [Builders -> Tasks]
  /\ awaiting \in [Builders -> SUBSET Procs]
  /\ lock \in [Envs -> {Free} \cup Local \cup Runs]
  /\ making \in [Builders \cup Runs -> Images \cup {NoImage}]
  /\ resolved \subseteq Runs

FaultsOK == faults \in [crashes : Nat, errors : Nat]

(* The types of the composition are the pool's and those of the rows.       *)
LEMMA RowsType == BuildTypeOK <=> TypeOK /\ RowsOK /\ FaultsOK
BY DEF BuildTypeOK, RowsOK, FaultsOK, EnvRows, Statuses, JobRows, JobStatuses, Tasks, TaskStates

(* A task's outcome and its end, with an exception or without.              *)
Records(b) == Record(b) \/ RecordRaises(b)

Ends(b) == TaskEnds(b) \/ TaskRaises(b)

(* One fault at most: it finds none before it, and none finds it.           *)
LEMMA OneFault ==
  ASSUME FaultsOK, MaxFaults <= 1
  PROVE  /\ FaultLeft => faults = NoFaults
         /\ Raises => faults' # NoFaults
<1>1. MaxFaults \in Nat
  BY BuildAssumption
<1>2. /\ faults = [crashes |-> faults.crashes, errors |-> faults.errors]
      /\ faults.crashes \in Nat /\ faults.errors \in Nat
  BY DEF FaultsOK
<1>3. FaultLeft => faults.crashes = 0 /\ faults.errors = 0
  BY <1>1, <1>2 DEF FaultLeft
<1>4. Raises => faults'.errors = faults.errors + 1
  BY <1>2 DEF Raises
<1>5. NoFaults.errors = 0
  BY DEF NoFaults
<1> QED BY <1>2, <1>3, <1>4, <1>5 DEF NoFaults

(* Jobs are numbered from one: none is the job of an idle task.            *)
LEMMA JobsArePositive == NoJob \notin Jobs /\ \A j \in Jobs : j \in Nat
<1>1. Cardinality(Jobs) \in Nat
  BY FS_CardinalityType
<1> QED BY <1>1

BuildInv == PoolInv /\ RowsOK /\ TasksHaveJobs /\ FaultsOK

(* A task at work has a job, and the job an environment.                   *)
LEMMA TaskFacts ==
  ASSUME BuildInv, NEW b \in Builders, builder[b].pc # "idle"
  PROVE  /\ builder[b] \in Tasks /\ builder[b].job \in Jobs
         /\ job[builder[b].job] \in JobRows
         /\ JobEnv(b) \in Envs /\ env[JobEnv(b)] \in EnvRows
         /\ job[builder[b].job].status # "none"
BY DEF BuildInv, RowsOK, TasksHaveJobs, Tasks, JobRows, JobEnv

----------------------------------------------------------------------------
(* The pool in the composition                                             *)

(* What a crash leaves of the pool is a pool nobody uses.                  *)
LEMMA CrashPool ==
  ASSUME PoolInv, Crash
  PROVE  PoolInv' /\ BudgetInv'
<1>0. TypeOK /\ HeldWorkers /\ run \in [Runs -> Dispatches] /\ gate \in [capacity : Nat \ {0}, inUse : Nat]
  BY DEF PoolInv, TypeOK
<1>1. /\ pool' = [e \in Envs |-> ClosedPool]
      /\ proc' = [p \in Procs |-> Blank]
      /\ run' = [r \in Runs |-> IF At(r, "ended") THEN run[r] ELSE [pc |-> "idle", proc |-> NoProc]]
      /\ gate' = [gate EXCEPT !.inUse = 0]
      /\ committed' = 0
      /\ call' = [c \in Calls |-> [pc |-> "idle", permit |-> FALSE]]
      /\ permits' = SubCap
  BY DEF Crash
<1>2. \A r \in Runs : run'[r].pc \in {"idle", "ended"} /\ run'[r].proc = NoProc
  BY <1>0, <1>1 DEF HeldWorkers, At, Dispatches
<1>3. \A e \in Envs : /\ pool'[e] = ClosedPool /\ pool'[e].idle = <<>> /\ DOMAIN pool'[e].idle = {}
                      /\ pool'[e].open = FALSE /\ pool'[e].all = {}
  BY <1>1 DEF ClosedPool
<1>4. TypeOK'
  <2>1. ClosedPool \in Pools
    <3>1. <<>> \in Seq(Procs)
      OBVIOUS
    <3> QED BY <3>1 DEF ClosedPool, Pools
  <2>2. gate' \in [capacity : Nat \ {0}, inUse : Nat]
    BY <1>0, <1>1
  <2>3. call' \in [Calls -> [pc : CallStates, permit : BOOLEAN]]
    BY <1>1 DEF CallStates
  <2>4. run' \in [Runs -> Dispatches]
    BY <1>0, <1>1 DEF Dispatches, RunStates
  <2> QED BY <1>1, <2>1, <2>2, <2>3, <2>4, BlankType DEF TypeOK
<1>5. SlotsConserved'
  <2>1. AdmittedRuns' = {} /\ PermittedCalls' = {}
    BY <1>1, <1>2 DEF AdmittedRuns, PermittedCalls, Admitted, Reserved
  <2>2. gate'.inUse = 0 /\ permits' = SubCap
    BY <1>0, <1>1
  <2> QED BY <1>3, <2>1, <2>2, FS_EmptySet DEF SlotsConserved
<1>6. PoolBounded' /\ NoSharedWorker' /\ IdleIsCurrent'
  BY <1>2, <1>3 DEF PoolBounded, NoSharedWorker, IdleIsCurrent
<1>7. HeldWorkers' /\ EnteredIsOwned' /\ UnopenedIsUnused'
  BY <1>2, <1>3 DEF HeldWorkers, EnteredIsOwned, UnopenedIsUnused, At
<1>8. PermitsAreUsed'
  BY <1>1 DEF PermitsAreUsed
<1>9. BudgetInv'
  <2>1. HeavyRuns' = {}
    BY <1>2 DEF HeavyRuns, Reserved
  <2>2. MemoryUnits' = {}
    BY <2>1 DEF MemoryUnits
  <2>3. Cardinality(HeavyRuns') = 0 /\ IsFiniteSet({}) /\ Cardinality({}) = 0
    BY <2>1, FS_EmptySet
  <2> QED BY <1>1, <1>4, <2>2, <2>3 DEF BudgetInv, ReservationsCounted, WithinBudget
<1> QED BY <1>4, <1>5, <1>6, <1>7, <1>8, <1>9 DEF PoolInv

(* What a directory holds is a configuration.                               *)
LEMMA PresentType ==
  ASSUME BuildInv, NEW e \in Envs
  PROVE  Present(e) \subseteq Images
<1>1. /\ env[e].disk \in Images \cup {NoImage}
      /\ \A x \in Builders \cup Runs : making[x] \in Images \cup {NoImage}
  BY DEF BuildInv, RowsOK, EnvRows
<1> QED BY <1>1 DEF Present

(* Every other step of the builds does to the pool what one of its own     *)
(* actions does, or nothing.                                               *)
LEMMA BuildIsPoolStep ==
  ASSUME BuildInv, [BuildNext]_vars, ~Crash
  PROVE  PoolStep
<1> USE DEF PoolStep
<1>1. ASSUME UNCHANGED poolVars PROVE PoolStep
  BY <1>1
<1>2. CASE UNCHANGED vars
  BY <1>2 DEF vars, poolVars
<1>3. ASSUME NEW e \in Envs, NEW config \in Images, RequestBuild(e, config) PROVE PoolStep
  BY <1>3, <1>1 DEF RequestBuild
<1>4. ASSUME NEW b \in Builders, Leases(b) PROVE PoolStep
  BY <1>4, <1>1 DEF Leases, Lease
<1>5. ASSUME NEW b \in Builders, TaskStep(b) PROVE PoolStep
  <2>1. CASE DrainPool(b)
    <3>1. builder[b].pc # "idle"
      BY <2>1 DEF DrainPool
    <3>2. JobEnv(b) \in Envs
      BY <3>1, TaskFacts
    <3>3. Drain(JobEnv(b)) \/ UNCHANGED poolVars
      BY <2>1 DEF DrainPool
    <3> QED BY <3>2, <3>3
  <2>2. CASE TaskEnds(b)
    <3>1. builder[b].pc # "idle"
      BY <2>2 DEF TaskEnds
    <3>2. JobEnv(b) \in Envs
      BY <3>1, TaskFacts
    <3>3. Unpause(JobEnv(b)) \/ UNCHANGED poolVars
      BY <2>2 DEF TaskEnds
    <3> QED BY <3>2, <3>3 DEF Next
  <2>3. CASE BeginJob(b) \/ TaskBuilds(b) \/ (\E ok \in BOOLEAN : TaskBuilt(b, ok)) \/ Record(b)
    BY <2>3, <1>1 DEF BeginJob, TaskBuilds, TaskBuilt, Record
  <2> QED BY <1>5, <2>1, <2>2, <2>3 DEF TaskStep
<1>6. ASSUME NEW b \in Builders, TaskFault(b) PROVE PoolStep
  BY <1>6, <1>1 DEF TaskFault, HeartbeatDies, RecordRaises, TaskRaises
<1>7. ASSUME NEW j \in Jobs, Sweep(j) PROVE PoolStep
  BY <1>7, <1>1 DEF Sweep
<1>8. ASSUME NEW r \in Runs, PoolRunStep(r) PROVE PoolStep
  BY <1>8 DEF PoolRunStep, Next
<1>9. ASSUME NEW r \in Runs, SpawnProgress(r) PROVE PoolStep
  <2>1. CASE EnvironmentReady(r) \/ SpawnBuilds(r)
    BY <2>1, <1>1 DEF EnvironmentReady, SpawnBuilds
  <2>2. ASSUME NEW ok \in BOOLEAN, SpawnBuilt(r, ok) PROVE PoolStep
    <3>1. SpawnFails(r) \/ UNCHANGED poolVars
      BY <2>2 DEF SpawnBuilt
    <3> QED BY <3>1 DEF Next, SpawnStep
  <2>3. ASSUME NEW p \in Procs, SpawnStarts(r, p) PROVE PoolStep
    <3>1. PICK image \in Present(EnvOf[r]) : StartWorker(r, p, image)
      BY <2>3 DEF SpawnStarts
    <3>2. Present(EnvOf[r]) \subseteq Images
      BY PresentType
    <3> QED BY <3>1, <3>2 DEF Next, SpawnStep, StartsWorker
  <2>4. CASE SpawnGivesUp(r)
    BY <2>4 DEF SpawnGivesUp, Next, SpawnStep
  <2> QED BY <1>9, <2>1, <2>2, <2>3, <2>4 DEF SpawnProgress
<1>10. ASSUME NEW p \in Procs, ProcessExits(p) PROVE PoolStep
  BY <1>10 DEF ProcessExits, Next
<1>11. ASSUME NEW c \in Ceilings, PoolResize(c) PROVE PoolStep
  BY <1>11 DEF PoolResize, Next
<1> QED BY <1>2, <1>3, <1>4, <1>5, <1>6, <1>7, <1>8, <1>9, <1>10, <1>11 DEF BuildNext

----------------------------------------------------------------------------
(* The rows                                                                *)

(* A request: what becomes of the row, of the jobs and of the queue.       *)
LEMMA RequestEffect ==
  ASSUME RowsOK, NEW e \in Envs, NEW config \in Images, RequestBuild(e, config)
  PROVE  /\ env' \in [Envs -> EnvRows] /\ job' \in [Jobs -> JobRows]
         /\ env'[e].config = config /\ env'[e].disk = env[e].disk
         /\ env'[e].status \in {env[e].status, "pending"}
         /\ \A f \in Envs \ {e} : env'[f] = env[f]
         /\ \A j \in Jobs :
              \/ job'[j] = job[j]
              \/ /\ job[j].status \in {"queued", "leased"} /\ job'[j].status = "superseded"
                 /\ job[j].env = e /\ job'[j].env = e
                 /\ job[j].config # config /\ job'[j].config = job[j].config
              \/ /\ job[j].status = "none" /\ job'[j].status = "queued"
                 /\ job'[j].env = e /\ job'[j].config = config /\ job'[j].attempts = 0
         /\ \/ \E j \in Active(e) : job[j].config = config
            \/ \E j \in Jobs : /\ job[j].status = "none" /\ job'[j].status = "queued"
                               /\ job'[j].env = e /\ job'[j].config = config /\ job'[j].attempts = 0
<1> DEFINE same == {j \in Active(e) : job[j].config = config}
           passed == {j \in Active(e) : \A i \in same : j < i}
           stale == {j \in passed : job[j].status \in {"queued", "leased"}}
           superseded == [j \in Jobs |-> IF j \in stale THEN [job[j] EXCEPT !.status = "superseded"]
                                         ELSE job[j]]
<1>0. env[e] \in EnvRows /\ job \in [Jobs -> JobRows] /\ env \in [Envs -> EnvRows]
  BY DEF RowsOK
<1>1. Enqueue(e, config)
  BY DEF RequestBuild
<1>2. \A j \in same : j \in Jobs /\ ~(j < j)
  BY JobsArePositive DEF Active
<1>3. \A j \in stale : /\ j \in Jobs /\ job[j].status \in {"queued", "leased"}
                       /\ job[j].env = e /\ job[j].config # config
  BY <1>2 DEF Active
<1>4. superseded \in [Jobs -> JobRows]
  <2>1. \A row \in JobRows : [row EXCEPT !.status = "superseded"] \in JobRows
    BY DEF JobRows, JobStatuses, TERMINAL_STATUSES
  <2> HIDE DEF stale
  <2> QED BY <1>0, <2>1
<1>5. ASSUME NEW j \in Jobs
      PROVE  \/ superseded[j] = job[j]
             \/ /\ job[j].status \in {"queued", "leased"} /\ superseded[j].status = "superseded"
                /\ job[j].env = e /\ superseded[j].env = e
                /\ job[j].config # config /\ superseded[j].config = job[j].config
  <2>1. CASE j \notin stale
    BY <2>1
  <2>2. CASE j \in stale
    <3>1. superseded[j] = [job[j] EXCEPT !.status = "superseded"] /\ job[j] \in JobRows
      BY <1>0, <2>2
    <3> HIDE DEF superseded
    <3> QED BY <1>3, <2>2, <3>1 DEF JobRows
  <2> QED BY <2>1, <2>2
<1>6. CASE same # {}
  <2>1. job' = superseded /\ env' = [env EXCEPT ![e].config = config]
    BY <1>1, <1>6 DEF Enqueue
  <2>2. env' \in [Envs -> EnvRows]
    BY <1>0, <2>1 DEF EnvRows
  <2>3. /\ env'[e].config = config /\ env'[e].disk = env[e].disk
        /\ env'[e].status = env[e].status /\ \A f \in Envs \ {e} : env'[f] = env[f]
    BY <1>0, <2>1 DEF EnvRows
  <2> HIDE DEF superseded
  <2> QED BY <1>4, <1>5, <1>6, <2>1, <2>2, <2>3
<1>7. CASE same = {}
  <2> DEFINE fresh == {j \in Jobs : job[j].status = "none"}
             row == [status |-> "queued", env |-> e, config |-> config, attempts |-> 0]
  <2>1. /\ env' = [env EXCEPT ![e].config = config, ![e].status = "pending"]
        /\ \E new \in fresh : job' = [superseded EXCEPT ![new] = row]
    BY <1>1, <1>7 DEF Enqueue
  <2>2. PICK new \in fresh : job' = [superseded EXCEPT ![new] = row]
    BY <2>1
  <2>3. env' \in [Envs -> EnvRows]
    BY <1>0, <2>1 DEF EnvRows, Statuses
  <2>4. /\ env'[e].config = config /\ env'[e].disk = env[e].disk
        /\ env'[e].status = "pending" /\ \A f \in Envs \ {e} : env'[f] = env[f]
    BY <1>0, <2>1 DEF EnvRows
  <2>5. row \in JobRows
    BY DEF JobRows, JobStatuses, ACTIVE_STATUSES
  <2> HIDE DEF superseded
  <2>6. job' \in [Jobs -> JobRows] /\ new \in Jobs /\ job[new].status = "none"
        /\ job'[new] = row /\ \A j \in Jobs \ {new} : job'[j] = superseded[j]
    BY <1>4, <2>2, <2>5
  <2>7. /\ job'[new].status = "queued" /\ job'[new].env = e
        /\ job'[new].config = config /\ job'[new].attempts = 0
    BY <2>6
  <2>8. \A j \in Jobs :
          \/ job'[j] = job[j]
          \/ /\ job[j].status \in {"queued", "leased"} /\ job'[j].status = "superseded"
             /\ job[j].env = e /\ job'[j].env = e
             /\ job[j].config # config /\ job'[j].config = job[j].config
          \/ /\ job[j].status = "none" /\ job'[j].status = "queued"
             /\ job'[j].env = e /\ job'[j].config = config /\ job'[j].attempts = 0
    <3> SUFFICES ASSUME NEW j \in Jobs, j # new
                 PROVE  \/ job'[j] = job[j]
                        \/ /\ job[j].status \in {"queued", "leased"}
                           /\ job'[j].status = "superseded"
                           /\ job[j].env = e /\ job'[j].env = e
                           /\ job[j].config # config /\ job'[j].config = job[j].config
      BY <2>6, <2>7
    <3>1. job'[j] = superseded[j]
      BY <2>6
    <3> QED BY ONLY <1>5, <3>1, j \in Jobs
  <2> QED BY <2>3, <2>4, <2>6, <2>7, <2>8
<1> QED BY <1>6, <1>7

(* A job changes its status, an environment its status.                    *)
LEMMA JobMove ==
  ASSUME RowsOK, NEW j \in Jobs, NEW s \in JobStatuses, job' = [job EXCEPT ![j].status = s]
  PROVE  /\ job' \in [Jobs -> JobRows]
         /\ job'[j].status = s /\ job'[j].env = job[j].env /\ job'[j].config = job[j].config
         /\ \A i \in Jobs \ {j} : job'[i] = job[i]
<1>1. job \in [Jobs -> JobRows] /\ job[j] \in JobRows
  BY DEF RowsOK
<1>2. [job[j] EXCEPT !.status = s] \in JobRows
  BY <1>1 DEF JobRows
<1>3. /\ job' \in [Jobs -> JobRows] /\ job'[j] = [job[j] EXCEPT !.status = s]
      /\ \A i \in Jobs \ {j} : job'[i] = job[i]
  BY <1>1, <1>2
<1> QED BY <1>1, <1>3 DEF JobRows

(* A change of status leaves the rest of the environment's row alone.       *)
LEMMA EnvMove ==
  ASSUME RowsOK, NEW e \in Envs, NEW t \in Statuses, env' = [env EXCEPT ![e].status = t]
  PROVE  /\ env' \in [Envs -> EnvRows]
         /\ env'[e].status = t /\ env'[e].config = env[e].config /\ env'[e].disk = env[e].disk
         /\ \A f \in Envs \ {e} : env'[f] = env[f]
<1>1. env \in [Envs -> EnvRows] /\ env[e] \in EnvRows
  BY DEF RowsOK
<1>2. [env[e] EXCEPT !.status = t] \in EnvRows
  BY <1>1 DEF EnvRows
<1>3. /\ env' \in [Envs -> EnvRows] /\ env'[e] = [env[e] EXCEPT !.status = t]
      /\ \A f \in Envs \ {e} : env'[f] = env[f]
  BY <1>1, <1>2
<1> QED BY <1>1, <1>3 DEF EnvRows

(* A failure of a job: it is queued again or has failed, and the           *)
(* environment is not ready.                                               *)
LEMMA FailEffect ==
  ASSUME RowsOK, NEW j \in Jobs, Fail(j)
  PROVE  LET e == job[j].env IN
         /\ env' \in [Envs -> EnvRows] /\ job' \in [Jobs -> JobRows] /\ e \in Envs
         /\ env'[e].config = env[e].config /\ env'[e].disk = env[e].disk
         /\ env'[e].status \in {"pending", "error"}
         /\ \A f \in Envs \ {e} : env'[f] = env[f]
         /\ job'[j].status \in {"queued", "failed"}
         /\ job[j].attempts < MaxAttempts[j] => job'[j].status = "queued"
         /\ job'[j].env = job[j].env /\ job'[j].config = job[j].config
         /\ \A i \in Jobs \ {j} : job'[i] = job[i]
<1>1. job[j].env \in Envs
  BY DEF RowsOK, JobRows
<1>2. PICK s \in {"queued", "failed"}, t \in {"pending", "error"} :
        /\ job' = [job EXCEPT ![j].status = s] /\ env' = [env EXCEPT ![job[j].env].status = t]
        /\ job[j].attempts < MaxAttempts[j] => s = "queued"
  BY DEF Fail
<1>3. s \in JobStatuses /\ t \in Statuses
  BY DEF JobStatuses, ACTIVE_STATUSES, TERMINAL_STATUSES, Statuses
<1>4. /\ job' \in [Jobs -> JobRows]
      /\ job'[j].status = s /\ job'[j].env = job[j].env /\ job'[j].config = job[j].config
      /\ \A i \in Jobs \ {j} : job'[i] = job[i]
  BY <1>2, <1>3, JobMove
<1>5. LET e == job[j].env IN
      /\ env' \in [Envs -> EnvRows]
      /\ env'[e].status = t /\ env'[e].config = env[e].config /\ env'[e].disk = env[e].disk
      /\ \A f \in Envs \ {e} : env'[f] = env[f]
  BY <1>1, <1>2, <1>3, EnvMove
<1> QED BY <1>1, <1>2, <1>4, <1>5

(* A completion, and the outcome a task records, or fails to record.       *)
LEMMA RecordEffect ==
  ASSUME BuildInv, NEW b \in Builders, Records(b)
  PROVE  LET j == builder[b].job
             e == JobEnv(b)
         IN
         /\ builder[b].pc = "record" /\ j \in Jobs /\ e \in Envs
         /\ env' \in [Envs -> EnvRows] /\ job' \in [Jobs -> JobRows]
         /\ builder' \in [Builders -> Tasks]
         /\ env'[e].config = env[e].config /\ env'[e].disk = env[e].disk
         /\ env'[e].status = env[e].status \/ env'[e].status \in {"pending", "error"}
         /\ \A f \in Envs \ {e} : env'[f] = env[f]
         /\ job'[j].status \in {"queued", "failed", "succeeded", job[j].status}
         /\ Record(b) => job'[j].status \in {"queued", "failed", "succeeded"}
         /\ job'[j].env = job[j].env /\ job'[j].config = job[j].config
         /\ \A i \in Jobs \ {j} : job'[i] = job[i]
         /\ \/ builder[b].beats /\ builder'[b].pc = "unpause" /\ builder'[b].job = j
            \/ ~ builder[b].beats /\ builder'[b].pc = "idle" /\ builder'[b].job = NoJob
         /\ \A c \in Builders \ {b} : builder'[c] = builder[c]
         /\ UNCHANGED <<awaiting, lock, making, resolved>>
<1> DEFINE j == builder[b].job
           e == JobEnv(b)
<1>1. builder[b].pc = "record" /\ RowsOK /\ UNCHANGED <<awaiting, lock, making, resolved>>
  BY DEF Records, Record, RecordRaises, BuildInv
<1>2. builder[b] \in Tasks /\ j \in Jobs /\ e \in Envs /\ e = job[j].env
  BY <1>1, TaskFacts DEF JobEnv
<1>3. /\ builder' \in [Builders -> Tasks]
      /\ \/ builder[b].beats /\ builder'[b].pc = "unpause" /\ builder'[b].job = j
         \/ ~ builder[b].beats /\ builder'[b].pc = "idle" /\ builder'[b].job = NoJob
      /\ \A c \in Builders \ {b} : builder'[c] = builder[c]
  <2> DEFINE open == [builder[b] EXCEPT !.pc = "unpause", !.beats = FALSE]
  <2>1. AfterOutcome(b) /\ builder \in [Builders -> Tasks]
    BY <1>1 DEF Records, Record, RecordRaises, RowsOK
  <2>2. open \in Tasks /\ open.pc = "unpause" /\ open.job = j
    BY <1>2 DEF Tasks, TaskStates
  <2>3. NoTask \in Tasks /\ NoTask.pc = "idle" /\ NoTask.job = NoJob
    BY DEF NoTask, Tasks, TaskStates
  <2>4. builder' = [builder EXCEPT ![b] = IF builder[b].beats THEN open ELSE NoTask]
    BY <2>1 DEF AfterOutcome
  <2> HIDE DEF open
  <2> QED BY <2>1, <2>2, <2>3, <2>4
<1>4. CASE Fail(j)
  <2>1. /\ env' \in [Envs -> EnvRows] /\ job' \in [Jobs -> JobRows]
        /\ env'[e].config = env[e].config /\ env'[e].disk = env[e].disk
        /\ env'[e].status \in {"pending", "error"}
        /\ \A f \in Envs \ {e} : env'[f] = env[f]
        /\ job'[j].status \in {"queued", "failed"}
        /\ job'[j].env = job[j].env /\ job'[j].config = job[j].config
        /\ \A i \in Jobs \ {j} : job'[i] = job[i]
    <3> HIDE DEF j, e
    <3> QED BY <1>1, <1>2, <1>4, FailEffect
  <2> QED
    <3> HIDE DEF j, e
    <3>1. /\ env'[e].status = env[e].status \/ env'[e].status \in {"pending", "error"}
          /\ job'[j].status \in {"queued", "failed", "succeeded", job[j].status}
          /\ job'[j].status \in {"queued", "failed", "succeeded"}
      BY <2>1
    <3>2. /\ builder[b].pc = "record" /\ j \in Jobs /\ e \in Envs
          /\ env' \in [Envs -> EnvRows] /\ job' \in [Jobs -> JobRows]
          /\ builder' \in [Builders -> Tasks]
          /\ env'[e].config = env[e].config /\ env'[e].disk = env[e].disk
          /\ env'[e].status = env[e].status \/ env'[e].status \in {"pending", "error"}
          /\ \A f \in Envs \ {e} : env'[f] = env[f]
          /\ job'[j].status \in {"queued", "failed", "succeeded", job[j].status}
          /\ Record(b) => job'[j].status \in {"queued", "failed", "succeeded"}
          /\ job'[j].env = job[j].env /\ job'[j].config = job[j].config
          /\ \A i \in Jobs \ {j} : job'[i] = job[i]
          /\ \/ builder[b].beats /\ builder'[b].pc = "unpause" /\ builder'[b].job = j
             \/ ~ builder[b].beats /\ builder'[b].pc = "idle" /\ builder'[b].job = NoJob
          /\ \A c \in Builders \ {b} : builder'[c] = builder[c]
          /\ UNCHANGED <<awaiting, lock, making, resolved>>
      BY <1>1, <1>2, <1>3, <2>1, <3>1
    <3> QED BY <3>2 DEF j, e
<1>5. CASE Complete(j)
  <2>1. job' = [job EXCEPT ![j].status = "succeeded"] /\ "succeeded" \in JobStatuses
    BY <1>5 DEF Complete, JobStatuses, TERMINAL_STATUSES
  <2>2. /\ job' \in [Jobs -> JobRows]
        /\ job'[j].status = "succeeded" /\ job'[j].env = job[j].env /\ job'[j].config = job[j].config
        /\ \A i \in Jobs \ {j} : job'[i] = job[i]
    BY <1>1, <1>2, <2>1, JobMove
  <2>3. CASE env' = env
    BY <1>1, <1>2, <1>3, <2>2, <2>3 DEF RowsOK
  <2>4. CASE env' = [env EXCEPT ![e].status = "pending"]
    <3>1. /\ env' \in [Envs -> EnvRows]
          /\ env'[e].status = "pending" /\ env'[e].config = env[e].config
          /\ env'[e].disk = env[e].disk
          /\ \A f \in Envs \ {e} : env'[f] = env[f]
      BY <1>1, <1>2, <2>4, EnvMove DEF Statuses
    <3> QED BY <1>1, <1>2, <1>3, <2>2, <3>1
  <2> QED BY <1>2, <1>5, <2>3, <2>4 DEF Complete
<1>6. CASE UNCHANGED <<job, env>> /\ ~ Fail(j) /\ ~ Complete(j)
  <2>1. ~ Record(b)
    BY <1>6 DEF Record
  <2> QED BY <1>1, <1>2, <1>3, <1>6, <2>1 DEF RowsOK
<1> QED BY <1>4, <1>5, <1>6 DEF Records, Record, RecordRaises

(* A job is leased by a task.                                              *)
LEMMA LeaseEffect ==
  ASSUME BuildInv, NEW b \in Builders, NEW j \in Jobs, Lease(b, j)
  PROVE  /\ builder[b].pc = "idle" /\ job[j].status = "queued"
         /\ job' \in [Jobs -> JobRows] /\ builder' \in [Builders -> Tasks]
         /\ job'[j].status = "leased" /\ job'[j].env = job[j].env /\ job'[j].config = job[j].config
         /\ job'[j].attempts = job[j].attempts + 1
         /\ \A i \in Jobs \ {j} : job'[i] = job[i]
         /\ builder'[b].pc = "begin" /\ builder'[b].job = j /\ builder'[b].beats
         /\ \A c \in Builders \ {b} : builder'[c] = builder[c]
         /\ UNCHANGED <<poolVars, env, awaiting, lock, making, resolved, faults>>
<1>1. /\ job \in [Jobs -> JobRows] /\ job[j] \in JobRows /\ builder \in [Builders -> Tasks]
  BY DEF BuildInv, RowsOK
<1>2. /\ job' = [job EXCEPT ![j].status = "leased", ![j].attempts = @ + 1]
      /\ builder' = [builder EXCEPT ![b] = [pc |-> "begin", job |-> j, beats |-> TRUE]]
  BY DEF Lease
<1>3. /\ [job[j] EXCEPT !.status = "leased", !.attempts = @ + 1] \in JobRows
      /\ [pc |-> "begin", job |-> j, beats |-> TRUE] \in Tasks
  <2>1. job[j].attempts \in Nat /\ "leased" \in JobStatuses /\ "begin" \in TaskStates
    BY <1>1 DEF JobRows, JobStatuses, ACTIVE_STATUSES, TaskStates
  <2>2. job[j].attempts + 1 \in Nat
    BY <2>1
  <2>3. [job[j] EXCEPT !.status = "leased", !.attempts = job[j].attempts + 1] \in JobRows
    BY <1>1, <2>1, <2>2 DEF JobRows
  <2>4. [pc |-> "begin", job |-> j, beats |-> TRUE] \in Tasks
    BY <2>1 DEF Tasks
  <2> QED BY <2>3, <2>4
<1>4. /\ job' \in [Jobs -> JobRows]
      /\ job'[j] = [job[j] EXCEPT !.status = "leased", !.attempts = @ + 1]
      /\ \A i \in Jobs \ {j} : job'[i] = job[i]
  BY <1>1, <1>2, <1>3
<1>5. /\ builder' \in [Builders -> Tasks] /\ builder'[b] = [pc |-> "begin", job |-> j, beats |-> TRUE]
      /\ \A c \in Builders \ {b} : builder'[c] = builder[c]
  BY <1>1, <1>2, <1>3
<1> QED BY <1>1, <1>4, <1>5 DEF Lease, JobRows

(* A task goes to another place, or ends.                                  *)
LEMMA TaskMove ==
  ASSUME RowsOK, NEW b \in Builders, NEW pc \in TaskStates, Task(b, pc)
  PROVE  /\ builder' \in [Builders -> Tasks]
         /\ builder'[b].pc = pc /\ builder'[b].job = builder[b].job
         /\ builder'[b].beats = builder[b].beats
         /\ \A c \in Builders \ {b} : builder'[c] = builder[c]
<1>1. builder \in [Builders -> Tasks] /\ builder' = [builder EXCEPT ![b].pc = pc]
  BY DEF RowsOK, Task
<1> QED BY <1>1 DEF Tasks

(* A task that ends forgets its job.                                        *)
LEMMA TaskStops ==
  ASSUME RowsOK, NEW b \in Builders, builder' = [builder EXCEPT ![b] = NoTask]
  PROVE  /\ builder' \in [Builders -> Tasks]
         /\ builder'[b].pc = "idle" /\ builder'[b].job = NoJob /\ builder'[b].beats = FALSE
         /\ \A c \in Builders \ {b} : builder'[c] = builder[c]
<1>1. builder \in [Builders -> Tasks]
  BY DEF RowsOK
<1>2. NoTask \in Tasks
  BY DEF NoTask, Tasks, TaskStates
<1> QED BY <1>1, <1>2 DEF NoTask

(* The first transaction of a task: it ends, or its job runs.              *)
LEMMA BeginEffect ==
  ASSUME BuildInv, NEW b \in Builders, BeginJob(b)
  PROVE  LET j == builder[b].job
             e == JobEnv(b)
         IN
         /\ builder[b].pc = "begin" /\ j \in Jobs /\ e \in Envs
         /\ env' \in [Envs -> EnvRows] /\ job' \in [Jobs -> JobRows]
         /\ builder' \in [Builders -> Tasks]
         /\ env'[e].config = env[e].config /\ env'[e].disk = env[e].disk
         /\ env'[e].status = env[e].status \/ env'[e].status \in {"pending", "building"}
         /\ \A f \in Envs \ {e} : env'[f] = env[f]
         /\ job'[j].env = job[j].env /\ job'[j].config = job[j].config
         /\ \A i \in Jobs \ {j} : job'[i] = job[i]
         /\ \A c \in Builders \ {b} : builder'[c] = builder[c]
         /\ \/ /\ job[j].status \notin ACTIVE_STATUSES /\ job'[j] = job[j]
               /\ builder'[b].pc = "idle" /\ builder'[b].job = NoJob
            \/ /\ job[j].status \in ACTIVE_STATUSES /\ env[e].config # job[j].config
               /\ job'[j].status = "superseded"
               /\ builder'[b].pc = "idle" /\ builder'[b].job = NoJob
            \/ /\ job[j].status \in ACTIVE_STATUSES /\ env[e].config = job[j].config
               /\ job'[j].status = "running"
               /\ builder'[b].pc = "drain" /\ builder'[b].job = j
               /\ builder'[b].beats = builder[b].beats
         /\ UNCHANGED <<poolVars, awaiting, lock, making, resolved, faults>>
<1> DEFINE j == builder[b].job
           e == JobEnv(b)
<1>1. builder[b].pc = "begin" /\ RowsOK
  BY DEF BeginJob, BuildInv
<1>2. builder[b] \in Tasks /\ j \in Jobs /\ e \in Envs /\ e = job[j].env
  BY <1>1, TaskFacts DEF JobEnv
<1>3. /\ UNCHANGED <<poolVars, awaiting, lock, making, resolved, faults>>
      /\ env \in [Envs -> EnvRows] /\ job \in [Jobs -> JobRows]
  BY <1>1 DEF BeginJob, RowsOK
<1>4. CASE /\ job[j].status \notin ACTIVE_STATUSES
           /\ builder' = [builder EXCEPT ![b] = NoTask]
           /\ UNCHANGED <<env, job>>
  BY <1>1, <1>2, <1>3, <1>4, TaskStops
<1>5. CASE /\ job[j].status \in ACTIVE_STATUSES
           /\ env[e].config # job[j].config
           /\ job' = [job EXCEPT ![j].status = "superseded"]
           /\ env' = IF _has_other_active_job(j) THEN [env EXCEPT ![e].status = "pending"] ELSE env
           /\ builder' = [builder EXCEPT ![b] = NoTask]
  <2>1. "superseded" \in JobStatuses /\ "pending" \in Statuses
    BY DEF JobStatuses, TERMINAL_STATUSES, Statuses
  <2>2. /\ job' \in [Jobs -> JobRows] /\ job'[j].status = "superseded"
        /\ job'[j].env = job[j].env /\ job'[j].config = job[j].config
        /\ \A i \in Jobs \ {j} : job'[i] = job[i]
    BY <1>1, <1>2, <1>5, <2>1, JobMove, ZenonT(60)
  <2>3. /\ env' \in [Envs -> EnvRows]
        /\ env'[e].config = env[e].config /\ env'[e].disk = env[e].disk
        /\ env'[e].status = env[e].status \/ env'[e].status \in {"pending", "building"}
        /\ \A f \in Envs \ {e} : env'[f] = env[f]
    <3>1. CASE env' = env
      BY <1>3, <3>1
    <3>2. CASE env' = [env EXCEPT ![e].status = "pending"]
      BY <1>1, <1>2, <2>1, <3>2, EnvMove
    <3> QED BY <1>5, <3>1, <3>2
  <2> QED BY <1>1, <1>2, <1>3, <1>5, <2>2, <2>3, TaskStops
<1>6. CASE /\ job[j].status \in ACTIVE_STATUSES
           /\ env[e].config = job[j].config
           /\ job' = [job EXCEPT ![j].status = "running"]
           /\ env' = [env EXCEPT ![e].status = "building"]
           /\ Task(b, "drain")
  <2>1. "running" \in JobStatuses /\ "building" \in Statuses /\ "drain" \in TaskStates
    BY DEF JobStatuses, ACTIVE_STATUSES, Statuses, TaskStates
  <2>2. /\ job' \in [Jobs -> JobRows] /\ job'[j].status = "running"
        /\ job'[j].env = job[j].env /\ job'[j].config = job[j].config
        /\ \A i \in Jobs \ {j} : job'[i] = job[i]
    BY <1>1, <1>2, <1>6, <2>1, JobMove
  <2>3. /\ env' \in [Envs -> EnvRows] /\ env'[e].status = "building"
        /\ env'[e].config = env[e].config /\ env'[e].disk = env[e].disk
        /\ \A f \in Envs \ {e} : env'[f] = env[f]
    BY <1>1, <1>2, <1>6, <2>1, EnvMove
  <2>4. /\ builder' \in [Builders -> Tasks]
        /\ builder'[b].pc = "drain" /\ builder'[b].job = j
        /\ builder'[b].beats = builder[b].beats
        /\ \A c \in Builders \ {b} : builder'[c] = builder[c]
    BY <1>1, <1>6, <2>1, TaskMove
  <2> QED BY <1>1, <1>2, <1>3, <1>6, <2>2, <2>3, <2>4
<1>7. \/ /\ job[j].status \notin ACTIVE_STATUSES
         /\ builder' = [builder EXCEPT ![b] = NoTask]
         /\ UNCHANGED <<env, job>>
      \/ /\ job[j].status \in ACTIVE_STATUSES
         /\ env[e].config # job[j].config
         /\ job' = [job EXCEPT ![j].status = "superseded"]
         /\ env' = IF _has_other_active_job(j) THEN [env EXCEPT ![e].status = "pending"] ELSE env
         /\ builder' = [builder EXCEPT ![b] = NoTask]
      \/ /\ job[j].status \in ACTIVE_STATUSES
         /\ env[e].config = job[j].config
         /\ job' = [job EXCEPT ![j].status = "running"]
         /\ env' = [env EXCEPT ![e].status = "building"]
         /\ Task(b, "drain")
  BY DEF BeginJob, JobEnv
<1> QED BY <1>4, <1>5, <1>6, <1>7

(* A build starts: it reads the configuration, and the directory is gone.   *)
LEMMA StartEffect ==
  ASSUME RowsOK, NEW x \in Builders \cup Runs, NEW e \in Envs, StartBuild(x, e)
  PROVE  /\ env' \in [Envs -> EnvRows] /\ making' \in [Builders \cup Runs -> Images \cup {NoImage}]
         /\ making'[x] = env[e].config /\ env'[e].config = env[e].config
         /\ env'[e].status = "building" /\ env'[e].disk = NoImage
         /\ \A f \in Envs \ {e} : env'[f] = env[f]
         /\ \A y \in (Builders \cup Runs) \ {x} : making'[y] = making[y]
<1>1. /\ env \in [Envs -> EnvRows] /\ env[e] \in EnvRows /\ env[e].config \in Images
      /\ making \in [Builders \cup Runs -> Images \cup {NoImage}]
  BY DEF RowsOK, EnvRows
<1>2. [env[e] EXCEPT !.status = "building", !.disk = NoImage] \in EnvRows
  BY <1>1 DEF EnvRows, Statuses
<1>3. /\ env' \in [Envs -> EnvRows]
      /\ env'[e] = [env[e] EXCEPT !.status = "building", !.disk = NoImage]
      /\ \A f \in Envs \ {e} : env'[f] = env[f]
  BY <1>1, <1>2 DEF StartBuild
<1>4. /\ making' \in [Builders \cup Runs -> Images \cup {NoImage}] /\ making'[x] = env[e].config
      /\ \A y \in (Builders \cup Runs) \ {x} : making'[y] = making[y]
  BY <1>1 DEF StartBuild
<1> QED BY <1>1, <1>3, <1>4 DEF EnvRows

(* A build ends: its outcome goes to the row, what it made to the directory. *)
LEMMA EndEffect ==
  ASSUME RowsOK, NEW x \in Builders \cup Runs, NEW e \in Envs, NEW ok \in BOOLEAN,
         EndBuild(x, e, ok)
  PROVE  /\ env' \in [Envs -> EnvRows] /\ making' \in [Builders \cup Runs -> Images \cup {NoImage}]
         /\ env'[e].config = env[e].config
         /\ env'[e].status = "ready" => ok /\ env'[e].disk = making[x]
         /\ \A f \in Envs \ {e} : env'[f] = env[f]
         /\ \A y \in (Builders \cup Runs) \ {x} : making'[y] = making[y]
<1> DEFINE status == IF ok THEN "ready" ELSE "error"
           disk == IF ok THEN making[x] ELSE NoImage
<1>1. /\ env \in [Envs -> EnvRows] /\ env[e] \in EnvRows
      /\ making \in [Builders \cup Runs -> Images \cup {NoImage}]
      /\ making[x] \in Images \cup {NoImage}
  BY DEF RowsOK
<1>2. status \in Statuses /\ disk \in Images \cup {NoImage}
  BY <1>1 DEF Statuses
<1>3. /\ env' = [env EXCEPT ![e].status = status, ![e].disk = disk]
      /\ making' = [making EXCEPT ![x] = NoImage]
  BY DEF EndBuild
<1>4. (status = "ready") => ok /\ disk = making[x]
  OBVIOUS
<1> HIDE DEF status, disk
<1>5. [env[e] EXCEPT !.status = status, !.disk = disk] \in EnvRows
  BY <1>1, <1>2 DEF EnvRows
<1>6. /\ env' \in [Envs -> EnvRows] /\ env'[e] = [env[e] EXCEPT !.status = status, !.disk = disk]
      /\ \A f \in Envs \ {e} : env'[f] = env[f]
  BY <1>1, <1>3, <1>5
<1>7. /\ making' \in [Builders \cup Runs -> Images \cup {NoImage}]
      /\ \A y \in (Builders \cup Runs) \ {x} : making'[y] = making[y]
  BY <1>1, <1>3
<1>8. env'[e].config = env[e].config /\ env'[e].status = status /\ env'[e].disk = disk
  BY <1>1, <1>6 DEF EnvRows
<1> QED BY <1>4, <1>6, <1>7, <1>8

(* Taking and freeing the build lock.                                      *)
LEMMA LockType ==
  ASSUME RowsOK, NEW x \in Builders \cup Runs, NEW e \in Envs, NEW h \in {x, Free},
         LockTo(x, e, h)
  PROVE  lock' \in [Envs -> {Free} \cup Local \cup Runs]
<1>1. lock \in [Envs -> {Free} \cup Local \cup Runs]
  BY DEF RowsOK
<1> QED BY <1>1 DEF LockTo

(* The steps of a task that only move it and touch the environment.         *)
LEMMA TaskAdvances ==
  ASSUME BuildInv, NEW b \in Builders,
         DrainPool(b) \/ TaskBuilds(b) \/ \E ok \in BOOLEAN : TaskBuilt(b, ok)
  PROVE  /\ job' = job /\ faults' = faults /\ resolved' = resolved
         /\ builder[b].job \in Jobs /\ JobEnv(b) \in Envs
         /\ builder' \in [Builders -> Tasks]
         /\ builder'[b].job = builder[b].job /\ builder'[b].beats = builder[b].beats
         /\ \A c \in Builders \ {b} : builder'[c] = builder[c]
         /\ \/ DrainPool(b) /\ builder[b].pc = "drain" /\ builder'[b].pc = "build"
            \/ TaskBuilds(b) /\ builder[b].pc = "build" /\ builder'[b].pc = "building"
            \/ /\ \E ok \in BOOLEAN : TaskBuilt(b, ok)
               /\ builder[b].pc = "building" /\ builder'[b].pc = "record"
<1>1. RowsOK /\ {"build", "building", "record"} \subseteq TaskStates
  BY DEF BuildInv, TaskStates
<1>2. CASE DrainPool(b)
  <2>1. builder[b].pc = "drain" /\ Task(b, "build") /\ UNCHANGED <<job, faults, resolved>>
    BY <1>2 DEF DrainPool
  <2> QED BY <1>1, <1>2, <2>1, TaskMove, TaskFacts
<1>3. CASE TaskBuilds(b)
  <2>1. builder[b].pc = "build" /\ Task(b, "building") /\ UNCHANGED <<job, faults, resolved>>
    BY <1>3 DEF TaskBuilds
  <2> QED BY <1>1, <1>3, <2>1, TaskMove, TaskFacts
<1>4. CASE \E ok \in BOOLEAN : TaskBuilt(b, ok)
  <2>1. builder[b].pc = "building" /\ Task(b, "record") /\ UNCHANGED <<job, faults, resolved>>
    BY <1>4 DEF TaskBuilt
  <2> QED BY <1>1, <1>4, <2>1, TaskMove, TaskFacts
<1> QED BY <1>2, <1>3, <1>4

(* A heartbeat ends: nothing else of the task changes.                      *)
LEMMA HeartbeatEffect ==
  ASSUME RowsOK, NEW b \in Builders, HeartbeatDies(b)
  PROVE  /\ builder' \in [Builders -> Tasks]
         /\ builder[b].pc # "begin" /\ builder'[b].pc = builder[b].pc
         /\ builder'[b].job = builder[b].job
         /\ \A c \in Builders \ {b} : builder'[c] = builder[c]
<1>1. /\ builder \in [Builders -> Tasks] /\ builder' = [builder EXCEPT ![b].beats = FALSE]
      /\ builder[b].pc # "begin"
  BY DEF RowsOK, HeartbeatDies
<1>2. builder' \in [Builders -> Tasks]
  <2>1. /\ builder[b] \in Tasks /\ builder'[b] = [builder[b] EXCEPT !.beats = FALSE]
        /\ \A c \in Builders \ {b} : builder'[c] = builder[c]
    BY <1>1
  <2>2. builder[b] = [pc |-> builder[b].pc, job |-> builder[b].job, beats |-> builder[b].beats]
        /\ builder[b].pc \in TaskStates /\ builder[b].job \in Jobs \cup {NoJob}
    BY <2>1 DEF Tasks
  <2>3. builder'[b] = [pc |-> builder[b].pc, job |-> builder[b].job, beats |-> FALSE]
    BY <2>1, <2>2
  <2>4. builder'[b] \in Tasks
    BY <2>2, <2>3 DEF Tasks
  <2> QED BY <1>1, <2>4
<1>3. builder'[b].pc = builder[b].pc /\ builder'[b].job = builder[b].job
  BY <1>1 DEF Tasks
<1> QED BY <1>1, <1>2, <1>3

(* The steps of a spawn and of the pool leave the queue alone.              *)
LEMMA PoolLeavesQueue ==
  ASSUME \/ \E r \in Runs : PoolRunStep(r) \/ SpawnProgress(r)
         \/ \E p \in Procs : ProcessExits(p)
         \/ \E c \in Ceilings : PoolResize(c)
  PROVE  UNCHANGED <<job, builder, faults>>
BY DEF PoolRunStep, SpawnProgress, EnvironmentReady, SpawnBuilds, SpawnBuilt, SpawnStarts,
       SpawnGivesUp, ProcessExits, PoolResize, buildVars

(* The rows keep their types.                                              *)
LEMMA RowsStep ==
  ASSUME BuildInv, [BuildNext]_vars
  PROVE  RowsOK'
<1>0. /\ RowsOK /\ env \in [Envs -> EnvRows] /\ job \in [Jobs -> JobRows]
      /\ builder \in [Builders -> Tasks] /\ awaiting \in [Builders -> SUBSET Procs]
      /\ lock \in [Envs -> {Free} \cup Local \cup Runs]
      /\ making \in [Builders \cup Runs -> Images \cup {NoImage}] /\ resolved \subseteq Runs
  BY DEF BuildInv, RowsOK
<1>1. CASE UNCHANGED vars
  BY <1>0, <1>1 DEF vars, buildVars, RowsOK
<1>2. ASSUME NEW e \in Envs, NEW config \in Images, RequestBuild(e, config) PROVE RowsOK'
  <2>1. env' \in [Envs -> EnvRows] /\ job' \in [Jobs -> JobRows]
    BY <1>0, <1>2, RequestEffect
  <2>2. UNCHANGED <<builder, awaiting, lock, making, resolved>>
    BY <1>2 DEF RequestBuild
  <2> QED BY <1>0, <2>1, <2>2 DEF RowsOK
<1>3. ASSUME NEW b \in Builders, NEW j \in Jobs, Lease(b, j) PROVE RowsOK'
  BY <1>0, <1>3, LeaseEffect DEF RowsOK
<1>4. ASSUME NEW b \in Builders, BeginJob(b) PROVE RowsOK'
  BY <1>0, <1>4, BeginEffect DEF RowsOK
<1>5. ASSUME NEW b \in Builders, DrainPool(b) PROVE RowsOK'
  <2>1. /\ UNCHANGED <<env, job, lock, making, resolved>>
        /\ \/ UNCHANGED awaiting
           \/ awaiting' = [awaiting EXCEPT ![b] = {p \in ToClose(JobEnv(b)) : Alive(p)}]
    BY <1>5 DEF DrainPool
  <2>2. builder' \in [Builders -> Tasks] /\ JobEnv(b) \in Envs
    BY <1>5, TaskAdvances
  <2>3. {p \in ToClose(JobEnv(b)) : Alive(p)} \subseteq Procs
    <3>1. PoolInv /\ pool[JobEnv(b)].all \subseteq Procs
      BY <2>2 DEF BuildInv, PoolInv, TypeOK, Pools
    <3>2. DroppedAbove(JobEnv(b), 0) \subseteq Procs
      BY <2>2, <3>1, IdleFacts DEF DroppedAbove
    <3> QED BY <3>1, <3>2 DEF ToClose
  <2> DEFINE drained == {p \in ToClose(JobEnv(b)) : Alive(p)}
  <2>4. awaiting' \in [Builders -> SUBSET Procs]
    <3>1. drained \in SUBSET Procs /\ (awaiting' = awaiting \/ awaiting' = [awaiting EXCEPT ![b] = drained])
      BY <2>1, <2>3
    <3> QED BY ONLY <1>0, <3>1, b \in Builders
  <2> QED BY <1>0, <2>1, <2>2, <2>4 DEF RowsOK
<1>6. ASSUME NEW b \in Builders, TaskBuilds(b) PROVE RowsOK'
  <2>1. UNCHANGED <<job, awaiting, resolved>> /\ StartBuild(b, JobEnv(b)) /\ LockTo(b, JobEnv(b), b)
    BY <1>6 DEF TaskBuilds
  <2>2. builder' \in [Builders -> Tasks] /\ JobEnv(b) \in Envs
    BY <1>6, TaskAdvances
  <2>3. /\ env' \in [Envs -> EnvRows]
        /\ making' \in [Builders \cup Runs -> Images \cup {NoImage}]
    BY <1>0, <2>1, <2>2, StartEffect
  <2>4. lock' \in [Envs -> {Free} \cup Local \cup Runs]
    BY <1>0, <2>1, <2>2, LockType
  <2> QED BY <1>0, <2>1, <2>2, <2>3, <2>4 DEF RowsOK
<1>7. ASSUME NEW b \in Builders, NEW ok \in BOOLEAN, TaskBuilt(b, ok) PROVE RowsOK'
  <2>1. UNCHANGED <<job, awaiting, resolved>> /\ EndBuild(b, JobEnv(b), ok) /\ LockTo(b, JobEnv(b), Free)
    BY <1>7 DEF TaskBuilt
  <2>2. builder' \in [Builders -> Tasks] /\ JobEnv(b) \in Envs
    BY <1>7, TaskAdvances
  <2>3. /\ env' \in [Envs -> EnvRows]
        /\ making' \in [Builders \cup Runs -> Images \cup {NoImage}]
    BY <1>0, <2>1, <2>2, EndEffect, SMTT(60)
  <2>4. lock' \in [Envs -> {Free} \cup Local \cup Runs]
    BY <1>0, <2>1, <2>2, LockType
  <2> QED BY <1>0, <2>1, <2>2, <2>3, <2>4 DEF RowsOK
<1>8. ASSUME NEW b \in Builders, Records(b) PROVE RowsOK'
  <2>1. /\ env' \in [Envs -> EnvRows] /\ job' \in [Jobs -> JobRows]
        /\ builder' \in [Builders -> Tasks]
        /\ UNCHANGED <<awaiting, lock, making, resolved>>
    BY <1>8, RecordEffect
  <2> QED BY <1>0, <2>1 DEF RowsOK
<1>9. ASSUME NEW b \in Builders, Ends(b) PROVE RowsOK'
  <2>1. /\ UNCHANGED <<env, job, awaiting, lock, making, resolved>>
        /\ builder' = [builder EXCEPT ![b] = NoTask]
    BY <1>9 DEF Ends, TaskEnds, TaskRaises
  <2>2. builder' \in [Builders -> Tasks]
    BY <1>0, <2>1, TaskStops
  <2> QED BY <1>0, <2>1, <2>2 DEF RowsOK
<1>10. ASSUME NEW b \in Builders, HeartbeatDies(b) PROVE RowsOK'
  <2>1. UNCHANGED <<env, job, awaiting, lock, making, resolved>>
    BY <1>10 DEF HeartbeatDies
  <2>2. builder' \in [Builders -> Tasks]
    BY <1>0, <1>10, HeartbeatEffect
  <2> QED BY <1>0, <2>1, <2>2 DEF RowsOK
<1>11. ASSUME NEW j \in Jobs, Sweep(j) PROVE RowsOK'
  <2>1. Fail(j) /\ UNCHANGED <<builder, awaiting, lock, making, resolved>>
    BY <1>11 DEF Sweep
  <2>2. env' \in [Envs -> EnvRows] /\ job' \in [Jobs -> JobRows]
    BY <1>0, <2>1, FailEffect
  <2> QED BY <1>0, <2>1, <2>2 DEF RowsOK
<1>12. ASSUME NEW r \in Runs, PoolRunStep(r) PROVE RowsOK'
  BY <1>0, <1>12 DEF PoolRunStep, buildVars, RowsOK
<1>13. ASSUME NEW r \in Runs, SpawnProgress(r) PROVE RowsOK'
  <2>0. EnvOf[r] \in Envs /\ UNCHANGED <<job, builder, awaiting>>
    BY <1>13 DEF SpawnProgress, EnvironmentReady, SpawnBuilds, SpawnBuilt, SpawnStarts,
                 SpawnGivesUp
  <2>1. CASE EnvironmentReady(r) \/ \E p \in Procs : SpawnStarts(r, p)
    <3>1. UNCHANGED <<env, lock, making>> /\ resolved' \subseteq resolved \cup {r}
      BY <2>1 DEF EnvironmentReady, SpawnStarts
    <3> QED BY <1>0, <2>0, <3>1 DEF RowsOK
  <2>2. CASE SpawnBuilds(r)
    <3>1. StartBuild(r, EnvOf[r]) /\ lock' = [lock EXCEPT ![EnvOf[r]] = r] /\ UNCHANGED resolved
      BY <2>2 DEF SpawnBuilds
    <3>2. /\ env' \in [Envs -> EnvRows]
          /\ making' \in [Builders \cup Runs -> Images \cup {NoImage}]
      BY <1>0, <2>0, <3>1, StartEffect
    <3> QED BY <1>0, <2>0, <3>1, <3>2 DEF RowsOK
  <2>3. ASSUME NEW ok \in BOOLEAN, SpawnBuilt(r, ok) PROVE RowsOK'
    <3>1. /\ EndBuild(r, EnvOf[r], ok) /\ lock' = [lock EXCEPT ![EnvOf[r]] = Free]
          /\ resolved' \subseteq resolved \cup {r}
      BY <2>3 DEF SpawnBuilt
    <3>2. /\ env' \in [Envs -> EnvRows]
          /\ making' \in [Builders \cup Runs -> Images \cup {NoImage}]
      <4>1. r \in Builders \cup Runs /\ RowsOK /\ EnvOf[r] \in Envs /\ EndBuild(r, EnvOf[r], ok)
        BY <1>0, <2>0, <3>1
      <4> QED BY ONLY <4>1, ok \in BOOLEAN, EndEffect
    <3> QED BY <1>0, <2>0, <3>1, <3>2 DEF RowsOK
  <2>4. CASE SpawnGivesUp(r)
    <3>1. /\ UNCHANGED env /\ resolved' = resolved \ {r}
          /\ lock' \in {lock, [lock EXCEPT ![EnvOf[r]] = Free]}
          /\ making' = [making EXCEPT ![r] = NoImage]
      BY <2>4 DEF SpawnGivesUp
    <3> QED BY <1>0, <2>0, <3>1 DEF RowsOK
  <2> QED BY <1>13, <2>1, <2>2, <2>3, <2>4 DEF SpawnProgress
<1>14. ASSUME NEW p \in Procs, ProcessExits(p) PROVE RowsOK'
  BY <1>0, <1>14 DEF ProcessExits, RowsOK
<1>15. ASSUME NEW c \in Ceilings, PoolResize(c) PROVE RowsOK'
  BY <1>0, <1>15 DEF PoolResize, buildVars, RowsOK
<1>16. CASE Crash
  <2>1. /\ builder' = [b \in Builders |-> IF b \in Local THEN NoTask ELSE builder[b]]
        /\ awaiting' = [b \in Builders |-> {}]
        /\ lock' = [e \in Envs |-> Free]
        /\ making' = [x \in Builders \cup Runs |->
                        IF x \in Builders \ Local THEN making[x] ELSE NoImage]
        /\ resolved' = {}
        /\ UNCHANGED <<env, job>>
    BY <1>16 DEF Crash
  <2>2. NoTask \in Tasks
    BY DEF NoTask, Tasks, TaskStates
  <2>3. builder' \in [Builders -> Tasks]
    BY <1>0, <2>1, <2>2
  <2> QED BY <1>0, <2>1, <2>3 DEF RowsOK
<1>17. ASSUME NEW b \in Builders, TaskStep(b) \/ TaskFault(b) PROVE RowsOK'
  BY <1>4, <1>5, <1>6, <1>7, <1>8, <1>9, <1>10, <1>17, Zenon
  DEF TaskStep, TaskFault, Records, Ends
<1>18. ASSUME NEW b \in Builders, Leases(b) PROVE RowsOK'
  BY <1>3, <1>18, Zenon DEF Leases
<1>19. CASE BuildNext
  BY <1>2, <1>11, <1>12, <1>13, <1>14, <1>15, <1>16, <1>17, <1>18, <1>19, Zenon
  DEF BuildNext
<1> QED BY <1>1, <1>19

----------------------------------------------------------------------------
(* Tasks and their jobs                                                    *)

(* The job of a task at work.                                              *)
LEMMA KnownJobs ==
  ASSUME TasksHaveJobs, RowsOK, NEW c \in Builders
  PROVE  /\ builder[c].pc = "idle" <=> builder[c].job = NoJob
         /\ builder[c].pc # "idle" => builder[c].job \in Jobs /\ job[builder[c].job].status # "none"
         /\ builder[c].pc = "begin" => builder[c].beats
BY DEF TasksHaveJobs, RowsOK, Tasks

(* No task moves: it is enough that no job is forgotten.                    *)
LEMMA TasksStay ==
  ASSUME TasksHaveJobs, RowsOK, UNCHANGED builder,
         \A j \in Jobs : job[j].status # "none" => job'[j].status # "none"
  PROVE  TasksHaveJobs'
<1>1. ASSUME NEW c \in Builders
      PROVE  /\ builder'[c].pc = "idle" <=> builder'[c].job = NoJob
             /\ builder'[c].pc # "idle" => job'[builder'[c].job].status # "none"
             /\ builder'[c].pc = "begin" => builder'[c].beats
  BY KnownJobs
<1> QED BY <1>1 DEF TasksHaveJobs

(* One task moves, and no job is forgotten.                                 *)
LEMMA TasksMove ==
  ASSUME TasksHaveJobs, RowsOK, NEW b \in Builders,
         \A c \in Builders \ {b} : builder'[c] = builder[c],
         builder'[b].pc = "idle" <=> builder'[b].job = NoJob,
         builder'[b].pc # "idle" => job'[builder'[b].job].status # "none",
         builder'[b].pc = "begin" => builder'[b].beats,
         \A j \in Jobs : job[j].status # "none" => job'[j].status # "none"
  PROVE  TasksHaveJobs'
<1>1. ASSUME NEW c \in Builders
      PROVE  /\ builder'[c].pc = "idle" <=> builder'[c].job = NoJob
             /\ builder'[c].pc # "idle" => job'[builder'[c].job].status # "none"
             /\ builder'[c].pc = "begin" => builder'[c].beats
  <2>1. CASE c = b
    BY <2>1
  <2>2. CASE c # b
    <3>1. builder'[c] = builder[c]
      BY <2>2
    <3> QED BY <3>1, KnownJobs, ZenonT(60)
  <2> QED BY <2>1, <2>2
<1> QED BY <1>1 DEF TasksHaveJobs

(* Every step keeps tasks and jobs tied.                                    *)
LEMMA TasksStep ==
  ASSUME BuildInv, [BuildNext]_vars
  PROVE  TasksHaveJobs'
<1>0. TasksHaveJobs /\ RowsOK
  BY DEF BuildInv
<1>1. ASSUME UNCHANGED <<job, builder>> PROVE TasksHaveJobs'
  BY <1>0, <1>1, TasksStay
<1>2. ASSUME NEW e \in Envs, NEW config \in Images, RequestBuild(e, config)
      PROVE  TasksHaveJobs'
  <2>1. UNCHANGED builder
    BY <1>2 DEF RequestBuild
  <2>2. \A j \in Jobs :
          \/ job'[j] = job[j]
          \/ job[j].status \in {"queued", "leased"} /\ job'[j].status = "superseded"
          \/ job[j].status = "none" /\ job'[j].status = "queued"
    BY <1>0, <1>2, RequestEffect
  <2> QED BY <1>0, <2>1, <2>2, TasksStay
<1>3. ASSUME NEW b \in Builders, NEW j \in Jobs, Lease(b, j) PROVE TasksHaveJobs'
  <2>1. /\ builder[b].pc = "idle" /\ builder[b].job = NoJob /\ NoJob # j
        /\ job[j].status = "queued" /\ job'[j].status = "leased"
        /\ \A i \in Jobs \ {j} : job'[i] = job[i]
        /\ builder'[b].pc = "begin" /\ builder'[b].job = j /\ builder'[b].beats
        /\ \A c \in Builders \ {b} : builder'[c] = builder[c]
    BY <1>0, <1>3, LeaseEffect, JobsArePositive DEF TasksHaveJobs
  <2> QED BY <1>0, <2>1, TasksMove
<1>4. ASSUME NEW b \in Builders, BeginJob(b) PROVE TasksHaveJobs'
  <2> DEFINE j == builder[b].job
  <2>1. /\ builder[b].pc = "begin" /\ j \in Jobs /\ j # NoJob /\ job[j].status # "none"
        /\ \A i \in Jobs \ {j} : job'[i] = job[i]
        /\ \A c \in Builders \ {b} : builder'[c] = builder[c]
    BY <1>4, BeginEffect, TaskFacts, JobsArePositive
  <2>2. \/ /\ job[j].status \notin ACTIVE_STATUSES /\ job'[j] = job[j]
           /\ builder'[b].pc = "idle" /\ builder'[b].job = NoJob
        \/ /\ job'[j].status = "superseded"
           /\ builder'[b].pc = "idle" /\ builder'[b].job = NoJob
        \/ /\ job'[j].status = "running"
           /\ builder'[b].pc = "drain" /\ builder'[b].job = j
    BY <1>4, BeginEffect
  <2>3. \A i \in Jobs : job[i].status # "none" => job'[i].status # "none"
    BY <2>1, <2>2
  <2> QED BY <1>0, <2>1, <2>2, <2>3, TasksMove
<1>5. ASSUME NEW b \in Builders,
             DrainPool(b) \/ TaskBuilds(b) \/ \E ok \in BOOLEAN : TaskBuilt(b, ok)
      PROVE  TasksHaveJobs'
  <2>1. /\ job' = job /\ builder[b].job \in Jobs /\ builder'[b].job = builder[b].job
        /\ builder[b].pc # "idle" /\ builder'[b].pc \in {"build", "building", "record"}
        /\ \A c \in Builders \ {b} : builder'[c] = builder[c]
    BY <1>5, TaskAdvances
  <2>2. job[builder[b].job].status # "none"
    BY <2>1, TaskFacts
  <2> QED BY <1>0, <2>1, <2>2, JobsArePositive, TasksMove
<1>6. ASSUME NEW b \in Builders, Records(b) PROVE TasksHaveJobs'
  <2> DEFINE j == builder[b].job
  <2>1. /\ j \in Jobs /\ j # NoJob /\ builder[b].pc = "record"
        /\ job'[j].status \in {"queued", "failed", "succeeded", job[j].status}
        /\ \A i \in Jobs \ {j} : job'[i] = job[i]
        /\ \/ builder'[b].pc = "unpause" /\ builder'[b].job = j
           \/ builder'[b].pc = "idle" /\ builder'[b].job = NoJob
        /\ \A c \in Builders \ {b} : builder'[c] = builder[c]
    BY <1>6, RecordEffect, JobsArePositive
  <2>2. job[j].status # "none"
    BY <2>1, TaskFacts
  <2>3. \A i \in Jobs : job[i].status # "none" => job'[i].status # "none"
    BY <2>1
  <2> QED BY <1>0, <2>1, <2>2, <2>3, TasksMove
<1>7. ASSUME NEW b \in Builders, Ends(b) PROVE TasksHaveJobs'
  <2>1. UNCHANGED job /\ builder' = [builder EXCEPT ![b] = NoTask]
    BY <1>7 DEF Ends, TaskEnds, TaskRaises
  <2>2. /\ builder'[b].pc = "idle" /\ builder'[b].job = NoJob
        /\ \A c \in Builders \ {b} : builder'[c] = builder[c]
    BY <1>0, <2>1, TaskStops
  <2> QED BY <1>0, <2>1, <2>2, TasksMove
<1>8. ASSUME NEW b \in Builders, HeartbeatDies(b) PROVE TasksHaveJobs'
  <2>1. /\ builder[b].pc # "begin" /\ builder'[b].pc = builder[b].pc
        /\ builder'[b].job = builder[b].job /\ UNCHANGED job
        /\ \A c \in Builders \ {b} : builder'[c] = builder[c]
    BY <1>0, <1>8, HeartbeatEffect DEF HeartbeatDies
  <2>2. /\ builder[b].pc = "idle" <=> builder[b].job = NoJob
        /\ builder[b].pc # "idle" => job[builder[b].job].status # "none"
    BY <1>0 DEF TasksHaveJobs
  <2> QED BY <1>0, <2>1, <2>2, TasksMove
<1>9. ASSUME NEW j \in Jobs, Sweep(j) PROVE TasksHaveJobs'
  <2>1. Fail(j) /\ UNCHANGED builder
    BY <1>9 DEF Sweep
  <2>2. job'[j].status \in {"queued", "failed"} /\ \A i \in Jobs \ {j} : job'[i] = job[i]
    BY <1>0, <2>1, FailEffect
  <2> QED BY <1>0, <2>1, <2>2, TasksStay
<1>10. CASE Crash
  <2>1. /\ builder' = [b \in Builders |-> IF b \in Local THEN NoTask ELSE builder[b]]
        /\ UNCHANGED job
    BY <1>10 DEF Crash
  <2>2. NoTask.pc = "idle" /\ NoTask.job = NoJob
    BY DEF NoTask
  <2>3. \A b \in Local : builder'[b].job = NoJob /\ builder'[b].pc = "idle"
    BY <2>1, <2>2
  <2>4. \A b \in Builders \ Local : builder'[b] = builder[b]
    BY <2>1
  <2> QED BY <1>0, <2>1, <2>3, <2>4, JobsArePositive DEF TasksHaveJobs
<1> QED
  BY <1>1, <1>2, <1>3, <1>4, <1>5, <1>6, <1>7, <1>8, <1>9, <1>10, PoolLeavesQueue
  DEF BuildNext, TaskStep, TaskFault, Records, Ends, Leases, vars, buildVars

----------------------------------------------------------------------------

(* Faults are counted.                                                      *)
LEMMA FaultsCounted ==
  ASSUME BuildInv, [BuildNext]_vars
  PROVE  FaultsOK'
<1>0. /\ faults = [crashes |-> faults.crashes, errors |-> faults.errors]
      /\ faults.crashes \in Nat /\ faults.errors \in Nat
  BY DEF BuildInv, FaultsOK
<1>1. \/ UNCHANGED faults \/ faults' = [faults EXCEPT !.errors = @ + 1]
      \/ faults' = [faults EXCEPT !.crashes = @ + 1]
  BY PoolLeavesQueue, TaskAdvances, BeginEffect, LeaseEffect
  DEF BuildNext, vars, buildVars, Crash, RequestBuild, Leases, TaskStep, TaskFault, Record, TaskEnds,
      HeartbeatDies, RecordRaises, TaskRaises, Raises, Sweep
<1>2. CASE UNCHANGED faults
  BY <1>2 DEF BuildInv, FaultsOK
<1>3. CASE faults' = [faults EXCEPT !.errors = @ + 1]
  <2>1. faults' = [crashes |-> faults.crashes, errors |-> faults.errors + 1]
    BY <1>0, <1>3
  <2> QED BY <1>0, <2>1 DEF FaultsOK
<1>4. CASE faults' = [faults EXCEPT !.crashes = @ + 1]
  <2>1. faults' = [crashes |-> faults.crashes + 1, errors |-> faults.errors]
    BY <1>0, <1>4
  <2> QED BY <1>0, <2>1 DEF FaultsOK
<1> QED BY <1>1, <1>2, <1>3, <1>4

----------------------------------------------------------------------------
(* The invariant                                                           *)

(* The invariant holds of the initial state,                                *)
LEMMA BuildInvInit == BuildInit => BuildInv /\ BudgetInv
<1> SUFFICES ASSUME BuildInit PROVE BuildInv /\ BudgetInv
  OBVIOUS
<1>1. PoolInv /\ BudgetInv
  <2>1. Init /\ PoolInv
    BY InitialPool DEF BuildInit
  <2>2. TypeOK /\ committed = 0 /\ \A r \in Runs : run[r].pc \notin Reserved
    BY <2>1 DEF PoolInv, Init, Reserved
  <2> QED BY <2>1, <2>2, BudgetEmpty
<1>2. RowsOK
  <2>1. [config |-> FirstImage, status |-> "ready", disk |-> FirstImage] \in EnvRows
    BY DEF EnvRows, Statuses
  <2>2. (CHOOSE e \in Envs : TRUE) \in Envs
    OBVIOUS
  <2>3. [status |-> "none", env |-> CHOOSE e \in Envs : TRUE, config |-> FirstImage,
         attempts |-> 0] \in JobRows
    BY <2>2 DEF JobRows, JobStatuses
  <2>4. NoTask \in Tasks
    BY DEF NoTask, Tasks, TaskStates
  <2> QED BY <2>1, <2>3, <2>4 DEF BuildInit, RowsOK
<1>3. TasksHaveJobs
  BY JobsArePositive DEF BuildInit, TasksHaveJobs, NoTask
<1>4. FaultsOK
  BY DEF BuildInit, NoFaults, FaultsOK
<1> QED BY <1>1, <1>2, <1>3, <1>4 DEF BuildInv

(* and every step keeps it.                                                 *)
LEMMA BuildInvStep ==
  ASSUME BuildInv, BudgetInv, [BuildNext]_vars
  PROVE  BuildInv' /\ BudgetInv'
<1>1. RowsOK' /\ TasksHaveJobs' /\ FaultsOK'
  BY RowsStep, TasksStep, FaultsCounted
<1>2. PoolInv' /\ BudgetInv'
  <2>1. CASE Crash
    BY <2>1, CrashPool DEF BuildInv
  <2>2. CASE ~Crash
    <3>1. PoolStep /\ PoolInv
      BY <2>2, BuildIsPoolStep DEF BuildInv
    <3>2. PoolInv'
      BY <3>1, NextStep
    <3>3. TypeOK'
      BY <3>2 DEF PoolInv
    <3> QED BY <3>1, <3>2, <3>3, BudgetNext
  <2> QED BY <2>1, <2>2
<1> QED BY <1>1, <1>2 DEF BuildInv

(* The rows keep their types, the pool its counts, its ownership of workers  *)
(* and its memory budget, and every task its job, whatever builds, retries   *)
(* and crashes interleave.                                                  *)
THEOREM BuildInvariant == BuildSpec => [](BuildInv /\ BudgetInv)
<1>1. BuildInv /\ BudgetInv /\ [BuildNext]_vars => (BuildInv /\ BudgetInv)'
  BY BuildInvStep
<1> QED BY BuildInvInit, <1>1, PTL DEF BuildSpec

(* Every row, task, lock and process of the composition has its type.       *)
THEOREM BuildTypes == BuildSpec => []BuildTypeOK
<1>1. BuildInv => BuildTypeOK
  BY RowsType DEF BuildInv, PoolInv
<1> QED BY <1>1, BuildInvariant, PTL

(* Builds, retries and crashes take nothing from what the pool guarantees   *)
(* by itself: slots, ownership of workers, and the memory budget.           *)
THEOREM PoolSafeUnderBuilds == BuildSpec => [](PoolInv /\ ReservationsCounted /\ WithinBudget)
<1>1. BuildInv /\ BudgetInv => PoolInv /\ ReservationsCounted /\ WithinBudget
  BY DEF BuildInv, BudgetInv
<1> QED BY <1>1, BuildInvariant, PTL

----------------------------------------------------------------------------
(* A paused pool                                                           *)

(* The pool's own steps leave a pool paused or not, or unpause it.          *)
LEMMA NeverPausedByRuns ==
  ASSUME TypeOK, NEW e \in Envs, pool'[e].paused,
         \/ UNCHANGED pool
         \/ \E r \in Runs : RunStep(r) \/ SpawnStep(r)
         \/ \E f \in Envs : Unpause(f)
  PROVE  pool[e].paused
<1>0. /\ pool \in [Envs -> Pools] /\ EnvOf \in [Runs -> Envs] /\ pool[e] \in Pools
  BY DEF TypeOK
<1>1. ASSUME UNCHANGED pool PROVE pool[e].paused
  BY <1>1
<1>2. ASSUME NEW f \in Envs, NEW free, NEW idle, NEW all, Changed(f, free, idle, all)
      PROVE  pool[e].paused
  BY <1>0, <1>2 DEF Changed
<1>3. ASSUME NEW r \in Runs, Dispatch(r) PROVE pool[e].paused
  BY <1>0, <1>3 DEF Dispatch
<1>4. ASSUME NEW r \in Runs, RunStep(r) \/ SpawnStep(r) PROVE pool[e].paused
  <2>1. CASE \/ Reserve(r) \/ Admit(r) \/ FindPaused(r) \/ CancelWaiting(r) \/ Requeue(r)
             \/ StopRun(r) \/ StartsWorker(r)
    BY <1>1, <2>1 DEF Reserve, Admit, FindPaused, CancelWaiting, Requeue, StopRun, StartsWorker,
                      StartWorker
  <2>2. CASE Reuse(r) \/ Recycle(r) \/ SpawnWorker(r)
    BY <1>0, <1>2, <2>2 DEF Reuse, Recycle, SpawnWorker, TakeSlot
  <2>3. CASE WorkerReady(r) \/ SpawnFails(r)
    BY <1>0, <1>2, <2>3 DEF WorkerReady, SpawnFails
  <2>4. CASE EndsRun(r)
    <3>1. \E served : EndDispatch(r, served)
      BY <2>4 DEF EndsRun, RunReturns, RunErrors, StoppedRunEnds
    <3> QED BY <1>0, <1>2, <3>1 DEF EndDispatch, ReleaseKept, ReleaseClosed
  <2> QED BY <1>3, <1>4, <2>1, <2>2, <2>3, <2>4 DEF RunStep, SpawnStep, AcquireWorker
<1>5. ASSUME NEW f \in Envs, Unpause(f) PROVE pool[e].paused
  BY <1>0, <1>5 DEF Unpause
<1> QED BY <1>1, <1>4, <1>5

(* A pool is paused by the task of a build of its environment only.         *)
LEMMA PausedByTask ==
  ASSUME BuildInv, [BuildNext]_vars, ~Crash, NEW e \in Envs, pool'[e].paused, ~pool[e].paused
  PROVE  \E b \in Builders : DrainPool(b) /\ JobEnv(b) = e
<1>0. TypeOK /\ pool \in [Envs -> Pools]
  BY DEF BuildInv, PoolInv, TypeOK
<1>1. ASSUME UNCHANGED pool PROVE FALSE
  BY <1>0, <1>1, NeverPausedByRuns
<1>2. ASSUME NEW r \in Runs, RunStep(r) \/ SpawnStep(r) PROVE FALSE
  BY <1>0, <1>2, NeverPausedByRuns
<1>3. ASSUME NEW f \in Envs, Unpause(f) PROVE FALSE
  BY <1>0, <1>3, NeverPausedByRuns
<1>4. ASSUME NEW b \in Builders, DrainPool(b) PROVE JobEnv(b) = e
  <2>1. pool' = pool \/ Drain(JobEnv(b))
    BY <1>4 DEF DrainPool, poolVars
  <2> QED BY <1>0, <1>1, <2>1 DEF Drain
<1>5. ASSUME NEW b \in Builders, TaskStep(b) \/ TaskFault(b), ~DrainPool(b) PROVE FALSE
  <2>1. CASE TaskEnds(b)
    <3>1. JobEnv(b) \in Envs /\ (Unpause(JobEnv(b)) \/ UNCHANGED pool)
      BY <2>1, TaskFacts DEF TaskEnds, poolVars
    <3> QED BY <1>1, <1>3, <3>1
  <2>2. CASE BeginJob(b) \/ TaskBuilds(b) \/ (\E ok \in BOOLEAN : TaskBuilt(b, ok)) \/ Record(b)
    BY <1>1, <2>2 DEF BeginJob, TaskBuilds, TaskBuilt, Record, poolVars
  <2>3. CASE TaskFault(b)
    BY <1>1, <2>3 DEF TaskFault, HeartbeatDies, RecordRaises, TaskRaises, poolVars
  <2> QED BY <1>5, <2>1, <2>2, <2>3 DEF TaskStep
<1>6. ASSUME NEW r \in Runs, SpawnProgress(r) PROVE FALSE
  <2>1. SpawnStep(r) \/ UNCHANGED pool
    BY <1>6 DEF SpawnProgress, EnvironmentReady, SpawnBuilds, SpawnBuilt, SpawnStarts,
                SpawnGivesUp, SpawnStep, StartWorker, poolVars
  <2> QED BY <1>1, <1>2, <2>1
<1>7. ASSUME \/ \E f \in Envs, config \in Images : RequestBuild(f, config)
             \/ \E b \in Builders : Leases(b)
             \/ \E j \in Jobs : Sweep(j)
             \/ \E p \in Procs : ProcessExits(p)
             \/ \E c \in Ceilings : PoolResize(c)
      PROVE  UNCHANGED pool
  BY <1>7 DEF RequestBuild, Leases, Lease, Sweep, ProcessExits, ExitProcess,
              PoolResize, Resize, poolVars
<1>8. ASSUME NEW r \in Runs, PoolRunStep(r) PROVE FALSE
  BY <1>2, <1>8 DEF PoolRunStep
<1>9. CASE UNCHANGED vars
  BY <1>1, <1>9 DEF vars, poolVars
<1> QED BY <1>1, <1>4, <1>5, <1>6, <1>7, <1>8, <1>9 DEF BuildNext

(* A job that keeps somebody who may unpause its pool.                      *)
Owes(j) ==
  \/ job[j].status \in ACTIVE_STATUSES
  \/ \E b \in Builders : builder[b].job = j /\ builder[b].pc # "begin"

(* Owing, job by job.                                                       *)
LEMMA OwingIsOwes == \A e : Owing(e) = {j \in Jobs : job[j].env = e /\ Owes(j)}
BY DEF Owing, Owes

(* A job that owes was enqueued.                                            *)
LEMMA OwesFacts ==
  ASSUME BuildInv, NEW j \in Jobs, Owes(j)
  PROVE  job[j].status # "none"
<1>1. CASE job[j].status \in ACTIVE_STATUSES
  BY <1>1 DEF ACTIVE_STATUSES
<1>2. ASSUME NEW b \in Builders, builder[b].job = j PROVE job[j].status # "none"
  BY <1>2, KnownJobs, JobsArePositive DEF BuildInv
<1> QED BY <1>1, <1>2 DEF Owes

(* A task of the job ends, or ends on its dead heartbeat.                   *)
LetsGo(b, j) ==
  /\ builder[b].job = j
  /\ Ends(b) \/ (Records(b) /\ ~ builder[b].beats)

GivesUp(j) == Sweep(j) /\ job'[j].status = "failed"

(* A job keeps somebody unless it is superseded, a task of it ends, or the   *)
(* sweep gives it up.                                                       *)
LEMMA OwesStep ==
  ASSUME BuildInv, [BuildNext]_vars, ~Crash, NEW j \in Jobs, Owes(j)
  PROVE  \/ Owes(j)' /\ job'[j].env = job[j].env
         \/ /\ job[j].status # "superseded" /\ job'[j].status = "superseded"
            /\ job'[j].env = job[j].env
         \/ \E b \in Builders : LetsGo(b, j)
         \/ GivesUp(j)
<1> DEFINE Goal == \/ Owes(j)' /\ job'[j].env = job[j].env
                   \/ /\ job[j].status # "superseded" /\ job'[j].status = "superseded"
                      /\ job'[j].env = job[j].env
                   \/ \E b \in Builders : LetsGo(b, j)
                   \/ GivesUp(j)
<1>0. /\ RowsOK /\ TasksHaveJobs /\ job[j].status # "none"
  BY OwesFacts DEF BuildInv
<1>1. ASSUME UNCHANGED <<job, builder>> PROVE Goal
  BY <1>1 DEF Owes
<1>2. ASSUME NEW e \in Envs, NEW config \in Images, RequestBuild(e, config) PROVE Goal
  <2>1. UNCHANGED builder
    BY <1>2 DEF RequestBuild
  <2>2. \/ job'[j] = job[j]
        \/ /\ job[j].status \in {"queued", "leased"} /\ job'[j].status = "superseded"
           /\ job'[j].env = job[j].env
    BY <1>0, <1>2, RequestEffect
  <2> QED BY <2>1, <2>2 DEF Owes
<1>3. ASSUME NEW b \in Builders, NEW i \in Jobs, Lease(b, i) PROVE Goal
  <2>1. /\ builder[b].pc = "idle" /\ builder[b].job = NoJob /\ j # NoJob
        /\ job'[i].status = "leased" /\ job'[i].env = job[i].env
        /\ \A k \in Jobs \ {i} : job'[k] = job[k]
        /\ \A c \in Builders \ {b} : builder'[c] = builder[c]
    BY <1>0, <1>3, LeaseEffect, KnownJobs, JobsArePositive
  <2>2. CASE i = j
    BY <2>1, <2>2 DEF Owes, ACTIVE_STATUSES
  <2>3. CASE i # j
    BY <2>1, <2>3, ZenonT(60) DEF Owes
  <2> QED BY <2>2, <2>3
<1>4. ASSUME NEW b \in Builders, BeginJob(b) PROVE Goal
  <2> DEFINE i == builder[b].job
  <2>1. /\ builder[b].pc = "begin" /\ i \in Jobs
        /\ job'[i].env = job[i].env
        /\ \A k \in Jobs \ {i} : job'[k] = job[k]
        /\ \A c \in Builders \ {b} : builder'[c] = builder[c]
        /\ \/ job[i].status \notin ACTIVE_STATUSES /\ job'[i] = job[i]
           \/ job[i].status \in ACTIVE_STATUSES /\ job'[i].status = "superseded"
           \/ /\ job'[i].status = "running"
              /\ builder'[b].pc = "drain" /\ builder'[b].job = i
    BY <1>4, BeginEffect
  <2>2. CASE i # j
    BY <2>1, <2>2, ZenonT(60) DEF Owes
  <2>3. CASE i = j /\ job[i].status \notin ACTIVE_STATUSES /\ job'[i] = job[i]
    BY <2>1, <2>3 DEF Owes
  <2>4. CASE i = j /\ job[i].status \in ACTIVE_STATUSES /\ job'[i].status = "superseded"
    BY <2>1, <2>4 DEF ACTIVE_STATUSES
  <2>5. CASE i = j /\ job'[i].status = "running"
    BY <2>1, <2>5 DEF Owes, ACTIVE_STATUSES
  <2> QED BY <2>1, <2>2, <2>3, <2>4, <2>5
<1>5. ASSUME NEW b \in Builders,
             DrainPool(b) \/ TaskBuilds(b) \/ \E ok \in BOOLEAN : TaskBuilt(b, ok)
      PROVE  Goal
  <2>1. /\ job' = job /\ builder'[b].job = builder[b].job
        /\ builder'[b].pc \in {"build", "building", "record"}
        /\ \A c \in Builders \ {b} : builder'[c] = builder[c]
    BY <1>5, TaskAdvances
  <2> QED BY <2>1 DEF Owes
<1>6. ASSUME NEW b \in Builders, Records(b) PROVE Goal
  <2> DEFINE i == builder[b].job
  <2>1. /\ i \in Jobs /\ job'[i].env = job[i].env
        /\ \A k \in Jobs \ {i} : job'[k] = job[k]
        /\ \/ builder'[b].pc = "unpause" /\ builder'[b].job = i
           \/ ~ builder[b].beats
        /\ \A c \in Builders \ {b} : builder'[c] = builder[c]
    BY <1>6, RecordEffect
  <2>2. CASE i # j
    <3>1. job'[j] = job[j]
      BY <2>1, <2>2
    <3> QED BY <2>1, <2>2, <3>1 DEF Owes
  <2>3. CASE i = j /\ builder'[b].pc = "unpause" /\ builder'[b].job = i
    BY <2>1, <2>3 DEF Owes
  <2>4. CASE i = j /\ ~ builder[b].beats
    BY <1>6, <2>4 DEF LetsGo
  <2> QED BY <2>1, <2>2, <2>3, <2>4
<1>7. ASSUME NEW b \in Builders, Ends(b) PROVE Goal
  <2>1. UNCHANGED job /\ builder' = [builder EXCEPT ![b] = NoTask]
    BY <1>7 DEF Ends, TaskEnds, TaskRaises
  <2>2. \A c \in Builders \ {b} : builder'[c] = builder[c]
    BY <1>0, <2>1, TaskStops
  <2>3. CASE builder[b].job = j
    BY <1>7, <2>3 DEF LetsGo
  <2>4. CASE builder[b].job # j
    BY <2>1, <2>2, <2>4 DEF Owes
  <2> QED BY <2>3, <2>4
<1>8. ASSUME NEW b \in Builders, HeartbeatDies(b) PROVE Goal
  <2>1. /\ builder'[b].pc = builder[b].pc /\ builder'[b].job = builder[b].job /\ UNCHANGED job
        /\ \A c \in Builders \ {b} : builder'[c] = builder[c]
    BY <1>0, <1>8, HeartbeatEffect DEF HeartbeatDies
  <2> QED BY <2>1 DEF Owes
<1>9. ASSUME NEW i \in Jobs, Sweep(i) PROVE Goal
  <2>1. Fail(i) /\ UNCHANGED builder
    BY <1>9 DEF Sweep
  <2>2. /\ job'[i].env = job[i].env /\ \A k \in Jobs \ {i} : job'[k] = job[k]
        /\ job'[i].status \in {"queued", "failed"}
    BY <1>0, <2>1, FailEffect
  <2>3. CASE i # j
    BY <2>1, <2>2, <2>3 DEF Owes
  <2>4. CASE i = j /\ job'[i].status = "queued"
    BY <2>2, <2>4 DEF Owes, ACTIVE_STATUSES
  <2>5. CASE i = j /\ job'[i].status = "failed"
    BY <1>9, <2>5 DEF GivesUp
  <2> QED BY <2>2, <2>3, <2>4, <2>5
<1> HIDE DEF Goal
<1> QED
  <2>1. Goal
    BY <1>1, <1>2, <1>3, <1>4, <1>5, <1>6, <1>7, <1>8, <1>9, PoolLeavesQueue
    DEF BuildNext, TaskStep, TaskFault, Records, Ends, Leases, vars, buildVars
  <2> QED BY <2>1 DEF Goal

(* The end of a task of this environment: it unpauses, its job is not over,  *)
(* or it ran in another replica.                                            *)
LEMMA LastTaskUnpauses ==
  ASSUME BuildInv, NEW b \in Builders, TaskEnds(b), NEW e \in Envs, JobEnv(b) = e,
         pool'[e].paused
  PROVE  Owing(e)' # {} \/ EndsElsewhere(e)
<1>0. RowsOK /\ pool \in [Envs -> Pools]
  BY DEF BuildInv, PoolInv, TypeOK
<1>1. builder[b].pc = "unpause" /\ UNCHANGED job /\ builder' = [builder EXCEPT ![b] = NoTask]
  BY DEF TaskEnds
<1>2. builder'[b].pc = "idle"
  BY <1>0, <1>1, TaskStops
<1>3. PICK j \in Jobs :
        j = builder[b].job /\ job[j] \in JobRows /\ job[j].status # "none" /\ job[j].env = e
  BY <1>1, TaskFacts DEF JobEnv
<1>4. CASE b \notin Local
  BY <1>1, <1>2, <1>4 DEF EndsElsewhere
<1>5. CASE b \in Local /\ job[j].status \in TERMINAL_STATUSES
  <2>1. IF pool[e].paused THEN Unpause(e) ELSE UNCHANGED poolVars
    BY <1>3, <1>5 DEF TaskEnds
  <2>2. ~pool'[e].paused
    BY <1>0, <2>1 DEF Unpause, poolVars
  <2> QED BY <2>2
<1>6. CASE job[j].status \in ACTIVE_STATUSES
  <2>1. job'[j].env = e /\ Owes(j)'
    BY <1>1, <1>3, <1>6 DEF Owes
  <2> QED BY <1>3, <2>1 DEF Owing, Owes
<1> QED
  BY <1>3, <1>4, <1>5, <1>6 DEF JobRows, JobStatuses, ACTIVE_STATUSES, TERMINAL_STATUSES

(* The step that pauses a pool is a task's, which owes; every other step that*)
(* loses the last one who owes has unpaused the pool, or is one of the four.*)
LEMMA PausedStep ==
  ASSUME BuildInv, [BuildNext]_vars, NEW e \in Envs, Owed(e)
  PROVE  \/ Owed(e)' \/ JobSuperseded(e) \/ EndsElsewhere(e)
         \/ EndsOnException(e) \/ GivenUp(e)
<1> SUFFICES ASSUME pool'[e].paused
             PROVE  \/ Owing(e)' # {} \/ JobSuperseded(e) \/ EndsElsewhere(e)
                    \/ EndsOnException(e) \/ GivenUp(e)
  BY DEF Owed
<1>1. ~Crash
  <2> SUFFICES ASSUME Crash PROVE FALSE
    OBVIOUS
  <2> QED BY DEF Crash, ClosedPool
<1>2. CASE pool[e].paused
  <2>1. PICK j \in Jobs : job[j].env = e /\ Owes(j)
    BY <1>2, OwingIsOwes DEF Owed
  <2>2. CASE Owes(j)' /\ job'[j].env = job[j].env
    BY <2>1, <2>2 DEF Owing, Owes
  <2>3. CASE job[j].status # "superseded" /\ job'[j].status = "superseded"
    BY <2>1, <2>3 DEF JobSuperseded
  <2>4. ASSUME NEW b \in Builders, LetsGo(b, j)
        PROVE  Owing(e)' # {} \/ EndsElsewhere(e) \/ EndsOnException(e)
    <3>1. JobEnv(b) = e
      BY <2>1, <2>4 DEF JobEnv, LetsGo
    <3>2. CASE TaskEnds(b)
      BY <3>1, <3>2, LastTaskUnpauses
    <3>3. CASE TaskRaises(b) \/ (Records(b) /\ ~ builder[b].beats)
      BY <3>1, <3>3 DEF EndsOnException, Records
    <3> QED BY <2>4, <3>2, <3>3 DEF LetsGo, Ends
  <2>5. CASE GivesUp(j)
    BY <2>1, <2>5 DEF GivesUp, GivenUp
  <2> QED BY <1>1, <2>1, <2>2, <2>3, <2>4, <2>5, OwesStep
<1>3. CASE ~pool[e].paused
  <2>1. PICK b \in Builders : DrainPool(b) /\ JobEnv(b) = e
    BY <1>1, <1>3, PausedByTask
  <2>2. /\ job' = job /\ builder[b].job \in Jobs /\ job[builder[b].job].env = e
        /\ builder'[b].job = builder[b].job /\ builder'[b].pc = "build"
    BY <2>1, TaskAdvances DEF JobEnv, DrainPool
  <2> QED BY <2>2 DEF Owing
<1> QED BY <1>2, <1>3

(* Whatever builds fail, are retried, asked for again, swept and queued      *)
(* again, worked on twice, or crash: a paused pool keeps a job or a task that*)
(* may unpause it, except when a job is superseded, a task ends in another   *)
(* replica or on an exception, or the sweep fails a job for good.            *)
THEOREM PausedKeepsOwed == BuildSpec => PausedStaysOwed
<1>1. BuildInv /\ [BuildNext]_vars =>
        [\A e \in Envs :
           Owed(e) => Owed(e)' \/ JobSuperseded(e) \/ EndsElsewhere(e)
                              \/ EndsOnException(e) \/ GivenUp(e)]_vars
  BY PausedStep
<1> QED BY <1>1, BuildInvariant, PTL DEF BuildSpec, PausedStaysOwed

----------------------------------------------------------------------------
(* Configurations                                                          *)

SameConfigs ==
  /\ \A e \in Envs : env'[e].config = env[e].config
  /\ \A j \in Jobs : /\ job'[j].env = job[j].env /\ job'[j].config = job[j].config
                     /\ job'[j].status = "none" <=> job[j].status = "none"

(* What a spawn does to the environments and their locks.                   *)
LEMMA SpawnEffect ==
  ASSUME NEW r \in Runs, SpawnProgress(r)
  PROVE  LET e == EnvOf[r] IN
         /\ UNCHANGED <<job, builder, faults>> /\ e \in Envs
         /\ \/ UNCHANGED <<env, lock, making>>
            \/ StartBuild(r, e) /\ lock[e] = Free /\ lock' = [lock EXCEPT ![e] = r]
            \/ /\ \E ok \in BOOLEAN : EndBuild(r, e, ok)
               /\ lock[e] = r /\ lock' = [lock EXCEPT ![e] = Free]
            \/ /\ UNCHANGED env /\ making' = [making EXCEPT ![r] = NoImage]
               /\ lock' = IF lock[e] = r THEN [lock EXCEPT ![e] = Free] ELSE lock
<1>1. CASE EnvironmentReady(r) \/ \E p \in Procs : SpawnStarts(r, p)
  BY <1>1 DEF EnvironmentReady, SpawnStarts
<1>2. CASE SpawnBuilds(r)
  BY <1>2 DEF SpawnBuilds
<1>3. CASE \E ok \in BOOLEAN : SpawnBuilt(r, ok)
  BY <1>3 DEF SpawnBuilt
<1>4. CASE SpawnGivesUp(r)
  BY <1>4 DEF SpawnGivesUp
<1> QED BY <1>1, <1>2, <1>3, <1>4 DEF SpawnProgress

(* Only a request changes the configuration of an environment, and a job     *)
(* keeps the environment and the configuration it was enqueued for.         *)
LEMMA ConfigsStay ==
  ASSUME BuildInv, [BuildNext]_vars,
         ~ \E e \in Envs, config \in Images : RequestBuild(e, config)
  PROVE  SameConfigs
<1>0. RowsOK
  BY DEF BuildInv
<1>1. ASSUME UNCHANGED <<env, job>> PROVE SameConfigs
  BY <1>1 DEF SameConfigs
<1>2. ASSUME NEW b \in Builders, NEW j \in Jobs, Lease(b, j) PROVE SameConfigs
  <2>1. /\ UNCHANGED env /\ job[j].status = "queued" /\ job'[j].status = "leased"
        /\ job'[j].env = job[j].env /\ job'[j].config = job[j].config
        /\ \A i \in Jobs \ {j} : job'[i] = job[i]
    BY <1>2, LeaseEffect
  <2> QED BY <2>1 DEF SameConfigs
<1>3. ASSUME NEW b \in Builders, BeginJob(b) PROVE SameConfigs
  <2> DEFINE j == builder[b].job
             e == JobEnv(b)
  <2>1. /\ builder[b].pc = "begin" /\ j \in Jobs /\ e \in Envs
        /\ env'[e].config = env[e].config /\ \A f \in Envs \ {e} : env'[f] = env[f]
        /\ job'[j].env = job[j].env /\ job'[j].config = job[j].config
        /\ \A i \in Jobs \ {j} : job'[i] = job[i]
        /\ job'[j] = job[j] \/ job'[j].status \in {"superseded", "running"}
    BY <1>3, BeginEffect
  <2>2. job[j].status # "none"
    BY <2>1, TaskFacts
  <2> QED BY <2>1, <2>2 DEF SameConfigs
<1>4. ASSUME NEW x \in Builders \cup Runs, NEW e \in Envs, UNCHANGED job,
             StartBuild(x, e) \/ \E ok \in BOOLEAN : EndBuild(x, e, ok)
      PROVE  SameConfigs
  <2>1. env'[e].config = env[e].config /\ \A f \in Envs \ {e} : env'[f] = env[f]
    BY <1>0, <1>4, StartEffect, EndEffect
  <2> QED BY <1>4, <2>1 DEF SameConfigs
<1>5. ASSUME NEW b \in Builders,
             DrainPool(b) \/ TaskBuilds(b) \/ \E ok \in BOOLEAN : TaskBuilt(b, ok)
      PROVE  SameConfigs
  <2>1. job' = job /\ JobEnv(b) \in Envs
    BY <1>5, TaskAdvances
  <2>2. \/ UNCHANGED env \/ StartBuild(b, JobEnv(b))
        \/ \E ok \in BOOLEAN : EndBuild(b, JobEnv(b), ok)
    BY <1>5 DEF DrainPool, TaskBuilds, TaskBuilt
  <2> QED BY <1>1, <1>4, <2>1, <2>2
<1>6. ASSUME NEW b \in Builders, Records(b) PROVE SameConfigs
  <2> DEFINE j == builder[b].job
             e == JobEnv(b)
  <2>1. /\ builder[b].pc = "record" /\ j \in Jobs /\ e \in Envs
        /\ env'[e].config = env[e].config /\ \A f \in Envs \ {e} : env'[f] = env[f]
        /\ job'[j].env = job[j].env /\ job'[j].config = job[j].config
        /\ \A i \in Jobs \ {j} : job'[i] = job[i]
        /\ job'[j].status \in {"queued", "failed", "succeeded", job[j].status}
    BY <1>6, RecordEffect
  <2>2. job[j].status # "none"
    BY <2>1, TaskFacts
  <2> QED BY <2>1, <2>2 DEF SameConfigs
<1>7. ASSUME NEW j \in Jobs, Sweep(j) PROVE SameConfigs
  <2>1. Fail(j) /\ job[j].status \in {"leased", "running"}
    BY <1>7 DEF Sweep
  <2>2. /\ job[j].env \in Envs /\ env'[job[j].env].config = env[job[j].env].config
        /\ \A f \in Envs \ {job[j].env} : env'[f] = env[f]
        /\ job'[j].status \in {"queued", "failed"}
        /\ job'[j].env = job[j].env /\ job'[j].config = job[j].config
        /\ \A i \in Jobs \ {j} : job'[i] = job[i]
    BY <1>0, <2>1, FailEffect
  <2> QED BY <2>1, <2>2 DEF SameConfigs
<1>8. ASSUME NEW r \in Runs, SpawnProgress(r) PROVE SameConfigs
  BY <1>1, <1>4, <1>8, SpawnEffect
<1>9. ASSUME \/ UNCHANGED vars \/ Crash
             \/ \E b \in Builders : Ends(b) \/ HeartbeatDies(b)
             \/ \E r \in Runs : PoolRunStep(r)
             \/ \E p \in Procs : ProcessExits(p)
             \/ \E c \in Ceilings : PoolResize(c)
      PROVE  UNCHANGED <<env, job>>
  BY <1>9 DEF vars, buildVars, Crash, Ends, TaskEnds, TaskRaises, HeartbeatDies, PoolRunStep, ProcessExits, PoolResize
<1> QED
  BY <1>1, <1>2, <1>3, <1>5, <1>6, <1>7, <1>8, <1>9 DEF BuildNext, TaskStep, TaskFault, Records, Ends,
     Leases

(* Edits never lead back: a number grows with every change.                 *)
EditsForward(rank) ==
  /\ rank \in [Images -> Nat]
  /\ \A v \in Images : \A w \in EditTo[v] : w = v \/ rank[v] < rank[w]

(* A job is never ahead of its environment.                                 *)
Ranked(rank) ==
  \A j \in Jobs :
    job[j].status # "none" => rank[job[j].config] <= rank[env[job[j].env].config]

(* Edits forward keep the configuration of a job at or behind the row's.    *)
LEMMA RankedStep ==
  ASSUME NEW rank, EditsForward(rank), BuildInv, Ranked(rank), [BuildNext]_vars
  PROVE  Ranked(rank)'
<1>0. /\ rank \in [Images -> Nat] /\ env \in [Envs -> EnvRows] /\ job \in [Jobs -> JobRows]
      /\ RowsOK
  BY DEF EditsForward, BuildInv, RowsOK
<1>1. CASE \E e \in Envs, config \in Images : RequestBuild(e, config)
  <2>1. PICK e \in Envs, config \in Images : RequestBuild(e, config)
    BY <1>1
  <2>2. rank[env[e].config] <= rank[config] /\ env[e].config \in Images
    BY <1>0, <2>1 DEF RequestBuild, EditsForward, EnvRows
  <2>3. /\ env'[e].config = config /\ \A f \in Envs \ {e} : env'[f] = env[f]
        /\ \A j \in Jobs :
              \/ job'[j].status = "none"
              \/ /\ job[j].status # "none" /\ job'[j].env = job[j].env
                 /\ job'[j].config = job[j].config
              \/ job'[j].env = e /\ job'[j].config = config
    <3>1. /\ env'[e].config = config /\ \A f \in Envs \ {e} : env'[f] = env[f]
          /\ \A j \in Jobs :
               \/ job'[j] = job[j]
               \/ /\ job[j].status \in {"queued", "leased"} /\ job'[j].status = "superseded"
                  /\ job[j].env = e /\ job'[j].env = e
                  /\ job[j].config # config /\ job'[j].config = job[j].config
               \/ /\ job[j].status = "none" /\ job'[j].status = "queued"
                  /\ job'[j].env = e /\ job'[j].config = config
      BY <1>0, <2>1, RequestEffect
    <3> QED BY <3>1
  <2>4. ASSUME NEW j \in Jobs, job'[j].status # "none"
        PROVE  rank[job'[j].config] <= rank[env'[job'[j].env].config]
    <3>1. CASE job'[j].env = e /\ job'[j].config = config
      BY <1>0, <2>3, <3>1
    <3>2. CASE /\ job[j].status # "none" /\ job'[j].env = job[j].env
               /\ job'[j].config = job[j].config
      <4>1. /\ job[j].env \in Envs /\ job[j].config \in Images
            /\ rank[job[j].config] <= rank[env[job[j].env].config]
        BY <1>0, <3>2 DEF JobRows, Ranked
      <4>2. CASE job[j].env = e
        BY <1>0, <2>2, <2>3, <3>2, <4>1, <4>2
      <4>3. CASE job[j].env # e
        BY <2>3, <3>2, <4>1, <4>3
      <4> QED BY <4>2, <4>3
    <3> QED BY <2>3, <2>4, <3>1, <3>2
  <2> QED BY <2>4 DEF Ranked
<1>2. CASE ~ \E e \in Envs, config \in Images : RequestBuild(e, config)
  <2>1. SameConfigs
    BY <1>2, ConfigsStay
  <2>2. \A j \in Jobs : job[j].env \in Envs
    BY <1>0 DEF JobRows
  <2> QED BY <2>1, <2>2, ZenonT(60) DEF Ranked, SameConfigs
<1> QED BY <1>1, <1>2

(* A job that was enqueued keeps its environment and its configuration.     *)
LEMMA JobStays ==
  ASSUME BuildInv, [BuildNext]_vars, NEW j \in Jobs, job[j].status # "none"
  PROVE  job'[j].env = job[j].env /\ job'[j].config = job[j].config
<1>1. ASSUME NEW e \in Envs, NEW config \in Images, RequestBuild(e, config)
      PROVE  job'[j].env = job[j].env /\ job'[j].config = job[j].config
  <2>1. \/ job'[j] = job[j]
        \/ /\ job[j].env = e /\ job'[j].env = e /\ job'[j].config = job[j].config
    BY <1>1, RequestEffect DEF BuildInv
  <2> QED BY <2>1
<1>2. CASE ~ \E e \in Envs, config \in Images : RequestBuild(e, config)
  BY <1>2, ConfigsStay DEF SameConfigs
<1> QED BY <1>1, <1>2

----------------------------------------------------------------------------
(* The build lock, in a deployment of one process                           *)

(* The lock keeps its holder while nobody starts or ends a build.           *)
LEMMA LockStays ==
  ASSUME BuildInv, LockIsHeld, [BuildNext]_vars, UNCHANGED lock,
         \A b \in Builders : builder'[b].pc = "building" <=> builder[b].pc = "building",
         \A b \in Builders : builder[b].pc = "building" => builder'[b].job = builder[b].job
  PROVE  LockIsHeld'
<1>1. ASSUME NEW b \in Builders, builder[b].pc = "building" PROVE JobEnv(b)' = JobEnv(b)
  <2>1. builder[b].job \in Jobs /\ job[builder[b].job].status # "none"
    BY <1>1, TaskFacts
  <2> QED BY <1>1, <2>1, JobStays DEF JobEnv
<1> QED BY <1>1 DEF LockIsHeld

(* Every step keeps the lock with the one who builds.                       *)
LEMMA LockStep ==
  ASSUME BuildInv, LockIsHeld, Local = Builders, [BuildNext]_vars
  PROVE  LockIsHeld'
<1>0. /\ RowsOK /\ lock \in [Envs -> {Free} \cup Local \cup Runs]
      /\ \A b \in Builders : b # Free /\ b \notin Runs
      /\ \A r \in Runs : r # Free /\ r \notin Builders
  BY DEF BuildInv, RowsOK
<1>1. ASSUME UNCHANGED <<builder, lock>> PROVE LockIsHeld'
  BY <1>1, LockStays
<1>2. ASSUME NEW b \in Builders, NEW j \in Jobs, Lease(b, j) PROVE LockIsHeld'
  BY <1>2, LeaseEffect, LockStays, ZenonT(60)
<1>3. ASSUME NEW b \in Builders, BeginJob(b) PROVE LockIsHeld'
  <2>1. /\ builder[b].pc = "begin" /\ builder'[b].pc \in {"idle", "drain"} /\ UNCHANGED lock
        /\ \A c \in Builders \ {b} : builder'[c] = builder[c]
    BY <1>3, BeginEffect
  <2> QED BY <2>1, LockStays
<1>4. ASSUME NEW b \in Builders, DrainPool(b) PROVE LockIsHeld'
  <2>1. /\ builder[b].pc = "drain" /\ builder'[b].pc = "build"
        /\ \A c \in Builders \ {b} : builder'[c] = builder[c]
    BY <1>4, TaskAdvances DEF DrainPool
  <2> QED BY <1>4, <2>1, LockStays DEF DrainPool
<1>5. ASSUME NEW b \in Builders, Records(b) PROVE LockIsHeld'
  <2>1. /\ builder[b].pc = "record" /\ builder'[b].pc \in {"unpause", "idle"}
        /\ \A c \in Builders \ {b} : builder'[c] = builder[c]
        /\ UNCHANGED lock
    BY <1>5, RecordEffect
  <2> QED BY <2>1, LockStays
<1>6. ASSUME NEW b \in Builders, Ends(b) PROVE LockIsHeld'
  <2>1. /\ builder[b].pc \in {"begin", "unpause"} /\ UNCHANGED lock
        /\ builder' = [builder EXCEPT ![b] = NoTask]
    BY <1>6 DEF Ends, TaskEnds, TaskRaises
  <2>2. builder'[b].pc = "idle" /\ \A c \in Builders \ {b} : builder'[c] = builder[c]
    BY <1>0, <2>1, TaskStops
  <2> QED BY <2>1, <2>2, LockStays
<1>7. ASSUME NEW b \in Builders, HeartbeatDies(b) PROVE LockIsHeld'
  <2>1. /\ builder'[b].pc = builder[b].pc /\ builder'[b].job = builder[b].job /\ UNCHANGED lock
        /\ \A c \in Builders \ {b} : builder'[c] = builder[c]
    BY <1>0, <1>7, HeartbeatEffect DEF HeartbeatDies
  <2> QED BY <2>1, LockStays
<1>8. ASSUME NEW b \in Builders, TaskBuilds(b) PROVE LockIsHeld'
  <2>1. PICK e \in Envs : e = JobEnv(b)
    BY <1>8, TaskAdvances
  <2>2. /\ job' = job /\ builder[b].pc = "build" /\ builder'[b].pc = "building"
        /\ builder'[b].job = builder[b].job
        /\ \A c \in Builders \ {b} : builder'[c] = builder[c]
    BY <1>8, TaskAdvances DEF TaskBuilds
  <2>3. lock[e] = Free /\ lock' = [lock EXCEPT ![e] = b]
    BY <1>8, <2>1 DEF TaskBuilds, CanLock, LockTo
  <2>4. \A c \in Builders : JobEnv(c)' = JobEnv(c)
    BY <2>2 DEF JobEnv
  <2>5. ASSUME NEW f \in Envs, NEW c \in Local
        PROVE  lock'[f] = c <=> builder'[c].pc = "building" /\ JobEnv(c)' = f
    <3>1. lock[f] = c <=> builder[c].pc = "building" /\ JobEnv(c) = f
      BY DEF LockIsHeld
    <3>2. CASE c = b
      BY <1>0, <2>1, <2>2, <2>3, <2>4, <3>1, <3>2
    <3>3. CASE c # b
      BY <1>0, <2>1, <2>2, <2>3, <2>4, <3>1, <3>3
    <3> QED BY <3>2, <3>3
  <2>6. \A f \in Envs : \A r \in Runs : lock'[f] = r => EnvOf[r] = f
    BY <1>0, <2>3 DEF LockIsHeld
  <2> QED BY <2>5, <2>6 DEF LockIsHeld
<1>9. ASSUME NEW b \in Builders, NEW ok \in BOOLEAN, TaskBuilt(b, ok) PROVE LockIsHeld'
  <2>1. PICK e \in Envs : e = JobEnv(b)
    BY <1>9, TaskAdvances
  <2>2. /\ job' = job /\ builder[b].pc = "building" /\ builder'[b].pc = "record"
        /\ builder'[b].job = builder[b].job
        /\ \A c \in Builders \ {b} : builder'[c] = builder[c]
    BY <1>9, TaskAdvances DEF TaskBuilt
  <2>3. lock[e] = b /\ lock' = [lock EXCEPT ![e] = Free]
    BY <1>9, <2>1, <2>2 DEF TaskBuilt, LockTo, LockIsHeld
  <2>4. \A c \in Builders : JobEnv(c)' = JobEnv(c)
    BY <2>2 DEF JobEnv
  <2>5. ASSUME NEW f \in Envs, NEW c \in Local
        PROVE  lock'[f] = c <=> builder'[c].pc = "building" /\ JobEnv(c)' = f
    <3>1. lock[f] = c <=> builder[c].pc = "building" /\ JobEnv(c) = f
      BY DEF LockIsHeld
    <3>2. CASE c = b
      BY <1>0, <2>1, <2>2, <2>3, <2>4, <3>1, <3>2
    <3>3. CASE c # b
      BY <1>0, <2>1, <2>2, <2>3, <2>4, <3>1, <3>3
    <3> QED BY <3>2, <3>3
  <2>6. \A f \in Envs : \A r \in Runs : lock'[f] = r => EnvOf[r] = f
    BY <1>0, <2>3 DEF LockIsHeld
  <2> QED BY <2>5, <2>6 DEF LockIsHeld
<1>10. ASSUME NEW r \in Runs, SpawnProgress(r) PROVE LockIsHeld'
  <2> DEFINE e == EnvOf[r]
  <2>1. /\ UNCHANGED <<job, builder>> /\ e \in Envs
        /\ \/ UNCHANGED lock
           \/ lock[e] = Free /\ lock' = [lock EXCEPT ![e] = r]
           \/ lock[e] = r /\ lock' = [lock EXCEPT ![e] = Free]
    BY <1>10, SpawnEffect
  <2>2. \A c \in Builders : JobEnv(c)' = JobEnv(c)
    BY <2>1 DEF JobEnv
  <2>3. ASSUME NEW f \in Envs, NEW c \in Local PROVE lock'[f] = c <=> lock[f] = c
    BY <1>0, <2>1
  <2>4. ASSUME NEW f \in Envs, NEW s \in Runs, lock'[f] = s PROVE EnvOf[s] = f
    BY <1>0, <2>1, <2>4, SMTT(60) DEF LockIsHeld
  <2> QED BY <2>1, <2>2, <2>3, <2>4 DEF LockIsHeld
<1>11. CASE Crash
  <2>1. /\ \A f \in Envs : lock'[f] = Free
        /\ \A b \in Builders : builder'[b].pc = "idle"
    BY <1>11 DEF Crash, NoTask
  <2> QED BY <1>0, <2>1 DEF LockIsHeld
<1>12. ASSUME \/ UNCHANGED vars
              \/ \E e \in Envs, config \in Images : RequestBuild(e, config)
              \/ \E j \in Jobs : Sweep(j)
              \/ \E r \in Runs : PoolRunStep(r)
              \/ \E p \in Procs : ProcessExits(p)
              \/ \E c \in Ceilings : PoolResize(c)
       PROVE  UNCHANGED <<builder, lock>>
  BY <1>12 DEF vars, buildVars, RequestBuild, Sweep, PoolRunStep, ProcessExits, PoolResize
<1> QED
  BY <1>1, <1>2, <1>3, <1>4, <1>5, <1>6, <1>7, <1>8, <1>9, <1>10, <1>11, <1>12
  DEF BuildNext, TaskStep, TaskFault, Records, Ends, Leases

----------------------------------------------------------------------------
(* Tasks before the first fault                                            *)

(* What is known of a task that works on its job, and of a taken job.      *)
Undisturbed(b) ==
  /\ builder[b].beats
  /\ IF builder[b].pc = "begin" THEN job[builder[b].job].status \notin {"queued", "running"}
     ELSE job[builder[b].job].status = "running"
  /\ \A c \in Builders : builder[c].pc \in WithJob /\ builder[c].job = builder[b].job => b = c

TasksAlone == \A b \in Builders : builder[b].pc \in WithJob => Undisturbed(b)

WorkedOn(j) ==
  job[j].status \in {"leased", "running"} =>
    \E b \in Builders : builder[b].pc \in WithJob /\ builder[b].job = j

(* TasksUndisturbed, task by task and job by job.                           *)
LEMMA UndisturbedParts ==
  TasksUndisturbed <=> (faults = NoFaults => TasksAlone /\ \A j \in Jobs : WorkedOn(j))
BY DEF TasksUndisturbed, TasksAlone, Undisturbed, WorkedOn

(* A step after which there was no fault found none and is none.            *)
LEMMA NoFaultStep ==
  ASSUME FaultsOK, [BuildNext]_vars, faults' = NoFaults
  PROVE  /\ faults = NoFaults /\ ~Crash
         /\ \A b \in Builders : ~TaskFault(b)
<1>0. /\ faults = [crashes |-> faults.crashes, errors |-> faults.errors]
      /\ faults.crashes \in Nat /\ faults.errors \in Nat
  BY DEF FaultsOK
<1>1. faults'.crashes = 0 /\ faults'.errors = 0
  BY DEF NoFaults
<1>2. ~Raises
  <2>1. Raises => faults'.errors = faults.errors + 1
    BY <1>0 DEF Raises
  <2> QED BY <1>0, <1>1, <2>1
<1>3. ~Crash
  <2>1. Crash => faults'.crashes = faults.crashes + 1
    BY <1>0 DEF Crash
  <2> QED BY <1>0, <1>1, <2>1
<1>4. \A b \in Builders : ~TaskFault(b)
  BY <1>2 DEF TaskFault, HeartbeatDies, RecordRaises, TaskRaises
<1>5. UNCHANGED faults
  BY <1>3, <1>4, PoolLeavesQueue
  DEF BuildNext, vars, buildVars, RequestBuild, Leases, Lease, TaskStep, BeginJob, DrainPool,
      TaskBuilds, TaskBuilt, Record, TaskEnds, Sweep
<1> QED BY <1>3, <1>4, <1>5

(* Tasks stay at work or stop working, and the jobs of those at work keep    *)
(* what is known of them.                                                   *)
LEMMA AloneStays ==
  ASSUME TasksAlone,
         \A b \in Builders : builder'[b].pc \in WithJob =>
           /\ builder[b].pc \in WithJob
           /\ builder'[b].job = builder[b].job /\ builder'[b].beats = builder[b].beats
           /\ IF builder'[b].pc = "begin"
              THEN job'[builder[b].job].status \notin {"queued", "running"}
              ELSE job'[builder[b].job].status = "running"
  PROVE  TasksAlone'
<1>1. ASSUME NEW b \in Builders, builder'[b].pc \in WithJob PROVE Undisturbed(b)'
  <2>1. Undisturbed(b) /\ builder'[b].job = builder[b].job /\ builder'[b].beats = builder[b].beats
    BY <1>1 DEF TasksAlone
  <2>2. \A c \in Builders : builder'[c].pc \in WithJob /\ builder'[c].job = builder'[b].job => b = c
    BY <2>1, ZenonT(60) DEF Undisturbed
  <2>3. IF builder'[b].pc = "begin"
        THEN job'[builder'[b].job].status \notin {"queued", "running"}
        ELSE job'[builder'[b].job].status = "running"
    BY <1>1, <2>1
  <2> QED BY <2>1, <2>2, <2>3 DEF Undisturbed
<1> QED BY <1>1 DEF TasksAlone

(* A task that works on its job, before the first fault.                    *)
LEMMA AloneFacts ==
  ASSUME BuildInv, TasksAlone, NEW b \in Builders, builder[b].pc \in WithJob
  PROVE  /\ Undisturbed(b) /\ builder[b].job \in Jobs
         /\ job[builder[b].job].status # "none"
BY KnownJobs DEF BuildInv, TasksAlone, WithJob

(* Every step without a fault keeps it: what would expire a lease is one.   *)
LEMMA AloneStep ==
  ASSUME BuildInv, TasksAlone, [BuildNext]_vars, ~Crash, \A b \in Builders : ~TaskFault(b)
  PROVE  TasksAlone'
<1>0. RowsOK /\ TasksHaveJobs
  BY DEF BuildInv
<1>1. ASSUME UNCHANGED <<job, builder>> PROVE TasksAlone'
  BY <1>1 DEF TasksAlone, Undisturbed
<1>2. ASSUME NEW e \in Envs, NEW config \in Images, RequestBuild(e, config)
      PROVE  TasksAlone'
  <2>1. UNCHANGED builder
    BY <1>2 DEF RequestBuild
  <2>2. \A j \in Jobs :
          \/ job'[j] = job[j]
          \/ job[j].status \in {"queued", "leased"} /\ job'[j].status = "superseded"
          \/ job[j].status = "none"
    BY <1>0, <1>2, RequestEffect
  <2>3. ASSUME NEW b \in Builders, builder'[b].pc \in WithJob
        PROVE  /\ builder[b].pc \in WithJob
               /\ builder'[b].job = builder[b].job /\ builder'[b].beats = builder[b].beats
               /\ IF builder'[b].pc = "begin"
                  THEN job'[builder[b].job].status \notin {"queued", "running"}
                  ELSE job'[builder[b].job].status = "running"
    <3>1. Undisturbed(b) /\ builder[b].job \in Jobs /\ job[builder[b].job].status # "none"
      BY <2>1, <2>3, AloneFacts
    <3> QED BY <2>1, <2>2, <2>3, <3>1 DEF Undisturbed
  <2> QED BY <2>3, AloneStays
<1>3. ASSUME NEW b \in Builders, NEW j \in Jobs, Lease(b, j) PROVE TasksAlone'
  <2>1. /\ builder[b].pc = "idle" /\ job[j].status = "queued" /\ job'[j].status = "leased"
        /\ \A i \in Jobs \ {j} : job'[i] = job[i]
        /\ builder'[b].pc = "begin" /\ builder'[b].job = j /\ builder'[b].beats
        /\ \A c \in Builders \ {b} : builder'[c] = builder[c]
    BY <1>3, LeaseEffect
  <2>2. ASSUME NEW c \in Builders \ {b}, builder'[c].pc \in WithJob
        PROVE  /\ Undisturbed(c) /\ builder[c].job \in Jobs /\ builder[c].job # j
               /\ builder'[c] = builder[c] /\ job'[builder[c].job] = job[builder[c].job]
    <3>1. builder'[c] = builder[c]
      BY <2>1
    <3>2. Undisturbed(c) /\ builder[c].job \in Jobs
      BY <2>2, <3>1, AloneFacts
    <3>3. builder[c].job # j
      BY <2>1, <3>2 DEF Undisturbed
    <3> QED BY <2>1, <3>1, <3>2, <3>3
  <2>3. ASSUME NEW c \in Builders, builder'[c].pc \in WithJob PROVE Undisturbed(c)'
    <3>1. CASE c = b
      <4>1. \A d \in Builders : builder'[d].pc \in WithJob /\ builder'[d].job = j => b = d
        BY <2>2
      <4>2. builder'[b].beats /\ job'[builder'[b].job].status = "leased" /\ builder'[b].job = j
        BY <2>1
      <4> QED BY <2>1, <3>1, <4>1, <4>2 DEF Undisturbed
    <3>2. CASE c # b
      <4>1. /\ Undisturbed(c) /\ builder[c].job \in Jobs /\ builder[c].job # j
            /\ builder'[c] = builder[c] /\ job'[builder[c].job] = job[builder[c].job]
        BY <2>2, <2>3, <3>2
      <4> QED BY <2>1, <4>1, ZenonT(60) DEF Undisturbed
    <3> QED BY <3>1, <3>2
  <2> QED BY <2>3 DEF TasksAlone
<1>4. ASSUME NEW b \in Builders, builder[b].pc \in WithJob,
             \A c \in Builders \ {b} : builder'[c] = builder[c],
             builder'[b].pc \notin WithJob,
             \A i \in Jobs \ {builder[b].job} : job'[i] = job[i]
      PROVE  TasksAlone'
  <2>1. ASSUME NEW c \in Builders, builder'[c].pc \in WithJob
        PROVE  /\ builder[c].pc \in WithJob
               /\ builder'[c].job = builder[c].job /\ builder'[c].beats = builder[c].beats
               /\ IF builder'[c].pc = "begin"
                  THEN job'[builder[c].job].status \notin {"queued", "running"}
                  ELSE job'[builder[c].job].status = "running"
    <3>1. c # b /\ builder'[c] = builder[c]
      BY <1>4, <2>1
    <3>2. Undisturbed(c) /\ builder[c].job \in Jobs
      BY <2>1, <3>1, AloneFacts
    <3>3. builder[c].job # builder[b].job
      BY <1>4, <2>1, <3>1, <3>2 DEF Undisturbed
    <3> QED BY <1>4, <2>1, <3>1, <3>2, <3>3 DEF Undisturbed
  <2> QED BY <2>1, AloneStays
<1>5. ASSUME NEW b \in Builders, BeginJob(b) PROVE TasksAlone'
  <2> DEFINE j == builder[b].job
  <2>1. /\ builder[b].pc = "begin" /\ j \in Jobs
        /\ \A i \in Jobs \ {j} : job'[i] = job[i]
        /\ \A c \in Builders \ {b} : builder'[c] = builder[c]
        /\ \/ builder'[b].pc = "idle"
           \/ /\ job'[j].status = "running"
              /\ builder'[b].pc = "drain" /\ builder'[b].job = j
              /\ builder'[b].beats = builder[b].beats
    BY <1>5, BeginEffect
  <2>2. CASE builder'[b].pc = "idle"
    BY <1>4, <2>1, <2>2 DEF WithJob
  <2>3. CASE /\ job'[j].status = "running"
             /\ builder'[b].pc = "drain" /\ builder'[b].job = j
             /\ builder'[b].beats = builder[b].beats
    <3>1. ASSUME NEW c \in Builders \ {b}, builder'[c].pc \in WithJob
          PROVE  /\ builder'[c] = builder[c] /\ Undisturbed(c)
                 /\ job'[builder[c].job] = job[builder[c].job]
      <4>1. builder'[c] = builder[c]
        BY <2>1
      <4>2. Undisturbed(c) /\ builder[c].job \in Jobs
        BY <3>1, <4>1, AloneFacts
      <4>3. builder[c].job # j
        BY <2>1, <4>2 DEF Undisturbed, WithJob
      <4> QED BY <2>1, <4>1, <4>2, <4>3
    <3>2. ASSUME NEW c \in Builders, builder'[c].pc \in WithJob
          PROVE  /\ builder[c].pc \in WithJob
                 /\ builder'[c].job = builder[c].job /\ builder'[c].beats = builder[c].beats
                 /\ IF builder'[c].pc = "begin"
                    THEN job'[builder[c].job].status \notin {"queued", "running"}
                    ELSE job'[builder[c].job].status = "running"
      <4>1. CASE c = b
        BY <2>1, <2>3, <4>1 DEF WithJob
      <4>2. CASE c # b
        BY <3>1, <3>2, <4>2 DEF Undisturbed
      <4> QED BY <4>1, <4>2
    <3> QED BY <3>2, AloneStays
  <2> QED BY <2>1, <2>2, <2>3
<1>6. ASSUME NEW b \in Builders,
             DrainPool(b) \/ TaskBuilds(b) \/ \E ok \in BOOLEAN : TaskBuilt(b, ok)
      PROVE  TasksAlone'
  <2>1. /\ job' = job /\ builder[b].pc \in WithJob \ {"begin"}
        /\ builder'[b].pc # "begin"
        /\ builder'[b].job = builder[b].job /\ builder'[b].beats = builder[b].beats
        /\ \A c \in Builders \ {b} : builder'[c] = builder[c]
    BY <1>6, TaskAdvances DEF WithJob
  <2>2. ASSUME NEW c \in Builders, builder'[c].pc \in WithJob
        PROVE  /\ builder[c].pc \in WithJob
               /\ builder'[c].job = builder[c].job /\ builder'[c].beats = builder[c].beats
               /\ IF builder'[c].pc = "begin"
                  THEN job'[builder[c].job].status \notin {"queued", "running"}
                  ELSE job'[builder[c].job].status = "running"
    <3>1. CASE c = b
      <4>1. Undisturbed(b)
        BY <2>1, AloneFacts
      <4> QED BY <2>1, <3>1, <4>1 DEF Undisturbed
    <3>2. CASE c # b
      <4>1. builder'[c] = builder[c]
        BY <2>1, <3>2
      <4>2. Undisturbed(c)
        BY <2>2, <4>1, AloneFacts
      <4> QED BY <2>1, <2>2, <4>1, <4>2 DEF Undisturbed
    <3> QED BY <3>1, <3>2
  <2> QED BY <2>2, AloneStays
<1>7. ASSUME NEW b \in Builders, Record(b) PROVE TasksAlone'
  <2>1. /\ builder[b].pc = "record" /\ builder'[b].pc \in {"unpause", "idle"}
        /\ \A i \in Jobs \ {builder[b].job} : job'[i] = job[i]
        /\ \A c \in Builders \ {b} : builder'[c] = builder[c]
    BY <1>7, RecordEffect DEF Records
  <2> QED BY <1>4, <2>1 DEF WithJob
<1>8. ASSUME NEW b \in Builders, TaskEnds(b) PROVE TasksAlone'
  <2>1. /\ builder'[b].pc = "idle" /\ UNCHANGED job
        /\ \A c \in Builders \ {b} : builder'[c] = builder[c]
    BY <1>0, <1>8, TaskStops DEF TaskEnds
  <2>2. ASSUME NEW c \in Builders, builder'[c].pc \in WithJob
        PROVE  /\ builder[c].pc \in WithJob
               /\ builder'[c].job = builder[c].job /\ builder'[c].beats = builder[c].beats
               /\ IF builder'[c].pc = "begin"
                  THEN job'[builder[c].job].status \notin {"queued", "running"}
                  ELSE job'[builder[c].job].status = "running"
    <3>1. builder'[c] = builder[c]
      BY <2>1, <2>2 DEF WithJob
    <3>2. Undisturbed(c)
      BY <2>2, <3>1, AloneFacts
    <3> QED BY <2>1, <2>2, <3>1, <3>2 DEF Undisturbed
  <2> QED BY <2>2, AloneStays
<1>9. ASSUME NEW j \in Jobs, Sweep(j) PROVE TasksAlone'
  <2>1. /\ Fail(j) /\ UNCHANGED builder
        /\ ~ \E b \in Builders : builder[b].job = j /\ builder[b].beats
    BY <1>9 DEF Sweep
  <2>2. \A i \in Jobs \ {j} : job'[i] = job[i]
    BY <1>0, <2>1, FailEffect
  <2>3. ASSUME NEW c \in Builders, builder'[c].pc \in WithJob
        PROVE  /\ builder[c].pc \in WithJob
               /\ builder'[c].job = builder[c].job /\ builder'[c].beats = builder[c].beats
               /\ IF builder'[c].pc = "begin"
                  THEN job'[builder[c].job].status \notin {"queued", "running"}
                  ELSE job'[builder[c].job].status = "running"
    <3>1. Undisturbed(c) /\ builder[c].job \in Jobs
      BY <2>1, <2>3, AloneFacts
    <3>2. builder[c].job # j
      BY <2>1, <3>1 DEF Undisturbed
    <3> QED BY <2>1, <2>2, <2>3, <3>1, <3>2 DEF Undisturbed
  <2> QED BY <2>3, AloneStays
<1> QED
  BY <1>1, <1>2, <1>3, <1>5, <1>6, <1>7, <1>8, <1>9, PoolLeavesQueue
  DEF BuildNext, TaskStep, Leases, vars, buildVars

(* A job that counts as taken keeps the task that works on it.              *)
LEMMA WorkedOnStep ==
  ASSUME BuildInv, TasksAlone, \A j \in Jobs : WorkedOn(j), [BuildNext]_vars, ~Crash,
         \A b \in Builders : ~TaskFault(b), NEW j \in Jobs, job'[j].status \in {"leased", "running"}
  PROVE  \E b \in Builders : builder'[b].pc \in WithJob /\ builder'[b].job = j
<1> DEFINE Goal == \E b \in Builders : builder'[b].pc \in WithJob /\ builder'[b].job = j
<1>0. RowsOK /\ TasksHaveJobs
  BY DEF BuildInv
<1>1. ASSUME job[j].status \in {"leased", "running"},
             \A b \in Builders : builder[b].pc \in WithJob /\ builder[b].job = j =>
               builder'[b].pc \in WithJob /\ builder'[b].job = j
      PROVE  Goal
  BY <1>1 DEF WorkedOn
<1>2. ASSUME UNCHANGED <<job, builder>> PROVE Goal
  BY <1>1, <1>2
<1>3. ASSUME NEW e \in Envs, NEW config \in Images, RequestBuild(e, config) PROVE Goal
  <2>1. UNCHANGED builder
    BY <1>3 DEF RequestBuild
  <2>2. \/ job'[j] = job[j]
        \/ job'[j].status \in {"superseded", "queued"}
    BY <1>0, <1>3, RequestEffect
  <2> QED BY <1>1, <2>1, <2>2
<1>4. ASSUME NEW b \in Builders, NEW i \in Jobs, Lease(b, i) PROVE Goal
  <2>1. /\ builder[b].pc = "idle" /\ \A k \in Jobs \ {i} : job'[k] = job[k]
        /\ builder'[b].pc = "begin" /\ builder'[b].job = i
        /\ \A c \in Builders \ {b} : builder'[c] = builder[c]
    BY <1>4, LeaseEffect
  <2>2. CASE i = j
    BY <2>1, <2>2 DEF WithJob
  <2>3. CASE i # j
    <3>1. job[j].status \in {"leased", "running"}
      BY <2>1, <2>3
    <3>2. ASSUME NEW c \in Builders, builder[c].pc \in WithJob, builder[c].job = j
          PROVE  builder'[c].pc \in WithJob /\ builder'[c].job = j
      <4>1. c # b
        BY <2>1, <3>2 DEF WithJob
      <4> QED BY <2>1, <3>2, <4>1
    <3> QED BY <1>1, <3>1, <3>2
  <2> QED BY <2>2, <2>3
<1>5. ASSUME NEW b \in Builders,
             \A c \in Builders \ {b} : builder'[c] = builder[c],
             \A k \in Jobs \ {builder[b].job} : job'[k] = job[k],
             builder[b].job = j => \/ job'[j].status \notin {"leased", "running"}
                                   \/ builder'[b].pc \in WithJob /\ builder'[b].job = j
      PROVE  Goal
  <2>1. CASE builder[b].job = j
    BY <1>5, <2>1
  <2>2. CASE builder[b].job # j
    <3>1. job[j].status \in {"leased", "running"}
      BY <1>5, <2>2
    <3>2. ASSUME NEW c \in Builders, builder[c].pc \in WithJob, builder[c].job = j
          PROVE  builder'[c].pc \in WithJob /\ builder'[c].job = j
      BY <1>5, <2>2, <3>2
    <3> QED BY <1>1, <3>1, <3>2
  <2> QED BY <2>1, <2>2
<1>6. ASSUME NEW b \in Builders, BeginJob(b) PROVE Goal
  <2>1. LET i == builder[b].job IN
        /\ \A k \in Jobs \ {i} : job'[k] = job[k]
        /\ \A c \in Builders \ {b} : builder'[c] = builder[c]
        /\ \/ job[i].status \notin ACTIVE_STATUSES /\ job'[i] = job[i]
           \/ job'[i].status = "superseded"
           \/ builder'[b].pc = "drain" /\ builder'[b].job = i
    BY <1>6, BeginEffect
  <2> QED BY <1>5, <2>1 DEF WithJob, ACTIVE_STATUSES
<1>7. ASSUME NEW b \in Builders,
             DrainPool(b) \/ TaskBuilds(b) \/ \E ok \in BOOLEAN : TaskBuilt(b, ok)
      PROVE  Goal
  <2>1. /\ job' = job /\ builder'[b].pc \in WithJob /\ builder'[b].job = builder[b].job
        /\ \A c \in Builders \ {b} : builder'[c] = builder[c]
    BY <1>7, TaskAdvances DEF WithJob
  <2> QED BY <1>5, <2>1
<1>8. ASSUME NEW b \in Builders, Record(b) PROVE Goal
  <2>1. /\ job'[builder[b].job].status \in {"queued", "failed", "succeeded"}
        /\ \A k \in Jobs \ {builder[b].job} : job'[k] = job[k]
        /\ \A c \in Builders \ {b} : builder'[c] = builder[c]
    BY <1>8, RecordEffect DEF Records
  <2> QED BY <1>5, <2>1
<1>9. ASSUME NEW b \in Builders, TaskEnds(b) PROVE Goal
  <2>1. /\ builder[b].pc = "unpause" /\ UNCHANGED job
        /\ \A c \in Builders \ {b} : builder'[c] = builder[c]
    BY <1>0, <1>9, TaskStops DEF TaskEnds
  <2>2. ASSUME NEW c \in Builders, builder[c].pc \in WithJob, builder[c].job = j
        PROVE  builder'[c].pc \in WithJob /\ builder'[c].job = j
    <3>1. c # b
      BY <2>1, <2>2 DEF WithJob
    <3> QED BY <2>1, <2>2, <3>1
  <2> QED BY <1>1, <2>1, <2>2
<1>10. ASSUME NEW i \in Jobs, Sweep(i) PROVE Goal
  <2>1. /\ Fail(i) /\ UNCHANGED builder /\ job[i].status \in {"leased", "running"}
        /\ ~ \E b \in Builders : builder[b].job = i /\ builder[b].beats
    BY <1>10 DEF Sweep
  <2>2. PICK b \in Builders : builder[b].pc \in WithJob /\ builder[b].job = i
    BY <2>1 DEF WorkedOn
  <2>3. builder[b].beats
    BY <2>2, AloneFacts DEF Undisturbed
  <2> QED BY <2>1, <2>2, <2>3
<1> HIDE DEF Goal
<1> QED
  <2>1. Goal
    BY <1>2, <1>3, <1>4, <1>6, <1>7, <1>8, <1>9, <1>10, PoolLeavesQueue
    DEF BuildNext, TaskStep, Leases, vars, buildVars
  <2> QED BY <2>1 DEF Goal

(* Every step keeps tasks and jobs together until a fault.                  *)
LEMMA UndisturbedStep ==
  ASSUME BuildInv, TasksUndisturbed, [BuildNext]_vars
  PROVE  TasksUndisturbed'
<1> SUFFICES ASSUME faults' = NoFaults
             PROVE  TasksAlone' /\ \A j \in Jobs : WorkedOn(j)'
  BY DEF TasksUndisturbed, TasksAlone, Undisturbed, WorkedOn
<1>1. faults = NoFaults /\ ~Crash /\ \A b \in Builders : ~TaskFault(b)
  BY NoFaultStep DEF BuildInv
<1>2. TasksAlone /\ \A j \in Jobs : WorkedOn(j)
  BY <1>1, UndisturbedParts
<1>3. TasksAlone'
  BY <1>1, <1>2, AloneStep
<1>4. \A j \in Jobs : WorkedOn(j)'
  BY <1>1, <1>2, WorkedOnStep DEF WorkedOn
<1> QED BY <1>3, <1>4

----------------------------------------------------------------------------
(* Builds catch up with requests                                           *)

(* A job that is queued, will be queued again, or whose build still reads   *)
(* the configuration.                                                      *)
Pending(j) ==
  \/ job[j].status = "queued"
  \/ job[j].status = "leased" /\ job[j].attempts < MaxAttempts[j]
  \/ \E b \in Builders : /\ builder[b].job = j
                         /\ \/ builder[b].pc = "begin" /\ job[j].status \in ACTIVE_STATUSES
                            \/ builder[b].pc \in {"drain", "build"}

WillCatchUp(e) == ToBuild(e) \/ \E j \in Active(e) : Current(j)

(* The four parts of BuildsCatchUp.                                        *)
LockCatchesUp(e) == lock[e] # Free /\ making[lock[e]] # env[e].config => ToBuild(e)

DiskCatchesUp(e) ==
  env[e].status = "ready" /\ env[e].disk # env[e].config => WillCatchUp(e)

BuildingIsCurrent(b) ==
  builder[b].pc = "building" /\ Current(builder[b].job) => making[b] = env[JobEnv(b)].config

RecordIsCurrent(b) ==
  builder[b].pc = "record" /\ Current(builder[b].job) => CaughtUp(JobEnv(b))

(* BuildsCatchUp, part by part.                                             *)
LEMMA CatchUpParts ==
  BuildsCatchUp <=> /\ \A e \in Envs : LockCatchesUp(e) /\ DiskCatchesUp(e)
                    /\ \A b \in Builders : BuildingIsCurrent(b) /\ RecordIsCurrent(b)
BY DEF BuildsCatchUp, LockCatchesUp, DiskCatchesUp, BuildingIsCurrent, RecordIsCurrent, WillCatchUp

(* A job still to read the configuration was enqueued.                      *)
LEMMA PendingFacts ==
  ASSUME BuildInv, NEW j \in Jobs, Pending(j)
  PROVE  job[j].status # "none"
<1>1. ASSUME NEW b \in Builders, builder[b].job = j PROVE job[j].status # "none"
  BY <1>1, KnownJobs, JobsArePositive DEF BuildInv
<1> QED BY <1>1 DEF Pending

(* ToBuild, job by job.                                                     *)
LEMMA ToBuildIsPending ==
  ASSUME BuildInv, NEW e
  PROVE  ToBuild(e) <=> \E j \in Jobs : job[j].env = e /\ Current(j) /\ Pending(j)
BY PendingFacts DEF ToBuild, Pending

NoRequest == ~ \E e \in Envs, config \in Images : RequestBuild(e, config)

(* The first transaction of a task raises, and its job is left leased.      *)
LosesLease(b) == builder[b].pc = "begin" /\ TaskRaises(b)

NoLostLease == \A b \in Builders : ~ LosesLease(b)

(* The task reads the configuration, or records its outcome.                *)
ReadsOrRecords(b) ==
  \/ builder[b].pc = "build" /\ builder'[b].pc = "building"
  \/ builder[b].pc = "record" /\ builder'[b].pc # "record"

(* A pending job stays one until its task ends with it, builds, or records.  *)
LEMMA PendingStep ==
  ASSUME BuildInv, [BuildNext]_vars, ~Crash, NoRequest, NoLostLease, NEW j \in Jobs,
         Pending(j)
  PROVE  \/ Pending(j)'
         \/ \E b \in Builders : builder[b].job = j /\ BeginJob(b) /\ ~Current(j)
         \/ \E b \in Builders : builder[b].job = j /\ ReadsOrRecords(b)
<1> DEFINE Goal == \/ Pending(j)'
                   \/ \E b \in Builders : builder[b].job = j /\ BeginJob(b) /\ ~Current(j)
                   \/ \E b \in Builders : builder[b].job = j /\ ReadsOrRecords(b)
<1>0. RowsOK /\ TasksHaveJobs
  BY DEF BuildInv
<1>1. ASSUME UNCHANGED <<job, builder>> PROVE Goal
  BY <1>1 DEF Pending
<1>2. ASSUME NEW b \in Builders, NEW i \in Jobs, Lease(b, i) PROVE Goal
  <2>1. /\ builder[b].pc = "idle"
        /\ job'[i].status = "leased" /\ \A k \in Jobs \ {i} : job'[k] = job[k]
        /\ builder'[b].pc = "begin" /\ builder'[b].job = i
        /\ \A c \in Builders \ {b} : builder'[c] = builder[c]
    BY <1>2, LeaseEffect
  <2>2. CASE i = j
    BY <2>1, <2>2 DEF Pending, ACTIVE_STATUSES
  <2>3. CASE i # j
    BY <2>1, <2>3 DEF Pending
  <2> QED BY <2>2, <2>3
<1>3. ASSUME NEW b \in Builders, BeginJob(b) PROVE Goal
  <2> DEFINE i == builder[b].job
  <2>1. /\ builder[b].pc = "begin" /\ i \in Jobs
        /\ \A k \in Jobs \ {i} : job'[k] = job[k]
        /\ \A c \in Builders \ {b} : builder'[c] = builder[c]
        /\ \/ job[i].status \notin ACTIVE_STATUSES /\ job'[i] = job[i]
           \/ env[JobEnv(b)].config # job[i].config
           \/ builder'[b].pc = "drain" /\ builder'[b].job = i
    BY <1>3, BeginEffect
  <2>2. CASE i # j
    BY <2>1, <2>2 DEF Pending
  <2>3. CASE i = j /\ job[i].status \notin ACTIVE_STATUSES /\ job'[i] = job[i]
    BY <2>1, <2>3 DEF Pending, ACTIVE_STATUSES
  <2>4. CASE i = j /\ env[JobEnv(b)].config # job[i].config
    BY <1>3, <2>4 DEF Current, JobEnv
  <2>5. CASE i = j /\ builder'[b].pc = "drain" /\ builder'[b].job = i
    BY <2>1, <2>5 DEF Pending
  <2> QED BY <2>1, <2>2, <2>3, <2>4, <2>5
<1>4. ASSUME NEW b \in Builders, DrainPool(b) PROVE Goal
  <2>1. /\ job' = job /\ builder[b].pc = "drain" /\ builder'[b].pc = "build"
        /\ builder'[b].job = builder[b].job
        /\ \A c \in Builders \ {b} : builder'[c] = builder[c]
    BY <1>4, TaskAdvances DEF DrainPool
  <2> QED BY <2>1 DEF Pending
<1>5. ASSUME NEW b \in Builders, TaskBuilds(b) PROVE Goal
  <2>1. /\ job' = job /\ \A c \in Builders \ {b} : builder'[c] = builder[c]
        /\ builder[b].pc = "build" /\ builder'[b].pc = "building"
    BY <1>5, TaskAdvances DEF TaskBuilds
  <2> QED BY <2>1 DEF Pending, ReadsOrRecords
<1>6. ASSUME NEW b \in Builders, NEW ok \in BOOLEAN, TaskBuilt(b, ok) PROVE Goal
  <2>1. /\ job' = job /\ builder[b].pc = "building"
        /\ \A c \in Builders \ {b} : builder'[c] = builder[c]
    BY <1>6, TaskAdvances DEF TaskBuilt
  <2> QED BY <2>1 DEF Pending
<1>7. ASSUME NEW b \in Builders, Records(b) PROVE Goal
  <2>1. /\ builder[b].pc = "record" /\ builder'[b].pc # "record" /\ builder[b].job \in Jobs
        /\ \A k \in Jobs \ {builder[b].job} : job'[k] = job[k]
        /\ \A c \in Builders \ {b} : builder'[c] = builder[c]
    BY <1>7, RecordEffect
  <2> QED BY <2>1 DEF Pending, ReadsOrRecords
<1>8. ASSUME NEW b \in Builders, Ends(b) PROVE Goal
  <2>1. /\ builder[b].pc = "unpause" /\ UNCHANGED job
        /\ builder' = [builder EXCEPT ![b] = NoTask]
    BY <1>8 DEF Ends, TaskEnds, TaskRaises, NoLostLease, LosesLease
  <2>2. \A c \in Builders \ {b} : builder'[c] = builder[c]
    BY <1>0, <2>1, TaskStops
  <2> QED BY <2>1, <2>2 DEF Pending
<1>9. ASSUME NEW b \in Builders, HeartbeatDies(b) PROVE Goal
  <2>1. /\ builder'[b].pc = builder[b].pc /\ builder'[b].job = builder[b].job /\ UNCHANGED job
        /\ \A c \in Builders \ {b} : builder'[c] = builder[c]
    BY <1>0, <1>9, HeartbeatEffect DEF HeartbeatDies
  <2> QED BY <2>1 DEF Pending
<1>10. ASSUME NEW i \in Jobs, Sweep(i) PROVE Goal
  <2>1. /\ Fail(i) /\ UNCHANGED builder /\ job[i].status \in {"leased", "running"}
        /\ ~ \E b \in Builders : builder[b].job = i /\ builder[b].beats
    BY <1>10 DEF Sweep
  <2>2. /\ \A k \in Jobs \ {i} : job'[k] = job[k]
        /\ job[i].attempts < MaxAttempts[i] => job'[i].status = "queued"
    BY <1>0, <2>1, FailEffect
  <2>3. \A b \in Builders : builder[b].job = i => builder[b].pc # "begin"
    BY <1>0, <2>1, KnownJobs
  <2> QED BY <2>1, <2>2, <2>3 DEF Pending
<1> HIDE DEF Goal
<1> QED
  <2>1. Goal
    BY <1>1, <1>2, <1>3, <1>4, <1>5, <1>6, <1>7, <1>8, <1>9, <1>10, PoolLeavesQueue
    DEF BuildNext, TaskStep, TaskFault, Records, Ends, Leases, vars, buildVars, NoRequest
  <2> QED BY <2>1 DEF Goal

(* Nothing makes a job current or outdated but a request.                   *)
LEMMA CurrentStays ==
  ASSUME BuildInv, [BuildNext]_vars, NoRequest, NEW j \in Jobs
  PROVE  /\ job[j].env \in Envs /\ job'[j].env = job[j].env
         /\ Current(j)' <=> Current(j)
<1>1. SameConfigs
  BY ConfigsStay DEF NoRequest
<1>2. job[j].env \in Envs
  BY DEF BuildInv, RowsOK, JobRows
<1> QED BY <1>1, <1>2 DEF SameConfigs, Current

(* A current job stays to be built until its task reads the configuration or*)
(* records its outcome.                                                     *)
LEMMA ToBuildStays ==
  ASSUME BuildInv, [BuildNext]_vars, ~Crash, NoRequest, NoLostLease, NEW e \in Envs,
         ToBuild(e),
         \A b \in Builders : ReadsOrRecords(b) /\ JobEnv(b) = e => ~Current(builder[b].job)
  PROVE  ToBuild(e)'
<1>1. PICK j \in Jobs : job[j].env = e /\ Current(j) /\ Pending(j)
  BY ToBuildIsPending
<1>2. Pending(j)'
  <2>1. \/ Pending(j)'
        \/ \E b \in Builders : builder[b].job = j /\ BeginJob(b) /\ ~Current(j)
        \/ \E b \in Builders : builder[b].job = j /\ ReadsOrRecords(b)
    BY <1>1, PendingStep
  <2>2. ASSUME NEW b \in Builders, builder[b].job = j, ReadsOrRecords(b) PROVE FALSE
    <3>1. JobEnv(b) = e
      BY <1>1, <2>2 DEF JobEnv
    <3>2. ~Current(builder[b].job)
      BY <2>2, <3>1
    <3> QED BY <1>1, <2>2, <3>2
  <2> QED BY <1>1, <2>1, <2>2
<1>3. job'[j].env = e /\ Current(j)'
  BY <1>1, CurrentStays
<1>4. job'[j].status # "none"
  BY <1>1, PendingFacts, ConfigsStay DEF SameConfigs, NoRequest
<1> QED BY <1>2, <1>3, <1>4 DEF ToBuild, Pending

(* What a task knows of its job and its environment does not change.        *)
LEMMA TaskEnvStays ==
  ASSUME BuildInv, [BuildNext]_vars, NoRequest, NEW b \in Builders, builder[b].pc # "idle",
         builder'[b].job = builder[b].job
  PROVE  /\ JobEnv(b) \in Envs /\ JobEnv(b)' = JobEnv(b)
         /\ Current(builder[b].job)' <=> Current(builder[b].job)
         /\ env'[JobEnv(b)].config = env[JobEnv(b)].config
<1>1. PICK j \in Jobs : j = builder[b].job
  BY TaskFacts
<1>2. job[j].env \in Envs /\ job'[j].env = job[j].env /\ (Current(j)' <=> Current(j))
  BY CurrentStays
<1>3. SameConfigs
  BY ConfigsStay DEF NoRequest
<1>4. /\ Current(builder[b].job)' <=> Current(j)'
      /\ Current(builder[b].job) <=> Current(j)
  BY <1>1 DEF Current
<1> QED BY <1>1, <1>2, <1>3, <1>4 DEF JobEnv, SameConfigs

(* Steps that neither start nor end a build.                               *)
LEMMA CatchUpQuietly ==
  ASSUME BuildInv, BuildsCatchUp, [BuildNext]_vars, NoRequest,
         \A e \in Envs : lock'[e] # Free => /\ lock'[e] = lock[e]
                                            /\ making'[lock[e]] = making[lock[e]],
         \A e \in Envs : /\ env'[e].disk = env[e].disk
                         /\ env'[e].status = "ready" => env[e].status = "ready",
         \A b \in Builders : builder'[b].pc \in {"building", "record"} =>
                               /\ builder'[b].pc = builder[b].pc
                               /\ builder'[b].job = builder[b].job,
         \A b \in Builders : builder[b].pc = "building" => making'[b] = making[b],
         \A e \in Envs : lock'[e] # Free /\ making[lock[e]] # env[e].config /\ ToBuild(e) => ToBuild(e)',
         \A e \in Envs : env'[e].status = "ready" /\ env[e].disk # env[e].config /\ WillCatchUp(e)
                           => WillCatchUp(e)'
  PROVE  BuildsCatchUp'
<1>0. SameConfigs
  BY ConfigsStay DEF NoRequest
<1>1. ASSUME NEW e \in Envs PROVE LockCatchesUp(e)' /\ DiskCatchesUp(e)'
  <2>1. LockCatchesUp(e) /\ DiskCatchesUp(e)
    BY CatchUpParts
  <2>2. env'[e].config = env[e].config
    BY <1>0 DEF SameConfigs
  <2>3. LockCatchesUp(e)'
    BY <2>1, <2>2 DEF LockCatchesUp
  <2>4. DiskCatchesUp(e)'
    BY <2>1, <2>2 DEF DiskCatchesUp
  <2> QED BY <2>3, <2>4
<1>2. ASSUME NEW b \in Builders, builder'[b].pc \in {"building", "record"}
      PROVE  /\ BuildingIsCurrent(b)' /\ RecordIsCurrent(b)'
  <2>1. BuildingIsCurrent(b) /\ RecordIsCurrent(b)
    BY CatchUpParts
  <2>2. builder'[b].pc = builder[b].pc /\ builder'[b].job = builder[b].job /\ builder[b].pc # "idle"
    BY <1>2
  <2>3. PICK e \in Envs : /\ e = JobEnv(b) /\ JobEnv(b)' = e
                          /\ Current(builder[b].job)' <=> Current(builder[b].job)
                          /\ env'[e].config = env[e].config
    BY <2>2, TaskEnvStays
  <2>4. BuildingIsCurrent(b)'
    BY <2>1, <2>2, <2>3 DEF BuildingIsCurrent
  <2>5. RecordIsCurrent(b)'
    BY <2>1, <2>2, <2>3 DEF RecordIsCurrent, CaughtUp
  <2> QED BY <2>4, <2>5
<1>3. ASSUME NEW b \in Builders, builder'[b].pc \notin {"building", "record"}
      PROVE  /\ BuildingIsCurrent(b)' /\ RecordIsCurrent(b)'
  BY <1>3 DEF BuildingIsCurrent, RecordIsCurrent
<1>4. \A b \in Builders : BuildingIsCurrent(b)' /\ RecordIsCurrent(b)'
  BY <1>2, <1>3
<1> QED BY <1>1, <1>4 DEF BuildsCatchUp, LockCatchesUp, DiskCatchesUp, BuildingIsCurrent,
                          RecordIsCurrent, WillCatchUp

(* A task or a spawn starts a build.                                        *)
LEMMA CatchUpStarts ==
  ASSUME BuildInv, BuildsCatchUp, [BuildNext]_vars, ~Crash, NoRequest, NoLostLease,
         NEW x \in Builders \cup Runs, NEW e \in Envs, StartBuild(x, e), UNCHANGED job,
         lock[e] = Free, lock' = [lock EXCEPT ![e] = x], \A f \in Envs : lock[f] # x,
         \A b \in Builders : builder'[b].job = builder[b].job,
         \A b \in Builders \ {x} : builder'[b] = builder[b],
         x \in Builders => builder'[x].pc = "building" /\ JobEnv(x) = e
  PROVE  BuildsCatchUp'
<1>0. SameConfigs /\ RowsOK /\ lock \in [Envs -> {Free} \cup Local \cup Runs]
  BY ConfigsStay DEF NoRequest, BuildInv, RowsOK
<1>1. /\ making'[x] = env[e].config /\ env'[e].config = env[e].config
      /\ env'[e].status = "building"
      /\ \A f \in Envs \ {e} : env'[f] = env[f]
      /\ \A y \in (Builders \cup Runs) \ {x} : making'[y] = making[y]
  BY <1>0, StartEffect
<1>2. LockCatchesUp(e)' /\ DiskCatchesUp(e)'
  BY <1>0, <1>1 DEF LockCatchesUp, DiskCatchesUp
<1>3. ASSUME NEW f \in Envs \ {e} PROVE LockCatchesUp(f)' /\ DiskCatchesUp(f)'
  <2>1. LockCatchesUp(f) /\ DiskCatchesUp(f)
    BY CatchUpParts
  <2>2. lock'[f] = lock[f] /\ lock[f] # x /\ env'[f] = env[f]
    BY <1>0, <1>1
  <2>3. lock[f] # Free => making'[lock[f]] = making[lock[f]]
    BY <1>0, <1>1, <2>2
  <2>4. ToBuild(f) => ToBuild(f)'
    <3>1. \A b \in Builders : ReadsOrRecords(b) => JobEnv(b) # f
      BY DEF ReadsOrRecords
    <3> QED BY <3>1, ToBuildStays
  <2>5. (\E j \in Active(f) : Current(j)) => \E j \in Active(f)' : Current(j)'
    <3> SUFFICES ASSUME NEW j \in Jobs, j \in Active(f), Current(j)
                 PROVE  j \in Active(f)' /\ Current(j)'
      BY DEF Active
    <3> QED BY CurrentStays DEF Active
  <2>6. LockCatchesUp(f)'
    BY <2>1, <2>2, <2>3, <2>4 DEF LockCatchesUp
  <2>7. DiskCatchesUp(f)'
    BY <2>1, <2>2, <2>4, <2>5 DEF DiskCatchesUp, WillCatchUp
  <2> QED BY <2>6, <2>7
<1>4. ASSUME NEW b \in Builders, b # x, builder[b].pc \in {"building", "record"}
      PROVE  BuildingIsCurrent(b)' /\ RecordIsCurrent(b)'
  <2>1. BuildingIsCurrent(b) /\ RecordIsCurrent(b)
    BY CatchUpParts
  <2>2. builder'[b] = builder[b] /\ making'[b] = making[b]
    BY <1>1, <1>4
  <2>3. PICK f \in Envs : /\ f = JobEnv(b) /\ JobEnv(b)' = f
                          /\ Current(builder[b].job)' <=> Current(builder[b].job)
                          /\ env'[f].config = env[f].config
    BY <1>4, TaskEnvStays
  <2>4. BuildingIsCurrent(b)'
    BY <2>1, <2>2, <2>3 DEF BuildingIsCurrent
  <2>5. RecordIsCurrent(b)'
    <3>1. CASE f = e
      <4>1. lock'[f] = x
        BY <1>0, <3>1
      <4> QED BY <1>1, <2>3, <3>1, <4>1 DEF RecordIsCurrent, CaughtUp
    <3>2. CASE f # e
      <4>1. lock'[f] = lock[f] /\ lock[f] # x /\ env'[f] = env[f]
        BY <1>0, <1>1, <3>2
      <4>2. lock[f] # Free => making'[lock[f]] = making[lock[f]]
        BY <1>0, <1>1, <4>1
      <4> QED BY <2>1, <2>2, <2>3, <4>1, <4>2 DEF RecordIsCurrent, CaughtUp
    <3> QED BY <3>1, <3>2
  <2> QED BY <2>4, <2>5
<1>5. ASSUME NEW b \in Builders, b = x PROVE BuildingIsCurrent(b)' /\ RecordIsCurrent(b)'
  <2>1. builder'[b].pc = "building" /\ JobEnv(b) = e /\ JobEnv(b)' = e
    BY <1>5 DEF JobEnv
  <2> QED BY <1>1, <1>5, <2>1 DEF BuildingIsCurrent, RecordIsCurrent
<1>6. ASSUME NEW b \in Builders, b # x, builder[b].pc \notin {"building", "record"}
      PROVE  BuildingIsCurrent(b)' /\ RecordIsCurrent(b)'
  <2>1. builder'[b].pc \notin {"building", "record"}
    BY <1>6
  <2> QED BY <2>1 DEF BuildingIsCurrent, RecordIsCurrent
<1>7. \A f \in Envs : LockCatchesUp(f)' /\ DiskCatchesUp(f)'
  BY <1>2, <1>3
<1>8. \A b \in Builders : BuildingIsCurrent(b)' /\ RecordIsCurrent(b)'
  BY <1>4, <1>5, <1>6
<1> QED BY <1>7, <1>8 DEF BuildsCatchUp, LockCatchesUp, DiskCatchesUp, BuildingIsCurrent,
                          RecordIsCurrent, WillCatchUp

(* A build of a task or a spawn ends.                                       *)
LEMMA CatchUpEnds ==
  ASSUME BuildInv, BuildsCatchUp, [BuildNext]_vars, ~Crash, NoRequest, NoLostLease,
         NEW x \in Builders \cup Runs, NEW e \in Envs, NEW ok \in BOOLEAN, EndBuild(x, e, ok),
         UNCHANGED job, lock[e] = x, x # Free, lock' = [lock EXCEPT ![e] = Free],
         \A f \in Envs \ {e} : lock[f] # x,
         \A b \in Builders : builder'[b].job = builder[b].job,
         \A b \in Builders \ {x} : builder'[b] = builder[b],
         x \in Builders =>
           builder[x].pc = "building" /\ builder'[x].pc = "record" /\ JobEnv(x) = e
  PROVE  BuildsCatchUp'
<1>0. SameConfigs /\ RowsOK /\ lock \in [Envs -> {Free} \cup Local \cup Runs]
  BY ConfigsStay DEF NoRequest, BuildInv, RowsOK
<1>1. /\ env'[e].config = env[e].config
      /\ env'[e].status = "ready" => env'[e].disk = making[x]
      /\ \A f \in Envs \ {e} : env'[f] = env[f]
      /\ \A y \in (Builders \cup Runs) \ {x} : making'[y] = making[y]
      /\ lock'[e] = Free
  BY <1>0, EndEffect
<1>a. \A b \in Builders : ~ReadsOrRecords(b)
  BY DEF ReadsOrRecords
<1>2. LockCatchesUp(e)' /\ DiskCatchesUp(e)'
  <2>1. LockCatchesUp(e)
    BY CatchUpParts
  <2>2. ToBuild(e) => ToBuild(e)'
    BY <1>a, ToBuildStays
  <2>3. DiskCatchesUp(e)'
    BY <1>1, <2>1, <2>2 DEF LockCatchesUp, DiskCatchesUp, WillCatchUp
  <2> QED BY <1>1, <2>3 DEF LockCatchesUp
<1>3. ASSUME NEW f \in Envs \ {e} PROVE LockCatchesUp(f)' /\ DiskCatchesUp(f)'
  <2>1. LockCatchesUp(f) /\ DiskCatchesUp(f)
    BY CatchUpParts
  <2>2. lock'[f] = lock[f] /\ lock[f] # x /\ env'[f] = env[f]
    BY <1>0, <1>1
  <2>3. lock[f] # Free => making'[lock[f]] = making[lock[f]]
    BY <1>0, <1>1, <2>2
  <2>4. ToBuild(f) => ToBuild(f)'
    BY <1>a, ToBuildStays
  <2>5. (\E j \in Active(f) : Current(j)) => \E j \in Active(f)' : Current(j)'
    <3> SUFFICES ASSUME NEW j \in Jobs, j \in Active(f), Current(j)
                 PROVE  j \in Active(f)' /\ Current(j)'
      BY DEF Active
    <3> QED BY CurrentStays DEF Active
  <2>6. LockCatchesUp(f)'
    BY <2>1, <2>2, <2>3, <2>4 DEF LockCatchesUp
  <2>7. DiskCatchesUp(f)'
    BY <2>1, <2>2, <2>4, <2>5 DEF DiskCatchesUp, WillCatchUp
  <2> QED BY <2>6, <2>7
<1>4. ASSUME NEW b \in Builders, b # x, builder[b].pc \in {"building", "record"}
      PROVE  BuildingIsCurrent(b)' /\ RecordIsCurrent(b)'
  <2>1. BuildingIsCurrent(b) /\ RecordIsCurrent(b)
    BY CatchUpParts
  <2>2. builder'[b] = builder[b] /\ making'[b] = making[b]
    BY <1>1, <1>4
  <2>3. PICK f \in Envs : /\ f = JobEnv(b) /\ JobEnv(b)' = f
                          /\ Current(builder[b].job)' <=> Current(builder[b].job)
                          /\ env'[f].config = env[f].config
    BY <1>4, TaskEnvStays
  <2>4. BuildingIsCurrent(b)'
    BY <2>1, <2>2, <2>3 DEF BuildingIsCurrent
  <2>5. RecordIsCurrent(b)'
    <3>1. CASE f = e
      BY <1>1, <2>1, <2>2, <2>3, <3>1 DEF RecordIsCurrent, CaughtUp
    <3>2. CASE f # e
      <4>1. lock'[f] = lock[f] /\ lock[f] # x /\ env'[f] = env[f]
        BY <1>0, <1>1, <3>2
      <4>2. lock[f] # Free => making'[lock[f]] = making[lock[f]]
        BY <1>0, <1>1, <4>1
      <4> QED BY <2>1, <2>2, <2>3, <4>1, <4>2 DEF RecordIsCurrent, CaughtUp
    <3> QED BY <3>1, <3>2
  <2> QED BY <2>4, <2>5
<1>5. ASSUME NEW b \in Builders, b = x PROVE BuildingIsCurrent(b)' /\ RecordIsCurrent(b)'
  <2>1. /\ builder[b].pc = "building" /\ builder'[b].pc = "record" /\ JobEnv(b) = e
        /\ builder'[b].job = builder[b].job
    BY <1>5
  <2>2. /\ JobEnv(b)' = e
        /\ Current(builder[b].job)' <=> Current(builder[b].job)
    BY <2>1, TaskEnvStays
  <2>3. BuildingIsCurrent(b)
    BY CatchUpParts
  <2>4. Current(builder[b].job)' /\ env'[e].status = "ready" => env'[e].disk = env'[e].config
    BY <1>1, <1>5, <2>1, <2>2, <2>3 DEF BuildingIsCurrent
  <2>5. RecordIsCurrent(b)'
    BY <1>1, <2>1, <2>2, <2>4 DEF RecordIsCurrent, CaughtUp
  <2> QED BY <2>1, <2>5 DEF BuildingIsCurrent
<1>6. ASSUME NEW b \in Builders, b # x, builder[b].pc \notin {"building", "record"}
      PROVE  BuildingIsCurrent(b)' /\ RecordIsCurrent(b)'
  <2>1. builder'[b].pc \notin {"building", "record"}
    BY <1>6
  <2> QED BY <2>1 DEF BuildingIsCurrent, RecordIsCurrent
<1>7. \A f \in Envs : LockCatchesUp(f)' /\ DiskCatchesUp(f)'
  BY <1>2, <1>3
<1>8. \A b \in Builders : BuildingIsCurrent(b)' /\ RecordIsCurrent(b)'
  BY <1>4, <1>5, <1>6
<1> QED BY <1>7, <1>8 DEF BuildsCatchUp, LockCatchesUp, DiskCatchesUp, BuildingIsCurrent,
                          RecordIsCurrent, WillCatchUp

(* A request, when edits never lead back: either the configuration stays, or *)
(* a job for the new one is queued.                                         *)
LEMMA CatchUpRequested ==
  ASSUME NEW rank, EditsForward(rank), Ranked(rank), BuildInv, BuildsCatchUp,
         NEW e \in Envs, NEW config \in Images, RequestBuild(e, config)
  PROVE  BuildsCatchUp'
<1>0. /\ RowsOK /\ job \in [Jobs -> JobRows] /\ env \in [Envs -> EnvRows]
      /\ rank \in [Images -> Nat] /\ env[e].config \in Images
  BY DEF BuildInv, RowsOK, EnvRows, EditsForward
<1>1. /\ UNCHANGED <<builder, lock, making>>
      /\ config \in EditTo[env[e].config] \cup {env[e].config}
  BY DEF RequestBuild
<1>2. /\ env'[e].config = config /\ env'[e].disk = env[e].disk
      /\ env'[e].status \in {env[e].status, "pending"}
      /\ \A f \in Envs \ {e} : env'[f] = env[f]
  BY <1>0, RequestEffect
<1>3. \A j \in Jobs :
        \/ job'[j] = job[j]
        \/ /\ job[j].status \in {"queued", "leased"} /\ job'[j].status = "superseded"
           /\ job[j].env = e /\ job'[j].env = e
           /\ job[j].config # config /\ job'[j].config = job[j].config
        \/ /\ job[j].status = "none" /\ job'[j].status = "queued"
           /\ job'[j].env = e /\ job'[j].config = config
  BY <1>0, RequestEffect
<1>a. \/ \E j \in Active(e) : job[j].config = config
      \/ \E j \in Jobs : /\ job[j].status = "none" /\ job'[j].status = "queued"
                         /\ job'[j].env = e /\ job'[j].config = config /\ job'[j].attempts = 0
  BY ONLY <1>0, RequestEffect, e \in Envs, config \in Images, RequestBuild(e, config)
<1>4. \/ \E j \in Active(e) : job[j].config = config
      \/ \E j \in Jobs : /\ job[j].status = "none" /\ job'[j].status = "queued"
                         /\ job'[j].env = e /\ job'[j].config = config
  BY ONLY <1>a
<1>5. ASSUME NEW j \in Jobs, job[j].status # "none", job[j].env = e, job[j].config = config
      PROVE  config = env[e].config
  <2>1. rank[config] <= rank[env[e].config]
    BY <1>5 DEF Ranked
  <2>2. rank[config] \in Nat /\ rank[env[e].config] \in Nat
    BY <1>0
  <2> QED BY <1>0, <1>1, <2>1, <2>2 DEF EditsForward
<1>6. ASSUME NEW j \in Jobs, job[j].status # "none", Current(j),
             job[j].env # e \/ config = env[e].config
      PROVE  job'[j] = job[j] /\ Current(j)'
  <2>1. job'[j] = job[j]
    BY <1>3, <1>6 DEF Current
  <2>2. job[j].env \in Envs
    BY <1>0 DEF JobRows
  <2> QED BY <1>2, <1>6, <2>1, <2>2 DEF Current
<1>7. ASSUME NEW f \in Envs, f # e \/ config = env[e].config
      PROVE  /\ ToBuild(f) => ToBuild(f)'
             /\ WillCatchUp(f) => WillCatchUp(f)'
  <2>1. ASSUME NEW j \in Jobs, job[j].env = f, Current(j), Pending(j)
        PROVE  ToBuild(f)'
    <3>1. job[j].status # "none"
      BY <2>1, PendingFacts
    <3>2. job'[j] = job[j] /\ Current(j)'
      BY <1>6, <1>7, <2>1, <3>1
    <3> QED BY <1>1, <2>1, <3>1, <3>2 DEF Pending, ToBuild
  <2>2. ToBuild(f) => ToBuild(f)'
    BY <2>1, ToBuildIsPending
  <2>3. ASSUME NEW j \in Jobs, j \in Active(f), Current(j)
        PROVE  j \in Active(f)' /\ Current(j)'
    <3>1. job[j].status # "none" /\ job[j].env = f
      BY <2>3 DEF Active, ACTIVE_STATUSES
    <3>2. job'[j] = job[j] /\ Current(j)'
      BY <1>6, <1>7, <2>3, <3>1
    <3> QED BY <2>3, <3>2 DEF Active
  <2>4. (\E j \in Active(f) : Current(j)) => \E j \in Active(f)' : Current(j)'
    BY <2>3 DEF Active
  <2> QED BY <2>2, <2>4 DEF WillCatchUp
<1>8. \/ ToBuild(e)'
      \/ config = env[e].config
  <2>1. ASSUME NEW j \in Active(e), job[j].config = config PROVE config = env[e].config
    BY <1>5, <2>1 DEF Active, ACTIVE_STATUSES
  <2>2. ASSUME NEW j \in Jobs, job'[j].status = "queued", job'[j].env = e, job'[j].config = config
        PROVE  ToBuild(e)'
    BY <1>2, <2>2 DEF ToBuild, Current
  <2> QED BY <1>4, <2>1, <2>2
<1>9. ASSUME NEW f \in Envs PROVE LockCatchesUp(f)' /\ DiskCatchesUp(f)'
  <2>1. LockCatchesUp(f) /\ DiskCatchesUp(f)
    BY CatchUpParts
  <2>2. CASE ToBuild(f)'
    BY <2>2 DEF LockCatchesUp, DiskCatchesUp, WillCatchUp
  <2>3. CASE f # e \/ config = env[e].config
    <3>1. /\ env'[f].config = env[f].config /\ env'[f].disk = env[f].disk
          /\ env'[f].status \in {env[f].status, "pending"}
      BY <1>2, <2>3
    <3>2. LockCatchesUp(f)'
      BY <1>1, <1>7, <2>1, <2>3, <3>1 DEF LockCatchesUp
    <3>3. DiskCatchesUp(f)'
      BY <1>7, <2>1, <2>3, <3>1 DEF DiskCatchesUp
    <3> QED BY <3>2, <3>3
  <2> QED BY <1>8, <2>2, <2>3
<1>10. ASSUME NEW b \in Builders, builder[b].pc \in {"building", "record"}
       PROVE  BuildingIsCurrent(b)' /\ RecordIsCurrent(b)'
  <2>1. BuildingIsCurrent(b) /\ RecordIsCurrent(b)
    BY CatchUpParts
  <2>2. PICK j \in Jobs : j = builder[b].job /\ job[j].status # "none" /\ job[j].env \in Envs
    BY <1>10, TaskFacts DEF JobEnv
  <2>3. job'[j].env = job[j].env /\ job'[j].config = job[j].config
    BY <1>3, <2>2
  <2>4. JobEnv(b) = job[j].env /\ JobEnv(b)' = job[j].env
    BY <1>1, <2>2, <2>3 DEF JobEnv
  <2>5. ASSUME Current(j)'
        PROVE  /\ Current(j)
               /\ env'[job[j].env].config = env[job[j].env].config
               /\ env'[job[j].env].disk = env[job[j].env].disk
               /\ env'[job[j].env].status \in {env[job[j].env].status, "pending"}
    <3>1. job[j].config = env'[job[j].env].config
      BY <2>3, <2>5 DEF Current
    <3>2. env'[job[j].env].config = env[job[j].env].config
      BY <1>2, <1>5, <2>2, <3>1
    <3> QED BY <1>2, <2>2, <3>1, <3>2 DEF Current
  <2>6. Current(builder[b].job)' <=> Current(j)'
    BY <1>1, <2>2 DEF Current
  <2>7. Current(builder[b].job) <=> Current(j)
    BY <2>2
  <2>8. BuildingIsCurrent(b)'
    BY <1>1, <2>1, <2>4, <2>5, <2>6, <2>7 DEF BuildingIsCurrent
  <2>9. RecordIsCurrent(b)'
    BY <1>1, <2>1, <2>4, <2>5, <2>6, <2>7 DEF RecordIsCurrent, CaughtUp
  <2> QED BY <2>8, <2>9
<1>11. ASSUME NEW b \in Builders, builder[b].pc \notin {"building", "record"}
       PROVE  BuildingIsCurrent(b)' /\ RecordIsCurrent(b)'
  BY <1>1, <1>11 DEF BuildingIsCurrent, RecordIsCurrent
<1>12. \A b \in Builders : BuildingIsCurrent(b)' /\ RecordIsCurrent(b)'
  BY <1>10, <1>11
<1> QED BY <1>9, <1>12 DEF BuildsCatchUp, LockCatchesUp, DiskCatchesUp, BuildingIsCurrent,
                           RecordIsCurrent, WillCatchUp

(* A first fault that is a crash: a job that a task worked on is still       *)
(* active, and will be swept.                                               *)
LEMMA CatchUpCrashed ==
  ASSUME BuildInv, TasksUndisturbed, BuildsCatchUp, faults = NoFaults, Local = Builders, Crash
  PROVE  BuildsCatchUp'
<1>1. /\ \A e \in Envs : lock'[e] = Free
      /\ \A b \in Builders : builder'[b].pc = "idle"
      /\ UNCHANGED <<env, job>>
  BY DEF Crash, NoTask
<1>2. ASSUME NEW e \in Envs PROVE DiskCatchesUp(e)'
  <2>1. DiskCatchesUp(e)
    BY CatchUpParts
  <2>2. ASSUME NEW j \in Jobs, job[j].env = e, Current(j), Pending(j)
        PROVE  \E i \in Active(e) : Current(i)
    <3>1. CASE job[j].status \in {"queued", "leased"}
      BY <2>2, <3>1 DEF Active, ACTIVE_STATUSES
    <3>2. CASE \E b \in Builders : /\ builder[b].job = j
                                   /\ builder[b].pc = "begin" /\ job[j].status \in ACTIVE_STATUSES
      BY <2>2, <3>2 DEF Active
    <3>3. ASSUME NEW b \in Builders, builder[b].job = j, builder[b].pc \in {"drain", "build"}
          PROVE  job[j].status \in ACTIVE_STATUSES
      BY <3>3 DEF TasksUndisturbed, WithJob, ACTIVE_STATUSES
    <3> QED BY <2>2, <3>1, <3>2, <3>3 DEF Pending, Active
  <2>3. WillCatchUp(e) => \E i \in Active(e) : Current(i)
    BY <2>2, ToBuildIsPending DEF WillCatchUp
  <2>4. (\E i \in Active(e) : Current(i)) => \E i \in Active(e)' : Current(i)'
    BY <1>1 DEF Active, Current
  <2> QED BY <1>1, <2>1, <2>3, <2>4 DEF DiskCatchesUp, WillCatchUp
<1>3. \A b \in Builders : BuildingIsCurrent(b)' /\ RecordIsCurrent(b)'
  BY <1>1 DEF BuildingIsCurrent, RecordIsCurrent
<1>4. \A e \in Envs : LockCatchesUp(e)'
  BY <1>1 DEF LockCatchesUp
<1> QED BY <1>2, <1>3, <1>4 DEF BuildsCatchUp, LockCatchesUp, DiskCatchesUp, BuildingIsCurrent,
                                RecordIsCurrent, WillCatchUp

(* Steps that leave locks and builds alone, and every job but one: of that  *)
(* one, either it is outdated, or its environment is not ready, or it is     *)
(* active afterwards.                                                       *)
LEMMA CatchUpElsewhere ==
  ASSUME BuildInv, BuildsCatchUp, [BuildNext]_vars, ~Crash, NoRequest, NoLostLease,
         UNCHANGED <<lock, making>>,
         \A e \in Envs : /\ env'[e].disk = env[e].disk
                         /\ env'[e].status = "ready" => env[e].status = "ready",
         \A b \in Builders : builder'[b].pc \in {"building", "record"} =>
                               /\ builder'[b].pc = builder[b].pc
                               /\ builder'[b].job = builder[b].job,
         \A b \in Builders : ~ReadsOrRecords(b),
         \A j \in Jobs : job[j].status \in ACTIVE_STATUSES =>
            \/ job'[j].status \in ACTIVE_STATUSES
            \/ ~Current(j)
            \/ env'[job[j].env].status # "ready"
  PROVE  BuildsCatchUp'
<1>1. ASSUME NEW e \in Envs, ToBuild(e) PROVE ToBuild(e)'
  BY <1>1, ToBuildStays
<1>2. ASSUME NEW e \in Envs, env'[e].status = "ready", NEW j \in Active(e), Current(j)
      PROVE  j \in Active(e)' /\ Current(j)'
  <2>1. j \in Jobs /\ job[j].env = e /\ job[j].status \in ACTIVE_STATUSES
    BY DEF Active
  <2>2. job'[j].status \in ACTIVE_STATUSES
    BY <1>2, <2>1
  <2> QED BY <1>2, <2>1, <2>2, CurrentStays DEF Active
<1>3. ASSUME NEW e \in Envs, env'[e].status = "ready", WillCatchUp(e) PROVE WillCatchUp(e)'
  BY <1>1, <1>2, <1>3 DEF WillCatchUp
<1> QED BY <1>1, <1>3, CatchUpQuietly

(* A first fault that loses a lease: the job has an attempt left, or it was  *)
(* tried before and has caught up.                                          *)
LEMMA CatchUpLostLease ==
  ASSUME BuildInv, MaxFaults <= 1, \A j \in Jobs : MaxAttempts[j] >= 2,
         TasksUndisturbed, RetriesCaughtUp, BuildsCatchUp, [BuildNext]_vars, NoRequest,
         NEW b \in Builders, LosesLease(b)
  PROVE  BuildsCatchUp'
<1>1. faults = NoFaults
  BY OneFault DEF LosesLease, TaskRaises, Raises, BuildInv
<1>2. /\ builder[b].pc = "begin" /\ UNCHANGED <<env, job, lock, making>>
      /\ builder'[b].pc = "idle" /\ \A c \in Builders \ {b} : builder'[c] = builder[c]
  BY TaskStops DEF LosesLease, TaskRaises, BuildInv
<1>3. ASSUME NEW e \in Envs, ToBuild(e), ~CaughtUp(e) PROVE ToBuild(e)'
  <2>1. PICK j \in Jobs : job[j].env = e /\ Current(j) /\ Pending(j)
    BY <1>3, ToBuildIsPending
  <2>2. CASE builder[b].job # j
    BY <1>2, <2>1, <2>2, PendingFacts DEF Pending, ToBuild, Current
  <2>3. CASE builder[b].job = j
    <3>1. /\ job[j].status \notin {"queued", "running"}
          /\ \A c \in Builders : builder[c].pc \in WithJob /\ builder[c].job = j => b = c
      BY <1>1, <1>2, <2>3 DEF TasksUndisturbed, WithJob
    <3>2. job[j].status = "leased"
      BY <1>2, <2>1, <3>1 DEF Pending, WithJob, ACTIVE_STATUSES
    <3>3. job[j].attempts \in Nat /\ MaxAttempts[j] \in Nat /\ MaxAttempts[j] >= 2
      BY DEF BuildInv, RowsOK, JobRows
    <3>4. job[j].attempts < MaxAttempts[j]
      <4>1. ~Retried(j)
        BY <1>1, <1>3, <2>1 DEF RetriesCaughtUp
      <4> QED BY <3>2, <3>3, <4>1 DEF Retried
    <3> QED BY <1>2, <2>1, <3>2, <3>4 DEF ToBuild, Current
  <2> QED BY <2>2, <2>3
<1>4. ASSUME NEW e \in Envs, WillCatchUp(e), ~CaughtUp(e) PROVE WillCatchUp(e)'
  BY <1>2, <1>3, <1>4 DEF WillCatchUp, Active, Current
<1>5. \A e \in Envs :
        lock'[e] # Free /\ making[lock[e]] # env[e].config /\ ToBuild(e) => ToBuild(e)'
  BY <1>2, <1>3 DEF CaughtUp
<1>6. \A e \in Envs :
        env'[e].status = "ready" /\ env[e].disk # env[e].config /\ WillCatchUp(e) => WillCatchUp(e)'
  BY <1>2, <1>4 DEF CaughtUp
<1>7. \A c \in Builders : builder'[c].pc \in {"building", "record"} =>
        builder'[c].pc = builder[c].pc /\ builder'[c].job = builder[c].job
  BY <1>2
<1> QED BY <1>2, <1>5, <1>6, <1>7, CatchUpQuietly

(* Every step keeps BuildsCatchUp when edits go forward and jobs may be tried*)
(* twice: one crash or one exception, but not both.                         *)
LEMMA CatchUpStep ==
  ASSUME NEW rank, EditsForward(rank), Ranked(rank), MaxFaults <= 1, Local = Builders,
         \A j \in Jobs : MaxAttempts[j] >= 2, BuildInv, LockIsHeld, TasksUndisturbed,
         BuildsCatchUp, RetriesCaughtUp, [BuildNext]_vars
  PROVE  BuildsCatchUp'
<1>0. RowsOK /\ lock \in [Envs -> {Free} \cup Local \cup Runs]
  BY DEF BuildInv, RowsOK
<1>1. CASE \E e \in Envs, config \in Images : RequestBuild(e, config)
  BY <1>1, CatchUpRequested
<1>2. CASE Crash
  <2>1. faults = NoFaults
    BY <1>2, OneFault DEF Crash, BuildInv
  <2> QED BY <1>2, <2>1, CatchUpCrashed
<1> SUFFICES ASSUME ~Crash, NoRequest PROVE BuildsCatchUp'
  BY <1>1, <1>2 DEF NoRequest
<1> SUFFICES ASSUME NoLostLease PROVE BuildsCatchUp'
  BY CatchUpLostLease DEF NoLostLease
<1>3. ASSUME UNCHANGED <<env, job, builder, lock, making>> PROVE BuildsCatchUp'
  <2>1. \A b \in Builders : ~ReadsOrRecords(b)
    BY <1>3 DEF ReadsOrRecords
  <2> QED BY <1>3, <2>1, CatchUpElsewhere
<1>4. ASSUME NEW b \in Builders, NEW j \in Jobs, Lease(b, j) PROVE BuildsCatchUp'
  <2>1. /\ builder[b].pc = "idle" /\ job[j].status = "queued" /\ job'[j].status = "leased"
        /\ \A i \in Jobs \ {j} : job'[i] = job[i]
        /\ builder'[b].pc = "begin"
        /\ \A c \in Builders \ {b} : builder'[c] = builder[c]
        /\ UNCHANGED <<env, lock, making>>
    BY <1>4, LeaseEffect
  <2>2. \A c \in Builders : ~ReadsOrRecords(c)
    BY <2>1 DEF ReadsOrRecords
  <2>3. \A i \in Jobs : job[i].status \in ACTIVE_STATUSES => job'[i].status \in ACTIVE_STATUSES
    BY <2>1 DEF ACTIVE_STATUSES
  <2>4. \A c \in Builders : builder'[c].pc \in {"building", "record"} =>
          builder'[c].pc = builder[c].pc /\ builder'[c].job = builder[c].job
    BY <2>1
  <2> QED BY <2>1, <2>2, <2>3, <2>4, CatchUpElsewhere
<1>5. ASSUME NEW b \in Builders, BeginJob(b) PROVE BuildsCatchUp'
  <2> DEFINE j == builder[b].job
             e == JobEnv(b)
  <2>1. /\ builder[b].pc = "begin" /\ j \in Jobs /\ e \in Envs
        /\ env'[e].disk = env[e].disk
        /\ env'[e].status = env[e].status \/ env'[e].status \in {"pending", "building"}
        /\ \A f \in Envs \ {e} : env'[f] = env[f]
        /\ \A i \in Jobs \ {j} : job'[i] = job[i]
        /\ \A c \in Builders \ {b} : builder'[c] = builder[c]
        /\ \/ job[j].status \notin ACTIVE_STATUSES /\ builder'[b].pc = "idle"
           \/ env[e].config # job[j].config /\ builder'[b].pc = "idle"
           \/ job'[j].status = "running" /\ builder'[b].pc = "drain"
        /\ UNCHANGED <<lock, making>>
    BY <1>5, BeginEffect
  <2>2. \A c \in Builders : ~ReadsOrRecords(c)
    BY <2>1 DEF ReadsOrRecords
  <2>3. env[e].config # job[j].config => ~Current(j)
    BY DEF Current, JobEnv
  <2>4. \A i \in Jobs : job[i].status \in ACTIVE_STATUSES =>
          job'[i].status \in ACTIVE_STATUSES \/ ~Current(i)
    <3>1. "running" \in ACTIVE_STATUSES
      BY DEF ACTIVE_STATUSES
    <3> SUFFICES ASSUME NEW i \in Jobs, job[i].status \in ACTIVE_STATUSES
                 PROVE  job'[i].status \in ACTIVE_STATUSES \/ ~Current(i)
      OBVIOUS
    <3>2. CASE i = j
      BY <2>1, <2>3, <3>1, <3>2
    <3>3. CASE i # j
      BY <2>1, <3>3
    <3> QED BY <3>2, <3>3
  <2>5. \A f \in Envs : /\ env'[f].disk = env[f].disk
                        /\ env'[f].status = "ready" => env[f].status = "ready"
    BY <2>1
  <2>6. \A c \in Builders : builder'[c].pc \in {"building", "record"} =>
          builder'[c].pc = builder[c].pc /\ builder'[c].job = builder[c].job
    BY <2>1
  <2>7. UNCHANGED <<lock, making>>
    BY <2>1
  <2> QED BY ONLY <2>2, <2>4, <2>5, <2>6, <2>7, CatchUpElsewhere, BuildInv, BuildsCatchUp,
                  [BuildNext]_vars, ~Crash, NoRequest, NoLostLease
<1>6. ASSUME NEW b \in Builders, DrainPool(b) PROVE BuildsCatchUp'
  <2>1. /\ builder[b].pc = "drain" /\ builder'[b].pc = "build"
        /\ \A c \in Builders \ {b} : builder'[c] = builder[c]
        /\ UNCHANGED <<env, job, lock, making>>
    BY <1>6, TaskAdvances DEF DrainPool
  <2>2. \A c \in Builders : ~ReadsOrRecords(c)
    BY <2>1 DEF ReadsOrRecords
  <2>3. \A c \in Builders : builder'[c].pc \in {"building", "record"} =>
          builder'[c].pc = builder[c].pc /\ builder'[c].job = builder[c].job
    BY <2>1
  <2> QED BY <2>1, <2>2, <2>3, CatchUpElsewhere
<1>7. ASSUME NEW b \in Builders, TaskBuilds(b) PROVE BuildsCatchUp'
  <2>1. PICK e \in Envs : e = JobEnv(b)
    BY <1>7, TaskAdvances
  <2>2. /\ builder[b].pc = "build" /\ builder'[b].pc = "building"
        /\ builder'[b].job = builder[b].job /\ UNCHANGED job
        /\ \A c \in Builders \ {b} : builder'[c] = builder[c]
    BY <1>7, TaskAdvances DEF TaskBuilds
  <2>3. StartBuild(b, e) /\ lock[e] = Free /\ lock' = [lock EXCEPT ![e] = b]
    BY <1>7, <2>1 DEF TaskBuilds, CanLock, LockTo
  <2>4. \A f \in Envs : lock[f] # b
    BY <2>2 DEF LockIsHeld
  <2> QED BY <2>1, <2>2, <2>3, <2>4, CatchUpStarts
<1>8. ASSUME NEW b \in Builders, NEW ok \in BOOLEAN, TaskBuilt(b, ok) PROVE BuildsCatchUp'
  <2>1. PICK e \in Envs : e = JobEnv(b)
    BY <1>8, TaskAdvances
  <2>2. /\ builder[b].pc = "building" /\ builder'[b].pc = "record"
        /\ builder'[b].job = builder[b].job /\ UNCHANGED job
        /\ \A c \in Builders \ {b} : builder'[c] = builder[c]
    BY <1>8, TaskAdvances DEF TaskBuilt
  <2>3. EndBuild(b, e, ok) /\ lock[e] = b /\ lock' = [lock EXCEPT ![e] = Free]
    BY <1>8, <2>1, <2>2 DEF TaskBuilt, LockTo, LockIsHeld
  <2>4. b # Free /\ \A f \in Envs \ {e} : lock[f] # b
    BY <2>1, <2>2 DEF LockIsHeld
  <2>5. /\ b \in Builders \cup Runs /\ ok \in BOOLEAN /\ e \in Envs
        /\ \A c \in Builders : builder'[c].job = builder[c].job
        /\ \A c \in Builders \ {b} : builder'[c] = builder[c]
        /\ b \in Builders =>
             builder[b].pc = "building" /\ builder'[b].pc = "record" /\ JobEnv(b) = e
    BY <2>1, <2>2
  <2> QED BY ONLY <2>2, <2>3, <2>4, <2>5, CatchUpEnds, BuildInv, BuildsCatchUp,
                  [BuildNext]_vars, ~Crash, NoRequest, NoLostLease
<1>9. ASSUME NEW b \in Builders, Records(b) PROVE BuildsCatchUp'
  <2>1. PICK e \in Envs, j \in Jobs : e = JobEnv(b) /\ j = builder[b].job /\ job[j].env = e
    <3>1. builder[b].job \in Jobs /\ JobEnv(b) \in Envs
      BY <1>9, RecordEffect
    <3> QED BY <3>1 DEF JobEnv
  <2>2. /\ builder[b].pc = "record" /\ builder'[b].pc \in {"unpause", "idle"}
        /\ env'[e].disk = env[e].disk
        /\ env'[e].status = "ready" => env[e].status = "ready"
        /\ \A f \in Envs \ {e} : env'[f] = env[f]
        /\ \A i \in Jobs \ {j} : job'[i] = job[i]
        /\ \A c \in Builders \ {b} : builder'[c] = builder[c]
    <3>1. LET i == builder[b].job
              f == JobEnv(b)
          IN
          /\ builder[b].pc = "record" /\ builder'[b].pc \in {"unpause", "idle"}
          /\ env'[f].disk = env[f].disk
          /\ env'[f].status = env[f].status \/ env'[f].status \in {"pending", "error"}
          /\ \A g \in Envs \ {f} : env'[g] = env[g]
          /\ \A k \in Jobs \ {i} : job'[k] = job[k]
          /\ \A c \in Builders \ {b} : builder'[c] = builder[c]
      BY <1>9, RecordEffect
    <3> QED BY <2>1, <3>1
  <2>3. UNCHANGED <<lock, making>>
    BY <1>9, RecordEffect
  <2>4. RecordIsCurrent(b)
    BY CatchUpParts
  <2>5. ASSUME NEW f \in Envs, ToBuild(f), f = e => ~Current(j) PROVE ToBuild(f)'
    <3>1. \A c \in Builders : ReadsOrRecords(c) /\ JobEnv(c) = f => ~Current(builder[c].job)
      BY <2>1, <2>2, <2>5 DEF ReadsOrRecords
    <3> QED BY <2>5, <3>1, ToBuildStays
  <2>6. ASSUME NEW f \in Envs, f = e => ~Current(j), NEW i \in Active(f), Current(i)
        PROVE  i \in Active(f)' /\ Current(i)'
    <3>1. i \in Jobs /\ i # j
      BY <2>1, <2>6 DEF Active
    <3> QED BY <2>2, <2>6, <3>1, CurrentStays DEF Active
  <2>7. ASSUME NEW f \in Envs, lock'[f] # Free, making[lock[f]] # env[f].config, ToBuild(f)
        PROVE  ToBuild(f)'
    <3>1. f = e => ~Current(j)
      BY <2>1, <2>2, <2>3, <2>4, <2>7 DEF RecordIsCurrent, CaughtUp
    <3> QED BY <2>5, <2>7, <3>1
  <2>8. ASSUME NEW f \in Envs, env'[f].status = "ready", env[f].disk # env[f].config, WillCatchUp(f)
        PROVE  WillCatchUp(f)'
    <3>1. f = e => ~Current(j)
      BY <2>1, <2>2, <2>4, <2>8 DEF RecordIsCurrent, CaughtUp
    <3> QED BY <2>5, <2>6, <2>8, <3>1 DEF WillCatchUp
  <2>9. \A f \in Envs : /\ env'[f].disk = env[f].disk
                        /\ env'[f].status = "ready" => env[f].status = "ready"
    BY <2>2
  <2>10. \A c \in Builders : builder'[c].pc \in {"building", "record"} =>
          builder'[c].pc = builder[c].pc /\ builder'[c].job = builder[c].job
    BY <2>2
  <2> QED BY <2>3, <2>7, <2>8, <2>9, <2>10, CatchUpQuietly
<1>10. ASSUME NEW b \in Builders, Ends(b) PROVE BuildsCatchUp'
  <2>0. /\ builder[b].pc = "unpause" /\ builder' = [builder EXCEPT ![b] = NoTask]
        /\ UNCHANGED <<env, job, lock, making>>
    BY <1>10 DEF Ends, TaskEnds, TaskRaises, NoLostLease, LosesLease
  <2>1. /\ builder[b].pc = "unpause" /\ builder'[b].pc = "idle"
        /\ \A c \in Builders \ {b} : builder'[c] = builder[c]
        /\ UNCHANGED <<env, job, lock, making>>
    BY <1>0, <2>0, TaskStops
  <2>2. \A c \in Builders : ~ReadsOrRecords(c)
    BY <2>1 DEF ReadsOrRecords
  <2>3. \A c \in Builders : builder'[c].pc \in {"building", "record"} =>
          builder'[c].pc = builder[c].pc /\ builder'[c].job = builder[c].job
    BY <2>1
  <2> QED BY <2>1, <2>2, <2>3, CatchUpElsewhere
<1>11. ASSUME NEW b \in Builders, HeartbeatDies(b) PROVE BuildsCatchUp'
  <2>1. /\ builder'[b].pc = builder[b].pc /\ builder'[b].job = builder[b].job
        /\ \A c \in Builders \ {b} : builder'[c] = builder[c]
        /\ UNCHANGED <<env, job, lock, making>>
    BY <1>0, <1>11, HeartbeatEffect DEF HeartbeatDies
  <2>2. \A c \in Builders : ~ReadsOrRecords(c)
    BY <2>1 DEF ReadsOrRecords
  <2>3. \A c \in Builders : builder'[c].pc \in {"building", "record"} =>
          builder'[c].pc = builder[c].pc /\ builder'[c].job = builder[c].job
    BY <2>1
  <2> QED BY <2>1, <2>2, <2>3, CatchUpElsewhere
<1>12. ASSUME NEW j \in Jobs, Sweep(j) PROVE BuildsCatchUp'
  <2>1. Fail(j) /\ UNCHANGED <<builder, lock, making>>
    BY <1>12 DEF Sweep
  <2>2. PICK e \in Envs : e = job[j].env
    BY <1>0, <2>1, FailEffect
  <2>3. /\ env'[e].disk = env[e].disk /\ env'[e].status # "ready"
        /\ \A f \in Envs \ {e} : env'[f] = env[f]
        /\ \A i \in Jobs \ {j} : job'[i] = job[i]
    BY <1>0, <2>1, <2>2, FailEffect
  <2>4. \A c \in Builders : ~ReadsOrRecords(c)
    BY <2>1 DEF ReadsOrRecords
  <2>5. \A i \in Jobs : job[i].status \in ACTIVE_STATUSES =>
          job'[i].status \in ACTIVE_STATUSES \/ env'[job[i].env].status # "ready"
    BY <2>2, <2>3
  <2>6. \A f \in Envs : /\ env'[f].disk = env[f].disk
                        /\ env'[f].status = "ready" => env[f].status = "ready"
    BY <2>3
  <2> QED BY <2>1, <2>4, <2>5, <2>6, CatchUpElsewhere
<1>13. ASSUME NEW r \in Runs, SpawnProgress(r) PROVE BuildsCatchUp'
  <2>1. PICK e \in Envs : e = EnvOf[r]
    OBVIOUS
  <2>2. /\ UNCHANGED <<job, builder>>
        /\ \/ UNCHANGED <<env, lock, making>>
           \/ StartBuild(r, e) /\ lock[e] = Free /\ lock' = [lock EXCEPT ![e] = r]
           \/ /\ \E ok \in BOOLEAN : EndBuild(r, e, ok)
              /\ lock[e] = r /\ lock' = [lock EXCEPT ![e] = Free]
           \/ /\ UNCHANGED env /\ making' = [making EXCEPT ![r] = NoImage]
              /\ lock' = IF lock[e] = r THEN [lock EXCEPT ![e] = Free] ELSE lock
    BY <1>13, <2>1, SpawnEffect
  <2>3. r # Free /\ r \notin Builders /\ \A f \in Envs \ {e} : lock[f] # r
    BY <2>1, ZenonT(60) DEF LockIsHeld
  <2>4. CASE StartBuild(r, e) /\ lock[e] = Free /\ lock' = [lock EXCEPT ![e] = r]
    <3>1. \A f \in Envs : lock[f] # r
      BY <2>3, <2>4
    <3> QED BY <2>2, <2>3, <2>4, <3>1, CatchUpStarts
  <2>5. ASSUME NEW ok \in BOOLEAN, EndBuild(r, e, ok), lock[e] = r,
               lock' = [lock EXCEPT ![e] = Free]
        PROVE  BuildsCatchUp'
    <3>1. /\ r \in Builders \cup Runs /\ ok \in BOOLEAN /\ e \in Envs /\ UNCHANGED job
          /\ \A c \in Builders : builder'[c].job = builder[c].job
          /\ \A c \in Builders \ {r} : builder'[c] = builder[c]
          /\ r \in Builders =>
               builder[r].pc = "building" /\ builder'[r].pc = "record" /\ JobEnv(r) = e
      BY <2>1, <2>2, <2>3
    <3> QED BY ONLY <2>3, <2>5, <3>1, CatchUpEnds, BuildInv, BuildsCatchUp,
                    [BuildNext]_vars, ~Crash, NoRequest, NoLostLease
  <2>6. CASE /\ UNCHANGED env /\ making' = [making EXCEPT ![r] = NoImage]
             /\ lock' = IF lock[e] = r THEN [lock EXCEPT ![e] = Free] ELSE lock
    <3>1. \A f \in Envs : lock'[f] # Free => lock'[f] = lock[f] /\ lock[f] # r
      BY <1>0, <2>3, <2>6
    <3>2. \A x \in Builders \cup Runs : x # r => making'[x] = making[x]
      BY <1>0, <2>6 DEF RowsOK
    <3>3. \A f \in Envs : lock'[f] # Free =>
            lock'[f] = lock[f] /\ making'[lock[f]] = making[lock[f]]
      BY <1>0, <3>1, <3>2
    <3>4. \A b \in Builders : builder[b].pc = "building" => making'[b] = making[b]
      BY <2>3, <3>2
    <3>5. \A f \in Envs : ToBuild(f) => ToBuild(f)'
      BY <2>2, ToBuildStays DEF ReadsOrRecords
    <3>6. \A f \in Envs : WillCatchUp(f) => WillCatchUp(f)'
      BY <2>2, <2>6, <3>5 DEF WillCatchUp, Active, Current
    <3> QED BY <2>2, <2>6, <3>3, <3>4, <3>5, <3>6, CatchUpQuietly
  <2>7. CASE UNCHANGED <<env, lock, making>>
    BY <1>3, <2>2, <2>7
  <2> QED BY <2>2, <2>4, <2>5, <2>6, <2>7
<1>14. ASSUME \/ UNCHANGED vars
              \/ \E r \in Runs : PoolRunStep(r)
              \/ \E p \in Procs : ProcessExits(p)
              \/ \E c \in Ceilings : PoolResize(c)
       PROVE  UNCHANGED <<env, job, builder, lock, making>>
  BY <1>14 DEF vars, buildVars, PoolRunStep, ProcessExits, PoolResize
<1> QED
  BY <1>3, <1>4, <1>5, <1>6, <1>7, <1>8, <1>9, <1>10, <1>11, <1>12, <1>13, <1>14
  DEF BuildNext, TaskStep, TaskFault, Records, Ends, Leases, NoRequest

----------------------------------------------------------------------------
(* Jobs that are tried again                                               *)

(* An environment that has caught up stays so but for a request: builds that *)
(* start read its configuration, and those under way have.                  *)
LEMMA CaughtUpStays ==
  ASSUME BuildInv, LockIsHeld, Local = Builders, [BuildNext]_vars, ~Crash, NoRequest,
         NEW e \in Envs, CaughtUp(e)
  PROVE  CaughtUp(e)'
<1>0. /\ RowsOK /\ lock \in [Envs -> {Free} \cup Local \cup Runs]
      /\ making \in [Builders \cup Runs -> Images \cup {NoImage}]
      /\ env'[e].config = env[e].config
      /\ \A x \in Builders \cup Runs : x # Free
      /\ \A r \in Runs : r \notin Builders
  BY ConfigsStay DEF BuildInv, RowsOK, NoRequest, SameConfigs
<1>1. ASSUME env'[e].disk = env[e].disk, env'[e].status = "ready" => env[e].status = "ready",
             lock'[e] # Free => lock'[e] = lock[e] /\ making'[lock[e]] = making[lock[e]]
      PROVE  CaughtUp(e)'
  BY <1>0, <1>1 DEF CaughtUp
<1>2. ASSUME NEW x \in Builders \cup Runs, NEW f \in Envs, StartBuild(x, f),
             lock[f] = Free, lock' = [lock EXCEPT ![f] = x], \A g \in Envs : lock[g] # x
      PROVE  CaughtUp(e)'
  <2>1. /\ making'[x] = env[f].config /\ env'[f].status = "building"
        /\ \A g \in Envs \ {f} : env'[g] = env[g]
        /\ \A y \in (Builders \cup Runs) \ {x} : making'[y] = making[y]
    BY <1>0, <1>2, StartEffect
  <2>2. CASE e = f
    BY <1>0, <1>2, <2>1, <2>2 DEF CaughtUp
  <2>3. CASE e # f
    <3>1. lock'[e] = lock[e] /\ lock[e] # x /\ env'[e] = env[e]
      BY <1>0, <1>2, <2>1, <2>3
    <3>2. lock[e] # Free => making'[lock[e]] = making[lock[e]]
      BY <1>0, <2>1, <3>1
    <3> QED BY <1>1, <3>1, <3>2
  <2> QED BY <2>2, <2>3
<1>3. ASSUME NEW x \in Builders \cup Runs, NEW f \in Envs,
             env'[f].status = "ready" => env'[f].disk = making[x],
             \A g \in Envs \ {f} : env'[g] = env[g],
             \A y \in (Builders \cup Runs) \ {x} : making'[y] = making[y],
             lock[f] = x, lock' = [lock EXCEPT ![f] = Free], \A g \in Envs \ {f} : lock[g] # x
      PROVE  CaughtUp(e)'
  <2>1. /\ env'[f].status = "ready" => env'[f].disk = making[x]
        /\ \A g \in Envs \ {f} : env'[g] = env[g]
        /\ \A y \in (Builders \cup Runs) \ {x} : making'[y] = making[y]
    BY <1>3
  <2>2. CASE e = f
    BY <1>0, <1>3, <2>1, <2>2 DEF CaughtUp
  <2>3. CASE e # f
    <3>1. lock'[e] = lock[e] /\ lock[e] # x /\ env'[e] = env[e]
      BY <1>0, <1>3, <2>1, <2>3
    <3>2. lock[e] # Free => making'[lock[e]] = making[lock[e]]
      BY <1>0, <2>1, <3>1
    <3> QED BY <1>1, <3>1, <3>2
  <2> QED BY <2>2, <2>3
<1>4. ASSUME NEW b \in Builders, NEW j \in Jobs, Lease(b, j) PROVE CaughtUp(e)'
  BY <1>1, <1>4, LeaseEffect
<1>5. ASSUME NEW b \in Builders, BeginJob(b) PROVE CaughtUp(e)'
  <2>1. LET f == JobEnv(b) IN
        /\ f \in Envs /\ env'[f].disk = env[f].disk
        /\ env'[f].status = env[f].status \/ env'[f].status \in {"pending", "building"}
        /\ \A g \in Envs \ {f} : env'[g] = env[g]
        /\ UNCHANGED <<lock, making>>
    BY <1>5, BeginEffect
  <2> QED BY <1>1, <2>1
<1>6. ASSUME NEW b \in Builders, Records(b) PROVE CaughtUp(e)'
  <2>1. LET f == JobEnv(b) IN
        /\ f \in Envs /\ env'[f].disk = env[f].disk
        /\ env'[f].status = env[f].status \/ env'[f].status \in {"pending", "error"}
        /\ \A g \in Envs \ {f} : env'[g] = env[g]
        /\ UNCHANGED <<lock, making>>
    BY <1>6, RecordEffect
  <2> QED BY <1>1, <2>1
<1>7. ASSUME NEW j \in Jobs, Sweep(j) PROVE CaughtUp(e)'
  <2>1. Fail(j) /\ UNCHANGED <<lock, making>>
    BY <1>7 DEF Sweep
  <2>2. LET f == job[j].env IN
        /\ f \in Envs /\ env'[f].disk = env[f].disk /\ env'[f].status \in {"pending", "error"}
        /\ \A g \in Envs \ {f} : env'[g] = env[g]
    BY <1>0, <2>1, FailEffect
  <2> QED BY <1>1, <2>1, <2>2
<1>8. ASSUME NEW b \in Builders, TaskBuilds(b) PROVE CaughtUp(e)'
  <2>1. PICK f \in Envs : f = JobEnv(b)
    BY <1>8, TaskAdvances
  <2>2. /\ builder[b].pc = "build" /\ StartBuild(b, f)
        /\ lock[f] = Free /\ lock' = [lock EXCEPT ![f] = b]
    BY <1>8, <2>1 DEF TaskBuilds, CanLock, LockTo
  <2>3. \A g \in Envs : lock[g] # b
    BY <2>2 DEF LockIsHeld
  <2> QED BY <1>2, <2>2, <2>3
<1>9. ASSUME NEW b \in Builders, NEW ok \in BOOLEAN, TaskBuilt(b, ok) PROVE CaughtUp(e)'
  <2>1. PICK f \in Envs : f = JobEnv(b)
    BY <1>9, TaskAdvances
  <2>2. builder[b].pc = "building" /\ EndBuild(b, f, ok) /\ lock' = [lock EXCEPT ![f] = Free]
    BY <1>9, <2>1 DEF TaskBuilt, LockTo
  <2>3. /\ env'[f].status = "ready" => env'[f].disk = making[b]
        /\ \A g \in Envs \ {f} : env'[g] = env[g]
        /\ \A y \in (Builders \cup Runs) \ {b} : making'[y] = making[y]
    BY <1>0, <2>2, EndEffect
  <2>4. lock[f] = b /\ \A g \in Envs \ {f} : lock[g] # b
    BY <2>1, <2>2 DEF LockIsHeld
  <2> QED BY <1>3, <2>2, <2>3, <2>4
<1>10. ASSUME NEW r \in Runs, SpawnProgress(r) PROVE CaughtUp(e)'
  <2>1. PICK f \in Envs : f = EnvOf[r]
    OBVIOUS
  <2>2. \/ UNCHANGED <<env, lock, making>>
        \/ StartBuild(r, f) /\ lock[f] = Free /\ lock' = [lock EXCEPT ![f] = r]
        \/ /\ \E ok \in BOOLEAN : EndBuild(r, f, ok)
           /\ lock[f] = r /\ lock' = [lock EXCEPT ![f] = Free]
        \/ /\ UNCHANGED env /\ making' = [making EXCEPT ![r] = NoImage]
           /\ lock' = IF lock[f] = r THEN [lock EXCEPT ![f] = Free] ELSE lock
    BY <1>10, <2>1, SpawnEffect
  <2>3. \A g \in Envs \ {f} : lock[g] # r
    BY <2>1 DEF LockIsHeld
  <2>4. CASE StartBuild(r, f) /\ lock[f] = Free /\ lock' = [lock EXCEPT ![f] = r]
    <3>1. \A g \in Envs : lock[g] # r
      BY <1>0, <2>3, <2>4
    <3> QED BY <1>2, <2>4, <3>1
  <2>5. CASE /\ \E ok \in BOOLEAN : EndBuild(r, f, ok)
             /\ lock[f] = r /\ lock' = [lock EXCEPT ![f] = Free]
    <3>1. /\ env'[f].status = "ready" => env'[f].disk = making[r]
          /\ \A g \in Envs \ {f} : env'[g] = env[g]
          /\ \A y \in (Builders \cup Runs) \ {r} : making'[y] = making[y]
      BY <1>0, <2>5, EndEffect
    <3>2. CASE e = f
      BY <1>0, <2>5, <3>1, <3>2 DEF CaughtUp
    <3>3. CASE e # f
      <4>1. lock'[e] = lock[e] /\ lock[e] # r /\ env'[e] = env[e]
        BY <1>0, <2>3, <2>5, <3>1, <3>3
      <4>2. lock[e] # Free => making'[lock[e]] = making[lock[e]]
        BY <1>0, <3>1, <4>1
      <4> QED BY <1>1, <4>1, <4>2
    <3> QED BY <3>2, <3>3
  <2>6. CASE /\ UNCHANGED env /\ making' = [making EXCEPT ![r] = NoImage]
             /\ lock' = IF lock[f] = r THEN [lock EXCEPT ![f] = Free] ELSE lock
    <3>1. lock'[e] # Free => lock'[e] = lock[e] /\ lock[e] # r
      BY <1>0, <2>3, <2>6
    <3>2. lock'[e] # Free => making'[lock[e]] = making[lock[e]]
      BY <1>0, <2>6, <3>1
    <3> QED BY <1>1, <2>6, <3>1, <3>2
  <2>7. CASE UNCHANGED <<env, lock, making>>
    BY <1>1, <2>7
  <2> QED BY <2>2, <2>4, <2>5, <2>6, <2>7
<1>11. ASSUME \/ UNCHANGED vars
              \/ \E b \in Builders : DrainPool(b) \/ Ends(b) \/ HeartbeatDies(b)
              \/ \E r \in Runs : PoolRunStep(r)
              \/ \E p \in Procs : ProcessExits(p)
              \/ \E c \in Ceilings : PoolResize(c)
       PROVE  UNCHANGED <<env, lock, making>>
  BY <1>11 DEF vars, buildVars, DrainPool, Ends, TaskEnds, TaskRaises, HeartbeatDies, PoolRunStep,
               ProcessExits, PoolResize
<1> QED
  BY <1>1, <1>4, <1>5, <1>6, <1>7, <1>8, <1>9, <1>10, <1>11
  DEF BuildNext, TaskStep, TaskFault, Records, Ends, Leases, NoRequest

(* Before the first fault, a job comes to be tried again by its task's       *)
(* outcome only.                                                            *)
LEMMA RetriedAfter ==
  ASSUME BuildInv, TasksUndisturbed, [BuildNext]_vars, faults' = NoFaults, NoRequest,
         NEW j \in Jobs, Retried(j)'
  PROVE  Retried(j) \/ \E b \in Builders : Record(b) /\ builder[b].job = j
<1>0. RowsOK /\ job[j].attempts \in Nat
  BY DEF BuildInv, RowsOK, JobRows
<1>a. faults = NoFaults /\ ~Crash /\ \A b \in Builders : ~TaskFault(b)
  BY NoFaultStep DEF BuildInv
<1>1. ASSUME job'[j] = job[j] PROVE Retried(j)
  BY <1>1 DEF Retried
<1>2. ASSUME NEW b \in Builders, NEW i \in Jobs, Lease(b, i) PROVE Retried(j)
  <2>1. /\ job[i].status = "queued" /\ job'[i].status = "leased"
        /\ job'[i].attempts = job[i].attempts + 1
        /\ \A k \in Jobs \ {i} : job'[k] = job[k]
    BY <1>2, LeaseEffect
  <2>2. CASE i = j
    BY <1>0, <2>1, <2>2 DEF Retried
  <2>3. CASE i # j
    BY <1>1, <2>1, <2>3
  <2> QED BY <2>2, <2>3
<1>3. ASSUME NEW b \in Builders, BeginJob(b) PROVE Retried(j)
  <2>1. LET i == builder[b].job IN
        /\ \A k \in Jobs \ {i} : job'[k] = job[k]
        /\ job'[i] = job[i] \/ job'[i].status \in {"superseded", "running"}
    BY <1>3, BeginEffect
  <2> QED BY <1>1, <2>1 DEF Retried
<1>4. ASSUME NEW b \in Builders, Record(b), builder[b].job # j PROVE Retried(j)
  <2>1. \A k \in Jobs \ {builder[b].job} : job'[k] = job[k]
    BY <1>4, RecordEffect DEF Records
  <2> QED BY <1>1, <1>4, <2>1
<1>5. ASSUME NEW i \in Jobs, Sweep(i) PROVE FALSE
  BY <1>5, <1>a DEF Sweep, TasksUndisturbed
<1>6. ASSUME \/ UNCHANGED vars
             \/ \E b \in Builders : \/ DrainPool(b) \/ TaskBuilds(b) \/ TaskEnds(b)
                                    \/ \E ok \in BOOLEAN : TaskBuilt(b, ok)
      PROVE  UNCHANGED job
  BY <1>6 DEF vars, buildVars, DrainPool, TaskBuilds, TaskEnds, TaskBuilt
<1> QED
  BY <1>a, <1>1, <1>2, <1>3, <1>4, <1>5, <1>6, PoolLeavesQueue
  DEF BuildNext, TaskStep, Leases, NoRequest

(* Every step keeps it that jobs tried again have caught up.                *)
LEMMA RetriesStep ==
  ASSUME NEW rank, EditsForward(rank), Ranked(rank), Local = Builders, BuildInv, LockIsHeld,
         TasksUndisturbed, BuildsCatchUp, RetriesCaughtUp, [BuildNext]_vars
  PROVE  RetriesCaughtUp'
<1> SUFFICES ASSUME faults' = NoFaults, NEW j \in Jobs, Retried(j)', Current(j)'
             PROVE  CaughtUp(job[j].env)'
  BY DEF RetriesCaughtUp
<1>0. /\ RowsOK /\ job \in [Jobs -> JobRows] /\ env \in [Envs -> EnvRows]
      /\ rank \in [Images -> Nat] /\ job[j].env \in Envs
  BY DEF BuildInv, RowsOK, JobRows, EditsForward
<1>1. faults = NoFaults /\ ~Crash
  BY NoFaultStep DEF BuildInv
<1>2. ASSUME NEW e \in Envs, NEW config \in Images, RequestBuild(e, config)
      PROVE  CaughtUp(job[j].env)'
  <2>1. /\ UNCHANGED <<lock, making>>
        /\ config \in EditTo[env[e].config] \cup {env[e].config}
    BY <1>2 DEF RequestBuild
  <2>2. /\ env'[e].config = config /\ env'[e].disk = env[e].disk
        /\ env'[e].status \in {env[e].status, "pending"}
        /\ \A f \in Envs \ {e} : env'[f] = env[f]
    BY <1>0, <1>2, RequestEffect
  <2>3. \/ job'[j] = job[j]
        \/ job'[j].status = "superseded"
        \/ job'[j].status = "queued" /\ job'[j].attempts = 0
    BY <1>0, <1>2, RequestEffect
  <2>4. job'[j] = job[j] /\ Retried(j) /\ job[j].status # "none"
    BY <2>3 DEF Retried
  <2>5. job[j].env = e => config = env[e].config
    <3> SUFFICES ASSUME job[j].env = e PROVE config = env[e].config
      OBVIOUS
    <3>1. job[j].config = config
      BY <2>2, <2>4 DEF Current
    <3>2. rank[config] <= rank[env[e].config]
      BY <2>4, <3>1 DEF Ranked
    <3>3. rank[config] \in Nat /\ rank[env[e].config] \in Nat /\ env[e].config \in Images
      BY <1>0 DEF EnvRows
    <3> QED BY <2>1, <3>2, <3>3 DEF EditsForward
  <2>6. PICK f \in Envs : f = job[j].env
    BY <1>0
  <2>7. /\ env'[f].config = env[f].config /\ env'[f].disk = env[f].disk
        /\ env'[f].status \in {env[f].status, "pending"}
    BY <2>2, <2>5, <2>6
  <2>8. CaughtUp(f)
    <3>1. Current(j)
      BY <2>4, <2>6, <2>7 DEF Current
    <3> QED BY <1>1, <2>4, <2>6, <3>1 DEF RetriesCaughtUp
  <2>9. CaughtUp(f)'
    BY <2>1, <2>7, <2>8 DEF CaughtUp
  <2> QED BY <2>4, <2>6, <2>9 DEF CaughtUp
<1>3. CASE NoRequest
  <2>1. PICK f \in Envs : f = job[j].env
    BY <1>0
  <2>2. Current(j) /\ job'[j].env = f
    BY <1>3, <2>1, CurrentStays
  <2>3. ASSUME Retried(j) PROVE CaughtUp(f)
    BY <1>1, <2>1, <2>2, <2>3 DEF RetriesCaughtUp
  <2>4. ASSUME NEW b \in Builders, Record(b), builder[b].job = j PROVE CaughtUp(f)
    <3>1. RecordIsCurrent(b) /\ builder[b].pc = "record" /\ JobEnv(b) = f
      BY <2>1, <2>4, CatchUpParts DEF Record, JobEnv
    <3> QED BY <2>2, <2>4, <3>1 DEF RecordIsCurrent
  <2>5. CaughtUp(f)
    BY <1>3, <2>3, <2>4, RetriedAfter
  <2>6. CaughtUp(f)'
    BY <1>1, <1>3, <2>5, CaughtUpStays
  <2> QED BY <2>2, <2>6 DEF CaughtUp
<1> QED BY <1>2, <1>3 DEF NoRequest

----------------------------------------------------------------------------
(* A settled environment                                                   *)

SettledInv(rank) ==
  /\ BuildInv /\ BudgetInv
  /\ LockIsHeld /\ TasksUndisturbed /\ BuildsCatchUp /\ RetriesCaughtUp /\ Ranked(rank)

(* The invariant holds of the initial state,                                *)
LEMMA SettledInit ==
  ASSUME NEW rank, BuildInit
  PROVE  SettledInv(rank)
<1>1. /\ \A e \in Envs : /\ lock[e] = Free
                         /\ env[e].status = "ready" /\ env[e].disk = FirstImage
                         /\ env[e].config = FirstImage
      /\ \A b \in Builders : builder[b].pc = "idle"
      /\ \A j \in Jobs : job[j].status = "none"
  BY DEF BuildInit, NoTask
<1>2. \A x \in Builders \cup Runs : x # Free
  OBVIOUS
<1>3. LockIsHeld
  BY <1>1, <1>2 DEF LockIsHeld
<1>4. TasksUndisturbed /\ RetriesCaughtUp
  BY <1>1 DEF TasksUndisturbed, WithJob, RetriesCaughtUp, Retried
<1>5. BuildsCatchUp
  BY <1>1 DEF BuildsCatchUp
<1>6. Ranked(rank)
  BY <1>1 DEF Ranked
<1> QED BY <1>3, <1>4, <1>5, <1>6, BuildInvInit DEF SettledInv

(* and every step keeps it.                                                 *)
LEMMA SettledStep ==
  ASSUME NEW rank, EditsForward(rank), MaxFaults <= 1, Local = Builders,
         \A j \in Jobs : MaxAttempts[j] >= 2, SettledInv(rank), [BuildNext]_vars
  PROVE  SettledInv(rank)'
<1>1. /\ BuildInv /\ BudgetInv
      /\ LockIsHeld /\ TasksUndisturbed /\ BuildsCatchUp /\ RetriesCaughtUp /\ Ranked(rank)
  BY DEF SettledInv
<1>2. BuildInv' /\ BudgetInv'
  BY <1>1, BuildInvStep
<1>3. LockIsHeld'
  BY <1>1, LockStep
<1>4. TasksUndisturbed'
  BY <1>1, UndisturbedStep
<1>5. BuildsCatchUp'
  BY <1>1, CatchUpStep
<1>6. RetriesCaughtUp'
  BY <1>1, RetriesStep
<1>7. Ranked(rank)'
  BY <1>1, RankedStep
<1> QED BY <1>2, <1>3, <1>4, <1>5, <1>6, <1>7 DEF SettledInv

(* A settled environment has no build left that could catch up, so it has   *)
(* caught up.                                                               *)
LEMMA SettledIsBuilt ==
  ASSUME BuildInv, BuildsCatchUp
  PROVE  ReadyIsBuilt
<1> SUFFICES ASSUME NEW e \in Envs, env[e].status = "ready", Active(e) = {}, Working(e) = {},
                    lock[e] = Free, env[e].disk # env[e].config
             PROVE  FALSE
  BY DEF ReadyIsBuilt
<1>1. ToBuild(e)
  BY CatchUpParts DEF DiskCatchesUp, WillCatchUp
<1>2. PICK j \in Jobs : job[j].env = e /\ Pending(j)
  BY <1>1, ToBuildIsPending
<1>3. job[j].status \notin {"queued", "leased"}
  BY <1>2 DEF Active, ACTIVE_STATUSES
<1>4. PICK b \in Builders : builder[b].job = j /\ builder[b].pc \in {"begin", "drain", "build"}
  BY <1>2, <1>3 DEF Pending
<1>5. b \in Working(e)
  BY <1>2, <1>4 DEF Working, JobEnv
<1> QED BY <1>5

(* In a deployment of one process, when edits never lead back to an earlier  *)
(* configuration, every job may be tried twice, and at most one process or   *)
(* one transaction of a task is lost: once no build is due or under way, an  *)
(* environment that says it is ready holds the configuration the user asked  *)
(* for.                                                                     *)
THEOREM ReadyBuilt ==
  ASSUME NEW CONSTANT rank, EditsForward(rank), MaxFaults <= 1, Local = Builders,
         \A j \in Jobs : MaxAttempts[j] >= 2
  PROVE  BuildSpec => []ReadyIsBuilt
<1>1. BuildInit => SettledInv(rank)
  BY SettledInit
<1>2. SettledInv(rank) /\ [BuildNext]_vars => SettledInv(rank)'
  BY SettledStep
<1>3. SettledInv(rank) => ReadyIsBuilt
  BY SettledIsBuilt DEF SettledInv
<1> QED BY <1>1, <1>2, <1>3, PTL DEF BuildSpec

=============================================================================
