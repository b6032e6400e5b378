---------------------------- MODULE RuntimePool ----------------------------
(***************************************************************************)
(* The runtime pool of one API or worker process                           *)
(* (src/apps/api/app/services/runtime_pool.py): the gates a dispatched run  *)
(* passes (memory budget, global ceiling, worker of its environment), the  *)
(* warm worker processes of every environment, their recycling, draining   *)
(* and reaping, and the throttle on the processes of sub-workflows.        *)
(*                                                                         *)
(* The code is asyncio: a step here is what one task does between two      *)
(* suspensions.  No code suspends inside _EnvPool._lock or inside the      *)
(* conditions of the two gates, so those locks are never contended and     *)
(* they disappear into the steps.                                          *)
(***************************************************************************)
EXTENDS Integers, FiniteSets, Sequences

CONSTANTS
  Envs,          \* environments
  Runs,          \* top-level runs
  EnvOf,         \* [Runs -> Envs], the environment a run executes in
  Procs,         \* identities of worker processes (a bound on those alive)
  Images,        \* contents an environment's directory can have
  MinSize,       \* [Envs -> Nat], workers kept warm; 0 is spawn-per-run
  MaxSize,       \* [Envs -> Nat], workers at once
  RunCap,        \* runner_max_runs_per_subprocess, 0 is unlimited
  Estimate,      \* [Envs -> Nat], measured memory of a worker
  Budget,        \* soft memory budget, 0 is no budget
  Ceilings,      \* values the autoscaler and the operator set as ceiling
  Calls,         \* sub-workflow calls
  Caller,        \* [Calls -> Runs \cup Calls], what makes the call
  SubCap,        \* permits of the sub-workflow throttle
  MaxDrains,     \* bound on the drains of an environment
  NoProc, NoImage

ASSUME EnvOfAssumption == EnvOf \in [Runs -> Envs]
ASSUME SizesAssumption ==
  /\ MinSize \in [Envs -> Nat]
  /\ MaxSize \in [Envs -> Nat \ {0}]
  /\ \A e \in Envs : MinSize[e] <= MaxSize[e]
ASSUME GatesAssumption ==
  /\ Estimate \in [Envs -> Nat]
  /\ Budget \in Nat
  /\ Ceilings \subseteq Nat \ {0}
  /\ Ceilings # {}
  /\ RunCap \in Nat
  /\ SubCap \in Nat \ {0}
ASSUME CallsAssumption == Caller \in [Calls -> Runs \cup Calls]
ASSUME NamesAssumption ==
  /\ NoProc \notin Procs
  /\ NoImage \notin Images
  /\ Runs \cap Calls = {}
ASSUME FiniteAssumption == IsFiniteSet(Runs) /\ IsFiniteSet(Calls)

VARIABLES
  pool,       \* [Envs -> the _EnvPool of the environment]
  proc,       \* [Procs -> worker process]
  run,        \* [Runs -> where its dispatch stands and the worker it holds]
  gate,       \* _global_sem: its capacity and the holders it counts
  committed,  \* _rss_budget._committed
  call,       \* [Calls -> where its dispatch stands, and whether it has a permit]
  permits     \* free permits of _subworkflow_sem

poolVars == <<pool, proc, run, gate, committed, call, permits>>

----------------------------------------------------------------------------

ProcStates == {"none", "starting", "live", "closing", "gone"}

\* A process whose identity is free.
Blank == [state |-> "none", generation |-> 0, served |-> 0, image |-> NoImage]

ClosedPool == [open |-> FALSE, free |-> 0, idle |-> <<>>, all |-> {},
               generation |-> 0, paused |-> FALSE]

RunStates == {"idle", "memory", "admission", "worker", "resolving", "starting",
              "executing", "closing", "parked", "ended"}

Pools == [open : BOOLEAN, free : Nat, idle : Seq(Procs), all : SUBSET Procs,
          generation : Nat, paused : BOOLEAN]

Processes == [state : ProcStates, generation : Nat, served : Nat,
              image : Images \cup {NoImage}]

Dispatches == [pc : RunStates, proc : Procs \cup {NoProc}]

\* Runs that count in the memory budget, in the ceiling, in the worker
\* semaphore of their environment.
Reserved == {"admission", "worker", "resolving", "starting", "executing", "closing"}
Admitted == Reserved \ {"admission"}
Holding  == Admitted \ {"worker"}

CallStates == {"idle", "throttled", "executing", "ended"}

Init ==
  /\ pool = [e \in Envs |-> ClosedPool]
  /\ proc = [p \in Procs |-> Blank]
  /\ run = [r \in Runs |-> [pc |-> "idle", proc |-> NoProc]]
  /\ \E c \in Ceilings : gate = [capacity |-> c, inUse |-> 0]
  /\ committed = 0
  /\ call = [c \in Calls |-> [pc |-> "idle", permit |-> FALSE]]
  /\ permits = SubCap

----------------------------------------------------------------------------

\* _EnvPool._alive: the process has not exited.  One that is being closed
\* still counts until it has.
Alive(p) == proc[p].state \in {"live", "closing"}

InPool(p) == \E e \in Envs : \E i \in DOMAIN pool[e].idle : pool[e].idle[i] = p
Held(p)   == \E r \in Runs : run[r].proc = p

InState(p, state) == [state |-> state, generation |-> proc[p].generation,
                      served |-> proc[p].served, image |-> proc[p].image]

\* close() on a process nothing refers to any more: it is asked to exit, or it
\* is gone and its identity is free.
Discarded(p) == IF proc[p].state = "gone" THEN Blank ELSE InState(p, "closing")

\* close() on a process a run still holds.
Asked(p) == IF proc[p].state = "gone" THEN proc[p] ELSE InState(p, "closing")

\* The memory a run of the environment reserves.
Amount(e) == IF Budget > 0 THEN Estimate[e] ELSE 0

\* A pool whose slots, idle list and workers change.
Changed(e, free, idle, all) ==
  pool' = [pool EXCEPT ![e] = [open |-> pool[e].open, free |-> free, idle |-> idle, all |-> all,
                               generation |-> pool[e].generation, paused |-> pool[e].paused]]

At(r, pc) == run[r].pc = pc

To(r, pc) == run' = [run EXCEPT ![r] = [pc |-> pc, proc |-> run[r].proc]]

\* The counters of both gates stop at zero.
Less(n, k) == IF n < k THEN 0 ELSE n - k

\* The exits of the two gates' context managers around a dispatch that got past
\* both.  Neither suspends, so they follow the worker's release at once.
LeaveGates(r, pc) ==
  /\ run' = [run EXCEPT ![r] = [pc |-> pc, proc |-> NoProc]]
  /\ gate' = [gate EXCEPT !.inUse = Less(@, 1)]
  /\ committed' = Less(committed, Amount(EnvOf[r]))

----------------------------------------------------------------------------
(* Dispatch up to the worker                                               *)

\* A dispatch begins; the first of an environment creates its pool.
Dispatch(r) ==
  LET e == EnvOf[r] IN
  /\ At(r, "idle")
  /\ To(r, "memory")
  /\ pool' = IF pool[e].open THEN pool
             ELSE [pool EXCEPT ![e] = [open |-> TRUE, free |-> MaxSize[e], idle |-> <<>>, all |-> {},
                                       generation |-> 0, paused |-> FALSE]]
  /\ UNCHANGED <<proc, gate, committed, call, permits>>

\* Fault: the reservation's own size is not counted.
Faulty_Reserve(r) ==
  /\ At(r, "memory")
  /\ committed <= Budget
  /\ committed' = committed + Amount(EnvOf[r])
  /\ To(r, "admission")
  /\ UNCHANGED <<pool, proc, gate, call, permits>>

\* _RssBudget.reserve: an unmeasured environment, or a budget nothing else uses,
\* always admits.
Reserve(r) ==
  LET amount == Amount(EnvOf[r]) IN
  /\ At(r, "memory")
  /\ amount > 0 => committed = 0 \/ committed + amount <= Budget
  /\ committed' = committed + amount
  /\ To(r, "admission")
  /\ UNCHANGED <<pool, proc, gate, call, permits>>

Admit(r) ==
  /\ At(r, "admission")
  /\ gate.inUse < gate.capacity
  /\ gate' = [gate EXCEPT !.inUse = @ + 1]
  /\ To(r, "worker")
  /\ UNCHANGED <<pool, proc, committed, call, permits>>

\* _ResizableAdmission.resize, by the autoscaler or an operator.
Resize(c) ==
  /\ gate' = [gate EXCEPT !.capacity = c]
  /\ UNCHANGED <<pool, proc, run, committed, call, permits>>

----------------------------------------------------------------------------
(* _EnvPool.acquire                                                        *)

CanAcquire(r) == At(r, "worker") /\ pool[EnvOf[r]].free > 0

\* The environment is being rebuilt: the slot goes back and the run is parked
\* in the durable queue.
FindPaused(r) ==
  /\ CanAcquire(r)
  /\ pool[EnvOf[r]].paused
  /\ LeaveGates(r, "parked")
  /\ UNCHANGED <<pool, proc, call, permits>>

\* The idle list is popped from its end until a process that is alive comes up,
\* the k-th; the dead ones on the way are dropped.
NewestAlive(e, k) ==
  /\ k \in DOMAIN pool[e].idle
  /\ Alive(pool[e].idle[k])
  /\ \A j \in DOMAIN pool[e].idle : j > k => ~Alive(pool[e].idle[j])

NoneAlive(e) == \A j \in DOMAIN pool[e].idle : ~Alive(pool[e].idle[j])

DroppedAbove(e, k) == {pool[e].idle[i] : i \in {j \in DOMAIN pool[e].idle : j > k}}

Exhausted(p) == RunCap > 0 /\ proc[p].served >= RunCap

\* The pool after a slot is taken and the idle list is cut to its first k
\* processes, those in gone forgotten.
TakeSlot(e, k, gone) ==
  Changed(e, pool[e].free - 1, SubSeq(pool[e].idle, 1, k), pool[e].all \ gone)

\* Fault: the idle worker is read and not popped.
Faulty_Reuse(r) ==
  LET e == EnvOf[r] IN
  /\ CanAcquire(r) /\ ~pool[e].paused
  /\ \E k \in DOMAIN pool[e].idle :
       /\ NewestAlive(e, k)
       /\ pool' = [pool EXCEPT ![e].free = @ - 1]
       /\ run' = [run EXCEPT ![r] = [pc |-> "executing", proc |-> pool[e].idle[k]]]
  /\ UNCHANGED <<proc, gate, committed, call, permits>>

\* A warm worker is reused.
Reuse(r) ==
  LET e == EnvOf[r] IN
  /\ CanAcquire(r) /\ ~pool[e].paused
  /\ \E k \in DOMAIN pool[e].idle :
       LET cand == pool[e].idle[k]
           dead == DroppedAbove(e, k)
       IN
       /\ NewestAlive(e, k)
       /\ ~Exhausted(cand)
       /\ TakeSlot(e, k - 1, dead)
       /\ proc' = [p \in Procs |-> IF p \in dead THEN Blank ELSE proc[p]]
       /\ run' = [run EXCEPT ![r] = [pc |-> "executing", proc |-> cand]]
  /\ UNCHANGED <<gate, committed, call, permits>>

\* The newest warm worker has served its quota: it is closed in the background
\* and a fresh one is spawned, whatever else is idle.
Recycle(r) ==
  LET e == EnvOf[r] IN
  /\ CanAcquire(r) /\ ~pool[e].paused
  /\ \E k \in DOMAIN pool[e].idle :
       LET cand == pool[e].idle[k]
           dead == DroppedAbove(e, k)
       IN
       /\ NewestAlive(e, k)
       /\ Exhausted(cand)
       /\ TakeSlot(e, k - 1, dead \cup {cand})
       /\ proc' = [p \in Procs |-> IF p = cand THEN Discarded(p)
                                   ELSE IF p \in dead THEN Blank ELSE proc[p]]
  /\ To(r, "resolving")
  /\ UNCHANGED <<gate, committed, call, permits>>

\* No warm worker is alive.
SpawnWorker(r) ==
  LET e == EnvOf[r]
      dead == DroppedAbove(e, 0)
  IN
  /\ CanAcquire(r) /\ ~pool[e].paused
  /\ NoneAlive(e)
  /\ TakeSlot(e, 0, dead)
  /\ proc' = [p \in Procs |-> IF p \in dead THEN Blank ELSE proc[p]]
  /\ To(r, "resolving")
  /\ UNCHANGED <<gate, committed, call, permits>>

\* _RuntimeProcess.spawn: the interpreter is resolved, the subprocess starts and
\* loads what the environment's directory holds at that moment.
StartWorker(r, p, image) ==
  /\ At(r, "resolving")
  /\ proc[p] = Blank
  /\ proc' = [proc EXCEPT ![p] = [state |-> "starting", generation |-> 0, served |-> 0,
                                  image |-> image]]
  /\ run' = [run EXCEPT ![r] = [pc |-> "starting", proc |-> p]]
  /\ UNCHANGED <<pool, gate, committed, call, permits>>

\* The ready line arrives; only now is the worker entered in the pool and
\* stamped with the pool's generation.
WorkerReady(r) ==
  LET e == EnvOf[r]
      p == run[r].proc
  IN
  /\ At(r, "starting")
  /\ proc' = [proc EXCEPT ![p] = [state |-> "live", generation |-> pool[e].generation,
                                  served |-> 0, image |-> proc[p].image]]
  /\ Changed(e, pool[e].free, pool[e].idle, pool[e].all \cup {p})
  /\ To(r, "executing")
  /\ UNCHANGED <<gate, committed, call, permits>>

\* Fault: a spawn that fails keeps the semaphore slot.
Faulty_SpawnFails(r) ==
  /\ run[r].pc \in {"resolving", "starting"}
  /\ proc' = [p \in Procs |-> IF p = run[r].proc THEN Blank ELSE proc[p]]
  /\ LeaveGates(r, "ended")
  /\ UNCHANGED <<pool, call, permits>>

\* spawn raises (no interpreter, no ready line in time) or is cancelled: the
\* slot goes back.  A subprocess whose start was cancelled is not killed; it is
\* outside the pool and the model drops it.
SpawnFails(r) ==
  LET e == EnvOf[r] IN
  /\ run[r].pc \in {"resolving", "starting"}
  /\ proc' = [p \in Procs |-> IF p = run[r].proc THEN Blank ELSE proc[p]]
  /\ Changed(e, pool[e].free + 1, pool[e].idle, pool[e].all)
  /\ LeaveGates(r, "ended")
  /\ UNCHANGED <<call, permits>>

----------------------------------------------------------------------------
(* Execution and _EnvPool.release                                          *)

Busy(c) == call[c].pc \in {"throttled", "executing"}

NoBusyCalls(x) == \A c \in Calls : Caller[c] = x => ~Busy(c)

\* Fault: the generation is not compared.
Faulty_Kept(r) == MinSize[EnvOf[r]] > 0 /\ Alive(run[r].proc)

\* release(): spawn-per-run keeps nothing; a worker that is alive and of the
\* current generation goes to the end of the idle list; any other is closed.
Kept(r) ==
  LET e == EnvOf[r]
      p == run[r].proc
  IN MinSize[e] > 0 /\ Alive(p) /\ proc[p].generation = pool[e].generation

ReleaseKept(r) ==
  LET e == EnvOf[r]
  IN Changed(e, pool[e].free + 1, Append(pool[e].idle, run[r].proc), pool[e].all)

ReleaseClosed(r) ==
  LET e == EnvOf[r]
  IN Changed(e, pool[e].free + 1, pool[e].idle, pool[e].all \ {run[r].proc})

Served(p, n) == [state |-> proc[p].state, generation |-> proc[p].generation, served |-> n,
                 image |-> proc[p].image]

\* The dispatch ends with its worker; served says what run_count becomes.
EndDispatch(r, served) ==
  LET p == run[r].proc IN
  /\ IF Kept(r)
     THEN /\ ReleaseKept(r)
          /\ proc' = [proc EXCEPT ![p] = Served(p, served)]
     ELSE /\ ReleaseClosed(r)
          /\ proc' = [proc EXCEPT ![p] = Discarded(p)]
  /\ LeaveGates(r, "ended")
  /\ UNCHANGED <<call, permits>>

\* The worker reports a result, after the sub-workflow calls it made.
RunReturns(r) ==
  /\ At(r, "executing")
  /\ Alive(run[r].proc)
  /\ NoBusyCalls(r)
  /\ LET served == proc[run[r].proc].served
     IN EndDispatch(r, IF served < RunCap THEN served + 1 ELSE served)

\* The worker reports an error, or its output has closed because it died.  The
\* calls still open were cancelled first.
RunErrors(r) ==
  /\ At(r, "executing")
  /\ NoBusyCalls(r)
  /\ EndDispatch(r, proc[run[r].proc].served)

\* The run times out, is cancelled, loses its heartbeat, makes no progress, or
\* had a node time out: its worker is closed before the dispatch ends.
StopRun(r) ==
  /\ At(r, "executing")
  /\ proc' = [proc EXCEPT ![run[r].proc] = Asked(run[r].proc)]
  /\ To(r, "closing")
  /\ UNCHANGED <<pool, gate, committed, call, permits>>

StoppedRunEnds(r) ==
  /\ At(r, "closing")
  /\ ~Alive(run[r].proc)
  /\ NoBusyCalls(r)
  /\ EndDispatch(r, proc[run[r].proc].served)

\* Fault: a cancelled wait always leaves the ceiling.
Faulty_CancelWaiting(r) ==
  /\ run[r].pc \in {"memory", "admission", "worker"}
  /\ To(r, "ended")
  /\ gate' = [gate EXCEPT !.inUse = @ - 1]
  /\ UNCHANGED <<pool, proc, committed, call, permits>>

\* A dispatch that waits for memory, for the ceiling or for a worker slot is
\* cancelled.
CancelWaiting(r) ==
  /\ run[r].pc \in {"memory", "admission", "worker"}
  /\ To(r, "ended")
  /\ gate' = IF At(r, "worker") THEN [gate EXCEPT !.inUse = Less(@, 1)] ELSE gate
  /\ committed' = IF At(r, "memory") THEN committed ELSE Less(committed, Amount(EnvOf[r]))
  /\ UNCHANGED <<pool, proc, call, permits>>

\* The durable queue hands a parked run out again.
Requeue(r) ==
  /\ At(r, "parked")
  /\ To(r, "idle")
  /\ UNCHANGED <<pool, proc, gate, committed, call, permits>>

----------------------------------------------------------------------------
(* Processes, reaping, draining                                            *)

\* A process that was asked to exit does, or a live one dies by itself.
ExitProcess(p) ==
  /\ Alive(p)
  /\ proc' = [proc EXCEPT ![p] = IF Held(p) \/ InPool(p)
                                 THEN InState(p, "gone") ELSE Blank]
  /\ UNCHANGED <<pool, run, gate, committed, call, permits>>

\* reap_idle: the first n of the idle list have been idle too long; as many of
\* them as there are live workers above the floor are closed.
ReapIdle(e, n) ==
  LET surplus == Cardinality({p \in pool[e].all : Alive(p)}) - MinSize[e]
      old == {pool[e].idle[i] : i \in 1..n}
  IN
  /\ pool[e].open
  /\ n \in DOMAIN pool[e].idle
  /\ n <= surplus
  /\ Changed(e, pool[e].free, SubSeq(pool[e].idle, n + 1, Len(pool[e].idle)), pool[e].all \ old)
  /\ proc' = [p \in Procs |-> IF p \in old THEN Discarded(p) ELSE proc[p]]
  /\ UNCHANGED <<run, gate, committed, call, permits>>

\* What a forced drain closes: the idle workers and every live worker entered
\* in the pool.
ToClose(e) == DroppedAbove(e, 0) \cup {p \in pool[e].all : Alive(p)}

\* drain(force=True), the only form the program uses: the generation moves on,
\* so a worker that is out with a run is not kept when it comes back, and the
\* pool is emptied and paused.  The processes are then closed one by one.
Drain(e) ==
  /\ pool[e].open
  /\ pool' = [pool EXCEPT ![e] = [open |-> TRUE, free |-> pool[e].free, idle |-> <<>>, all |-> {},
                                  generation |-> pool[e].generation + 1, paused |-> TRUE]]
  /\ proc' = [p \in Procs |-> IF p \notin ToClose(e) THEN proc[p]
                              ELSE IF Held(p) THEN Asked(p) ELSE Discarded(p)]
  /\ UNCHANGED <<run, gate, committed, call, permits>>

Unpause(e) ==
  /\ pool[e].paused
  /\ pool' = [pool EXCEPT ![e] = [open |-> TRUE, free |-> pool[e].free, idle |-> pool[e].idle,
                                  all |-> pool[e].all, generation |-> pool[e].generation,
                                  paused |-> FALSE]]
  /\ UNCHANGED <<proc, run, gate, committed, call, permits>>

----------------------------------------------------------------------------
(* dispatch_subworkflow and subworkflow_slot                               *)

\* What makes the call is executing it.
Executing(x) ==
  IF x \in Runs THEN At(x, "executing") /\ Alive(run[x].proc)
                ELSE call[x].pc = "executing"

CallWorkflow(c) ==
  /\ call[c].pc = "idle"
  /\ Executing(Caller[c])
  /\ call' = [call EXCEPT ![c] = [pc |-> "throttled", permit |-> FALSE]]
  /\ UNCHANGED <<pool, proc, run, gate, committed, permits>>

\* A permit is free: the call spawns a process of its own.
CallAdmitted(c) ==
  /\ call[c].pc = "throttled"
  /\ permits > 0
  /\ permits' = permits - 1
  /\ call' = [call EXCEPT ![c] = [pc |-> "executing", permit |-> TRUE]]
  /\ UNCHANGED <<pool, proc, run, gate, committed>>

\* Fault: the throttle is a hard cap.
Faulty_CallProceeds(c) == FALSE /\ UNCHANGED poolVars

\* The wait for a permit times out and the call goes on without one.
CallProceeds(c) ==
  /\ call[c].pc = "throttled"
  /\ call' = [call EXCEPT ![c] = [pc |-> "executing", permit |-> FALSE]]
  /\ UNCHANGED <<pool, proc, run, gate, committed, permits>>

\* The call returns, fails or times out; its process is closed and its permit,
\* if it has one, goes back.
CallEnds(c) ==
  /\ call[c].pc = "executing"
  /\ NoBusyCalls(c)
  /\ permits' = IF call[c].permit THEN permits + 1 ELSE permits
  /\ call' = [call EXCEPT ![c] = [pc |-> "ended", permit |-> FALSE]]
  /\ UNCHANGED <<pool, proc, run, gate, committed>>

\* The caller's execution has ended abnormally: the call is cancelled.
CallCancelled(c) ==
  /\ call[c].pc = "throttled"
  /\ ~Executing(Caller[c])
  /\ call' = [call EXCEPT ![c] = [pc |-> "ended", permit |-> FALSE]]
  /\ UNCHANGED <<pool, proc, run, gate, committed, permits>>

----------------------------------------------------------------------------

AcquireWorker(r) == FindPaused(r) \/ Reuse(r) \/ Recycle(r) \/ SpawnWorker(r)

StartsWorker(r) == \E p \in Procs, image \in Images : StartWorker(r, p, image)

EndsRun(r) == RunReturns(r) \/ RunErrors(r) \/ StoppedRunEnds(r)

RunStep(r) ==
  \/ Dispatch(r) \/ Reserve(r) \/ Admit(r) \/ AcquireWorker(r)
  \/ WorkerReady(r) \/ EndsRun(r) \/ StopRun(r) \/ CancelWaiting(r) \/ Requeue(r)

SpawnStep(r) == StartsWorker(r) \/ SpawnFails(r)

CallStep(c) ==
  CallWorkflow(c) \/ CallAdmitted(c) \/ CallProceeds(c) \/ CallEnds(c) \/ CallCancelled(c)

Reaps(e) == \E n \in DOMAIN pool[e].idle : ReapIdle(e, n)

Drains(e) == pool[e].generation < MaxDrains /\ Drain(e)

Next ==
  \/ \E r \in Runs : RunStep(r) \/ SpawnStep(r)
  \/ \E c \in Calls : CallStep(c)
  \/ \E p \in Procs : ExitProcess(p)
  \/ \E e \in Envs : Reaps(e) \/ Drains(e) \/ Unpause(e)
  \/ \E c \in Ceilings : Resize(c)

\* A waiter whose turn has come is served, executions end (the heartbeat and
\* the run timeout close a worker that does not answer), a process that was
\* asked to exit does (it is killed after three seconds), and a drained pool is
\* unpaused by the build that drained it.
Fairness ==
  /\ \A r \in Runs :
       /\ WF_poolVars(Dispatch(r) \/ Requeue(r))
       /\ WF_poolVars(Reserve(r))
       /\ WF_poolVars(Admit(r))
       /\ WF_poolVars(AcquireWorker(r))
       /\ WF_poolVars(SpawnStep(r) \/ WorkerReady(r))
       /\ WF_poolVars(EndsRun(r))
  /\ \A c \in Calls : WF_poolVars(CallAdmitted(c) \/ CallProceeds(c)
                                  \/ CallEnds(c) \/ CallCancelled(c))
  /\ \A p \in Procs : WF_poolVars(proc[p].state = "closing" /\ ExitProcess(p))
  /\ \A e \in Envs : WF_poolVars(Unpause(e))

PoolSpec == Init /\ [][Next]_poolVars

FairPoolSpec == PoolSpec /\ Fairness

----------------------------------------------------------------------------
(* Properties                                                              *)

TypeOK ==
  /\ pool \in [Envs -> Pools]
  /\ proc \in [Procs -> Processes]
  /\ run \in [Runs -> Dispatches]
  /\ gate \in [capacity : Nat \ {0}, inUse : Nat]
  /\ committed \in Nat
  /\ call \in [Calls -> [pc : CallStates, permit : BOOLEAN]]
  /\ permits \in Nat

AdmittedRuns == {r \in Runs : run[r].pc \in Admitted}

PermittedCalls == {c \in Calls : call[c].permit}

HoldersOf(e) == {r \in Runs : EnvOf[r] = e /\ run[r].pc \in Holding}

\* Whatever way a dispatch ends (result, error, timeout, cancellation at any
\* await, a spawn that fails, a pool found paused), the slot of the worker
\* semaphore goes back exactly once, and so does the place under the ceiling and
\* the permit of a sub-workflow.
SlotsConserved ==
  /\ \A e \in Envs : pool[e].open => pool[e].free + Cardinality(HoldersOf(e)) = MaxSize[e]
  /\ gate.inUse = Cardinality(AdmittedRuns)
  /\ permits + Cardinality(PermittedCalls) = SubCap

\* The number of workers an environment keeps: those that wait and those that
\* are out with a run never exceed its maximum together, although idle workers
\* hold no slot of the semaphore (comment of reap_idle).
PoolBounded ==
  \A e \in Envs : pool[e].open => Len(pool[e].idle) <= pool[e].free

\* A worker serves one run at a time: no two dispatches hold it, and none holds
\* one that waits in an idle list, which has it once.  _RuntimeProcess.run
\* writes the requests of its run to one pipe.
NoSharedWorker ==
  /\ \A r, s \in Runs : run[r].proc = run[s].proc => r = s \/ run[r].proc = NoProc
  /\ \A e \in Envs : \A i \in DOMAIN pool[e].idle :
       /\ ~Held(pool[e].idle[i])
       /\ \A f \in Envs : \A j \in DOMAIN pool[f].idle :
            pool[e].idle[i] = pool[f].idle[j] => e = f /\ i = j

\* Warm workers are of the current generation: after a drain no worker that was
\* out with a run returns to the idle list, and none that was asked to exit
\* waits there.
IdleIsCurrent ==
  \A e \in Envs : \A i \in DOMAIN pool[e].idle :
    LET p == pool[e].idle[i] IN
    /\ p \in pool[e].all
    /\ proc[p].state \in {"live", "gone"}
    /\ proc[p].generation = pool[e].generation

\* The memory gate never lets the reservations of concurrent runs exceed the
\* budget, except for one run that is alone.
HeavyRuns == {r \in Runs : run[r].pc \in Reserved /\ Amount(EnvOf[r]) > 0}

WithinBudget == Cardinality(HeavyRuns) > 1 => committed <= Budget

\* What the runs past the gate reserved, a member for every unit of memory of
\* every run, so that a sum is a cardinality.
MemoryUnits == UNION {{r} \X (1..Amount(EnvOf[r])) : r \in HeavyRuns}

\* The committed memory is the sum of the reservations that are out: none is
\* forgotten when a dispatch ends, none given back twice, and the floor at zero
\* (max(0, ...) in reserve) is never what a release comes to rest on.
ReservationsCounted == IsFiniteSet(MemoryUnits) /\ committed = Cardinality(MemoryUnits)

\* A dispatch holds a process exactly while it is starting, executing or being
\* closed.  A process that is out with a run of the pool's current generation is
\* entered in the pool and has not been asked to exit; stamps are never ahead.
HeldWorkers ==
  \A r \in Runs :
    LET p == run[r].proc
        e == EnvOf[r]
    IN
    /\ p \in Procs <=> run[r].pc \in {"starting", "executing", "closing"}
    /\ At(r, "starting") => proc[p].state = "starting"
    /\ run[r].pc \in {"executing", "closing"} =>
         /\ proc[p].state \in {"live", "closing", "gone"}
         /\ proc[p].generation <= pool[e].generation
    /\ (At(r, "executing") /\ proc[p].generation = pool[e].generation) =>
         p \in pool[e].all /\ proc[p].state # "closing"

\* What is entered in a pool waits in it or is out with a run of its environment.
EnteredIsOwned ==
  \A e \in Envs : \A p \in pool[e].all :
    \/ \E i \in DOMAIN pool[e].idle : pool[e].idle[i] = p
    \/ \E r \in Runs : EnvOf[r] = e /\ run[r].proc = p /\ run[r].pc \in {"executing", "closing"}

\* Without a pool nothing of the environment is out.  (After a crash of the
\* process, runs that had ended before it have no pool either.)
UnopenedIsUnused ==
  \A e \in Envs : ~pool[e].open =>
    pool[e] = ClosedPool /\ \A r \in Runs : EnvOf[r] = e => run[r].pc \in {"idle", "ended"}

\* Only a call that executes has a permit.
PermitsAreUsed == \A c \in Calls : call[c].permit => call[c].pc = "executing"

\* The inductive invariant: every worker process has one owner (a run, the idle
\* list of one pool, or nobody any more), and the counters count the owners.
PoolInv ==
  /\ TypeOK /\ SlotsConserved /\ PoolBounded /\ NoSharedWorker /\ IdleIsCurrent
  /\ HeldWorkers /\ EnteredIsOwned /\ UnopenedIsUnused /\ PermitsAreUsed

\* Every dispatch comes to its end: the gates are taken in one order and the
\* sub-workflow throttle is soft, so a chain of calls deeper than the cap, a
\* ceiling below the demand or an environment larger than the budget blocks
\* nobody for ever.
DispatchEnds ==
  <>(/\ \A r \in Runs : run[r].pc = "ended"
     /\ \A c \in Calls : ~Busy(c))

=============================================================================
