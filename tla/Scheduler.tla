----------------------------- MODULE Scheduler -----------------------------
(***************************************************************************)
(* The DAG engine: _execute_nodes and the drivers it nests (loop regions   *)
(* and isolated metanodes), packages/core/nodyra/engine/scheduler.py,      *)
(* loops.py, metanodes.py and the verdicts of node_exec._run_one_node.     *)
(*                                                                         *)
(* A scope is one call of _execute_nodes: Root is the graph itself, every  *)
(* other scope one iteration of a loop or the run of a metanode's          *)
(* sub-graph.  A unit is a node of one scope's plan; a loop region is one  *)
(* unit, its Loop Start, and so is a metanode: their drivers call          *)
(* _execute_nodes again for the scopes they own.                           *)
(*                                                                         *)
(* asyncio runs one task at a time, so what happens between two awaits is  *)
(* one action.  Which waiting task resumes next is left open; the queue's  *)
(* and the semaphores' FIFO order is one of the orders admitted.           *)
(***************************************************************************)
EXTENDS Integers, FiniteSets

CONSTANTS
    Units,        \* the nodes of all plans
    Scopes,       \* calls of _execute_nodes
    Root,         \* the outermost one
    Types,        \* node types that have a concurrency limit
    Unlimited,    \* the type of every other node
    ScopeOf,      \* ScopeOf[u]: the scope whose plan holds u
    Deps,         \* Deps[u]: _Plan.deps
    Kind,         \* Kind[u]: "node", "loop" or "meta"
    Driver,       \* Driver[s]: the loop or metanode that calls scope s
    Embedded,     \* the scopes inside a metanode's sub-graph
    Type,         \* Type[u]: a limited type or Unlimited
    TypeLimit,    \* max_concurrency_per_type
    NodeLimit,    \* max_node_concurrency
    WorkerLimit,  \* workers per scope at most (50 in the code)
    Concurrency,  \* a loop's concurrency parameter
    OnErrorFail,  \* the loops whose on_error is "fail"
    Cached,       \* nodes whose outputs the caller supplies
    MayPause,     \* nodes that may ask for an approval
    MayFault,     \* units out of which an exception may come
    Events        \* "deadline": run_timeout_seconds is set; "cancel"

Loops == {u \in Units : Kind[u] = "loop"}
Drivers == {u \in Units : Kind[u] # "node"}

ASSUME GraphAssumption ==
    /\ IsFiniteSet(Units)
    /\ Root \in Scopes
    /\ Unlimited \notin Types
    /\ ScopeOf \in [Units -> Scopes]
    /\ Deps \in [Units -> SUBSET Units]
    /\ \A u \in Units : \A d \in Deps[u] : ScopeOf[d] = ScopeOf[u]
    /\ Kind \in [Units -> {"node", "loop", "meta"}]
    /\ Driver \in [Scopes \ {Root} -> Drivers]
    /\ \A s \in Scopes \ {Root} :
         s \in Embedded <=> Kind[Driver[s]] = "meta" \/ ScopeOf[Driver[s]] \in Embedded
    /\ Root \notin Embedded
    /\ Type \in [Units -> Types \cup {Unlimited}]

ASSUME LimitAssumption ==
    /\ TypeLimit \in [Types -> Nat \ {0}]
    /\ NodeLimit \in Nat \ {0}
    /\ WorkerLimit \in Nat \ {0}
    /\ Concurrency \in [Drivers -> Nat \ {0}]

(* The calls are nested in the outermost one, and a metanode calls its     *)
(* sub-graph once.                                                         *)
ASSUME NestingAssumption ==
    /\ IsFiniteSet(Scopes)
    /\ \A s, c \in Scopes \ {Root} :
         Kind[Driver[s]] = "meta" /\ Driver[s] = Driver[c] => s = c
    /\ \A S \in SUBSET Scopes :
         S # {} /\ (\A s \in S \ {Root} : ScopeOf[Driver[s]] \in S) => Root \in S

VARIABLES
    unit,      \* unit[u]: the worker's position in _one(u), and its verdict
    indegree,  \* indegree[u]: the scope's dependency counter
    scope,     \* scope[s]: the state of the call
    nodeFree,  \* node_sem
    typeFree,  \* type_sems
    late       \* time.monotonic() > run_deadline

vars == <<unit, indegree, scope, nodeFree, typeFree, late>>

---------------------------------------------------------------------------
(* Faulty variants (Faulty_...) stand before the definition they alter; no *)
(* action uses them.  Each is a bug the code could have had, and breaks a  *)
(* property the runs check.                                                *)

(* failed: _one raised, and its worker is gone.                            *)
Pcs == {"blocked", "queued", "type_wait", "node_wait", "running",
        "driving", "aborting", "done", "failed", "cancelled"}
InFlight == {"type_wait", "node_wait", "running", "driving", "aborting"}

RunStatus == {"success", "waiting", "timed_out", "error"}
_STATUS_RANK == [success |-> 0, waiting |-> 1, timed_out |-> 2, error |-> 3]

Faulty_worse_status(a, b) == b

_worse_status(a, b) == IF _STATUS_RANK[a] >= _STATUS_RANK[b] THEN a ELSE b

(* taken: the dependents that get a value from the unit.                   *)
UnitRows == [pc : Pcs, status : RunStatus, taken : SUBSET Units]
ScopeRows ==
    [phase : {"idle", "running", "cancelling", "returned", "raised"},
     status : RunStatus, completed : Nat]

PlanOf(s) == {u \in Units : ScopeOf[u] = s}
Dependents(u) == {v \in Units : u \in Deps[v]}
Children(u) == {s \in Scopes \ {Root} : Driver[s] = u}
InFlightOf(s) == {u \in PlanOf(s) : unit[u].pc \in InFlight}
FailedOf(s) == {u \in PlanOf(s) : unit[u].pc = "failed"}
Active(s) == scope[s].phase \in {"running", "cancelling"}

(* node_sem and type_sems reach a loop's iterations; a metanode's          *)
(* sub-graph is a run of its own, without limits and without deadline.     *)
InMetanode(s) == s \in Embedded
TypeLimited(u) == Type[u] \in Types /\ ~InMetanode(ScopeOf[u])

HoldsType(u) ==
    TypeLimited(u) /\ unit[u].pc \in {"node_wait", "running", "driving", "aborting"}
HoldsNode(u) == unit[u].pc = "running" /\ ~InMetanode(ScopeOf[u])

ReleaseSlots(u) ==
    /\ typeFree' = [t \in Types |->
                        IF HoldsType(u) /\ Type[u] = t THEN typeFree[t] + 1 ELSE typeFree[t]]
    /\ nodeFree' = IF HoldsNode(u) THEN nodeFree + 1 ELSE nodeFree

(* The units of s that are put on its queue when the call begins.          *)
Begun(s) == [u \in Units |->
    IF ScopeOf[u] = s /\ indegree[u] = 0 THEN [unit[u] EXCEPT !.pc = "queued"] ELSE unit[u]]

Init ==
    /\ indegree = [u \in Units |-> Cardinality(Deps[u])]
    /\ unit = [u \in Units |->
                [pc |-> IF ScopeOf[u] = Root /\ Deps[u] = {} THEN "queued" ELSE "blocked",
                 status |-> "success", taken |-> {}]]
    /\ scope = [s \in Scopes |-> [phase |-> IF s = Root THEN "running" ELSE "idle",
                                  status |-> "success", completed |-> 0]]
    /\ nodeFree = NodeLimit
    /\ typeFree = TypeLimit
    /\ late = FALSE

---------------------------------------------------------------------------
(* _worker and _one                                                        *)

Working(u) == scope[ScopeOf[u]].phase = "running"

Move(u, pc) == unit' = [unit EXCEPT ![u].pc = pc]

(* _one(u) returned: the worker records the verdict, counts u as completed *)
(* and queues the dependents that waited for u alone.                      *)
Faulty_Complete_SuccessOnly(u, status, taken) ==
    LET s == ScopeOf[u] IN
    /\ indegree' = [v \in Units |-> IF v \in Dependents(u) /\ status = "success"
                                    THEN indegree[v] - 1 ELSE indegree[v]]
    /\ unit' = [v \in Units |->
                  IF v = u THEN [pc |-> "done", status |-> status, taken |-> taken]
                  ELSE IF v \in Dependents(u) /\ indegree[v] = 1
                  THEN [unit[v] EXCEPT !.pc = "queued"]
                  ELSE unit[v]]
    /\ scope' = [scope EXCEPT ![s].status = _worse_status(@, status),
                              ![s].completed = @ + 1]
    /\ ReleaseSlots(u)
    /\ UNCHANGED late

Faulty_Complete_AnyDependency(u, status, taken) ==
    LET s == ScopeOf[u] IN
    /\ indegree' = [v \in Units |-> IF v \in Dependents(u) THEN indegree[v] - 1 ELSE indegree[v]]
    /\ unit' = [v \in Units |->
                  IF v = u THEN [pc |-> "done", status |-> status, taken |-> taken]
                  ELSE IF v \in Dependents(u) /\ unit[v].pc = "blocked"
                  THEN [unit[v] EXCEPT !.pc = "queued"]
                  ELSE unit[v]]
    /\ scope' = [scope EXCEPT ![s].status = _worse_status(@, status),
                              ![s].completed = @ + 1]
    /\ ReleaseSlots(u)
    /\ UNCHANGED late

Complete(u, status, taken) ==
    LET s == ScopeOf[u] IN
    /\ indegree' = [v \in Units |-> IF v \in Dependents(u) THEN indegree[v] - 1 ELSE indegree[v]]
    /\ unit' = [v \in Units |->
                  IF v = u THEN [pc |-> "done", status |-> status, taken |-> taken]
                  ELSE IF v \in Dependents(u) /\ indegree[v] = 1
                  THEN [unit[v] EXCEPT !.pc = "queued"]
                  ELSE unit[v]]
    /\ scope' = [scope EXCEPT ![s].status = _worse_status(@, status),
                              ![s].completed = @ + 1]
    /\ ReleaseSlots(u)
    /\ UNCHANGED late

Fail(u) ==
    /\ Move(u, "failed")
    /\ ReleaseSlots(u)
    /\ UNCHANGED <<indegree, scope, late>>

(* A worker takes u from the queue.  Workers that raised are gone.         *)
Takeable(u) ==
    /\ unit[u].pc = "queued"
    /\ Cardinality(InFlightOf(ScopeOf[u]) \cup FailedOf(ScopeOf[u])) < WorkerLimit

(* The run's deadline is checked for the units of the graph itself only.   *)
TooLate(u) == late /\ ScopeOf[u] = Root

Take(u) ==
    /\ Working(u)
    /\ Takeable(u)
    /\ IF TooLate(u)
       THEN Complete(u, "timed_out", {})
       ELSE /\ Move(u, "type_wait")
            /\ UNCHANGED <<indegree, scope, nodeFree, typeFree, late>>

(* The per-type slot; drivers never ask for a node slot.                   *)
Faulty_AcquireType(u) ==
    /\ Working(u)
    /\ unit[u].pc = "type_wait"
    /\ TypeLimited(u) => typeFree[Type[u]] > 0
    /\ u \in Drivers => nodeFree > 0
    /\ typeFree' = [t \in Types |->
                        IF TypeLimited(u) /\ Type[u] = t THEN typeFree[t] - 1 ELSE typeFree[t]]
    /\ nodeFree' = IF u \in Drivers THEN nodeFree - 1 ELSE nodeFree
    /\ Move(u, IF u \in Drivers THEN "driving" ELSE "node_wait")
    /\ UNCHANGED <<indegree, scope, late>>

AcquireType(u) ==
    /\ Working(u)
    /\ unit[u].pc = "type_wait"
    /\ TypeLimited(u) => typeFree[Type[u]] > 0
    /\ typeFree' = [t \in Types |->
                        IF TypeLimited(u) /\ Type[u] = t THEN typeFree[t] - 1 ELSE typeFree[t]]
    /\ Move(u, IF u \in Drivers THEN "driving" ELSE "node_wait")
    /\ UNCHANGED <<indegree, scope, nodeFree, late>>

(* The node slot.  A cached node has its value at once; a node whose       *)
(* upstream left it none is skipped, or refused for an edge from an output *)
(* its source does not have.                                               *)
Admitted(u) == unit[u].pc = "node_wait" /\ (~InMetanode(ScopeOf[u]) => nodeFree > 0)
Skipped(u) == \E d \in Deps[u] : u \notin unit[d].taken

Faulty_AcquireNode(u) ==
    /\ Working(u)
    /\ unit[u].pc = "node_wait"
    /\ IF Skipped(u)
       THEN Complete(u, "success", {})
       ELSE /\ Move(u, "running")
            /\ nodeFree' = IF InMetanode(ScopeOf[u]) THEN nodeFree ELSE nodeFree - 1
            /\ UNCHANGED <<indegree, scope, typeFree, late>>

AcquireNode(u) ==
    /\ Working(u)
    /\ Admitted(u)
    /\ \/ u \in Cached /\ \E taken \in SUBSET Dependents(u) : Complete(u, "success", taken)
       \/ u \notin Cached /\ Skipped(u) /\ \E v \in {"success", "error"} : Complete(u, v, {})
       \/ /\ u \notin Cached /\ ~Skipped(u)
          /\ Move(u, "running")
          /\ nodeFree' = IF InMetanode(ScopeOf[u]) THEN nodeFree ELSE nodeFree - 1
          /\ UNCHANGED <<indegree, scope, typeFree, late>>

(* A node's verdict.  A success leaves the branches not taken without a    *)
(* value; on_error "continue" is a success here.  A metanode's sub-graph   *)
(* neither pauses for an approval nor sees the run's deadline.             *)
Verdict(u) ==
    \/ \E taken \in SUBSET Dependents(u) : Complete(u, "success", taken)
    \/ Complete(u, "error", {})
    \/ /\ ~InMetanode(ScopeOf[u])
       /\ \/ u \in MayPause /\ Complete(u, "waiting", {})
          \/ late /\ Complete(u, "timed_out", {})

RunNode(u) ==
    /\ Working(u)
    /\ unit[u].pc = "running"
    /\ Verdict(u)

(* An exception leaves _one: the event callback raised where _one awaits   *)
(* it (a metanode's sub-graph has none), or a driver could not be set up   *)
(* or build its results.                                                   *)
Fault(u) ==
    /\ u \in MayFault
    /\ Working(u)
    /\ \/ unit[u].pc = "driving" /\ \A s \in Children(u) : ~Active(s)
       \/ /\ ~InMetanode(ScopeOf[u])
          /\ \/ Takeable(u) /\ TooLate(u)
             \/ Admitted(u) /\ (u \in Cached \/ Skipped(u))
             \/ unit[u].pc = "running"
    /\ Fail(u)

---------------------------------------------------------------------------
(* Drivers: _run_loop, _run_conditional_loop and _run_metanode             *)

RowFailed(u) ==
    /\ u \in OnErrorFail
    /\ \E s \in Children(u) : scope[s].phase = "returned" /\ scope[s].status = "error"

RowRaised(u) == \E s \in Children(u) : scope[s].phase = "raised"

(* The next row, while the loop's own semaphore has room.  The rows of a   *)
(* concurrent loop are tasks of their own: they go on when their driver    *)
(* has raised.                                                             *)
StartIteration(s) ==
    LET u == Driver[s] IN
    /\ s # Root
    /\ scope[s].phase = "idle"
    /\ \/ unit[u].pc = "driving" /\ Working(u)
       \/ unit[u].pc = "failed" /\ Concurrency[u] > 1 /\ RowRaised(u)
    /\ Cardinality({c \in Children(u) : Active(c)}) < Concurrency[u]
    /\ Concurrency[u] = 1 => ~RowFailed(u) /\ ~RowRaised(u)
    /\ scope' = [scope EXCEPT ![s].phase = "running"]
    /\ unit' = Begun(s)
    /\ UNCHANGED <<indegree, nodeFree, typeFree, late>>

Interrupted(u) == [s \in Scopes |->
    IF s \in Children(u) /\ scope[s].phase = "running"
    THEN [scope[s] EXCEPT !.phase = "cancelling"] ELSE scope[s]]

(* on_error "fail": the first failed row cancels the rows in flight.       *)
Faulty_AbortRows(u) ==
    /\ Working(u)
    /\ unit[u].pc = "driving"
    /\ Concurrency[u] > 1
    /\ RowFailed(u)
    /\ Complete(u, "error", {})

AbortRows(u) ==
    /\ Working(u)
    /\ unit[u].pc = "driving"
    /\ Concurrency[u] > 1
    /\ RowFailed(u)
    /\ scope' = Interrupted(u)
    /\ Move(u, "aborting")
    /\ UNCHANGED <<indegree, nodeFree, typeFree, late>>

(* No row is in flight.  A loop reports an error when a row failed or for  *)
(* a reason of its own (a condition, a cap, its rows); a row that paused   *)
(* or timed out is a row like any other.                                   *)
FinishLoop(u) ==
    /\ Working(u)
    /\ u \in Loops
    /\ unit[u].pc \in {"driving", "aborting"}
    /\ unit[u].pc = "driving" => ~RowRaised(u)
    /\ \A s \in Children(u) : ~Active(s)
    /\ \E taken \in SUBSET Dependents(u) :
         \/ Complete(u, "error", taken)
         \/ ~RowFailed(u) /\ Complete(u, "success", taken)

(* A metanode reports an error when its sub-graph did, was rejected or     *)
(* raised.                                                                 *)
FinishMetanode(u) ==
    /\ Working(u)
    /\ u \in Drivers \ Loops
    /\ unit[u].pc = "driving"
    /\ \E s \in Children(u) :
         \/ scope[s].phase \in {"idle", "raised"} /\ Complete(u, "error", {})
         \/ /\ scope[s].phase = "returned"
            /\ \E taken \in SUBSET Dependents(u) :
                 Complete(u, IF scope[s].status = "error" THEN "error" ELSE "success", taken)

(* A row raised something else than a row error: so does the loop.         *)
RaiseRow(u) ==
    /\ Working(u)
    /\ u \in Loops
    /\ unit[u].pc = "driving"
    /\ RowRaised(u)
    /\ Fail(u)

---------------------------------------------------------------------------
(* Supervision of a call                                                   *)

(* A worker raised: cancel the others.                                     *)
Supervise(s) ==
    /\ scope[s].phase = "running"
    /\ FailedOf(s) # {}
    /\ scope' = [scope EXCEPT ![s].phase = "cancelling"]
    /\ UNCHANGED <<unit, indegree, nodeFree, typeFree, late>>

(* The queue drained and no worker raised.  A unit left over is an error.  *)
Return(s) ==
    /\ scope[s].phase = "running"
    /\ FailedOf(s) = {}
    /\ \A u \in PlanOf(s) : unit[u].pc \notin InFlight \cup {"queued"}
    /\ scope' = [scope EXCEPT ![s].phase =
                    IF scope[s].completed = Cardinality(PlanOf(s)) THEN "returned" ELSE "raised"]
    /\ UNCHANGED <<unit, indegree, nodeFree, typeFree, late>>

(* A cancelled driver passes the cancellation to its rows ...              *)
InterruptRows(u) ==
    /\ scope[ScopeOf[u]].phase = "cancelling"
    /\ unit[u].pc \in {"driving", "aborting"}
    /\ \E s \in Children(u) : scope[s].phase = "running"
    /\ scope' = Interrupted(u)
    /\ UNCHANGED <<unit, indegree, nodeFree, typeFree, late>>

(* ... and ends with them; gather() ends with the first cancelled row.     *)
RowsEnded(u) ==
    \/ \A s \in Children(u) : ~Active(s)
    \/ /\ Concurrency[u] > 1
       /\ unit[u].pc = "driving"
       /\ \A s \in Children(u) : scope[s].phase # "running"
       /\ \E s \in Children(u) : scope[s].phase \in {"idle", "raised"}

Faulty_CancelUnit(u) ==
    /\ scope[ScopeOf[u]].phase = "cancelling"
    /\ unit[u].pc \in InFlight
    /\ unit[u].pc \in {"driving", "aborting"} => RowsEnded(u)
    /\ Move(u, "cancelled")
    /\ UNCHANGED <<indegree, scope, nodeFree, typeFree, late>>

CancelUnit(u) ==
    /\ scope[ScopeOf[u]].phase = "cancelling"
    /\ unit[u].pc \in InFlight
    /\ unit[u].pc \in {"driving", "aborting"} => RowsEnded(u)
    /\ Move(u, "cancelled")
    /\ ReleaseSlots(u)
    /\ UNCHANGED <<indegree, scope, late>>

Raise(s) ==
    /\ scope[s].phase = "cancelling"
    /\ InFlightOf(s) = {}
    /\ scope' = [scope EXCEPT ![s].phase = "raised"]
    /\ UNCHANGED <<unit, indegree, nodeFree, typeFree, late>>

---------------------------------------------------------------------------
(* The caller and the clock                                                *)

CancelCaller ==
    /\ "cancel" \in Events
    /\ scope[Root].phase = "running"
    /\ scope' = [scope EXCEPT ![Root].phase = "cancelling"]
    /\ UNCHANGED <<unit, indegree, nodeFree, typeFree, late>>

DeadlinePasses ==
    /\ "deadline" \in Events
    /\ ~late
    /\ late' = TRUE
    /\ UNCHANGED <<unit, indegree, scope, nodeFree, typeFree>>

UnitStep(u) ==
    \/ Take(u) \/ AcquireType(u) \/ AcquireNode(u) \/ RunNode(u)
    \/ AbortRows(u) \/ FinishLoop(u) \/ FinishMetanode(u) \/ RaiseRow(u)
    \/ InterruptRows(u) \/ CancelUnit(u)

ScopeStep(s) == StartIteration(s) \/ Supervise(s) \/ Return(s) \/ Raise(s)

Next ==
    \/ \E u \in Units : UnitStep(u) \/ Fault(u)
    \/ \E s \in Scopes : ScopeStep(s)
    \/ CancelCaller \/ DeadlinePasses

Spec == Init /\ [][Next]_vars

(* The event loop resumes every task that can go on, and a node's code     *)
(* returns (nodes have timeouts).  No deadline, cancellation or fault has  *)
(* to come.                                                                *)
Fairness ==
    /\ \A u \in Units : WF_vars(UnitStep(u))
    /\ \A s \in Scopes : WF_vars(ScopeStep(s))

FairSpec == Spec /\ Fairness

---------------------------------------------------------------------------
(* Properties                                                              *)

(* Every unit, counter and call has the shape the engine gives it.         *)
TypeOK ==
    /\ unit \in [Units -> UnitRows]
    /\ indegree \in [Units -> Nat]
    /\ scope \in [Scopes -> ScopeRows]
    /\ nodeFree \in 0..NodeLimit
    /\ typeFree \in [Types -> Nat]
    /\ late \in BOOLEAN

(* The counter that decides when a unit is queued is the number of its     *)
(* dependencies that have not completed, however completions interleave.   *)
IndegreeCounts ==
    \A u \in Units : indegree[u] = Cardinality({d \in Deps[u] : unit[d].pc # "done"})

(* A unit leaves "blocked" only when everything it depends on completed.   *)
StartsAfterDeps ==
    \A u \in Units : unit[u].pc # "blocked" => \A d \in Deps[u] : unit[d].pc = "done"

(* Slots are neither leaked nor invented by a failure, a skip, an abort or *)
(* a cancellation: what is free and what is held add up to the limit.      *)
SlotsConserved ==
    /\ nodeFree + Cardinality({u \in Units : HoldsNode(u)}) = NodeLimit
    /\ \A t \in Types :
        typeFree[t] + Cardinality({u \in Units : HoldsType(u) /\ Type[u] = t}) = TypeLimit[t]

(* A call that returned ran its whole plan and reports the worst verdict   *)
(* of its units, in whatever order they completed.                         *)
ReportsWorst ==
    \A s \in Scopes : scope[s].phase = "returned" =>
        /\ \A u \in PlanOf(s) : unit[u].pc = "done"
        /\ \A u \in PlanOf(s) : _STATUS_RANK[unit[u].status] <= _STATUS_RANK[scope[s].status]
        /\ scope[s].status = "success" \/ \E u \in PlanOf(s) : unit[u].status = scope[s].status

(* What the verdict rests on while the call is still going on.             *)
VerdictSoFar ==
    \A s \in Scopes :
        LET done == {u \in PlanOf(s) : unit[u].pc = "done"} IN
        /\ scope[s].completed = Cardinality(done)
        /\ \A u \in done : _STATUS_RANK[unit[u].status] <= _STATUS_RANK[scope[s].status]
        /\ scope[s].status = "success" \/ \E u \in done : unit[u].status = scope[s].status

(* The inductive invariant of the engine.                                  *)
SchedulerInv ==
    /\ unit \in [Units -> UnitRows]
    /\ indegree \in [Units -> Int]
    /\ scope \in [Scopes -> ScopeRows]
    /\ nodeFree \in Nat
    /\ typeFree \in [Types -> Nat]
    /\ late \in BOOLEAN
    /\ \A u \in Units : scope[ScopeOf[u]].phase = "idle" => unit[u].pc = "blocked"
    /\ \A s \in Scopes : scope[s].phase = "returned" => \A u \in PlanOf(s) : unit[u].pc = "done"
    /\ IndegreeCounts
    /\ StartsAfterDeps
    /\ SlotsConserved
    /\ VerdictSoFar

(* Once the outermost call has ended, by return, failure or cancellation,  *)
(* no node starts any more.                                                *)
NoStartAfterEnd ==
    [][ scope[Root].phase \in {"returned", "raised"}
          => \A u \in Units : unit'[u].pc = "running" => unit[u].pc = "running" ]_vars

(* Every call ends: no nesting of loops and metanodes, limit or failure    *)
(* makes the workers wait for each other.                                  *)
Terminates == <>(scope[Root].phase \in {"returned", "raised"})

============================================================================
