----------------------------- MODULE GraphPlan -----------------------------
(* How one execution of a workflow graph is planned, and the order the     *)
(* plans admit: which nodes are needed, whether the graph has a cycle,     *)
(* which nodes each loop owns, what waits for what.  Scheduler.tla takes   *)
(* the plan as an input and models limits, failures and cancellation.      *)
(*                                                                         *)
(* Sources: _execute_impl and its helpers in engine/scheduler.py, the      *)
(* regions and drivers of engine/loops.py, validate_graph in               *)
(* engine/validation.py (all of packages/core/nodyra).                     *)
(*                                                                         *)
(* A node is its position in graph.nodes.  Ports, parameters, port kinds   *)
(* and the inlining of transparent metanodes are left out; ids are unique  *)
(* and edges join nodes that exist.  A loop runs one row.                  *)
EXTENDS Integers, Sequences, FiniteSets

CONSTANTS
    NodeCount,  \* nodes of the graph
    Graphs,     \* the graphs: edges, kinds and pairings
    Requests    \* the runs: whole graph or targets, and what is cached

Nodes == 1..NodeCount
None == 0       \* no node; as a scope, the top level of the run

Kinds == {"plain", "loop_start", "loop_end"}

ASSUME CountAssumption == NodeCount \in Nat \ {0}
ASSUME GraphAssumption ==
    Graphs \subseteq [edges : SUBSET (Nodes \X Nodes),
                      kind : [Nodes -> Kinds],
                      pair : [Nodes -> Nodes \cup {None}]]
ASSUME RequestAssumption ==
    Requests \subseteq [whole : BOOLEAN, targets : SUBSET Nodes, cache : SUBSET Nodes]

VARIABLES
    graph,     \* the graph executed
    request,   \* targets and cache of this execution
    stage,     \* how far _execute_impl is, or why it refused
    needed,    \* _needed_nodes: the set so far
    stack,     \* ... and its work list
    indegree,  \* _topo_order: unprocessed predecessors
    ready,     \* ... its heap
    order,     \* ... and its result
    regions,   \* loop_start -> [end, body, parent]
    plan,      \* scope -> [units, deps]
    done,      \* scope -> completed units
    entered,   \* loops whose driver has started
    ran        \* how often each node was executed

inputs == <<graph, request>>
search == <<needed, stack>>
sort == <<indegree, ready, order>>
execution == <<done, entered, ran>>
vars == <<inputs, stage, search, sort, regions, plan, execution>>

Scopes == Nodes \cup {None}
NoPlan == [units |-> {}, deps |-> [n \in Nodes |-> {}]]

Init ==
    /\ graph \in Graphs
    /\ request \in Requests
    /\ stage = "validate"
    /\ needed = {} /\ stack = {}
    /\ indegree = [n \in Nodes |-> 0] /\ ready = {} /\ order = <<>>
    /\ regions = <<>>
    /\ plan = [c \in Scopes |-> NoPlan]
    /\ done = [c \in Scopes |-> {}] /\ entered = {} /\ ran = [n \in Nodes |-> 0]

---------------------------------------------------------------------------
(* Before planning                                                         *)

_predecessors(n) == {m \in Nodes : <<m, n>> \in graph.edges /\ m # n}

_successors(n) == {m \in Nodes : <<n, m>> \in graph.edges}

(* Structural checks; then the search starts from the targets, if any.     *)
validate_graph ==
    /\ stage = "validate"
    /\ IF \E n \in Nodes : <<n, n>> \in graph.edges
       THEN stage' = "self_loop" /\ UNCHANGED search
       ELSE /\ stage' = "needed"
            /\ needed' = IF request.whole THEN Nodes ELSE {}
            /\ stack' = IF request.whole THEN {} ELSE request.targets
    /\ UNCHANGED <<inputs, sort, regions, plan, execution>>

(* Fault: a cached node's ancestors are searched too.                      *)
Faulty_needed_nodes(n) ==
    /\ stage = "needed"
    /\ n \in stack
    /\ needed' = needed \cup {n}
    /\ stack' = (stack \cup _predecessors(n)) \ needed'
    /\ UNCHANGED <<inputs, stage, sort, regions, plan, execution>>

(* A cached node supplies a value; its ancestors are not needed.  A node   *)
(* that is needed already would be skipped when popped.                    *)
_needed_nodes(n) ==
    /\ stage = "needed"
    /\ n \in stack
    /\ needed' = needed \cup {n}
    /\ stack' = IF n \in request.cache THEN stack \ {n}
                ELSE (stack \cup _predecessors(n)) \ needed'
    /\ UNCHANGED <<inputs, stage, sort, regions, plan, execution>>

StartSort ==
    /\ stage = "needed"
    /\ stack = {}
    /\ stage' = "sort"
    /\ indegree' = [n \in Nodes |-> Cardinality(_predecessors(n))]
    /\ ready' = {n \in Nodes : _predecessors(n) = {}}
    /\ UNCHANGED <<inputs, search, order, regions, plan, execution>>

(* Fault: a node is ready with its first predecessor.                      *)
Faulty_topo_order(n) ==
    /\ stage = "sort"
    /\ n \in ready
    /\ \A m \in ready : n <= m
    /\ order' = Append(order, n)
    /\ indegree' = [m \in Nodes |-> IF n \in _predecessors(m) THEN indegree[m] - 1
                                    ELSE indegree[m]]
    /\ ready' = (ready \ {n}) \cup {m \in Nodes : n \in _predecessors(m)}
    /\ UNCHANGED <<inputs, stage, search, regions, plan, execution>>

(* Pop the ready node that comes first in the graph.                       *)
_topo_order(n) ==
    /\ stage = "sort"
    /\ n \in ready
    /\ \A m \in ready : n <= m
    /\ order' = Append(order, n)
    /\ indegree' = [m \in Nodes |-> IF n \in _predecessors(m) THEN indegree[m] - 1
                                    ELSE indegree[m]]
    /\ ready' = (ready \ {n}) \cup
                {m \in Nodes : n \in _predecessors(m) /\ indegree[m] = 1}
    /\ UNCHANGED <<inputs, stage, search, regions, plan, execution>>

(* Fault: a cycle is noticed only if nothing could be sorted.              *)
Faulty_EndSort ==
    /\ stage = "sort"
    /\ ready = {}
    /\ stage' = IF order = <<>> THEN "cycle" ELSE "regions"
    /\ UNCHANGED <<inputs, search, sort, regions, plan, execution>>

(* The cycle check.                                                        *)
EndSort ==
    /\ stage = "sort"
    /\ ready = {}
    /\ stage' = IF Len(order) # NodeCount THEN "cycle" ELSE "regions"
    /\ UNCHANGED <<inputs, search, sort, regions, plan, execution>>

---------------------------------------------------------------------------
(* Loop regions                                                            *)

Least(S) == CHOOSE n \in S : \A m \in S : n <= m
Greatest(S) == CHOOSE n \in S : \A m \in S : m <= n

Starts == {n \in Nodes : graph.kind[n] = "loop_start"}

(* The Loop End that names start s; the last of several wins.              *)
EndsFor(s) == {n \in Nodes : graph.kind[n] = "loop_end" /\ graph.pair[n] = s}

_descendants(root) ==
    LET reach[k \in 0..NodeCount] ==
            IF k = 0 THEN _successors(root)
            ELSE LET near == reach[k - 1]
                 IN near \cup UNION {_successors(m) : m \in near}
    IN reach[NodeCount]

_ancestors(root) == {n \in Nodes : root \in _descendants(n)}

Body(s) ==
    LET end == Greatest(EndsFor(s))
    IN (_descendants(s) \cap _ancestors(end)) \ {s, end}

(* The first other loop, in graph order, whose body holds this start.      *)
Parent(body, s) ==
    LET around == {o \in Starts \ {s} : s \in body[o]}
    IN IF around = {} THEN None ELSE Least(around)

_loop_regions ==
    LET body == [s \in Starts |-> Body(s)]
    IN [s \in Starts |-> [end |-> Greatest(EndsFor(s)), body |-> body[s],
                          parent |-> Parent(body, s)]]

Span(r, s) == r[s].body \cup {s, r[s].end}

(* Fault: edges into a body are not looked at.                             *)
Faulty_validate_loop_regions(r) ==
    /\ \A s \in DOMAIN r : \A e \in graph.edges :
          e[1] \in r[s].body /\ e[2] \notin r[s].body => e[2] = r[s].end
    /\ \A s, o \in DOMAIN r :
          \/ Span(r, s) \cap Span(r, o) = {}
          \/ Span(r, s) \subseteq Span(r, o) \/ Span(r, o) \subseteq Span(r, s)

(* Single entry, single exit, and two loops are disjoint or nested.        *)
_validate_loop_regions(r) ==
    /\ \A s \in DOMAIN r : \A e \in graph.edges :
          /\ e[2] \in r[s].body /\ e[1] \notin r[s].body => e[1] = s
          /\ e[1] \in r[s].body /\ e[2] \notin r[s].body => e[2] = r[s].end
    /\ \A s \in DOMAIN r : \A n \in r[s].body : r[s].end \in _descendants(n)
    /\ \A s, o \in DOMAIN r :
          \/ Span(r, s) \cap Span(r, o) = {}
          \/ Span(r, s) \subseteq Span(r, o) \/ Span(r, o) \subseteq Span(r, s)

FindRegions ==
    /\ stage = "regions"
    /\ IF \E s \in Starts : EndsFor(s) = {}
       THEN stage' = "unpaired" /\ UNCHANGED regions
       ELSE /\ regions' = _loop_regions
            /\ stage' = IF _validate_loop_regions(_loop_regions) THEN "plan" ELSE "bad_loop"
    /\ UNCHANGED <<inputs, search, sort, plan, execution>>

---------------------------------------------------------------------------
(* Plans                                                                   *)

Loops == DOMAIN regions

Owns(s) == regions[s].body \cup {regions[s].end}

(* _loop_owner_index: the smallest region that owns the node.              *)
Owner(n) ==
    LET owners == {s \in Loops : n \in Owns(s)}
        size(s) == Cardinality(regions[s].body)
        smallest == {s \in owners : \A o \in owners : size(s) <= size(o)}
    IN IF owners = {} THEN None ELSE Least(smallest)

(* From a node a loop owns outward to the unit that produces its output.   *)
_owner_unit(n, units) ==
    LET hop[k \in 0..NodeCount] ==
            IF k = 0 THEN Owner(n)
            ELSE LET o == hop[k - 1]
                 IN IF o \in units \cup {None} THEN o ELSE Owner(o)
    IN hop[NodeCount]

(* Fault: a producer that is not needed is waited for.                     *)
Faulty_build_plan(ids, owned) ==
    LET units == ids \ owned
        produces(m) == IF m \in owned THEN _owner_unit(m, units) ELSE m
    IN [units |-> units,
        deps |-> [u \in Nodes |->
                     IF u \notin units THEN {}
                     ELSE {produces(m) : m \in _predecessors(u)} \ {None, u}]]

_build_plan(ids, owned) ==
    LET units == ids \ owned
        produces(m) == IF m \in units THEN m
                       ELSE IF m \in owned THEN _owner_unit(m, units) ELSE None
    IN [units |-> units,
        deps |-> [u \in Nodes |->
                     IF u \notin units THEN {}
                     ELSE {produces(m) : m \in _predecessors(u)} \ {None, u}]]

(* Nodes a scope leaves to the drivers of its loops: all of them at the    *)
(* top, those of the directly nested loops in a body.                      *)
owned(c) ==
    UNION {Owns(s) : s \in IF c = None THEN Loops
                           ELSE {o \in Loops : regions[o].parent = c}}

BuildPlans ==
    /\ stage = "plan"
    /\ plan' = [c \in Scopes |->
                   IF c = None THEN _build_plan(needed, owned(None))
                   ELSE IF c \in Loops THEN _build_plan(regions[c].body, owned(c))
                   ELSE NoPlan]
    /\ stage' = "run"
    /\ UNCHANGED <<inputs, search, sort, regions, execution>>

---------------------------------------------------------------------------
(* What the plans let run                                                  *)

Open(c) == c = None \/ (c \in entered /\ ran[c] > 0)

CanRun(c, u) ==
    /\ stage = "run"
    /\ Open(c)
    /\ u \in plan[c].units \ done[c]
    /\ plan[c].deps[u] \subseteq done[c]

RunNode(c, u) ==
    /\ CanRun(c, u)
    /\ u \notin Loops
    /\ done' = [done EXCEPT ![c] = @ \cup {u}]
    /\ ran' = [ran EXCEPT ![u] = @ + 1]
    /\ UNCHANGED <<inputs, stage, search, sort, regions, plan, entered>>

(* The driver of a loop publishes the row on the start ...                 *)
EnterLoop(c, u) ==
    /\ CanRun(c, u)
    /\ u \in Loops \ entered
    /\ entered' = entered \cup {u}
    /\ ran' = [ran EXCEPT ![u] = @ + 1]
    /\ UNCHANGED <<inputs, stage, search, sort, regions, plan, done>>

(* Fault: the driver does not wait for the body.                           *)
Faulty_LeaveLoop(c, u) ==
    /\ CanRun(c, u)
    /\ u \in Loops \cap entered
    /\ done' = [done EXCEPT ![c] = @ \cup {u}]
    /\ ran' = [ran EXCEPT ![regions[u].end] = @ + 1]
    /\ UNCHANGED <<inputs, stage, search, sort, regions, plan, entered>>

(* ... and, its body run, finishes the Loop End.                           *)
LeaveLoop(c, u) ==
    /\ CanRun(c, u)
    /\ u \in Loops \cap entered
    /\ plan[u].units \subseteq done[u]
    /\ done' = [done EXCEPT ![c] = @ \cup {u}]
    /\ ran' = [ran EXCEPT ![regions[u].end] = @ + 1]
    /\ UNCHANGED <<inputs, stage, search, sort, regions, plan, entered>>

Finish ==
    /\ stage = "run"
    /\ plan[None].units \subseteq done[None]
    /\ stage' = "done"
    /\ UNCHANGED <<inputs, search, sort, regions, plan, execution>>

(* The queue is drained and units are left: GraphError, "scheduler stalled *)
(* ... _topo_order() in execute() should make this unreachable".           *)
Stall(c) ==
    /\ stage = "run"
    /\ Open(c)
    /\ plan[c].units \ done[c] # {}
    /\ \A u \in plan[c].units \ done[c] : ~(plan[c].deps[u] \subseteq done[c])
    /\ stage' = "stalled"
    /\ UNCHANGED <<inputs, search, sort, regions, plan, execution>>

Refusals == {"self_loop", "cycle", "unpaired", "bad_loop"}

(* The call has returned or raised.                                        *)
Over == stage \in Refusals \cup {"done", "stalled"} /\ UNCHANGED vars

Next ==
    \/ validate_graph
    \/ \E n \in Nodes : _needed_nodes(n) \/ _topo_order(n)
    \/ StartSort \/ EndSort \/ FindRegions \/ BuildPlans
    \/ \E c \in Scopes, u \in Nodes : RunNode(c, u) \/ EnterLoop(c, u) \/ LeaveLoop(c, u)
    \/ \E c \in Scopes : Stall(c)
    \/ Finish \/ Over

Spec == Init /\ [][Next]_vars

---------------------------------------------------------------------------
(* Properties                                                              *)

Stages == {"validate", "needed", "sort", "regions", "plan", "run", "done", "stalled"} \cup Refusals

(* Shapes of the planner's state; no counter goes below zero.              *)
TypeOK ==
    /\ graph.edges \subseteq Nodes \X Nodes /\ request.targets \subseteq Nodes
    /\ stage \in Stages
    /\ needed \subseteq Nodes /\ stack \subseteq Nodes
    /\ indegree \in [Nodes -> Nat] /\ ready \subseteq Nodes
    /\ order \in Seq(Nodes)
    /\ Loops \subseteq Nodes /\ \A s \in Loops : regions[s].body \subseteq Nodes
    /\ \A c \in Scopes : plan[c].units \subseteq Nodes
    /\ done \in [Scopes -> SUBSET Nodes]
    /\ entered \subseteq Nodes /\ ran \in [Nodes -> Nat]

Emitted == {order[i] : i \in DOMAIN order}

(* Closed: with a node that is not cached, all it reads.                   *)
Closed(S) == \A n \in S \ request.cache : _predecessors(n) \subseteq S

(* The nodes of a targeted run are the targets and what they transitively  *)
(* read, and no node whose readers all have a cached value: the least      *)
(* closed set that holds the targets.                                      *)
NeededIsLeast ==
    stage \notin {"validate", "needed", "self_loop"} /\ ~request.whole =>
        /\ request.targets \subseteq needed
        /\ Closed(needed)
        /\ \A S \in SUBSET Nodes :
              request.targets \subseteq S /\ Closed(S) => needed \subseteq S

(* Every node that has a predecessor in the set has one: a cycle.          *)
Sourceless(S) == S # {} /\ \A n \in S : _predecessors(n) \cap S # {}

(* A graph is refused for a cycle exactly when it has one.                 *)
CycleVerdict ==
    /\ stage = "cycle" => \E S \in SUBSET Nodes : Sourceless(S)
    /\ stage \in {"regions", "unpaired", "bad_loop", "plan", "run", "done", "stalled"}
          => \A S \in SUBSET Nodes : ~Sourceless(S)

(* Every node comes after its predecessors, and before every node of a     *)
(* later position that was ready no earlier than it: the order depends on  *)
(* edges and insertion order alone.                                        *)
OrderIsStable ==
    \A j \in DOMAIN order :
        LET before == {order[i] : i \in 1..(j - 1)} IN
        /\ order[j] \notin before
        /\ _predecessors(order[j]) \subseteq before
        /\ \A n \in Nodes \ before : _predecessors(n) \subseteq before => order[j] <= n

(* The nodes the drivers and the scheduler execute in this run.            *)
Executed ==
    plan[None].units \cup UNION {Owns(s) : s \in Loops \cap plan[None].units}

(* Every Loop End is downstream of its start and fed by its own loop only. *)
LoopsAreFed ==
    \A s \in Loops :
        /\ regions[s].end \in _descendants(s)
        /\ _predecessors(regions[s].end) \subseteq regions[s].body \cup {s}

(* No node runs before a node it reads from that runs too, within a body,  *)
(* into one and out of one, however deep the producer lies in loops.  (The *)
(* validation accepts a Loop End fed from outside its loop, or not         *)
(* downstream of its start: of such graphs this does not hold.)            *)
FedFirst ==
    stage \in {"run", "done"} /\ LoopsAreFed =>
        \A e \in graph.edges :
            ran[e[2]] > 0 /\ e[1] \in Executed => ran[e[1]] > 0

(* Every node is executed by one scope, once a row: no driver runs a node  *)
(* that another driver owns.                                               *)
RunsOnce == \A n \in Nodes : ran[n] <= 1

(* A finished run has executed each of its targets, provided the loops are *)
(* fed (a Loop End apart from its start does not make the start needed)    *)
(* and no cached node inside one hides its start from the search.          *)
TargetsRun ==
    /\ stage = "done" /\ LoopsAreFed
    /\ \A s \in Loops : Owns(s) \cap request.cache = {}
    => \A n \in IF request.whole THEN Nodes ELSE request.targets : ran[n] > 0

(* Contracting each loop to its start leaves no cycle: a plan never waits  *)
(* for itself, provided each Loop End is downstream of its start.          *)
NoStall == LoopsAreFed => stage # "stalled"

===========================================================================
