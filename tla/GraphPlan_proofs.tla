-------------------------- MODULE GraphPlan_proofs --------------------------
(***************************************************************************)
(* What planning and running guarantee for every graph and every request.  *)
(* First the planner: the search finds the least set of nodes, the sort    *)
(* refuses a graph exactly when it has a cycle, and the order it finds is  *)
(* the one the insertion order determines.  Then the loops and the run: a  *)
(* node runs after what it reads from, a finished run has executed its     *)
(* targets, and no plan waits for itself.                                  *)
(***************************************************************************)
EXTENDS GraphPlan, TLAPS, FiniteSetTheorems

USE CountAssumption

---------------------------------------------------------------------------
(* The inductive invariant                                                 *)

Searched == stage \notin {"validate", "needed", "self_loop"}

(* What is needed so far and what is still to be searched lie in every     *)
(* closed set with the targets, and are closed once the list is empty.     *)
SearchInv ==
    stage \notin {"validate", "self_loop"} =>
        /\ Searched => stack = {}
        /\ ~request.whole =>
              /\ request.targets \subseteq needed \cup stack
              /\ \A n \in needed \ request.cache : _predecessors(n) \subseteq needed \cup stack
              /\ \A S \in SUBSET Nodes :
                    request.targets \subseteq S /\ Closed(S) => needed \cup stack \subseteq S

Sorted == Searched /\ stage # "sort"

(* A node is counted by its predecessors that are not in the order yet; no *)
(* node of the order is in a set without a source.                         *)
SortInv ==
    /\ ~Searched => order = <<>>
    /\ Len(order) = Cardinality(Emitted)
    /\ OrderIsStable
    /\ \A S \in SUBSET Nodes : Sourceless(S) => S \cap Emitted = {}
    /\ stage = "sort" =>
          /\ \A n \in Nodes : indegree[n] = Cardinality(_predecessors(n) \ Emitted)
          /\ ready = {n \in Nodes \ Emitted : _predecessors(n) \subseteq Emitted}

PlanInv == TypeOK /\ SearchInv /\ SortInv /\ CycleVerdict

---------------------------------------------------------------------------
(* Sets and sequences                                                      *)

(* Sets of nodes are finite.                                               *)
LEMMA NodesFinite ==
  /\ IsFiniteSet(Nodes)
  /\ Cardinality(Nodes) = NodeCount
  /\ \A S \in SUBSET Nodes : IsFiniteSet(S) /\ Cardinality(S) \in Nat
<1>1. IsFiniteSet(Nodes) /\ Cardinality(Nodes) = NodeCount
  BY FS_Interval DEF Nodes
<1>2. \A S \in SUBSET Nodes : IsFiniteSet(S)
  BY <1>1, FS_Subset
<1> QED
  BY <1>1, <1>2, FS_CardinalityType

(* A predecessor is a node.                                                *)
LEMMA PredecessorsAreNodes ==
  ASSUME NEW n
  PROVE  _predecessors(n) \subseteq Nodes
BY DEF _predecessors

(* The order so far holds nodes.                                           *)
LEMMA EmittedAreNodes ==
  ASSUME order \in Seq(Nodes)
  PROVE  Emitted \subseteq Nodes
BY DEF Emitted

(* Inputs do not change, and neither do predecessors.                      *)
LEMMA SameGraph ==
  ASSUME graph' = graph
  PROVE  /\ \A n : _predecessors(n)' = _predecessors(n)
         /\ \A S : Sourceless(S)' <=> Sourceless(S)
BY DEF _predecessors, Sourceless

LEMMA SameClosed ==
  ASSUME graph' = graph, request' = request
  PROVE  \A S : Closed(S)' <=> Closed(S)
BY DEF _predecessors, Closed

---------------------------------------------------------------------------
(* Types                                                                   *)

(* A loop's body is made of nodes, and a plan schedules only the nodes it  *)
(* was given.                                                              *)
LEMMA RegionsAreNodes ==
  /\ DOMAIN _loop_regions \subseteq Nodes
  /\ \A s \in DOMAIN _loop_regions : _loop_regions[s].body \subseteq Nodes
<1>1. \A s : Body(s) \subseteq Nodes
  BY DEF Body, _ancestors
<1> QED
  BY <1>1 DEF _loop_regions, Starts

LEMMA PlanUnits ==
  ASSUME NEW ids, NEW out
  PROVE  _build_plan(ids, out).units = ids \ out
BY DEF _build_plan

(* A count of predecessors that has one left is not zero.                  *)
LEMMA CountedDown ==
  ASSUME TypeOK, SortInv, stage = "sort", NEW n \in ready, NEW m \in Nodes,
         n \in _predecessors(m)
  PROVE  /\ Cardinality(_predecessors(m) \ (Emitted \cup {n})) = indegree[m] - 1
         /\ indegree[m] \in Nat \ {0}
<1> DEFINE left == _predecessors(m) \ Emitted
<1>1. IsFiniteSet(left) /\ n \in left /\ indegree[m] = Cardinality(left)
  BY NodesFinite, PredecessorsAreNodes DEF SortInv
<1>2. left \ {n} = _predecessors(m) \ (Emitted \cup {n})
  OBVIOUS
<1>3. Cardinality(left) \in Nat /\ Cardinality(left) # 0
  BY <1>1, FS_CardinalityType, FS_EmptySet
<1>4. Cardinality(left \ {n}) = Cardinality(left) - 1
  BY <1>1, FS_RemoveElement
<1> QED
  BY <1>1, <1>2, <1>3, <1>4

LEMMA TypeStep ==
  ASSUME TypeOK, SortInv, [Next]_vars
  PROVE  TypeOK'
<1> SUFFICES ASSUME Next PROVE TypeOK'
  BY DEF TypeOK, vars, inputs, search, sort, execution, Loops, Stages
<1> USE DEF TypeOK, Stages, Refusals, inputs, search, sort, execution, Loops
<1>1. CASE validate_graph
  BY <1>1 DEF validate_graph
<1>2. ASSUME NEW n \in Nodes, _needed_nodes(n)
      PROVE  TypeOK'
  BY <1>2, PredecessorsAreNodes DEF _needed_nodes
<1>3. CASE StartSort
  <2>1. \A n \in Nodes : Cardinality(_predecessors(n)) \in Nat
    BY NodesFinite, PredecessorsAreNodes
  <2> QED
    BY <1>3, <2>1 DEF StartSort
<1>4. ASSUME NEW n \in Nodes, _topo_order(n)
      PROVE  TypeOK'
  <2>0. n \in ready /\ stage = "sort"
    BY <1>4 DEF _topo_order
  <2>1. ASSUME NEW m \in Nodes, n \in _predecessors(m)
        PROVE  indegree[m] - 1 \in Nat
    <3>1. indegree[m] \in Nat \ {0}
      BY <2>0, <2>1, CountedDown
    <3> QED
      BY <3>1
  <2>2. indegree' \in [Nodes -> Nat]
    BY <1>4, <2>1 DEF _topo_order
  <2>3. order' \in Seq(Nodes) /\ ready' \subseteq Nodes
    BY <1>4 DEF _topo_order
  <2> QED
    BY <1>4, <2>2, <2>3 DEF _topo_order
<1>5. CASE EndSort
  BY <1>5 DEF EndSort
<1>6. CASE FindRegions
  BY <1>6, RegionsAreNodes DEF FindRegions
<1>7. CASE BuildPlans
  <2>1. \A c \in Scopes : plan'[c].units \subseteq Nodes
    BY <1>7, PlanUnits DEF BuildPlans, NoPlan
  <2> QED
    BY <1>7, <2>1 DEF BuildPlans
<1>8. ASSUME NEW c \in Scopes, NEW u \in Nodes, RunNode(c, u)
      PROVE  TypeOK'
  BY <1>8 DEF RunNode
<1>9. ASSUME NEW c \in Scopes, NEW u \in Nodes, EnterLoop(c, u)
      PROVE  TypeOK'
  BY <1>9 DEF EnterLoop
<1>10. ASSUME NEW c \in Scopes, NEW u \in Nodes, LeaveLoop(c, u)
       PROVE  TypeOK'
  <2>1. done' \in [Scopes -> SUBSET Nodes]
    BY <1>10 DEF LeaveLoop
  <2> DEFINE end == regions[u].end
  <2>2. ran' \in [Nodes -> Nat]
    <3>1. ran' = [ran EXCEPT ![end] = ran[end] + 1]
      BY <1>10 DEF LeaveLoop
    <3> HIDE DEF end
    <3>2. ran \in [Nodes -> Nat]
      OBVIOUS
    <3>3. ran' = [n \in Nodes |-> IF n = end THEN ran[n] + 1 ELSE ran[n]]
      BY <3>1, <3>2
    <3> QED
      BY <3>2, <3>3
  <2> QED
    BY <1>10, <2>1, <2>2 DEF LeaveLoop
<1>11. ASSUME NEW c \in Scopes, Stall(c)
       PROVE  TypeOK'
  BY <1>11 DEF Stall
<1>12. CASE Finish
  BY <1>12 DEF Finish
<1>13. CASE Over
  BY <1>13 DEF Over, vars
<1> QED
  BY <1>1, <1>2, <1>3, <1>4, <1>5, <1>6, <1>7, <1>8, <1>9, <1>10, <1>11, <1>12, <1>13
     DEF Next

---------------------------------------------------------------------------
(* The search                                                              *)

LEMMA SearchStep ==
  ASSUME TypeOK, SearchInv, [Next]_vars
  PROVE  SearchInv'
<1>1. CASE validate_graph
  BY <1>1 DEF validate_graph, SearchInv, Searched, inputs
<1>2. ASSUME NEW n \in Nodes, _needed_nodes(n)
      PROVE  SearchInv'
  <2>1. graph' = graph /\ request' = request /\ stage = "needed" /\ stage' = "needed"
        /\ n \in stack /\ needed' = needed \cup {n}
    BY <1>2 DEF _needed_nodes, inputs
  <2>2. CASE request.whole
    BY <2>1, <2>2 DEF SearchInv, Searched
  <2>3. CASE ~request.whole
    <3>1. /\ request.targets \subseteq needed \cup stack
          /\ \A m \in needed \ request.cache : _predecessors(m) \subseteq needed \cup stack
          /\ \A S \in SUBSET Nodes :
                request.targets \subseteq S /\ Closed(S) => needed \cup stack \subseteq S
      BY <2>1, <2>3 DEF SearchInv
    <3>2. /\ n \in request.cache => stack' = stack \ {n}
          /\ n \notin request.cache => stack' = (stack \cup _predecessors(n)) \ needed'
      BY <1>2 DEF _needed_nodes
    <3>3. needed \cup stack \subseteq needed' \cup stack'
      BY <2>1, <3>2
    <3>4. n \notin request.cache => _predecessors(n) \subseteq needed' \cup stack'
      BY <3>2
    <3>5. \A m \in needed' \ request.cache : _predecessors(m) \subseteq needed' \cup stack'
      BY <2>1, <3>1, <3>3, <3>4
    <3>6. ASSUME NEW S \in SUBSET Nodes, request.targets \subseteq S, Closed(S)
          PROVE  needed' \cup stack' \subseteq S
      <4>1. needed \cup stack \subseteq S
        BY <3>1, <3>6
      <4>2. n \notin request.cache => _predecessors(n) \subseteq S
        BY <2>1, <3>6, <4>1 DEF Closed
      <4> QED
        BY <2>1, <3>2, <4>1, <4>2
    <3> QED
      BY <2>1, <3>1, <3>3, <3>5, <3>6, SameGraph, SameClosed DEF SearchInv, Searched
  <2> QED
    BY <2>2, <2>3
<1>3. CASE StartSort
  BY <1>3, SameGraph, SameClosed DEF StartSort, SearchInv, Searched, inputs, search
<1>4. CASE ~validate_graph /\ ~(\E n \in Nodes : _needed_nodes(n)) /\ ~StartSort
  <2>1. graph' = graph /\ request' = request /\ needed' = needed /\ stack' = stack
    BY <1>4 DEF Next, _topo_order, EndSort, FindRegions, BuildPlans, RunNode, EnterLoop,
                LeaveLoop, Stall, Finish, Over, vars, inputs, search
  <2>2. \/ stage' = stage
        \/ Searched /\ stage' \notin {"validate", "needed", "self_loop"}
    BY <1>4 DEF Next, _topo_order, EndSort, FindRegions, BuildPlans, RunNode, EnterLoop,
                LeaveLoop, Stall, Finish, Over, vars, Searched
  <2> QED
    BY <2>1, <2>2, SameGraph, SameClosed DEF SearchInv, Searched
<1> QED
  BY <1>1, <1>2, <1>3, <1>4

---------------------------------------------------------------------------
(* The sort                                                                *)

(* Popping a node adds it to the order and leaves the rest in place.       *)
LEMMA Popped ==
  ASSUME order \in Seq(Nodes), NEW n \in Nodes, order' = Append(order, n)
  PROVE  /\ Len(order') = Len(order) + 1
         /\ Emitted' = Emitted \cup {n}
         /\ order'[Len(order) + 1] = n
         /\ \A j \in DOMAIN order' : \/ j \in DOMAIN order
                                     \/ j = Len(order) + 1
         /\ \A j \in DOMAIN order : order'[j] = order[j]
         /\ DOMAIN order = 1..Len(order)
<1>1. /\ Len(order') = Len(order) + 1 /\ order'[Len(order) + 1] = n
      /\ DOMAIN order = 1..Len(order) /\ DOMAIN order' = 1..(Len(order) + 1)
      /\ Len(order) \in Nat
      /\ \A j \in 1..Len(order) : order'[j] = order[j]
  OBVIOUS
<1>2. Emitted' = Emitted \cup {n}
  BY <1>1 DEF Emitted
<1> QED
  BY <1>1, <1>2

LEMMA OrderGrows ==
  ASSUME TypeOK, SortInv, NEW n \in Nodes, _topo_order(n)
  PROVE  OrderIsStable'
<1>1. /\ graph' = graph /\ order' = Append(order, n) /\ stage = "sort"
      /\ n \in ready /\ \A m \in ready : n <= m
  BY DEF _topo_order, inputs
<1>2. order \in Seq(Nodes) /\ Len(order) \in Nat
  BY DEF TypeOK
<1>3. ready = {m \in Nodes \ Emitted : _predecessors(m) \subseteq Emitted}
  BY <1>1 DEF SortInv
<1>4. \A j \in DOMAIN order' : \/ j \in DOMAIN order
                              \/ j = Len(order) + 1
  BY <1>1, <1>2, Popped
<1>5. ASSUME NEW j \in DOMAIN order
      PROVE  {order'[i] : i \in 1..(j - 1)} = {order[i] : i \in 1..(j - 1)} /\ order'[j] = order[j]
  <2>1. \A i \in DOMAIN order : order'[i] = order[i]
    BY <1>1, <1>2, Popped
  <2>2. 1..(j - 1) \subseteq DOMAIN order
    BY <1>2
  <2> QED
    BY <2>1, <2>2
<1>6. {order'[i] : i \in 1..(Len(order) + 1 - 1)} = Emitted /\ order'[Len(order) + 1] = n
  <2>1. \A i \in DOMAIN order : order'[i] = order[i]
    BY <1>1, <1>2, Popped
  <2>2. DOMAIN order = 1..(Len(order) + 1 - 1)
    BY <1>2
  <2>3. order'[Len(order) + 1] = n
    BY <1>1, <1>2, Popped
  <2> QED
    BY <2>1, <2>2, <2>3 DEF Emitted
<1>7. SUFFICES ASSUME NEW j \in DOMAIN order'
               PROVE  LET before == {order'[i] : i \in 1..(j - 1)} IN
                      /\ order'[j] \notin before
                      /\ _predecessors(order'[j]) \subseteq before
                      /\ \A m \in Nodes \ before : _predecessors(m) \subseteq before => order'[j] <= m
  BY <1>1 DEF OrderIsStable, _predecessors
<1>8. CASE j \in DOMAIN order
  BY <1>5, <1>8 DEF SortInv, OrderIsStable
<1>9. CASE j = Len(order) + 1
  BY <1>1, <1>3, <1>6, <1>9
<1> QED
  BY <1>4, <1>7, <1>8, <1>9

LEMMA TopoStep ==
  ASSUME TypeOK, SortInv, NEW n \in Nodes, _topo_order(n)
  PROVE  SortInv'
<1>1. /\ graph' = graph /\ order' = Append(order, n) /\ stage = "sort" /\ stage' = "sort"
      /\ n \in ready
  BY DEF _topo_order, inputs
<1>2. order \in Seq(Nodes) /\ Emitted \subseteq Nodes
  BY EmittedAreNodes DEF TypeOK
<1>3. Emitted' = Emitted \cup {n} /\ Len(order') = Len(order) + 1
  BY <1>1, <1>2, Popped
<1>4. ready = {m \in Nodes \ Emitted : _predecessors(m) \subseteq Emitted}
  BY <1>1 DEF SortInv
<1>5. Len(order') = Cardinality(Emitted')
  <2>1. IsFiniteSet(Emitted) /\ n \notin Emitted
    BY <1>1, <1>2, <1>4, NodesFinite
  <2>2. Cardinality(Emitted \cup {n}) = Cardinality(Emitted) + 1
    BY <2>1, FS_AddElement
  <2>3. Len(order) = Cardinality(Emitted)
    BY DEF SortInv
  <2> QED
    BY <1>3, <2>2, <2>3
<1>6. ASSUME NEW S \in SUBSET Nodes, Sourceless(S)
      PROVE  S \cap Emitted' = {}
  <2>1. S \cap Emitted = {}
    BY <1>6 DEF SortInv
  <2>2. n \notin S
    BY <1>1, <1>4, <1>6, <2>1 DEF Sourceless
  <2> QED
    BY <1>3, <2>1, <2>2
<1>7. ASSUME NEW m \in Nodes
      PROVE  indegree'[m] = Cardinality(_predecessors(m) \ Emitted')
  <2>1. CASE n \in _predecessors(m)
    <3>1. indegree'[m] = indegree[m] - 1
      BY <2>1 DEF _topo_order
    <3> QED
      BY <1>1, <1>3, <2>1, <3>1, CountedDown
  <2>2. CASE n \notin _predecessors(m)
    <3>1. indegree'[m] = indegree[m]
      BY <2>2 DEF _topo_order
    <3>2. _predecessors(m) \ Emitted' = _predecessors(m) \ Emitted
      BY <1>3, <2>2
    <3> QED
      BY <1>1, <3>1, <3>2 DEF SortInv
  <2> QED
    BY <2>1, <2>2
<1>8. ready' = {m \in Nodes \ Emitted' : _predecessors(m) \subseteq Emitted'}
  <2>1. ready' = (ready \ {n}) \cup {m \in Nodes : n \in _predecessors(m) /\ indegree[m] = 1}
    BY DEF _topo_order
  <2>2. ASSUME NEW m \in Nodes, n \in _predecessors(m)
        PROVE  /\ indegree[m] = 1 <=> _predecessors(m) \subseteq Emitted'
               /\ ~(_predecessors(m) \subseteq Emitted)
               /\ m \notin Emitted'
    <3>1. /\ Cardinality(_predecessors(m) \ (Emitted \cup {n})) = indegree[m] - 1
          /\ indegree[m] \in Nat \ {0}
      BY <1>1, <2>2, CountedDown
    <3>2. IsFiniteSet(_predecessors(m) \ (Emitted \cup {n}))
      BY PredecessorsAreNodes, NodesFinite
    <3>3. indegree[m] = 1 <=> _predecessors(m) \ (Emitted \cup {n}) = {}
      BY <3>1, <3>2, FS_EmptySet
    <3>4. ~(_predecessors(m) \subseteq Emitted)
      BY <1>1, <1>4, <2>2
    <3>5. m # n
      BY <2>2 DEF _predecessors
    <3>6. m \notin Emitted
      <4>1. SUFFICES ASSUME NEW j \in DOMAIN order, order[j] = m
                     PROVE  FALSE
        BY DEF Emitted
      <4>2. _predecessors(m) \subseteq {order[i] : i \in 1..(j - 1)}
        BY <4>1 DEF SortInv, OrderIsStable
      <4>3. {order[i] : i \in 1..(j - 1)} \subseteq Emitted
        <5>1. 1..(j - 1) \subseteq DOMAIN order
          BY <1>2
        <5> QED
          BY <5>1 DEF Emitted
      <4> QED
        BY <3>4, <4>2, <4>3
    <3> QED
      BY <1>3, <3>3, <3>4, <3>5, <3>6
  <2>3. ASSUME NEW m \in Nodes, n \notin _predecessors(m)
        PROVE  _predecessors(m) \subseteq Emitted' <=> _predecessors(m) \subseteq Emitted
    BY <1>3, <2>3
  <2>4. \A m \in Nodes : m \in ready' <=> m \notin Emitted' /\ _predecessors(m) \subseteq Emitted'
    BY <1>3, <1>4, <2>1, <2>2, <2>3
  <2> QED
    BY <1>4, <2>1, <2>4
<1>9. OrderIsStable'
  BY OrderGrows
<1> QED
  BY <1>1, <1>5, <1>6, <1>7, <1>8, <1>9, SameGraph DEF SortInv, Searched

LEMMA SortStep ==
  ASSUME TypeOK, SortInv, [Next]_vars
  PROVE  SortInv'
<1>1. CASE \E n \in Nodes : _topo_order(n)
  BY <1>1, TopoStep
<1>2. CASE StartSort
  <2>1. /\ graph' = graph /\ order' = order /\ stage = "needed" /\ stage' = "sort"
        /\ indegree' = [n \in Nodes |-> Cardinality(_predecessors(n))]
        /\ ready' = {n \in Nodes : _predecessors(n) = {}}
    BY <1>2 DEF StartSort, inputs
  <2>2. order = <<>> /\ Emitted = {} /\ Emitted' = {}
    BY <2>1 DEF SortInv, Searched, Emitted
  <2>3. \A n \in Nodes : _predecessors(n) \ {} = _predecessors(n)
    OBVIOUS
  <2>4. OrderIsStable' /\ Len(order') = Cardinality(Emitted')
    BY <2>1, <2>2, FS_EmptySet DEF OrderIsStable
  <2> QED
    BY <2>1, <2>2, <2>3, <2>4, SameGraph DEF SortInv, Searched
<1>3. CASE ~StartSort /\ ~(\E n \in Nodes : _topo_order(n))
  <2>1. graph' = graph /\ order' = order
    BY <1>3 DEF Next, validate_graph, _needed_nodes, EndSort, FindRegions, BuildPlans, RunNode,
                EnterLoop, LeaveLoop, Stall, Finish, Over, vars, inputs, sort
  <2>2. /\ stage' = "sort" => stage = "sort" /\ indegree' = indegree /\ ready' = ready
        /\ Searched => Searched'
    BY <1>3 DEF Next, validate_graph, _needed_nodes, EndSort, FindRegions, BuildPlans, RunNode,
                EnterLoop, LeaveLoop, Stall, Finish, Over, vars, inputs, sort, Searched
  <2>3. Emitted' = Emitted /\ (OrderIsStable' <=> OrderIsStable)
    BY <2>1 DEF Emitted, OrderIsStable, _predecessors
  <2> QED
    BY <2>1, <2>2, <2>3, SameGraph DEF SortInv
<1> QED
  BY <1>1, <1>2, <1>3

(* Every node is in the order, or those left over make a cycle.            *)
LEMMA AllEmitted ==
  ASSUME TypeOK, SortInv, stage = "sort", ready = {}
  PROVE  /\ Len(order) = NodeCount => \A S \in SUBSET Nodes : ~Sourceless(S)
         /\ Len(order) # NodeCount => \E S \in SUBSET Nodes : Sourceless(S)
<1>1. Emitted \subseteq Nodes /\ Len(order) = Cardinality(Emitted)
  BY EmittedAreNodes DEF TypeOK, SortInv
<1>2. Len(order) = NodeCount => Emitted = Nodes
  BY <1>1, NodesFinite, FS_Subset
<1>3. \A S \in SUBSET Nodes : Sourceless(S) => S \cap Emitted = {} /\ S # {}
  BY DEF SortInv, Sourceless
<1>4. ASSUME Len(order) # NodeCount
      PROVE  Sourceless(Nodes \ Emitted)
  <2>1. Emitted # Nodes
    BY <1>1, <1>4, NodesFinite
  <2>2. \A n \in Nodes \ Emitted : ~(_predecessors(n) \subseteq Emitted)
    BY DEF SortInv
  <2>3. \A n \in Nodes \ Emitted : _predecessors(n) \cap (Nodes \ Emitted) # {}
    BY <2>2, PredecessorsAreNodes
  <2> QED
    BY <1>1, <2>1, <2>3 DEF Sourceless
<1> QED
  BY <1>2, <1>3, <1>4

LEMMA VerdictStep ==
  ASSUME TypeOK, SortInv, CycleVerdict, [Next]_vars
  PROVE  CycleVerdict'
<1>1. CASE EndSort
  <2>1. graph' = graph /\ stage = "sort" /\ ready = {}
        /\ stage' = IF Len(order) # NodeCount THEN "cycle" ELSE "regions"
    BY <1>1 DEF EndSort, inputs
  <2> QED
    BY <2>1, AllEmitted, SameGraph DEF CycleVerdict
<1>2. CASE ~EndSort
  <2>1. graph' = graph
    BY <1>2 DEF Next, validate_graph, _needed_nodes, StartSort, _topo_order, FindRegions,
                BuildPlans, RunNode, EnterLoop, LeaveLoop, Stall, Finish, Over, vars, inputs
  <2> DEFINE sorted == {"regions", "unpaired", "bad_loop", "plan", "run", "done", "stalled"}
  <2>2. /\ stage' = "cycle" => stage = "cycle"
        /\ stage' \in sorted => stage \in sorted
    BY <1>2 DEF Next, validate_graph, _needed_nodes, StartSort, _topo_order, FindRegions,
                BuildPlans, RunNode, EnterLoop, LeaveLoop, Stall, Finish, Over, vars
  <2> QED
    BY <2>1, <2>2, SameGraph DEF CycleVerdict
<1> QED
  BY <1>1, <1>2

---------------------------------------------------------------------------
(* Theorems of the planner                                                 *)

LEMMA PlanInit == Init => PlanInv
<1> SUFFICES ASSUME Init PROVE PlanInv
  OBVIOUS
<1>1. graph.edges \subseteq Nodes \X Nodes /\ request.targets \subseteq Nodes
  BY GraphAssumption, RequestAssumption DEF Init
<1>2. TypeOK
  BY <1>1 DEF Init, TypeOK, Stages, Loops, NoPlan
<1>3. order = <<>> /\ Emitted = {} /\ stage = "validate"
  BY DEF Init, Emitted
<1>4. SearchInv /\ SortInv /\ CycleVerdict
  BY <1>3, FS_EmptySet DEF SearchInv, SortInv, Searched, CycleVerdict, OrderIsStable
<1> QED
  BY <1>2, <1>4 DEF PlanInv

(* The invariant from which the properties of the plan follow.             *)
THEOREM PlanInvariant == Spec => []PlanInv
<1>1. PlanInv /\ [Next]_vars => PlanInv'
  BY TypeStep, SearchStep, SortStep, VerdictStep DEF PlanInv
<1> QED
  BY <1>1, PlanInit, PTL DEF Spec

(* The planner's state keeps its shape: no count of predecessors goes      *)
(* below zero, whatever the graph.                                         *)
THEOREM TypeCorrect == Spec => []TypeOK
<1>1. PlanInv => TypeOK
  BY DEF PlanInv
<1> QED
  BY <1>1, PlanInvariant, PTL

(* A targeted run needs its targets and what they transitively read behind *)
(* no cached value, and nothing else (_needed_nodes).                      *)
THEOREM NeededLeast == Spec => []NeededIsLeast
<1>1. PlanInv => NeededIsLeast
  <2> SUFFICES ASSUME PlanInv, Searched, ~request.whole
               PROVE  /\ request.targets \subseteq needed
                      /\ Closed(needed)
                      /\ \A S \in SUBSET Nodes :
                            request.targets \subseteq S /\ Closed(S) => needed \subseteq S
    BY DEF NeededIsLeast, Searched
  <2>1. /\ stack = {}
        /\ request.targets \subseteq needed \cup stack
        /\ \A n \in needed \ request.cache : _predecessors(n) \subseteq needed \cup stack
        /\ \A S \in SUBSET Nodes :
              request.targets \subseteq S /\ Closed(S) => needed \cup stack \subseteq S
    BY DEF PlanInv, SearchInv, Searched
  <2> QED
    BY <2>1 DEF Closed
<1> QED
  BY <1>1, PlanInvariant, PTL

(* A graph is refused for a cycle exactly when it has one (_topo_order).   *)
THEOREM CycleExact == Spec => []CycleVerdict
<1>1. PlanInv => CycleVerdict
  BY DEF PlanInv
<1> QED
  BY <1>1, PlanInvariant, PTL

(* The order is a topological one, and the one insertion order determines. *)
THEOREM StableOrder == Spec => []OrderIsStable
<1>1. PlanInv => OrderIsStable
  BY DEF PlanInv, SortInv
<1> QED
  BY <1>1, PlanInvariant, PTL

---------------------------------------------------------------------------
(* Induction                                                               *)

(* Every nonempty set of natural numbers has a least element: the initial  *)
(* segments up to its elements are finite sets, one of which contains no   *)
(* other.                                                                  *)
LEMMA LeastExists ==
  ASSUME NEW S \in SUBSET Nat, S # {}
  PROVE  \E n \in S : \A m \in S : n <= m
<1> DEFINE segments == {0..n : n \in S}
<1>1. IsWellFoundedOn(StrictSubsetOrdering(Nat), FiniteSubsetsOf(Nat))
  BY FS_StrictSubsetOrderingWellFounded
<1>2. segments \subseteq FiniteSubsetsOf(Nat)
  <2> SUFFICES ASSUME NEW n \in S PROVE 0..n \in FiniteSubsetsOf(Nat)
    OBVIOUS
  <2>1. IsFiniteSet(0..n)
    BY FS_Interval
  <2> QED BY <2>1 DEF FiniteSubsetsOf
<1>3. segments # {}
  OBVIOUS
<1>4. \E x \in segments : \A y \in segments : <<y, x>> \notin StrictSubsetOrdering(Nat)
  <2> HIDE DEF segments
  <2> QED BY <1>1, <1>2, <1>3, WFMin
<1>5. PICK n \in S : \A m \in S : <<0..m, 0..n>> \notin StrictSubsetOrdering(Nat)
  BY <1>4
<1>6. ASSUME NEW m \in S, ~(n <= m) PROVE FALSE
  <2>1. n \in 0..n /\ n \notin 0..m /\ n \in Nat /\ m \in Nat
    BY <1>6
  <2>2. 0..m \subseteq 0..n /\ 0..m # 0..n /\ 0..m \in SUBSET Nat /\ 0..n \in SUBSET Nat
    BY <1>6, <2>1
  <2> QED BY <1>5, <2>2 DEF StrictSubsetOrdering
<1> QED BY <1>6

(* A set of natural numbers that grows as far as N holds all of them.      *)
LEMMA CountingUp ==
  ASSUME NEW N \in Nat, NEW S, 0 \in S, \A k \in 0..(N - 1) : k \in S => k + 1 \in S
  PROVE  0..N \subseteq S
<1> SUFFICES ASSUME (0..N) \ S # {} PROVE FALSE
  OBVIOUS
<1>1. PICK n \in (0..N) \ S : \A m \in (0..N) \ S : n <= m
  <2>1. (0..N) \ S \in SUBSET Nat
    OBVIOUS
  <2> QED BY <2>1, LeastExists
<1>2. n # 0 /\ n \in 1..N
  BY <1>1
<1>3. n - 1 \in 0..(N - 1) /\ n - 1 \in S
  BY <1>1, <1>2
<1> QED BY <1>1, <1>3

(* A set of numbers with a bound has a greatest element.                   *)
LEMMA GreatestExists ==
  ASSUME NEW N \in Nat, NEW S \in SUBSET (0..N), S # {}
  PROVE  \E n \in S : \A m \in S : m <= n
<1> DEFINE mirror == {k \in 0..N : N - k \in S}
<1>1. PICK s \in S : TRUE
  OBVIOUS
<1>2. N - s \in mirror
  BY <1>1
<1>3. PICK k \in mirror : \A m \in mirror : k <= m
  <2>1. mirror \in SUBSET Nat /\ mirror # {}
    BY <1>2
  <2> HIDE DEF mirror
  <2> QED BY <2>1, LeastExists
<1>4. ASSUME NEW m \in S PROVE m <= N - k
  <2>1. N - m \in mirror
    OBVIOUS
  <2>2. k <= N - m /\ k \in Nat /\ m \in Nat
    BY <1>3, <2>1
  <2> QED BY <2>2
<1> QED BY <1>3, <1>4

(* f iterates g over T, N times from a.                                    *)
Iterates(f, T, a, g, N) ==
    /\ f \in [0..N -> T]
    /\ f[0] = a
    /\ \A k \in 1..N : f[k] = g[f[k - 1]]

(* A function can be applied N times.                                      *)
LEMMA Iterated ==
  ASSUME NEW T, NEW a \in T, NEW g \in [T -> T], NEW N \in Nat
  PROVE  \E f : Iterates(f, T, a, g, N)
<1> DEFINE reachable == {n \in Nat : \E f : Iterates(f, T, a, g, n)}
<1>1. 0 \in reachable
  <2>1. Iterates([k \in 0..0 |-> a], T, a, g, 0)
    BY DEF Iterates
  <2> QED BY <2>1
<1>2. ASSUME NEW n \in 0..(N - 1), n \in reachable PROVE n + 1 \in reachable
  <2>1. PICK f : Iterates(f, T, a, g, n)
    BY <1>2
  <2> DEFINE h == [k \in 0..(n + 1) |-> IF k = n + 1 THEN g[f[n]] ELSE f[k]]
  <2>2. h \in [0..(n + 1) -> T]
    BY <2>1 DEF Iterates
  <2>3. h[0] = a
    BY <2>1 DEF Iterates
  <2>4. ASSUME NEW k \in 1..(n + 1) PROVE h[k] = g[h[k - 1]]
    <3>1. CASE k = n + 1
      BY <3>1
    <3>2. CASE k # n + 1
      BY <2>1, <3>2 DEF Iterates
    <3> QED BY <3>1, <3>2
  <2>5. Iterates(h, T, a, g, n + 1)
    <3> HIDE DEF h
    <3> QED BY <2>2, <2>3, <2>4 DEF Iterates
  <2> QED BY <2>5
<1>3. N \in reachable
  <2> HIDE DEF reachable
  <2>1. 0..N \subseteq reachable
    BY <1>1, <1>2, CountingUp
  <2> QED BY <2>1
<1> QED BY <1>3


---------------------------------------------------------------------------
(* What is downstream of a node                                            *)

(* No edge leads out of S.                                                 *)
Downstream(S) == \A m \in S : _successors(m) \subseteq S

(* The search of _descendants, level by level.                             *)
LEMMA DescendantsByLevels ==
  ASSUME NEW root
  PROVE  \E f \in [0..NodeCount -> SUBSET Nodes] :
           /\ f[0] = _successors(root)
           /\ \A k \in 1..NodeCount : f[k] = f[k - 1] \cup UNION {_successors(m) : m \in f[k - 1]}
           /\ _descendants(root) = f[NodeCount]
<1> DEFINE step == [D \in SUBSET Nodes |-> D \cup UNION {_successors(m) : m \in D}]
<1> DEFINE Levels(f) ==
      f = [k \in 0..NodeCount |-> IF k = 0 THEN _successors(root)
                                  ELSE f[k - 1] \cup UNION {_successors(m) : m \in f[k - 1]}]
<1>1. \E f \in [0..NodeCount -> SUBSET Nodes] : Levels(f)
  <2>1. _successors(root) \in SUBSET Nodes /\ step \in [SUBSET Nodes -> SUBSET Nodes]
    BY DEF _successors
  <2>2. PICK f : Iterates(f, SUBSET Nodes, _successors(root), step, NodeCount)
    <3> HIDE DEF step
    <3> QED BY <2>1, Iterated
  <2>3. ASSUME NEW k \in 0..NodeCount
        PROVE  f[k] = IF k = 0 THEN _successors(root)
                      ELSE f[k - 1] \cup UNION {_successors(m) : m \in f[k - 1]}
    <3>1. CASE k # 0
      <4>1. k \in 1..NodeCount /\ k - 1 \in 0..NodeCount
        BY <3>1
      <4>2. f[k - 1] \in SUBSET Nodes
        BY <2>2, <4>1 DEF Iterates
      <4>3. f[k] = step[f[k - 1]]
        BY <2>2, <4>1 DEF Iterates
      <4> QED BY <3>1, <4>2, <4>3
    <3> QED BY <2>2, <3>1 DEF Iterates
  <2>4. f \in [0..NodeCount -> SUBSET Nodes]
    BY <2>2 DEF Iterates
  <2>5. Levels(f)
    BY <2>3, <2>4
  <2> QED BY <2>4, <2>5
<1> DEFINE reach == CHOOSE f : Levels(f)
<1>2. Levels(reach)
  <2> HIDE DEF Levels
  <2> QED BY <1>1
<1>3. _descendants(root) = reach[NodeCount]
  BY DEF _descendants
<1>4. reach \in [0..NodeCount -> SUBSET Nodes]
  <2> DEFINE typed == {k \in Nat : reach[k] \in SUBSET Nodes}
  <2> HIDE DEF reach
  <2>1. 0 \in typed
    BY <1>2 DEF _successors
  <2>2. ASSUME NEW k \in 0..(NodeCount - 1), k \in typed PROVE k + 1 \in typed
    <3>1. k + 1 \in 0..NodeCount /\ k + 1 # 0 /\ (k + 1) - 1 = k
      OBVIOUS
    <3>2. reach[k + 1] = reach[k] \cup UNION {_successors(m) : m \in reach[k]}
      BY <1>2, <3>1
    <3>3. reach[k + 1] \in SUBSET Nodes
      BY <2>2, <3>2 DEF _successors
    <3> QED BY <3>3
  <2>3. 0..NodeCount \subseteq typed
    <3> HIDE DEF typed
    <3> QED BY <2>1, <2>2, CountingUp
  <2>4. reach = [k \in 0..NodeCount |-> reach[k]]
    BY <1>2
  <2> QED BY <2>3, <2>4
<1>5. reach[0] = _successors(root)
  <2> HIDE DEF reach
  <2> QED BY <1>2
<1>6. ASSUME NEW k \in 1..NodeCount
      PROVE  reach[k] = reach[k - 1] \cup UNION {_successors(m) : m \in reach[k - 1]}
  <2> HIDE DEF reach
  <2>1. k \in 0..NodeCount /\ k # 0
    OBVIOUS
  <2> QED BY <1>2, <2>1
<1> HIDE DEF reach
<1> QED BY <1>3, <1>4, <1>5, <1>6

(* _descendants(root) is the least set with the successors of root and of  *)
(* its own elements.                                                       *)
LEMMA DescendantsAreLeast ==
  ASSUME NEW root
  PROVE  /\ _descendants(root) \in SUBSET Nodes
         /\ _successors(root) \subseteq _descendants(root)
         /\ Downstream(_descendants(root))
         /\ \A S : _successors(root) \subseteq S /\ Downstream(S) => _descendants(root) \subseteq S
<1>1. PICK f \in [0..NodeCount -> SUBSET Nodes] :
           /\ f[0] = _successors(root)
           /\ \A k \in 1..NodeCount : f[k] = f[k - 1] \cup UNION {_successors(m) : m \in f[k - 1]}
           /\ _descendants(root) = f[NodeCount]
  BY DescendantsByLevels
<1>2. ASSUME NEW k \in 0..(NodeCount - 1)
      PROVE  /\ f[k] \in SUBSET Nodes /\ f[k + 1] \in SUBSET Nodes
             /\ f[k + 1] = f[k] \cup UNION {_successors(m) : m \in f[k]}
  <2>1. k \in 0..NodeCount /\ k + 1 \in 1..NodeCount /\ k + 1 \in 0..NodeCount /\ (k + 1) - 1 = k
    OBVIOUS
  <2> QED BY <1>1, <2>1
<1>3. ASSUME NEW S, _successors(root) \subseteq S, Downstream(S)
      PROVE  _descendants(root) \subseteq S
  <2> DEFINE inside == {k \in Nat : f[k] \subseteq S}
  <2>1. 0 \in inside
    BY <1>1, <1>3
  <2>2. ASSUME NEW k \in 0..(NodeCount - 1), k \in inside PROVE k + 1 \in inside
    BY <1>2, <1>3, <2>2 DEF Downstream
  <2>3. 0..NodeCount \subseteq inside
    <3> HIDE DEF inside
    <3> QED BY <2>1, <2>2, CountingUp
  <2> QED BY <1>1, <2>3
<1>4. _successors(root) \subseteq _descendants(root)
  <2> DEFINE above == {k \in Nat : _successors(root) \subseteq f[k]}
  <2>1. 0 \in above
    BY <1>1
  <2>2. ASSUME NEW k \in 0..(NodeCount - 1), k \in above PROVE k + 1 \in above
    BY <1>2, <2>2
  <2>3. 0..NodeCount \subseteq above
    <3> HIDE DEF above
    <3> QED BY <2>1, <2>2, CountingUp
  <2> QED BY <1>1, <2>3
<1>5. Downstream(_descendants(root))
  <2> DEFINE grown == {k \in Nat : Downstream(f[k]) \/ Cardinality(f[k]) > k}
  <2>1. 0 \in grown
    <3>1. f[0] \in SUBSET Nodes
      OBVIOUS
    <3>2. Cardinality(f[0]) \in Nat /\ (Cardinality(f[0]) = 0 => f[0] = {})
      BY <3>1, NodesFinite, FS_EmptySet
    <3>3. f[0] = {} => Downstream(f[0])
      BY DEF Downstream
    <3> QED BY <3>2, <3>3
  <2>2. ASSUME NEW k \in 0..(NodeCount - 1), k \in grown PROVE k + 1 \in grown
    <3>1. /\ IsFiniteSet(f[k]) /\ IsFiniteSet(f[k + 1])
          /\ Cardinality(f[k]) \in Nat /\ Cardinality(f[k + 1]) \in Nat
      BY <1>2, NodesFinite
    <3>2. f[k] \subseteq f[k + 1]
      BY <1>2
    <3>3. CASE Downstream(f[k])
      <4>1. UNION {_successors(m) : m \in f[k]} \subseteq f[k]
        BY <3>3 DEF Downstream
      <4>2. f[k + 1] = f[k]
        BY <1>2, <4>1
      <4> QED BY <3>3, <4>2
    <3>4. CASE ~Downstream(f[k])
      <4>1. f[k + 1] # f[k]
        BY <1>2, <3>4 DEF Downstream
      <4>2. Cardinality(f[k]) < Cardinality(f[k + 1])
        BY <3>1, <3>2, <4>1, FS_Subset
      <4>3. Cardinality(f[k]) > k
        BY <2>2, <3>4
      <4> QED BY <3>1, <4>2, <4>3
    <3> QED BY <3>3, <3>4
  <2>3. 0..NodeCount \subseteq grown
    <3> HIDE DEF grown
    <3> QED BY <2>1, <2>2, CountingUp
  <2>4. f[NodeCount] \in SUBSET Nodes
    BY <1>1
  <2>5. Cardinality(f[NodeCount]) <= NodeCount
    BY <2>4, NodesFinite, FS_Subset
  <2>6. Downstream(f[NodeCount])
    BY <2>3, <2>4, <2>5, NodesFinite
  <2> QED BY <1>1, <2>6
<1> QED BY <1>1, <1>3, <1>4, <1>5

(* What is downstream of a node is downstream of all that it is downstream *)
(* of, and each node of it reads from the node or from another of it.      *)
LEMMA DescendantsChain ==
  ASSUME NEW d, NEW n \in _descendants(d)
  PROVE  /\ _descendants(n) \subseteq _descendants(d)
         /\ \E m \in {d} \cup _descendants(d) : n \in _successors(m)
<1>1. _descendants(n) \subseteq _descendants(d)
  BY DescendantsAreLeast DEF Downstream
<1> DEFINE fed == {k \in _descendants(d) : \E m \in {d} \cup _descendants(d) : k \in _successors(m)}
<1>2. _successors(d) \subseteq fed /\ Downstream(fed)
  BY DescendantsAreLeast DEF Downstream
<1>3. _descendants(d) \subseteq fed
  <2> HIDE DEF fed
  <2> QED BY <1>2, DescendantsAreLeast
<1> QED BY <1>1, <1>3

(* A graph that passed the check of self-loops and the sort.               *)
Acyclic == /\ \A n \in Nodes : <<n, n>> \notin graph.edges
           /\ \A S \in SUBSET Nodes : ~Sourceless(S)

(* A node is not downstream of itself.                                     *)
LEMMA NoWayBack ==
  ASSUME Acyclic, NEW n \in Nodes
  PROVE  n \notin _descendants(n)
<1> SUFFICES ASSUME n \in _descendants(n) PROVE FALSE
  OBVIOUS
<1>1. \A k \in _descendants(n) : \E m \in _descendants(n) : k \in _successors(m)
  <2> SUFFICES ASSUME NEW k \in _descendants(n)
               PROVE  \E m \in _descendants(n) : k \in _successors(m)
    OBVIOUS
  <2> QED BY DescendantsChain
<1>2. _descendants(n) \in SUBSET Nodes
  BY DescendantsAreLeast
<1>3. Sourceless(_descendants(n))
  <2> SUFFICES ASSUME NEW k \in _descendants(n)
               PROVE  _predecessors(k) \cap _descendants(n) # {}
    BY DEF Sourceless
  <2>1. PICK m \in _descendants(n) : k \in _successors(m)
    BY <1>1
  <2>2. m \in _predecessors(k)
    BY <1>2, <2>1 DEF _predecessors, _successors, Acyclic
  <2> QED BY <2>1, <2>2
<1> QED BY <1>2, <1>3 DEF Acyclic

(* n is in every set that the successors of d are in and lead out of       *)
(* nowhere: what _descendants computes, said of the edges alone.           *)
Follows(n, d) ==
    \A S \in SUBSET Nodes : _successors(d) \subseteq S /\ Downstream(S) => n \in S

LEMMA FollowsIsDescendant ==
  ASSUME NEW n, NEW d
  PROVE  Follows(n, d) <=> n \in _descendants(d)
BY DescendantsAreLeast DEF Follows

---------------------------------------------------------------------------
(* Regions                                                                 *)

(* What a validated graph guarantees of its loops, without the order of    *)
(* insertion.                                                              *)
RegionsSound(r) ==
    /\ \A s \in DOMAIN r :
         /\ s \in Nodes /\ graph.kind[s] = "loop_start"
         /\ r[s].end \in Nodes /\ graph.kind[r[s].end] = "loop_end" /\ graph.pair[r[s].end] = s
         /\ r[s].body \subseteq Nodes \ {s, r[s].end}
         /\ \A n \in r[s].body : Follows(n, s) /\ Follows(r[s].end, n)
         /\ \A n \in r[s].body : \A m \in _predecessors(n) : m \in r[s].body \cup {s}
         /\ r[s].parent # None => r[s].parent \in DOMAIN r /\ s \in r[r[s].parent].body
    /\ \A s, o \in DOMAIN r :
         \/ Span(r, s) \cap Span(r, o) = {}
         \/ Span(r, s) \subseteq Span(r, o)
         \/ Span(r, o) \subseteq Span(r, s)

LEMMA LastEnd ==
  ASSUME NEW s, EndsFor(s) # {}
  PROVE  Greatest(EndsFor(s)) \in EndsFor(s)
<1>1. EndsFor(s) \in SUBSET (0..NodeCount)
  BY DEF EndsFor, Nodes
<1>2. \E n \in EndsFor(s) : \A m \in EndsFor(s) : m <= n
  BY <1>1, GreatestExists
<1> QED BY <1>2 DEF Greatest

LEMMA FirstOf ==
  ASSUME NEW S \in SUBSET Nodes, S # {}
  PROVE  Least(S) \in S
<1>1. S \in SUBSET Nat
  BY DEF Nodes
<1>2. \E n \in S : \A m \in S : n <= m
  BY <1>1, LeastExists
<1> QED BY <1>2 DEF Least

LEMMA FoundRegionsSound ==
  ASSUME \A s \in Starts : EndsFor(s) # {}, _validate_loop_regions(_loop_regions)
  PROVE  RegionsSound(_loop_regions)
<1> DEFINE r == _loop_regions
<1> DEFINE end(s) == Greatest(EndsFor(s))
<1>1. DOMAIN r = Starts
  BY DEF _loop_regions
<1>2. ASSUME NEW s \in Starts
      PROVE  r[s].end = end(s) /\ r[s].body = Body(s)
             /\ r[s].parent = Parent([o \in Starts |-> Body(o)], s)
  BY DEF _loop_regions
<1>3. \A s \in Starts : end(s) \in EndsFor(s)
  BY LastEnd
<1>4. ASSUME NEW s \in Starts
      PROVE  /\ s \in Nodes /\ graph.kind[s] = "loop_start"
             /\ end(s) \in Nodes /\ graph.kind[end(s)] = "loop_end" /\ graph.pair[end(s)] = s
  BY <1>3 DEF Starts, EndsFor
<1>5. ASSUME NEW s \in Starts
      PROVE  /\ Body(s) \subseteq Nodes \ {s, end(s)}
             /\ \A n \in Body(s) : Follows(n, s) /\ Follows(end(s), n)
  <2>1. Body(s) = (_descendants(s) \cap _ancestors(end(s))) \ {s, end(s)}
    BY DEF Body
  <2> QED BY <2>1, FollowsIsDescendant DEF _ancestors
<1>6. ASSUME NEW s \in Starts, NEW n \in Body(s), NEW m \in _predecessors(n)
      PROVE  m \in Body(s) \cup {s}
  <2>1. <<m, n>> \in graph.edges
    BY DEF _predecessors
  <2>2. \A e \in graph.edges : e[2] \in r[s].body /\ e[1] \notin r[s].body => e[1] = s
    BY <1>1 DEF _validate_loop_regions
  <2>3. n \in r[s].body /\ m \notin r[s].body => m = s
    BY <2>1, <2>2
  <2> QED BY <1>2, <2>3
<1>7. ASSUME NEW s \in Starts, r[s].parent # None
      PROVE  r[s].parent \in Starts /\ s \in Body(r[s].parent)
  <2> DEFINE body == [o \in Starts |-> Body(o)]
  <2> DEFINE around == {o \in Starts \ {s} : s \in body[o]}
  <2>1. r[s].parent = IF around = {} THEN None ELSE Least(around)
    BY <1>2 DEF Parent
  <2>2. around \in SUBSET Nodes
    BY DEF Starts
  <2>3. around # {} /\ r[s].parent = Least(around)
    BY <1>7, <2>1
  <2>4. Least(around) \in around
    <3> HIDE DEF around
    <3> QED BY <2>2, <2>3, FirstOf
  <2> QED BY <2>3, <2>4
<1>8. \A s, o \in DOMAIN r : \/ Span(r, s) \cap Span(r, o) = {}
                             \/ Span(r, s) \subseteq Span(r, o)
                             \/ Span(r, o) \subseteq Span(r, s)
  BY DEF _validate_loop_regions
<1> HIDE DEF r, end
<1>9. ASSUME NEW s \in DOMAIN r
      PROVE  /\ s \in Nodes /\ graph.kind[s] = "loop_start"
             /\ r[s].end \in Nodes /\ graph.kind[r[s].end] = "loop_end" /\ graph.pair[r[s].end] = s
             /\ r[s].body \subseteq Nodes \ {s, r[s].end}
             /\ \A n \in r[s].body : Follows(n, s) /\ Follows(r[s].end, n)
             /\ \A n \in r[s].body : \A m \in _predecessors(n) : m \in r[s].body \cup {s}
             /\ r[s].parent # None => r[s].parent \in DOMAIN r /\ s \in r[r[s].parent].body
  <2>1. s \in Starts /\ r[s].end = end(s) /\ r[s].body = Body(s)
    BY <1>1, <1>2
  <2>2. /\ s \in Nodes /\ graph.kind[s] = "loop_start"
        /\ r[s].end \in Nodes /\ graph.kind[r[s].end] = "loop_end" /\ graph.pair[r[s].end] = s
    BY <1>4, <2>1
  <2>3. /\ r[s].body \subseteq Nodes \ {s, r[s].end}
        /\ \A n \in r[s].body : Follows(n, s) /\ Follows(r[s].end, n)
    BY <1>5, <2>1
  <2>4. \A n \in r[s].body : \A m \in _predecessors(n) : m \in r[s].body \cup {s}
    BY <1>6, <2>1
  <2>5. ASSUME r[s].parent # None
        PROVE  r[s].parent \in DOMAIN r /\ s \in r[r[s].parent].body
    BY <1>1, <1>2, <1>7, <2>1, <2>5
  <2> QED BY <2>2, <2>3, <2>4, <2>5
<1>10. RegionsSound(r)
  BY <1>8, <1>9 DEF RegionsSound
<1> QED BY <1>10 DEF r

---------------------------------------------------------------------------
(* Nesting                                                                 *)

(* The size of a body, and what is inside what.                            *)
LEMMA BodiesCounted ==
  ASSUME RegionsSound(regions), NEW s \in Loops
  PROVE  /\ IsFiniteSet(regions[s].body)
         /\ Cardinality(regions[s].body) \in 0..(NodeCount - 1)
<1>1. regions[s].body \subseteq Nodes \ {s} /\ s \in Nodes
  BY DEF RegionsSound, Loops
<1>2. /\ IsFiniteSet(regions[s].body) /\ IsFiniteSet(Nodes \ {s})
      /\ Cardinality(Nodes \ {s}) = NodeCount - 1
      /\ Cardinality(regions[s].body) \in Nat
  BY <1>1, NodesFinite, FS_RemoveElement
<1>3. Cardinality(regions[s].body) <= NodeCount - 1
  BY <1>1, <1>2, FS_Subset
<1> QED BY <1>2, <1>3

(* A loop whose start another loop owns lies in its body, end included,    *)
(* and has a smaller body.                                                 *)
LEMMA InnerLoop ==
  ASSUME RegionsSound(regions), Acyclic, NEW s \in Loops, NEW o \in Loops, o \in Owns(s)
  PROVE  /\ Span(regions, o) \subseteq regions[s].body
         /\ Cardinality(regions[o].body) < Cardinality(regions[s].body)
<1>1. o \in regions[s].body /\ o # s
  BY DEF Owns, RegionsSound, Loops
<1>2. regions[o].end \notin {s, regions[s].end} /\ s # regions[o].end
  BY <1>1 DEF RegionsSound, Loops
<1>3. s \notin regions[o].body
  <2> SUFFICES ASSUME s \in regions[o].body PROVE FALSE
    OBVIOUS
  <2>1. s \in _descendants(o) /\ o \in _descendants(s)
    BY <1>1, FollowsIsDescendant DEF RegionsSound, Loops
  <2>2. s \in _descendants(s)
    BY <2>1, DescendantsChain
  <2> QED BY <2>2, NoWayBack DEF RegionsSound, Loops
<1>4. Span(regions, o) \subseteq Span(regions, s)
  BY <1>1, <1>2, <1>3 DEF RegionsSound, Loops, Span
<1>5. regions[s].end \notin regions[o].body
  <2> SUFFICES ASSUME regions[s].end \in regions[o].body PROVE FALSE
    OBVIOUS
  <2>1. regions[o].end \in regions[s].body
    BY <1>2, <1>4 DEF Span
  <2>2. /\ regions[o].end \in _descendants(regions[s].end)
        /\ regions[s].end \in _descendants(regions[o].end)
    BY <2>1, FollowsIsDescendant DEF RegionsSound, Loops
  <2>3. regions[o].end \in _descendants(regions[o].end)
    BY <2>2, DescendantsChain
  <2> QED BY <2>3, NoWayBack DEF RegionsSound, Loops
<1>6. Span(regions, o) \subseteq regions[s].body
  BY <1>1, <1>2, <1>3, <1>4, <1>5 DEF Span
<1>7. regions[o].body \subseteq regions[s].body /\ regions[o].body # regions[s].body
  BY <1>1, <1>6 DEF Span, RegionsSound, Loops
<1>8. Cardinality(regions[o].body) < Cardinality(regions[s].body)
  BY <1>7, BodiesCounted, FS_Subset
<1> QED BY <1>6, <1>8

(* Of two loops that own a node one lies inside the other.                 *)
LEMMA OwnersNest ==
  ASSUME RegionsSound(regions), Acyclic, NEW s \in Loops, NEW o \in Loops, s # o,
         NEW n \in Owns(s), n \in Owns(o)
  PROVE  o \in regions[s].body \/ s \in regions[o].body
<1>1. n \in Span(regions, s) \cap Span(regions, o)
  BY DEF Owns, Span
<1>2. o \in Span(regions, s) \/ s \in Span(regions, o)
  BY <1>1 DEF RegionsSound, Loops, Span
<1> QED BY <1>2 DEF Span, RegionsSound, Loops

(* _loop_owner_index: the innermost loop that owns the node.               *)
LEMMA OwnerIsInnermost ==
  ASSUME RegionsSound(regions), Acyclic, NEW n
  PROVE  \/ Owner(n) = None /\ \A s \in Loops : n \notin Owns(s)
         \/ /\ Owner(n) \in Loops /\ n \in Owns(Owner(n))
            /\ \A s \in Loops : n \in Owns(s) => s = Owner(n) \/ Owner(n) \in regions[s].body
<1> DEFINE owners == {s \in Loops : n \in Owns(s)}
<1> DEFINE size(s) == Cardinality(regions[s].body)
<1> DEFINE smallest == {s \in owners : \A o \in owners : size(s) <= size(o)}
<1>1. Owner(n) = IF owners = {} THEN None ELSE Least(smallest)
  BY DEF Owner
<1>2. CASE owners = {}
  BY <1>1, <1>2
<1>3. CASE owners # {}
  <2>1. {size(s) : s \in owners} \in SUBSET Nat /\ {size(s) : s \in owners} # {}
    BY <1>3, BodiesCounted
  <2>2. PICK k \in {size(s) : s \in owners} : \A j \in {size(s) : s \in owners} : k <= j
    BY <2>1, LeastExists
  <2>3. smallest # {} /\ smallest \in SUBSET Nodes
    BY <2>2 DEF RegionsSound, Loops
  <2>4. Owner(n) \in smallest
    <3>1. Least(smallest) \in smallest
      <4> HIDE DEF smallest
      <4> QED BY <2>3, FirstOf
    <3> QED BY <1>1, <1>3, <3>1
  <2>5. ASSUME NEW s \in Loops, n \in Owns(s), s # Owner(n) PROVE Owner(n) \in regions[s].body
    <3>1. Owner(n) \in Loops /\ n \in Owns(Owner(n)) /\ size(Owner(n)) <= size(s)
      BY <2>4, <2>5
    <3>2. Owner(n) \in regions[s].body \/ s \in regions[Owner(n)].body
      BY <2>5, <3>1, OwnersNest
    <3>3. ASSUME s \in regions[Owner(n)].body PROVE FALSE
      <4>1. s \in Owns(Owner(n))
        BY <3>3 DEF Owns
      <4>2. size(s) < size(Owner(n))
        BY <3>1, <4>1, InnerLoop
      <4> QED BY <3>1, <4>2, BodiesCounted
    <3> QED BY <3>2, <3>3
  <2> QED BY <2>4, <2>5
<1> QED BY <1>2, <1>3

(* The walk outward of _owner_unit, loop by loop.                          *)
LEMMA OwnersByHops ==
  ASSUME RegionsSound(regions), Acyclic, NEW n, NEW units
  PROVE  \E f :
           /\ f[0] = Owner(n)
           /\ \A k \in 1..NodeCount :
                f[k] = IF f[k - 1] \in units \cup {None} THEN f[k - 1] ELSE Owner(f[k - 1])
           /\ _owner_unit(n, units) = f[NodeCount]
<1> DEFINE step == [o \in Scopes |-> IF o \in units \cup {None} THEN o ELSE Owner(o)]
<1> DEFINE Hops(f) ==
      f = [k \in 0..NodeCount |->
             IF k = 0 THEN Owner(n)
             ELSE IF f[k - 1] \in units \cup {None} THEN f[k - 1] ELSE Owner(f[k - 1])]
<1>1. \E f : Hops(f)
  <2>1. \A o : Owner(o) \in Scopes
    BY OwnerIsInnermost DEF Scopes, RegionsSound, Loops
  <2>2. Owner(n) \in Scopes /\ step \in [Scopes -> Scopes]
    BY <2>1
  <2>3. PICK f : Iterates(f, Scopes, Owner(n), step, NodeCount)
    <3> HIDE DEF step
    <3> QED BY <2>2, Iterated
  <2>4. ASSUME NEW k \in 0..NodeCount
        PROVE  f[k] = IF k = 0 THEN Owner(n)
                      ELSE IF f[k - 1] \in units \cup {None} THEN f[k - 1] ELSE Owner(f[k - 1])
    <3>1. CASE k # 0
      <4>1. k \in 1..NodeCount /\ k - 1 \in 0..NodeCount
        BY <3>1
      <4>2. f[k - 1] \in Scopes /\ f[k] = step[f[k - 1]]
        BY <2>3, <4>1 DEF Iterates
      <4> QED BY <3>1, <4>2
    <3> QED BY <2>3, <3>1 DEF Iterates
  <2>5. f \in [0..NodeCount -> Scopes]
    BY <2>3 DEF Iterates
  <2>6. Hops(f)
    BY <2>4, <2>5
  <2> QED BY <2>6
<1> DEFINE hop == CHOOSE f : Hops(f)
<1>2. Hops(hop)
  <2> HIDE DEF Hops
  <2> QED BY <1>1
<1>3. _owner_unit(n, units) = hop[NodeCount]
  BY DEF _owner_unit
<1> HIDE DEF hop
<1>4. hop[0] = Owner(n)
  BY <1>2
<1>5. ASSUME NEW k \in 1..NodeCount
      PROVE  hop[k] = IF hop[k - 1] \in units \cup {None} THEN hop[k - 1] ELSE Owner(hop[k - 1])
  <2>1. k \in 0..NodeCount /\ k # 0
    OBVIOUS
  <2> QED BY <1>2, <2>1
<1> QED BY <1>3, <1>4, <1>5

(* _owner_unit finds the unit that produces the output of a node a loop    *)
(* owns, and none only if no unit does: the walk ends, for each hop leads  *)
(* to a larger body.                                                       *)
LEMMA OwnerUnitFound ==
  ASSUME RegionsSound(regions), Acyclic, NEW n, NEW units \in SUBSET Nodes
  PROVE  \/ /\ _owner_unit(n, units) = None
            /\ \A s \in Loops \cap units : n \notin Owns(s)
         \/ /\ _owner_unit(n, units) \in Loops \cap units
            /\ n \in Owns(_owner_unit(n, units))
<1>1. PICK f :
           /\ f[0] = Owner(n)
           /\ \A k \in 1..NodeCount :
                f[k] = IF f[k - 1] \in units \cup {None} THEN f[k - 1] ELSE Owner(f[k - 1])
           /\ _owner_unit(n, units) = f[NodeCount]
  BY OwnersByHops
<1> DEFINE Nowhere(o) == o = None /\ \A s \in Loops \cap units : n \notin Owns(s)
<1> DEFINE OnTheWay(o, k) ==
      /\ o \in Loops /\ n \in Owns(o)
      /\ o \in units \/ Cardinality(regions[o].body) >= k
      /\ \A s \in Loops \cap units : n \in Owns(s) => s = o \/ o \in regions[s].body
<1> DEFINE walked == {k \in Nat : Nowhere(f[k]) \/ OnTheWay(f[k], k)}
<1>2. 0 \in walked
  <2>1. \/ Owner(n) = None /\ \A s \in Loops : n \notin Owns(s)
        \/ /\ Owner(n) \in Loops /\ n \in Owns(Owner(n))
           /\ \A s \in Loops : n \in Owns(s) => s = Owner(n) \/ Owner(n) \in regions[s].body
    BY OwnerIsInnermost
  <2>2. Owner(n) \in Loops => Cardinality(regions[Owner(n)].body) >= 0
    BY BodiesCounted
  <2> QED BY <1>1, <2>1, <2>2
<1>3. ASSUME NEW k \in 0..(NodeCount - 1), k \in walked PROVE k + 1 \in walked
  <2>1. f[k + 1] = IF f[k] \in units \cup {None} THEN f[k] ELSE Owner(f[k])
    <3>1. k + 1 \in 1..NodeCount /\ (k + 1) - 1 = k
      OBVIOUS
    <3> QED BY <1>1, <3>1
  <2>2. CASE Nowhere(f[k])
    BY <2>1, <2>2
  <2>3. CASE OnTheWay(f[k], k) /\ f[k] \in units
    BY <2>1, <2>3
  <2>4. CASE OnTheWay(f[k], k) /\ f[k] \notin units
    <3> DEFINE o == f[k]
    <3>1. o # None
      BY <2>4 DEF RegionsSound, Loops, Nodes, None
    <3>2. f[k + 1] = Owner(o)
      BY <2>1, <2>4, <3>1
    <3>3. \A s \in Loops \cap units : n \in Owns(s) => o \in Owns(s)
      BY <2>4 DEF Owns
    <3>4. CASE Owner(o) = None
      <4>1. \A s \in Loops : o \notin Owns(s)
        BY <3>4, OwnerIsInnermost DEF RegionsSound, Loops, Nodes, None
      <4> QED BY <3>2, <3>3, <3>4, <4>1
    <3>5. CASE Owner(o) # None
      <4>1. /\ Owner(o) \in Loops /\ o \in Owns(Owner(o))
            /\ \A s \in Loops : o \in Owns(s) => s = Owner(o) \/ Owner(o) \in regions[s].body
        BY <3>5, OwnerIsInnermost
      <4>2. /\ Span(regions, o) \subseteq regions[Owner(o)].body
            /\ Cardinality(regions[o].body) < Cardinality(regions[Owner(o)].body)
        BY <2>4, <4>1, InnerLoop
      <4>3. n \in Owns(Owner(o))
        BY <2>4, <4>2 DEF Owns, Span
      <4>4. Cardinality(regions[Owner(o)].body) >= k + 1
        BY <2>4, <4>1, <4>2, BodiesCounted
      <4> QED BY <3>2, <3>3, <4>1, <4>3, <4>4
    <3> QED BY <3>4, <3>5
  <2> QED BY <1>3, <2>2, <2>3, <2>4
<1>4. NodeCount \in walked
  <2> HIDE DEF walked
  <2>1. 0..NodeCount \subseteq walked
    BY <1>2, <1>3, CountingUp
  <2> QED BY <2>1
<1>5. ASSUME OnTheWay(f[NodeCount], NodeCount) PROVE f[NodeCount] \in units
  BY <1>5, BodiesCounted
<1> QED BY <1>1, <1>4, <1>5

---------------------------------------------------------------------------
(* Plans                                                                   *)

(* Each Loop End is downstream of its start and fed by its own loop only:  *)
(* LoopsAreFed, said of the edges.                                         *)
Fed == \A s \in Loops : /\ Follows(regions[s].end, s)
                        /\ _predecessors(regions[s].end) \subseteq regions[s].body \cup {s}

LEMMA FedIsLoopsAreFed ==
  Fed <=> LoopsAreFed
BY FollowsIsDescendant DEF Fed, LoopsAreFed

(* What a loop owns is downstream of its start.                            *)
LEMMA OwnedFollows ==
  ASSUME RegionsSound(regions), Fed, NEW s \in Loops, NEW n \in Owns(s)
  PROVE  n \in _descendants(s)
BY FollowsIsDescendant DEF RegionsSound, Fed, Loops, Owns

(* u waits for units of its own plan only; for each it reads from it or    *)
(* from a node it owns; and for every unit it reads from, itself or        *)
(* through a loop.                                                         *)
WaitsRight(p, out, u) ==
    /\ p.deps[u] \subseteq p.units \ {u}
    /\ \A v \in p.deps[u] : \E m \in _predecessors(u) : m = v \/ (v \in Loops /\ m \in Owns(v))
    /\ \A m \in _predecessors(u) \cap p.units : m \in p.deps[u]
    /\ \A m \in (_predecessors(u) \cap out) \ p.units :
          \A s \in Loops \cap p.units :
             m \in Owns(s) => \E o \in Loops \cap (p.deps[u] \cup {u}) : m \in Owns(o)

(* Each plan schedules its scope's nodes but those it leaves to drivers.   *)
PlansSound ==
    \A c \in Scopes :
      /\ plan[c].units = IF c = None THEN needed \ owned(None)
                         ELSE IF c \in Loops THEN regions[c].body \ owned(c) ELSE {}
      /\ \A u \in plan[c].units : WaitsRight(plan[c], owned(c), u)

LEMMA BuiltPlan ==
  ASSUME RegionsSound(regions), Acyclic, NEW ids \in SUBSET Nodes, NEW out,
         NEW u \in ids \ out
  PROVE  WaitsRight(_build_plan(ids, out), out, u)
<1> DEFINE p == _build_plan(ids, out)
<1> DEFINE units == ids \ out
<1> DEFINE produces(m) == IF m \in units THEN m
                          ELSE IF m \in out THEN _owner_unit(m, units) ELSE None
<1>1. p.units = units
  BY DEF _build_plan
<1>2. p.deps[u] = {produces(m) : m \in _predecessors(u)} \ {None, u}
  BY DEF _build_plan
<1>3. units \in SUBSET Nodes /\ None \notin units
  <2>1. None \notin Nodes
    BY DEF Nodes, None
  <2> QED BY <2>1
<1>4. ASSUME NEW m
      PROVE  \/ produces(m) = None /\ (m \in out => \A s \in Loops \cap units : m \notin Owns(s))
             \/ produces(m) = m /\ m \in units
             \/ produces(m) \in Loops \cap units /\ m \in Owns(produces(m))
  BY <1>3, OwnerUnitFound
<1>5. ASSUME NEW m \in units PROVE produces(m) = m
  OBVIOUS
<1> HIDE DEF p, produces
<1>6. p.deps[u] \subseteq p.units \ {u}
  BY <1>1, <1>2, <1>4
<1>7. ASSUME NEW v \in p.deps[u]
      PROVE  \E m \in _predecessors(u) : m = v \/ (v \in Loops /\ m \in Owns(v))
  <2>1. PICK m \in _predecessors(u) : v = produces(m)
    BY <1>2, <1>7
  <2>2. v # None
    BY <1>2, <1>7
  <2> QED BY <1>4, <2>1, <2>2
<1>8. ASSUME NEW m \in _predecessors(u) \cap p.units PROVE m \in p.deps[u]
  <2>1. m \in units /\ m # u /\ m # None /\ produces(m) = m
    BY <1>1, <1>3, <1>5 DEF _predecessors
  <2> QED BY <1>2, <2>1
<1>9. ASSUME NEW m \in (_predecessors(u) \cap out) \ p.units,
             NEW s \in Loops \cap p.units, m \in Owns(s)
      PROVE  \E o \in Loops \cap (p.deps[u] \cup {u}) : m \in Owns(o)
  <2>1. produces(m) \in Loops \cap units /\ m \in Owns(produces(m))
    BY <1>1, <1>4, <1>9
  <2>2. produces(m) = u \/ produces(m) \in p.deps[u]
    BY <1>2, <1>3, <2>1
  <2> QED BY <2>1, <2>2
<1>10. WaitsRight(p, out, u)
  BY <1>6, <1>7, <1>8, <1>9 DEF WaitsRight
<1> QED BY <1>10 DEF p

(* Of some loops one is owned by none of them.                             *)
LEMMA Outermost ==
  ASSUME RegionsSound(regions), Acyclic, NEW L \in SUBSET Loops, L # {}
  PROVE  \E p \in L : \A q \in L : p \notin Owns(q)
<1> DEFINE size(s) == Cardinality(regions[s].body)
<1> DEFINE sizes == {size(s) : s \in L}
<1>1. sizes \in SUBSET (0..NodeCount) /\ sizes # {}
  BY BodiesCounted
<1>2. PICK k \in sizes : \A j \in sizes : j <= k
  <2> HIDE DEF sizes
  <2> QED BY <1>1, GreatestExists
<1>3. PICK p \in L : size(p) = k
  BY <1>2
<1>4. ASSUME NEW q \in L, p \in Owns(q) PROVE FALSE
  <2>1. size(p) < size(q) /\ size(q) <= k
    BY <1>2, <1>4, InnerLoop
  <2> QED BY <1>3, <2>1, BodiesCounted
<1> QED BY <1>4

(* A node of a body is a unit of the body's plan, or a unit owns it,       *)
(* whichever of the enclosing loops is taken for a loop's parent.          *)
LEMMA BodyIsCovered ==
  ASSUME RegionsSound(regions), Acyclic, NEW u \in Loops, NEW n \in regions[u].body
  PROVE  \/ n \in regions[u].body \ owned(u)
         \/ \E p \in Loops \cap (regions[u].body \ owned(u)) : n \in Owns(p)
<1> SUFFICES ASSUME n \in owned(u)
             PROVE  \E p \in Loops \cap (regions[u].body \ owned(u)) : n \in Owns(p)
  OBVIOUS
<1>1. u # None
  BY DEF RegionsSound, Loops, Nodes, None
<1>2. owned(u) = UNION {Owns(o) : o \in {o \in Loops : regions[o].parent = u}}
  BY <1>1 DEF owned
<1>3. \A o \in Loops : regions[o].parent = u => o \in regions[u].body
  BY <1>1 DEF RegionsSound, Loops
<1> DEFINE around == {o \in Loops : o \in regions[u].body /\ n \in Owns(o)}
<1>4. around # {} /\ around \in SUBSET Loops
  BY <1>2, <1>3
<1>5. PICK p \in around : \A q \in around : p \notin Owns(q)
  <2> HIDE DEF around
  <2> QED BY <1>4, Outermost
<1>6. ASSUME NEW q \in Loops, regions[q].parent = u, p \in Owns(q) PROVE FALSE
  <2>1. n \in Owns(q)
    <3>1. Span(regions, p) \subseteq regions[q].body
      BY <1>6, InnerLoop
    <3> QED BY <3>1 DEF Owns, Span
  <2> QED BY <1>3, <1>5, <1>6, <2>1
<1> QED BY <1>2, <1>5, <1>6

(* At the top, where every loop's nodes are left out, a node that a loop   *)
(* owns is owned by one that is not owned itself.                          *)
LEMMA TopIsCovered ==
  ASSUME RegionsSound(regions), Acyclic, NEW n \in owned(None)
  PROVE  \E p \in Loops : p \notin owned(None) /\ n \in Owns(p)
<1>1. owned(None) = UNION {Owns(o) : o \in Loops}
  BY DEF owned
<1> DEFINE around == {o \in Loops : n \in Owns(o)}
<1>2. around # {} /\ around \in SUBSET Loops
  BY <1>1
<1>3. PICK p \in around : \A q \in around : p \notin Owns(q)
  <2> HIDE DEF around
  <2> QED BY <1>2, Outermost
<1>4. ASSUME NEW q \in Loops, p \in Owns(q) PROVE FALSE
  <2>1. n \in Owns(q)
    <3>1. Span(regions, p) \subseteq regions[q].body
      BY <1>4, InnerLoop
    <3> QED BY <3>1 DEF Owns, Span
  <2> QED BY <1>3, <1>4, <2>1
<1> QED BY <1>1, <1>3, <1>4

---------------------------------------------------------------------------
(* What the plans let run                                                  *)

(* The regions are accepted; the plans are made.                           *)
Planned == stage \in {"plan", "run", "done", "stalled"}
Running == stage \in {"run", "done", "stalled"}

(* The checks before the search.                                           *)
Checked ==
    stage \notin {"validate", "self_loop"} =>
      /\ \A n \in Nodes : <<n, n>> \notin graph.edges
      /\ request.whole => needed = Nodes /\ stack = {}

(* Nothing has run before there are plans.                                 *)
NothingRan ==
    ~Running => /\ \A c \in Scopes : done[c] = {}
                /\ entered = {}
                /\ \A n \in Nodes : ran[n] = 0

(* What is done has run, with all that its loop owns.                      *)
DoneRan ==
    /\ \A u \in entered : ran[u] > 0
    /\ \A c \in Scopes : \A u \in done[c] :
          ran[u] > 0 /\ (u \in Loops => \A n \in Owns(u) : ran[n] > 0)

(* What has run has run after what it reads from.                          *)
ProducersRan ==
    Running /\ Fed => \A n \in Nodes : \A m \in _predecessors(n) :
                         ran[n] > 0 /\ m \in Executed => ran[m] > 0

(* The invariant of the whole: the run relies on the plans, the plans on   *)
(* the regions, the regions on the sort.                                   *)
FeedInv ==
    /\ PlanInv
    /\ Checked /\ NothingRan /\ DoneRan /\ ProducersRan
    /\ Planned => RegionsSound(regions)
    /\ Running => PlansSound
    /\ stage = "stalled" => ~Fed
    /\ stage = "done" => plan[None].units \subseteq done[None]

LEMMA AcyclicOnceSorted ==
  ASSUME FeedInv, stage = "regions" \/ Planned
  PROVE  Acyclic
BY DEF FeedInv, PlanInv, CycleVerdict, Checked, Acyclic, Planned

(* A unit whose dependencies are done may read: each node it reads from    *)
(* that the plan executes has run.                                         *)
LEMMA ProducersDone ==
  ASSUME FeedInv, Running, Fed, NEW c \in Scopes, NEW u \in Nodes, CanRun(c, u),
         NEW m \in _predecessors(u), m \in Executed
  PROVE  ran[m] > 0
<1>1. /\ RegionsSound(regions) /\ PlansSound /\ Acyclic
  BY AcyclicOnceSorted DEF FeedInv, Running, Planned
<1> DEFINE p == plan[c]
<1>2. u \in p.units /\ p.deps[u] \subseteq done[c] /\ WaitsRight(p, owned(c), u)
  BY <1>1 DEF CanRun, PlansSound
<1>3. m \in Nodes /\ m # u
  BY DEF _predecessors
<1>4. CASE m \in p.units
  <2>1. m \in done[c]
    BY <1>2, <1>4 DEF WaitsRight
  <2> QED BY <2>1 DEF FeedInv, DoneRan
<1>5. ASSUME m \notin p.units, m \in owned(c),
             NEW s \in Loops \cap p.units, m \in Owns(s)
      PROVE  ran[m] > 0
  <2>1. PICK o \in Loops \cap (p.deps[u] \cup {u}) : m \in Owns(o)
    BY <1>2, <1>5 DEF WaitsRight
  <2>2. CASE o = u
    <3>1. m \in _descendants(u)
      BY <1>1, <2>1, <2>2, OwnedFollows
    <3>2. u \in _descendants(m)
      BY DescendantsAreLeast DEF _predecessors, _successors
    <3>3. u \in _descendants(u)
      BY <3>1, <3>2, DescendantsChain
    <3> QED BY <1>1, <3>3, NoWayBack
  <2>3. CASE o # u
    <3>1. o \in done[c]
      BY <1>2, <2>1, <2>3
    <3> QED BY <2>1, <3>1 DEF FeedInv, DoneRan
  <2> QED BY <2>2, <2>3
<1>6. CASE c = None
  <2>1. ASSUME m \notin p.units PROVE ran[m] > 0
    <3>1. PICK s \in Loops \cap p.units : m \in Owns(s)
      BY <1>6, <2>1 DEF Executed
    <3>2. m \in owned(c)
      BY <1>6, <3>1 DEF owned
    <3> QED BY <1>5, <2>1, <3>1, <3>2
  <2> QED BY <1>4, <2>1
<1>7. CASE c # None
  <2>1. c \in Loops /\ p.units = regions[c].body \ owned(c)
    BY <1>1, <1>2, <1>7 DEF PlansSound
  <2>2. m \in regions[c].body \cup {c}
    BY <1>1, <1>2, <2>1 DEF RegionsSound, Loops
  <2>3. CASE m = c
    BY <1>7, <2>3 DEF CanRun, Open
  <2>4. CASE m \in regions[c].body
    <3>1. m \in p.units \/ \E s \in Loops \cap p.units : m \in Owns(s)
      BY <1>1, <2>1, <2>4, BodyIsCovered
    <3>2. m \in p.units \/ m \in owned(c)
      BY <2>1, <2>4
    <3> QED BY <1>4, <1>5, <3>1, <3>2
  <2> QED BY <2>2, <2>3, <2>4
<1> QED BY <1>6, <1>7

(* The body of a loop whose plan is done has run.                          *)
LEMMA BodyRan ==
  ASSUME FeedInv, Running, NEW u \in Loops, plan[u].units \subseteq done[u]
  PROVE  \A n \in regions[u].body : ran[n] > 0
<1>1. /\ RegionsSound(regions) /\ PlansSound /\ Acyclic
  BY AcyclicOnceSorted DEF FeedInv, Running, Planned
<1>2. u \in Scopes /\ u # None
  BY <1>1 DEF RegionsSound, Loops, Scopes, Nodes, None
<1>3. plan[u].units = regions[u].body \ owned(u)
  BY <1>1, <1>2 DEF PlansSound
<1> SUFFICES ASSUME NEW n \in regions[u].body PROVE ran[n] > 0
  OBVIOUS
<1>4. CASE n \in plan[u].units
  BY <1>2, <1>4 DEF FeedInv, DoneRan
<1>5. ASSUME NEW p \in Loops \cap plan[u].units, n \in Owns(p) PROVE ran[n] > 0
  BY <1>2, <1>5 DEF FeedInv, DoneRan
<1> QED BY <1>1, <1>3, <1>4, <1>5, BodyIsCovered

(* No plan waits for itself: units that wait for each other would be       *)
(* downstream of each other.                                               *)
LEMMA NobodyWaits ==
  ASSUME FeedInv, Running, Fed, NEW c \in Scopes, plan[c].units \ done[c] # {}
  PROVE  \E u \in plan[c].units \ done[c] : plan[c].deps[u] \subseteq done[c]
<1> SUFFICES ASSUME \A u \in plan[c].units \ done[c] : ~(plan[c].deps[u] \subseteq done[c])
             PROVE  FALSE
  OBVIOUS
<1>1. /\ RegionsSound(regions) /\ PlansSound /\ Acyclic
  BY AcyclicOnceSorted DEF FeedInv, Running, Planned
<1> DEFINE left == plan[c].units \ done[c]
<1>2. left \in SUBSET Nodes
  BY DEF FeedInv, PlanInv, TypeOK
<1>3. ASSUME NEW u \in left
      PROVE  \E v \in left : u \in _descendants(v)
  <2>1. WaitsRight(plan[c], owned(c), u)
    BY <1>1 DEF PlansSound
  <2>2. PICK v \in plan[c].deps[u] : v \notin done[c]
    BY <1>3
  <2>3. v \in left
    BY <2>1, <2>2 DEF WaitsRight
  <2>4. PICK m \in _predecessors(u) : m = v \/ (v \in Loops /\ m \in Owns(v))
    BY <2>1 DEF WaitsRight
  <2>5. u \in _successors(m)
    BY <1>2, <1>3 DEF _predecessors, _successors
  <2>6. CASE m = v
    BY <2>3, <2>5, <2>6, DescendantsAreLeast
  <2>7. CASE v \in Loops /\ m \in Owns(v)
    <3>1. m \in _descendants(v)
      BY <1>1, <2>7, OwnedFollows
    <3>2. u \in _descendants(v)
      BY <2>5, <3>1, DescendantsAreLeast DEF Downstream
    <3> QED BY <2>3, <3>2
  <2> QED BY <2>4, <2>6, <2>7
<1> DEFINE after == UNION {_descendants(v) : v \in left}
<1>4. after \in SUBSET Nodes
  BY DescendantsAreLeast
<1>5. ASSUME NEW n \in after PROVE _predecessors(n) \cap after # {}
  <2>1. PICK v \in left : n \in _descendants(v)
    OBVIOUS
  <2>2. PICK m \in {v} \cup _descendants(v) : n \in _successors(m)
    BY <2>1, DescendantsChain
  <2>3. m \in after
    BY <1>3, <2>1, <2>2
  <2>4. m \in _predecessors(n)
    BY <1>1, <1>4, <2>2, <2>3 DEF _predecessors, _successors, Acyclic
  <2> QED BY <2>3, <2>4
<1>6. after # {}
  BY <1>3
<1> HIDE DEF after
<1> QED BY <1>1, <1>4, <1>5, <1>6 DEF Sourceless, Acyclic

---------------------------------------------------------------------------
(* The steps of the run                                                    *)

(* The graph and its regions do not change, and neither does what is said  *)
(* of them.                                                                *)
LEMMA SameRegions ==
  ASSUME graph' = graph, regions' = regions
  PROVE  /\ Loops' = Loops
         /\ \A s : Owns(s)' = Owns(s)
         /\ \A c : owned(c)' = owned(c)
         /\ RegionsSound(regions)' <=> RegionsSound(regions)
         /\ Fed' <=> Fed
<1>1. /\ Loops' = Loops
      /\ \A s : Owns(s)' = Owns(s)
      /\ \A c : owned(c)' = owned(c)
  BY DEF Loops, Owns, owned
<1>2. /\ \A n : _successors(n)' = _successors(n)
      /\ \A n : _predecessors(n)' = _predecessors(n)
  BY DEF _successors, _predecessors
<1>3. \A n, d : Follows(n, d)' <=> Follows(n, d)
  BY <1>2 DEF Follows, Downstream
<1>4. RegionsSound(regions)' <=> RegionsSound(regions)
  BY <1>2, <1>3 DEF RegionsSound, Span
<1>5. Fed' <=> Fed
  BY <1>1, <1>2, <1>3 DEF Fed
<1> QED BY <1>1, <1>4, <1>5

LEMMA SamePlans ==
  ASSUME graph' = graph, regions' = regions, plan' = plan, needed' = needed
  PROVE  /\ PlansSound' <=> PlansSound
         /\ Executed' = Executed
<1>1. \A n : _predecessors(n)' = _predecessors(n)
  BY DEF _predecessors
<1>2. Loops' = Loops /\ \A s : Owns(s)' = Owns(s)
  BY DEF Loops, Owns
<1>3. \A c : owned(c)' = owned(c)
  BY SameRegions
<1>4. \A c, u : WaitsRight(plan[c], owned(c), u)' <=> WaitsRight(plan[c], owned(c), u)
  BY <1>1, <1>2, <1>3 DEF WaitsRight
<1>5. PlansSound' <=> PlansSound
  BY <1>2, <1>3, <1>4 DEF PlansSound
<1> QED BY <1>2, <1>5 DEF Executed

(* Once there are plans they stay, and nothing is run before.              *)
LEMMA OnlyRuns ==
  ASSUME Next
  PROVE  /\ graph' = graph /\ request' = request
         /\ Running => regions' = regions /\ plan' = plan /\ needed' = needed /\ Running'
         /\ Planned => regions' = regions /\ Planned'
         /\ Planned' /\ ~Planned => FindRegions
         /\ Running' /\ ~Running => BuildPlans
BY DEF Next, validate_graph, _needed_nodes, StartSort, _topo_order, EndSort, FindRegions,
       BuildPlans, CanRun, RunNode, EnterLoop, LeaveLoop, Stall, Finish, Over, vars, inputs,
       search, Running, Planned, Refusals

LEMMA CheckedStep ==
  ASSUME FeedInv, [Next]_vars
  PROVE  Checked'
<1>1. CASE UNCHANGED vars
  BY <1>1 DEF FeedInv, Checked, vars, inputs, search
<1>2. CASE validate_graph
  BY <1>2 DEF validate_graph, Checked, inputs
<1>3. CASE \E n \in Nodes : _needed_nodes(n)
  BY <1>3 DEF _needed_nodes, FeedInv, Checked, inputs
<1>4. CASE Next /\ ~validate_graph /\ ~(\E n \in Nodes : _needed_nodes(n))
  <2>1. graph' = graph /\ request' = request
    BY <1>4, OnlyRuns
  <2>2. needed' = needed /\ stack' = stack
    BY <1>4 DEF Next, StartSort, _topo_order, EndSort, FindRegions, BuildPlans, RunNode,
                EnterLoop, LeaveLoop, Stall, Finish, Over, vars, search
  <2>3. stage \in {"validate", "self_loop"} => stage' = stage
    BY <1>4 DEF Next, StartSort, _topo_order, EndSort, FindRegions, BuildPlans, RunNode,
                CanRun, EnterLoop, LeaveLoop, Stall, Finish, Over, vars
  <2> QED BY <2>1, <2>2, <2>3 DEF FeedInv, Checked
<1> QED BY <1>1, <1>2, <1>3, <1>4

LEMMA RegionsStep ==
  ASSUME FeedInv, [Next]_vars, Planned'
  PROVE  RegionsSound(regions)'
<1>1. CASE UNCHANGED vars
  BY <1>1, SameRegions DEF FeedInv, vars, inputs, Planned
<1>2. CASE Next /\ Planned
  BY <1>2, OnlyRuns, SameRegions DEF FeedInv
<1>3. CASE Next /\ ~Planned
  <2>1. FindRegions
    BY <1>3, OnlyRuns
  <2>2. /\ \A s \in Starts : EndsFor(s) # {}
        /\ _validate_loop_regions(_loop_regions)
        /\ regions' = _loop_regions /\ graph' = graph
    BY <2>1 DEF FindRegions, Planned, inputs
  <2>3. PICK r : r = _loop_regions
    OBVIOUS
  <2>4. RegionsSound(r)
    BY <2>2, <2>3, FoundRegionsSound
  <2>5. /\ \A n : _successors(n)' = _successors(n)
        /\ \A n : _predecessors(n)' = _predecessors(n)
    BY <2>2 DEF _successors, _predecessors
  <2>6. \A n, d : Follows(n, d)' <=> Follows(n, d)
    BY <2>5 DEF Follows, Downstream
  <2>7. regions' = r
    BY <2>2, <2>3
  <2> QED BY <2>2, <2>4, <2>5, <2>6, <2>7 DEF RegionsSound, Span
<1> QED BY <1>1, <1>2, <1>3

LEMMA PlansStep ==
  ASSUME FeedInv, [Next]_vars, Running'
  PROVE  PlansSound'
<1>1. CASE UNCHANGED vars
  BY <1>1, SamePlans DEF FeedInv, vars, inputs, search, Running
<1>2. CASE Next /\ Running
  BY <1>2, OnlyRuns, SamePlans DEF FeedInv
<1>3. CASE Next /\ ~Running
  <2>1. BuildPlans
    BY <1>3, OnlyRuns
  <2>2. /\ graph' = graph /\ regions' = regions /\ needed' = needed /\ Planned
        /\ plan' = [c \in Scopes |->
                      IF c = None THEN _build_plan(needed, owned(None))
                      ELSE IF c \in Loops THEN _build_plan(regions[c].body, owned(c))
                      ELSE NoPlan]
    BY <2>1 DEF BuildPlans, inputs, search, Planned
  <2>3. RegionsSound(regions) /\ Acyclic
    BY <2>2, AcyclicOnceSorted DEF FeedInv
  <2> DEFINE ids(c) == IF c = None THEN needed ELSE IF c \in Loops THEN regions[c].body ELSE {}
  <2> DEFINE p == [c \in Scopes |->
                      IF c = None THEN _build_plan(needed, owned(None))
                      ELSE IF c \in Loops THEN _build_plan(regions[c].body, owned(c))
                      ELSE NoPlan]
  <2>4. needed \in SUBSET Nodes
    BY DEF FeedInv, PlanInv, TypeOK
  <2>5. \A s \in Loops : regions[s].body \in SUBSET Nodes
    BY <2>3 DEF RegionsSound, Loops
  <2>6. ASSUME NEW c \in Scopes
        PROVE  /\ p[c].units = IF c = None THEN needed \ owned(None)
                               ELSE IF c \in Loops THEN regions[c].body \ owned(c) ELSE {}
               /\ \A u \in p[c].units : WaitsRight(p[c], owned(c), u)
    <3>1. CASE c = None
      BY <2>3, <2>4, <3>1, PlanUnits, BuiltPlan
    <3>2. CASE c # None /\ c \in Loops
      BY <2>3, <2>5, <3>2, PlanUnits, BuiltPlan
    <3>3. CASE c # None /\ c \notin Loops
      BY <3>3 DEF NoPlan
    <3> QED BY <3>1, <3>2, <3>3
  <2> HIDE DEF p
  <2>7. PICK q : q = p
    OBVIOUS
  <2>8. plan' = q
    BY <2>2, <2>7 DEF p
  <2>9. \A n : _predecessors(n)' = _predecessors(n)
    BY <2>2 DEF _predecessors
  <2>10. Loops' = Loops /\ (\A s : Owns(s)' = Owns(s)) /\ \A c : owned(c)' = owned(c)
    BY <2>2, SameRegions
  <2>11. \A c \in Scopes : \A u \in q[c].units : WaitsRight(plan[c], owned(c), u)'
    <3> SUFFICES ASSUME NEW c \in Scopes, NEW u \in q[c].units
                 PROVE  WaitsRight(plan[c], owned(c), u)'
      OBVIOUS
    <3>1. WaitsRight(q[c], owned(c), u)
      BY <2>6, <2>7
    <3>2. (plan[c])' = q[c] /\ owned(c)' = owned(c) /\ _predecessors(u)' = _predecessors(u)
      BY <2>8, <2>9, <2>10
    <3> QED BY <2>10, <3>1, <3>2 DEF WaitsRight
  <2> QED BY <2>2, <2>6, <2>7, <2>8, <2>10, <2>11 DEF PlansSound
<1> QED BY <1>1, <1>2, <1>3

(* A step of the run: what it finishes and what it executes.               *)
LEMMA RunSteps ==
  ASSUME FeedInv, Next, Running
  PROVE  \/ done' = done /\ entered' = entered /\ ran' = ran
         \/ \E c \in Scopes, u \in Nodes :
              RunNode(c, u) \/ EnterLoop(c, u) \/ LeaveLoop(c, u)
BY DEF Next, validate_graph, _needed_nodes, StartSort, _topo_order, EndSort, FindRegions,
       BuildPlans, CanRun, RunNode, EnterLoop, LeaveLoop, Stall, Finish, Over, vars, execution,
       Running

(* What has run stays run, and a step executes one node.                   *)
LEMMA RanGrows ==
  ASSUME FeedInv, NEW c \in Scopes, NEW u \in Nodes,
         RunNode(c, u) \/ EnterLoop(c, u) \/ LeaveLoop(c, u)
  PROVE  /\ \A n \in Nodes : ran[n] > 0 => ran'[n] > 0
         /\ RunNode(c, u) \/ EnterLoop(c, u) =>
              ran'[u] > 0 /\ \A n \in Nodes : ran'[n] > 0 => ran[n] > 0 \/ n = u
         /\ LeaveLoop(c, u) =>
              /\ regions[u].end \in Nodes => ran'[regions[u].end] > 0
              /\ \A n \in Nodes : ran'[n] > 0 => ran[n] > 0 \/ n = regions[u].end
<1>1. ran \in [Nodes -> Nat]
  BY DEF FeedInv, PlanInv, TypeOK
<1> QED BY <1>1 DEF RunNode, EnterLoop, LeaveLoop

LEMMA NothingRanStep ==
  ASSUME FeedInv, [Next]_vars
  PROVE  NothingRan'
<1>1. CASE UNCHANGED vars
  BY <1>1 DEF FeedInv, NothingRan, Running, vars, execution
<1>2. CASE Next /\ Running
  BY <1>2, OnlyRuns DEF NothingRan
<1>3. CASE Next /\ ~Running
  BY <1>3 DEF Next, validate_graph, _needed_nodes, StartSort, _topo_order, EndSort, FindRegions,
       BuildPlans, CanRun, RunNode, EnterLoop, LeaveLoop, Stall, Finish, Over, vars, execution,
       Running, FeedInv, NothingRan
<1> QED BY <1>1, <1>2, <1>3

LEMMA DoneRanStep ==
  ASSUME FeedInv, [Next]_vars
  PROVE  DoneRan'
<1> USE DEF DoneRan
<1>1. CASE UNCHANGED vars
  BY <1>1 DEF FeedInv, vars, inputs, execution, Loops, Owns
<1>2. CASE Next /\ ~Running
  <2>1. done' = done /\ entered' = entered /\ ran' = ran
    BY <1>2 DEF Next, validate_graph, _needed_nodes, StartSort, _topo_order, EndSort, FindRegions,
       BuildPlans, CanRun, RunNode, EnterLoop, LeaveLoop, Stall, Finish, Over, vars, execution,
       Running
  <2> QED BY <1>2, <2>1 DEF FeedInv, NothingRan
<1>3. CASE Next /\ Running
  <2>1. /\ graph' = graph /\ regions' = regions /\ Loops' = Loops
        /\ \A s : Owns(s)' = Owns(s)
    BY <1>3, OnlyRuns, SameRegions
  <2>2. CASE done' = done /\ entered' = entered /\ ran' = ran
    BY <2>1, <2>2 DEF FeedInv
  <2>3. ASSUME NEW c \in Scopes, NEW u \in Nodes,
               RunNode(c, u) \/ EnterLoop(c, u) \/ LeaveLoop(c, u)
        PROVE  DoneRan'
    <3>1. \A n \in Nodes : ran[n] > 0 => ran'[n] > 0
      BY <2>3, RanGrows
    <3>2. RegionsSound(regions)
      BY <1>3 DEF FeedInv, Running, Planned
    <3>3. \A s \in Loops : Owns(s) \subseteq Nodes
      BY <3>2 DEF RegionsSound, Owns, Loops
    <3>4. /\ done \in [Scopes -> SUBSET Nodes] /\ entered \subseteq Nodes
      BY DEF FeedInv, PlanInv, TypeOK
    <3>5. CASE RunNode(c, u)
      <4>1. u \notin Loops /\ entered' = entered /\ done' = [done EXCEPT ![c] = @ \cup {u}]
        BY <3>5 DEF RunNode
      <4>2. ran'[u] > 0
        BY <3>5, RanGrows
      <4> QED BY <2>1, <3>1, <3>3, <3>4, <4>1, <4>2 DEF FeedInv
    <3>6. CASE EnterLoop(c, u)
      <4>1. entered' = entered \cup {u} /\ done' = done
        BY <3>6 DEF EnterLoop
      <4>2. ran'[u] > 0
        BY <3>6, RanGrows
      <4> QED BY <2>1, <3>1, <3>3, <3>4, <4>1, <4>2 DEF FeedInv
    <3>7. CASE LeaveLoop(c, u)
      <4>1. /\ u \in Loops \cap entered /\ plan[u].units \subseteq done[u]
            /\ entered' = entered /\ done' = [done EXCEPT ![c] = @ \cup {u}]
        BY <3>7 DEF LeaveLoop
      <4>2. \A n \in regions[u].body : ran'[n] > 0
        <5>1. \A n \in regions[u].body : ran[n] > 0
          BY <1>3, <4>1, BodyRan
        <5> QED BY <3>1, <3>3, <4>1, <5>1 DEF Owns
      <4>3. ran'[regions[u].end] > 0
        <5>1. regions[u].end \in Nodes
          BY <3>3, <4>1 DEF Owns
        <5> QED BY <3>7, <5>1, RanGrows
      <4>4. ran'[u] > 0
        BY <3>1, <4>1 DEF FeedInv
      <4>5. \A n \in Owns(u) : ran'[n] > 0
        BY <4>2, <4>3 DEF Owns
      <4> QED BY <2>1, <3>1, <3>3, <3>4, <4>1, <4>4, <4>5 DEF FeedInv
    <3> QED BY <2>3, <3>5, <3>6, <3>7
  <2> QED BY <1>3, <2>2, <2>3, RunSteps
<1> QED BY <1>1, <1>2, <1>3

LEMMA ProducersStep ==
  ASSUME FeedInv, [Next]_vars
  PROVE  ProducersRan'
<1>1. CASE UNCHANGED vars
  <2>1. Executed' = Executed /\ (Fed' <=> Fed) /\ (Running' <=> Running)
        /\ ran' = ran /\ \A n : _predecessors(n)' = _predecessors(n)
    BY <1>1, SameRegions, SamePlans, SameGraph DEF vars, inputs, search, execution, Running
  <2> QED BY <2>1 DEF FeedInv, ProducersRan
<1>2. CASE Next /\ ~Running
  <2>1. ran' = ran
    BY <1>2 DEF Next, validate_graph, _needed_nodes, StartSort, _topo_order, EndSort, FindRegions,
       BuildPlans, CanRun, RunNode, EnterLoop, LeaveLoop, Stall, Finish, Over, vars, execution,
       Running
  <2>2. \A n \in Nodes : ~(ran'[n] > 0)
    BY <1>2, <2>1 DEF FeedInv, NothingRan
  <2> QED BY <2>2 DEF ProducersRan
<1>3. CASE Next /\ Running
  <2>1. Executed' = Executed /\ (Fed' <=> Fed) /\ \A n : _predecessors(n)' = _predecessors(n)
    BY <1>3, OnlyRuns, SameRegions, SamePlans, SameGraph
  <2> SUFFICES ASSUME Fed, NEW n \in Nodes, NEW m \in _predecessors(n), ran'[n] > 0, m \in Executed
               PROVE  ran'[m] > 0
    BY <2>1 DEF ProducersRan
  <2>2. m \in Nodes
    BY DEF _predecessors
  <2>3. ran[n] > 0 => ran[m] > 0
    BY <1>3 DEF FeedInv, ProducersRan
  <2>4. CASE ran' = ran
    BY <2>3, <2>4
  <2>5. ASSUME NEW c \in Scopes, NEW u \in Nodes,
               RunNode(c, u) \/ EnterLoop(c, u) \/ LeaveLoop(c, u)
        PROVE  ran'[m] > 0
    <3>1. ran[m] > 0 => ran'[m] > 0
      BY <2>2, <2>5, RanGrows
    <3>2. CASE ran[n] > 0
      BY <2>3, <3>1, <3>2
    <3>3. CASE ~(ran[n] > 0) /\ (RunNode(c, u) \/ EnterLoop(c, u))
      <4>1. n = u /\ CanRun(c, u)
        BY <3>3, RanGrows DEF RunNode, EnterLoop
      <4> QED BY <1>3, <3>1, <4>1, ProducersDone
    <3>4. CASE ~(ran[n] > 0) /\ LeaveLoop(c, u)
      <4>1. n = regions[u].end /\ u \in Loops \cap entered /\ plan[u].units \subseteq done[u]
        BY <3>4, RanGrows DEF LeaveLoop
      <4>2. m \in regions[u].body \cup {u}
        BY <4>1 DEF Fed
      <4>3. ran[u] > 0
        BY <4>1 DEF FeedInv, DoneRan
      <4>4. m \in regions[u].body => ran[m] > 0
        BY <1>3, <4>1, BodyRan
      <4> QED BY <3>1, <4>2, <4>3, <4>4
    <3> QED BY <2>5, <3>2, <3>3, <3>4
  <2> QED BY <1>3, <2>4, <2>5, RunSteps
<1> QED BY <1>1, <1>2, <1>3

(* A run stalls on no plan whose loops are fed, and finishes its plan.     *)
LEMMA EndStep ==
  ASSUME FeedInv, [Next]_vars
  PROVE  /\ stage' = "stalled" => ~Fed'
         /\ stage' = "done" => plan'[None].units \subseteq done'[None]
<1>1. CASE UNCHANGED vars
  BY <1>1, SameRegions DEF FeedInv, vars, inputs, execution
<1>2. CASE Next /\ stage' = "stalled"
  <2>1. Running
    BY <1>2, OnlyRuns DEF BuildPlans, Running
  <2>2. Fed' <=> Fed
    BY <1>2, <2>1, OnlyRuns, SameRegions
  <2>3. stage = "stalled" \/ \E c \in Scopes : Stall(c)
    BY <1>2 DEF Next, validate_graph, _needed_nodes, StartSort, _topo_order, EndSort, FindRegions,
       BuildPlans, CanRun, RunNode, EnterLoop, LeaveLoop, Stall, Finish, Over, vars
  <2>4. ASSUME NEW c \in Scopes, Stall(c) PROVE ~Fed
    BY <2>1, <2>4, NobodyWaits DEF Stall
  <2> QED BY <1>2, <2>2, <2>3, <2>4 DEF FeedInv
<1>3. CASE Next /\ stage' = "done"
  <2>1. Finish \/ (stage = "done" /\ UNCHANGED vars)
    BY <1>3 DEF Next, validate_graph, _needed_nodes, StartSort, _topo_order, EndSort, FindRegions,
       BuildPlans, CanRun, RunNode, EnterLoop, LeaveLoop, Stall, Finish, Over, vars, Refusals
  <2>2. plan' = plan /\ done' = done /\ plan[None].units \subseteq done[None]
    BY <2>1 DEF Finish, FeedInv, vars, execution
  <2> QED BY <1>3, <2>2
<1> QED BY <1>1, <1>2, <1>3

---------------------------------------------------------------------------
(* Theorems of the run                                                     *)

LEMMA FeedInit == Init => FeedInv
BY PlanInit DEF Init, FeedInv, Checked, NothingRan, DoneRan, ProducersRan, Running, Planned, Scopes

(* The invariant of planning and running together.                         *)
THEOREM FeedInvariant == Spec => []FeedInv
<1>1. FeedInv /\ [Next]_vars => FeedInv'
  <2> SUFFICES ASSUME FeedInv, [Next]_vars PROVE FeedInv'
    OBVIOUS
  <2>1. PlanInv'
    BY TypeStep, SearchStep, SortStep, VerdictStep DEF FeedInv, PlanInv
  <2>2. Checked' /\ NothingRan' /\ DoneRan' /\ ProducersRan'
    BY CheckedStep, NothingRanStep, DoneRanStep, ProducersStep
  <2>3. Planned' => RegionsSound(regions)'
    BY RegionsStep
  <2>4. Running' => PlansSound'
    BY PlansStep
  <2> QED BY <2>1, <2>2, <2>3, <2>4, EndStep DEF FeedInv
<1> QED
  BY <1>1, FeedInit, PTL DEF Spec

(* No node runs before a node it reads from that runs too, however deep    *)
(* either lies in loops (run_plan, _owner_unit).                           *)
THEOREM ProducersFirst == Spec => []FedFirst
<1>1. FeedInv => FedFirst
  <2> SUFFICES ASSUME FeedInv, Running, Fed, NEW e \in graph.edges,
                      ran[e[2]] > 0, e[1] \in Executed
               PROVE  ran[e[1]] > 0
    BY FedIsLoopsAreFed DEF FedFirst, Running
  <2>1. /\ e \in Nodes \X Nodes
        /\ \A n \in Nodes : <<n, n>> \notin graph.edges
    BY DEF FeedInv, PlanInv, TypeOK, Checked, Running
  <2>2. e = <<e[1], e[2]>> /\ e[1] \in Nodes /\ e[2] \in Nodes
    BY <2>1
  <2>3. e[1] \in _predecessors(e[2])
    BY <2>1, <2>2 DEF _predecessors
  <2> QED BY <2>2, <2>3 DEF FeedInv, ProducersRan
<1> QED
  BY <1>1, FeedInvariant, PTL

(* Of a loop whose nodes are needed and not cached, the start is needed:   *)
(* the search goes back from any of them, and leaves the loop there.       *)
LEMMA StartNeeded ==
  ASSUME FeedInv, Running, Fed, NEW p \in Loops, Owns(p) \cap request.cache = {},
         NEW n \in Owns(p) \cap needed
  PROVE  p \in needed
<1>1. RegionsSound(regions) /\ Acyclic
  BY AcyclicOnceSorted DEF FeedInv, Running, Planned
<1>2. p \in Nodes /\ Owns(p) \subseteq Nodes
  BY <1>1 DEF RegionsSound, Owns, Loops
<1>3. CASE request.whole
  BY <1>2, <1>3 DEF FeedInv, Checked, Running
<1>4. CASE ~request.whole
  <2> SUFFICES ASSUME p \notin needed PROVE FALSE
    OBVIOUS
  <2>1. \A k \in needed \ request.cache : _predecessors(k) \subseteq needed
    BY <1>4 DEF FeedInv, PlanInv, SearchInv, Searched, Running
  <2> DEFINE inside == Owns(p) \cap needed
  <2>2. PICK k \in inside : _predecessors(k) \cap inside = {}
    BY <1>1, <1>2 DEF Acyclic, Sourceless
  <2>3. _predecessors(k) \subseteq Owns(p) \cup {p}
    BY <1>1 DEF RegionsSound, Fed, Owns, Loops
  <2>4. _predecessors(k) = {}
    BY <2>1, <2>2, <2>3
  <2>5. k \in _descendants(p)
    BY <1>1, OwnedFollows
  <2>6. PICK m \in {p} \cup _descendants(p) : k \in _successors(m)
    BY <2>5, DescendantsChain
  <2>7. m \in Nodes
    BY <1>2, <2>6, DescendantsAreLeast
  <2>8. m \in _predecessors(k)
    BY <1>1, <1>2, <2>6, <2>7 DEF _predecessors, _successors, Acyclic
  <2> QED BY <2>4, <2>8
<1> QED BY <1>3, <1>4

(* When every loop is fed and no cached node lies inside one (the          *)
(* condition of TargetsRun), a finished run has executed each of its       *)
(* targets, those inside loops too, though the top level never schedules   *)
(* them (_needed_nodes).                                                   *)
THEOREM TargetsHaveRun == Spec => []TargetsRun
<1>1. FeedInv => TargetsRun
  <2> SUFFICES ASSUME FeedInv, stage = "done", Fed,
                      \A s \in Loops : Owns(s) \cap request.cache = {},
                      NEW n \in IF request.whole THEN Nodes ELSE request.targets
               PROVE  ran[n] > 0
    BY FedIsLoopsAreFed DEF TargetsRun
  <2>1. /\ RegionsSound(regions) /\ Acyclic /\ PlansSound /\ Running
        /\ plan[None].units \subseteq done[None] /\ None \in Scopes
    BY AcyclicOnceSorted DEF FeedInv, Running, Planned, Scopes
  <2>2. n \in needed
    BY DEF FeedInv, PlanInv, SearchInv, Searched, Checked
  <2>3. plan[None].units = needed \ owned(None)
    BY <2>1 DEF PlansSound
  <2>4. CASE n \notin owned(None)
    BY <2>1, <2>2, <2>3, <2>4 DEF FeedInv, DoneRan
  <2>5. CASE n \in owned(None)
    <3>1. PICK p \in Loops : p \notin owned(None) /\ n \in Owns(p)
      BY <2>1, <2>5, TopIsCovered
    <3>2. p \in done[None]
      BY <2>1, <2>2, <2>3, <3>1, StartNeeded
    <3> QED BY <2>1, <3>1, <3>2 DEF FeedInv, DoneRan
  <2> QED BY <2>4, <2>5
<1> QED
  BY <1>1, FeedInvariant, PTL

(* The scheduler stalls on no graph whose loops are fed: contracting each  *)
(* loop to its start leaves no cycle (_execute_impl).                      *)
THEOREM NeverStalls == Spec => []NoStall
<1>1. FeedInv => NoStall
  BY FedIsLoopsAreFed DEF FeedInv, NoStall
<1> QED
  BY <1>1, FeedInvariant, PTL

===========================================================================
