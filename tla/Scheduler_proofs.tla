-------------------------- MODULE Scheduler_proofs --------------------------
(***************************************************************************)
(* What the engine guarantees on every graph, with every nesting of loops  *)
(* and metanodes, every limit and every pattern of faults: SchedulerInv is *)
(* inductive, and the safety invariants of Scheduler follow from it.       *)
(*                                                                         *)
(* A step of a unit is either a Complete (RunNode, FinishLoop, a skip or   *)
(* a unit that came too late), or leaves "done" alone and moves one unit   *)
(* between two other positions; CompleteStep and MoveStep treat the two.   *)
(***************************************************************************)
EXTENDS Scheduler, TLAPS, FiniteSetTheorems

USE GraphAssumption, LimitAssumption

---------------------------------------------------------------------------
(* Counting                                                                *)

(* A counter of the units with a property follows the one unit that        *)
(* changes.                                                                *)
LEMMA CountStep ==
    ASSUME NEW S, NEW T, NEW u, IsFiniteSet(S),
           \A v : v # u => (v \in T <=> v \in S)
    PROVE  /\ IsFiniteSet(T)
           /\ Cardinality(S) \in Nat
           /\ Cardinality(T) = IF u \in S /\ u \notin T THEN Cardinality(S) - 1
                               ELSE IF u \notin S /\ u \in T THEN Cardinality(S) + 1
                               ELSE Cardinality(S)
<1>1. CASE u \in S /\ u \notin T
  <2>1. T = S \ {u}
    BY <1>1
  <2> QED BY <1>1, <2>1, FS_RemoveElement, FS_CardinalityType
<1>2. CASE u \notin S /\ u \in T
  <2>1. T = S \cup {u}
    BY <1>2
  <2> QED BY <1>2, <2>1, FS_AddElement, FS_CardinalityType
<1>3. CASE u \in S <=> u \in T
  <2>1. T \subseteq S /\ S \subseteq T
    BY <1>3
  <2>2. IsFiniteSet(T) /\ Cardinality(T) <= Cardinality(S)
    BY <2>1, FS_Subset
  <2>3. Cardinality(S) <= Cardinality(T)
    BY <2>1, <2>2, FS_Subset
  <2> QED BY <1>3, <2>2, <2>3, FS_CardinalityType
<1> QED BY <1>1, <1>2, <1>3

(* Any set of units is finite.                                             *)
LEMMA UnitsFinite ==
    ASSUME NEW S \in SUBSET Units
    PROVE  IsFiniteSet(S) /\ Cardinality(S) \in Nat
BY FS_Subset, FS_CardinalityType

---------------------------------------------------------------------------
(* Slots                                                                   *)

(* Slots are conserved by a step that changes what one unit holds and      *)
(* moves the free counters by the same amount.                             *)
LEMMA SlotsStep ==
    ASSUME SchedulerInv, NEW u \in Units,
           \A v \in Units \ {u} : (HoldsNode(v))' <=> HoldsNode(v),
           \A v \in Units \ {u} : (HoldsType(v))' <=> HoldsType(v),
           nodeFree' = IF HoldsNode(u) /\ ~(HoldsNode(u))' THEN nodeFree + 1
                       ELSE IF ~HoldsNode(u) /\ (HoldsNode(u))' THEN nodeFree - 1
                       ELSE nodeFree,
           typeFree' = [t \in Types |->
                       IF HoldsType(u) /\ ~(HoldsType(u))' /\ Type[u] = t THEN typeFree[t] + 1
                       ELSE IF ~HoldsType(u) /\ (HoldsType(u))' /\ Type[u] = t
                       THEN typeFree[t] - 1
                       ELSE typeFree[t]]
    PROVE  SlotsConserved'
<1> DEFINE N == {v \in Units : HoldsNode(v)}
           NP == {v \in Units : (HoldsNode(v))'}
           T(t) == {v \in Units : HoldsType(v) /\ Type[v] = t}
           TP(t) == {v \in Units : (HoldsType(v))' /\ Type[v] = t}
<1>1. nodeFree' + Cardinality(NP) = NodeLimit
  <2>1. nodeFree + Cardinality(N) = NodeLimit /\ nodeFree \in Nat
    BY DEF SchedulerInv, SlotsConserved
  <2>2. IsFiniteSet(N)
    BY UnitsFinite
  <2>3. \A v : v # u => (v \in NP <=> v \in N)
    OBVIOUS
  <2>4. /\ u \in N <=> HoldsNode(u)
        /\ u \in NP <=> (HoldsNode(u))'
    OBVIOUS
  <2> HIDE DEF N, NP
  <2>5. /\ Cardinality(N) \in Nat
        /\ Cardinality(NP) = IF u \in N /\ u \notin NP THEN Cardinality(N) - 1
                             ELSE IF u \notin N /\ u \in NP THEN Cardinality(N) + 1
                             ELSE Cardinality(N)
    BY <2>2, <2>3, CountStep
  <2> QED BY <2>1, <2>4, <2>5
<1>2. ASSUME NEW t \in Types
      PROVE  typeFree'[t] + Cardinality(TP(t)) = TypeLimit[t]
  <2>1. typeFree[t] + Cardinality(T(t)) = TypeLimit[t] /\ typeFree[t] \in Nat
    BY DEF SchedulerInv, SlotsConserved
  <2>2. IsFiniteSet(T(t))
    BY UnitsFinite
  <2>3. \A v : v # u => (v \in TP(t) <=> v \in T(t))
    OBVIOUS
  <2>4. /\ u \in T(t) <=> HoldsType(u) /\ Type[u] = t
        /\ u \in TP(t) <=> (HoldsType(u))' /\ Type[u] = t
    OBVIOUS
  <2>5. TypeLimit[t] \in Nat
    OBVIOUS
  <2> HIDE DEF T, TP
  <2>6. /\ Cardinality(T(t)) \in Nat
        /\ Cardinality(TP(t)) =
             IF u \in T(t) /\ u \notin TP(t) THEN Cardinality(T(t)) - 1
             ELSE IF u \notin T(t) /\ u \in TP(t) THEN Cardinality(T(t)) + 1
             ELSE Cardinality(T(t))
    BY <2>2, <2>3, CountStep
  <2> QED BY <2>1, <2>4, <2>5, <2>6
<1>3. /\ nodeFree' + Cardinality({v \in Units : (HoldsNode(v))'}) = NodeLimit
      /\ \A t \in Types : typeFree'[t]
            + Cardinality({v \in Units : (HoldsType(v))' /\ Type[v] = t}) = TypeLimit[t]
  BY <1>1, <1>2
<1> QED BY <1>3 DEF SlotsConserved

---------------------------------------------------------------------------
(* The two kinds of steps                                                  *)

(* The part of SchedulerInv that says what sort of value each variable is. *)
Shape ==
    /\ unit \in [Units -> UnitRows]
    /\ indegree \in [Units -> Int]
    /\ scope \in [Scopes -> ScopeRows]
    /\ nodeFree \in Nat
    /\ typeFree \in [Types -> Nat]
    /\ late \in BOOLEAN

(* A step that completes nothing: units change their position but none is  *)
(* done that was not, verdicts and counters stay, and a call only moves on *)
(* from idle to running and from running to its end.                       *)
Undone ==
    /\ unit' \in [Units -> UnitRows]
    /\ \A v \in Units : unit'[v].pc = "done" <=> unit[v].pc = "done"
    /\ \A v \in Units : unit[v].pc = "done" => unit'[v].status = unit[v].status
    /\ indegree' = indegree
    /\ scope' \in [Scopes -> ScopeRows]
    /\ \A s \in Scopes : /\ scope'[s].status = scope[s].status
                         /\ scope'[s].completed = scope[s].completed

(* The counters stay right when nothing completes.                         *)
LEMMA UndoneStep ==
    ASSUME SchedulerInv, Undone
    PROVE  IndegreeCounts' /\ VerdictSoFar'
<1>1. IndegreeCounts'
  <2> SUFFICES ASSUME NEW v \in Units
               PROVE  indegree'[v] = Cardinality({d \in Deps[v] : unit'[d].pc # "done"})
    BY DEF IndegreeCounts
  <2>1. {d \in Deps[v] : unit'[d].pc # "done"} = {d \in Deps[v] : unit[d].pc # "done"}
    BY DEF Undone
  <2> QED BY <2>1 DEF SchedulerInv, IndegreeCounts, Undone
<1>2. VerdictSoFar'
  <2> SUFFICES ASSUME NEW s \in Scopes
               PROVE  LET done == {u \in PlanOf(s) : unit'[u].pc = "done"} IN
                      /\ scope'[s].completed = Cardinality(done)
                      /\ \A u \in done :
                            _STATUS_RANK[unit'[u].status] <= _STATUS_RANK[scope'[s].status]
                      /\ \/ scope'[s].status = "success"
                         \/ \E u \in done : unit'[u].status = scope'[s].status
    BY DEF VerdictSoFar, PlanOf
  <2>1. {u \in PlanOf(s) : unit'[u].pc = "done"} = {u \in PlanOf(s) : unit[u].pc = "done"}
    BY DEF Undone, PlanOf
  <2>2. \A u \in PlanOf(s) : unit[u].pc = "done" => unit'[u].status = unit[u].status
    BY DEF Undone, PlanOf
  <2>3. scope'[s].status = scope[s].status /\ scope'[s].completed = scope[s].completed
    BY DEF Undone
  <2>4. /\ scope[s].completed = Cardinality({u \in PlanOf(s) : unit[u].pc = "done"})
        /\ \A u \in {u \in PlanOf(s) : unit[u].pc = "done"} :
              _STATUS_RANK[unit[u].status] <= _STATUS_RANK[scope[s].status]
        /\ \/ scope[s].status = "success"
           \/ \E u \in {u \in PlanOf(s) : unit[u].pc = "done"} :
                  unit[u].status = scope[s].status
    BY DEF SchedulerInv, VerdictSoFar
  <2> QED BY <2>1, <2>2, <2>3, <2>4
<1> QED BY <1>1, <1>2

(* The step gives no verdict, counts no completion and returns no call ... *)
CallsKept ==
    /\ scope' \in [Scopes -> ScopeRows]
    /\ \A s \in Scopes : /\ scope'[s].status = scope[s].status
                         /\ scope'[s].completed = scope[s].completed
                         /\ scope'[s].phase = "idle" => scope[s].phase = "idle"
                         /\ scope'[s].phase = "returned" => scope[s].phase = "returned"

(* ... or returns only calls whose units are all done.                     *)
CallsMoved ==
    /\ scope' \in [Scopes -> ScopeRows]
    /\ \A s \in Scopes : /\ scope'[s].status = scope[s].status
                         /\ scope'[s].completed = scope[s].completed
                         /\ scope'[s].phase = "idle" => scope[s].phase = "idle"
                         /\ scope'[s].phase = "returned" =>
                              \/ scope[s].phase = "returned"
                              \/ \A u \in PlanOf(s) : unit[u].pc = "done"

(* Call s goes to the given phase.                                         *)
SetPhase(s, phase) == scope' = [scope EXCEPT ![s].phase = phase]

(* Moving one unit that is in flight or queued to another such position,   *)
(* or to its failure or cancellation.                                      *)
LEMMA MoveStep ==
    ASSUME SchedulerInv, NEW u \in Units, NEW pc \in Pcs \ {"blocked", "done"},
           unit[u].pc \in InFlight \cup {"queued"},
           scope[ScopeOf[u]].phase \in {"running", "cancelling"},
           Move(u, pc), indegree' = indegree, UNCHANGED late,
           CallsKept,
           nodeFree' \in Nat, typeFree' \in [Types -> Nat],
           SlotsConserved'
    PROVE  SchedulerInv'
<1>0. /\ scope' \in [Scopes -> ScopeRows]
      /\ \A s \in Scopes : /\ scope'[s].status = scope[s].status
                           /\ scope'[s].completed = scope[s].completed
                           /\ scope'[s].phase = "idle" => scope[s].phase = "idle"
                           /\ scope'[s].phase = "returned" => scope[s].phase = "returned"
  BY DEF CallsKept
<1>1. /\ unit' = [unit EXCEPT ![u].pc = pc]
      /\ unit \in [Units -> UnitRows]
  BY DEF Move, SchedulerInv
<1>2. /\ unit' \in [Units -> UnitRows]
      /\ unit'[u].pc = pc
      /\ \A v \in Units : v # u => unit'[v] = unit[v]
      /\ \A v \in Units : unit'[v].status = unit[v].status
  <2>1. unit[u] \in UnitRows /\ unit'[u] = [unit[u] EXCEPT !.pc = pc]
    BY <1>1
  <2>2. unit'[u] \in UnitRows /\ unit'[u].pc = pc /\ unit'[u].status = unit[u].status
    <3> DEFINE row == unit[u]
    <3>1. row \in UnitRows
      BY <2>1
    <3> HIDE DEF row
    <3>2. [row EXCEPT !.pc = pc] \in UnitRows
      BY <3>1 DEF UnitRows
    <3>3. [row EXCEPT !.pc = pc].pc = pc /\ [row EXCEPT !.pc = pc].status = row.status
      BY <3>1 DEF UnitRows
    <3> QED BY <2>1, <3>2, <3>3 DEF row
  <2>3. \A v \in Units : v # u => unit'[v] = unit[v]
    BY <1>1
  <2>4. unit' \in [Units -> UnitRows]
    BY <1>1, <2>2
  <2> QED BY <2>2, <2>3, <2>4
<1>3. unit[u].pc \notin {"blocked", "done"}
  BY DEF InFlight
<1>4. Undone
  BY <1>0, <1>2, <1>3 DEF Undone
<1>5. IndegreeCounts' /\ VerdictSoFar'
  BY <1>4, UndoneStep
<1>6. StartsAfterDeps'
  <2> SUFFICES ASSUME NEW v \in Units, unit'[v].pc # "blocked", NEW d \in Deps[v]
               PROVE  unit'[d].pc = "done"
    BY DEF StartsAfterDeps
  <2>1. unit[v].pc # "blocked" /\ d \in Units
    BY <1>2, <1>3
  <2>2. unit[d].pc = "done"
    BY <2>1 DEF SchedulerInv, StartsAfterDeps
  <2> QED BY <2>1, <2>2, <1>2, <1>3
<1>7. \A v \in Units : scope'[ScopeOf[v]].phase = "idle" => unit'[v].pc = "blocked"
  BY <1>0, <1>2 DEF SchedulerInv
<1>8. \A s \in Scopes : scope'[s].phase = "returned"
                        => \A v \in PlanOf(s) : unit'[v].pc = "done"
  BY <1>0, <1>2, <1>3 DEF SchedulerInv, PlanOf
<1>9. /\ indegree' \in [Units -> Int]
      /\ late' \in BOOLEAN
  BY DEF SchedulerInv
<1> QED BY <1>0, <1>2, <1>5, <1>6, <1>7, <1>8, <1>9 DEF SchedulerInv

(* The worse of two verdicts is one of them and at least as bad as both.   *)
LEMMA WorseStatus ==
    ASSUME NEW a \in RunStatus, NEW b \in RunStatus
    PROVE  /\ _worse_status(a, b) \in {a, b}
           /\ _STATUS_RANK[a] <= _STATUS_RANK[_worse_status(a, b)]
           /\ _STATUS_RANK[b] <= _STATUS_RANK[_worse_status(a, b)]
           /\ _worse_status(a, b) = "success" => a = "success" /\ b = "success"
BY DEF _worse_status, _STATUS_RANK, RunStatus

(* A call's row with a new verdict and one more completion.                *)
Counted(row, verdict) == [row EXCEPT !.status = verdict, !.completed = row.completed + 1]

LEMMA CountedRow ==
    ASSUME NEW row \in ScopeRows, NEW verdict \in RunStatus
    PROVE  /\ Counted(row, verdict) \in ScopeRows
           /\ Counted(row, verdict).phase = row.phase
           /\ Counted(row, verdict).status = verdict
           /\ Counted(row, verdict).completed = row.completed + 1
<1>1. row.completed + 1 \in Nat
  BY DEF ScopeRows
<1> QED BY <1>1 DEF ScopeRows, Counted

(* A unit completes: its dependents' counters drop together, and those     *)
(* that waited for it alone are queued.                                    *)
LEMMA CompleteStep ==
    ASSUME SchedulerInv, NEW u \in Units, NEW status \in RunStatus,
           NEW taken \in SUBSET Units,
           unit[u].pc \in InFlight \cup {"queued"}, Working(u),
           Complete(u, status, taken)
    PROVE  SchedulerInv'
<1> DEFINE Undone0(v) == {d \in Deps[v] : unit[d].pc # "done"}
           Undone1(v) == {d \in Deps[v] : unit'[d].pc # "done"}
<1>1. Shape /\ ScopeOf[u] \in Scopes /\ unit[u].pc \notin {"blocked", "done"}
  BY DEF SchedulerInv, Shape, InFlight
<1>2. \A v \in Dependents(u) : v \in Units /\ unit[v].pc = "blocked" /\ ScopeOf[v] = ScopeOf[u]
  BY <1>1 DEF SchedulerInv, StartsAfterDeps, Dependents
<1>3. /\ unit'[u] = [pc |-> "done", status |-> status, taken |-> taken]
      /\ \A v \in Units : v # u /\ ~(v \in Dependents(u) /\ indegree[v] = 1)
                            => unit'[v] = unit[v]
      /\ \A v \in Units : v # u /\ v \in Dependents(u) /\ indegree[v] = 1
                            => unit'[v] = [unit[v] EXCEPT !.pc = "queued"]
  BY DEF Complete
<1>4. \A v \in Units : /\ unit'[v] \in UnitRows
                       /\ v # u => unit'[v].status = unit[v].status
                       /\ v # u => unit'[v].pc = IF v \in Dependents(u) /\ indegree[v] = 1
                                                THEN "queued" ELSE unit[v].pc
  <2> SUFFICES ASSUME NEW v \in Units
               PROVE  /\ unit'[v] \in UnitRows
                      /\ v # u => unit'[v].status = unit[v].status
                      /\ v # u => unit'[v].pc = IF v \in Dependents(u) /\ indegree[v] = 1
                                               THEN "queued" ELSE unit[v].pc
    OBVIOUS
  <2>1. CASE v = u
    <3>1. [pc |-> "done", status |-> status, taken |-> taken] \in UnitRows
      BY DEF UnitRows, Pcs
    <3> QED BY <2>1, <3>1, <1>3
  <2>2. CASE v # u /\ v \in Dependents(u) /\ indegree[v] = 1
    <3> DEFINE row == unit[v]
    <3>1. row \in UnitRows
      BY <1>1 DEF Shape
    <3> HIDE DEF row
    <3>2. /\ [row EXCEPT !.pc = "queued"] \in UnitRows
          /\ [row EXCEPT !.pc = "queued"].pc = "queued"
          /\ [row EXCEPT !.pc = "queued"].status = row.status
      BY <3>1 DEF UnitRows, Pcs
    <3>3. unit'[v] = [row EXCEPT !.pc = "queued"]
      BY <2>2, <1>3 DEF row
    <3> QED BY <2>2, <3>2, <3>3 DEF row
  <2>3. CASE v # u /\ ~(v \in Dependents(u) /\ indegree[v] = 1)
    BY <2>3, <1>1, <1>3 DEF Shape
  <2> QED BY <2>1, <2>2, <2>3
<1>5. unit'[u].pc = "done" /\ unit'[u].status = status
  BY <1>3
<1>6. \A v \in Units : unit'[v].pc = "done" <=> v = u \/ unit[v].pc = "done"
  BY <1>2, <1>4, <1>5
<1>7. \A v \in Units : indegree'[v] = IF v \in Dependents(u) THEN indegree[v] - 1 ELSE indegree[v]
  BY DEF Complete
<1>8. indegree' \in [Units -> Int] /\ unit' \in [Units -> UnitRows]
  <2>1. /\ indegree' = [v \in Units |->
                        IF v \in Dependents(u) THEN indegree[v] - 1 ELSE indegree[v]]
        /\ indegree \in [Units -> Int]
    BY <1>1 DEF Complete, Shape
  <2>2. indegree' \in [Units -> Int]
    BY <2>1
  <2>3. DOMAIN unit' = Units /\ unit' = [v \in Units |-> unit'[v]]
    BY DEF Complete
  <2>4. unit' \in [Units -> UnitRows]
    BY <2>3, <1>4
  <2> QED BY <2>2, <2>4
<1>9. ASSUME NEW v \in Units
      PROVE  /\ IsFiniteSet(Undone1(v))
             /\ Cardinality(Undone0(v)) \in Nat
             /\ indegree'[v] = Cardinality(Undone1(v))
  <2>1. indegree[v] = Cardinality(Undone0(v))
    BY DEF SchedulerInv, IndegreeCounts
  <2>2. Undone0(v) \in SUBSET Units /\ Undone1(v) \in SUBSET Units
    OBVIOUS
  <2>3. IsFiniteSet(Undone0(v)) /\ IsFiniteSet(Undone1(v)) /\ Cardinality(Undone0(v)) \in Nat
    BY <2>2, UnitsFinite
  <2>4. \A d : d # u => (d \in Undone1(v) <=> d \in Undone0(v))
    BY <1>6
  <2>5. u \notin Undone1(v) /\ (u \in Undone0(v) <=> v \in Dependents(u))
    BY <1>1, <1>5 DEF Dependents
  <2> HIDE DEF Undone0, Undone1
  <2>6. Cardinality(Undone1(v)) = IF u \in Undone0(v) THEN Cardinality(Undone0(v)) - 1
                                  ELSE Cardinality(Undone0(v))
    BY <2>3, <2>4, <2>5, CountStep
  <2> QED BY <2>1, <2>3, <2>5, <2>6, <1>7
<1>10. IndegreeCounts'
  BY <1>9 DEF IndegreeCounts
<1>11. StartsAfterDeps'
  <2> SUFFICES ASSUME NEW v \in Units, unit'[v].pc # "blocked", NEW d \in Deps[v]
               PROVE  unit'[d].pc = "done"
    BY DEF StartsAfterDeps
  <2>1. d \in Units
    OBVIOUS
  <2>2. CASE unit[v].pc # "blocked"
    <3>1. unit[d].pc = "done"
      BY <2>2 DEF SchedulerInv, StartsAfterDeps
    <3> QED BY <3>1, <2>1, <1>6
  <2>3. CASE unit[v].pc = "blocked"
    <3>1. v # u /\ v \in Dependents(u) /\ indegree[v] = 1
      BY <2>3, <1>1, <1>4
    <3>2. indegree'[v] = 0
      BY <3>1, <1>7
    <3>3. Undone1(v) = {}
      BY <3>2, <1>9, FS_EmptySet
    <3> QED BY <3>3
  <2> QED BY <2>2, <2>3
<1>12. /\ scope' = [scope EXCEPT ![ScopeOf[u]].status = _worse_status(@, status),
                                 ![ScopeOf[u]].completed = @ + 1]
       /\ scope \in [Scopes -> ScopeRows]
  BY <1>1 DEF Complete, Shape
<1>13. /\ scope' \in [Scopes -> ScopeRows]
       /\ \A s \in Scopes : scope'[s].phase = scope[s].phase
       /\ \A s \in Scopes : s # ScopeOf[u] => scope'[s] = scope[s]
       /\ scope'[ScopeOf[u]].status = _worse_status(scope[ScopeOf[u]].status, status)
       /\ scope'[ScopeOf[u]].completed = scope[ScopeOf[u]].completed + 1
  <2> DEFINE row == scope[ScopeOf[u]]
             worse == _worse_status(row.status, status)
             new == Counted(row, worse)
  <2>1. row \in ScopeRows
    BY <1>1, <1>12
  <2>2. scope'[ScopeOf[u]] = new /\ \A s \in Scopes : s # ScopeOf[u] => scope'[s] = scope[s]
    BY <1>1, <1>12 DEF Counted
  <2> HIDE DEF row
  <2>3. row.status \in RunStatus
    BY <2>1 DEF ScopeRows
  <2>4. worse \in RunStatus
    BY <2>3, WorseStatus
  <2> HIDE DEF worse
  <2>5. /\ new \in ScopeRows /\ new.phase = row.phase
        /\ new.status = worse
        /\ new.completed = row.completed + 1
    BY <2>1, <2>4, CountedRow
  <2> HIDE DEF new
  <2>6. scope' \in [Scopes -> ScopeRows]
    BY <2>2, <2>5, <1>12
  <2> QED BY <2>2, <2>5, <2>6 DEF row, worse
<1>14. VerdictSoFar'
  <2> SUFFICES ASSUME NEW s \in Scopes
               PROVE  LET done == {v \in PlanOf(s) : unit'[v].pc = "done"} IN
                      /\ scope'[s].completed = Cardinality(done)
                      /\ \A v \in done :
                            _STATUS_RANK[unit'[v].status] <= _STATUS_RANK[scope'[s].status]
                      /\ \/ scope'[s].status = "success"
                         \/ \E v \in done : unit'[v].status = scope'[s].status
    BY DEF VerdictSoFar, PlanOf
  <2> DEFINE D0 == {v \in PlanOf(s) : unit[v].pc = "done"}
             D1 == {v \in PlanOf(s) : unit'[v].pc = "done"}
  <2>1. /\ scope[s].completed = Cardinality(D0)
        /\ \A v \in D0 : _STATUS_RANK[unit[v].status] <= _STATUS_RANK[scope[s].status]
        /\ \/ scope[s].status = "success"
           \/ \E v \in D0 : unit[v].status = scope[s].status
    BY DEF SchedulerInv, VerdictSoFar
  <2>2. /\ D0 \subseteq Units /\ D1 \subseteq Units
        /\ \A v : v # u => (v \in D1 <=> v \in D0)
        /\ u \notin D0
        /\ u \in D1 <=> s = ScopeOf[u]
    BY <1>1, <1>5, <1>6 DEF PlanOf
  <2>3. \A v \in D0 : unit'[v].status = unit[v].status /\ unit[v].status \in RunStatus
    <3>1. \A v \in D0 : unit[v] \in UnitRows
      BY <2>2, <1>1 DEF Shape
    <3> QED BY <2>2, <3>1, <1>4 DEF UnitRows
  <2>4. IsFiniteSet(D0)
    BY <2>2, UnitsFinite
  <2> HIDE DEF D0, D1
  <2>5. Cardinality(D0) \in Nat
        /\ Cardinality(D1) = IF u \in D1 THEN Cardinality(D0) + 1 ELSE Cardinality(D0)
    BY <2>2, <2>4, CountStep
  <2>6. scope[s].status \in RunStatus
    <3>1. scope[s] \in ScopeRows
      BY <1>12
    <3> QED BY <3>1 DEF ScopeRows
  <2>7. CASE s # ScopeOf[u]
    <3>1. scope'[s] = scope[s] /\ \A v : v \in D1 <=> v \in D0
      BY <2>7, <2>2, <1>13
    <3>2. /\ scope'[s].completed = Cardinality(D1)
          /\ \A v \in D1 : _STATUS_RANK[unit'[v].status] <= _STATUS_RANK[scope'[s].status]
          /\ scope'[s].status = "success" \/ \E v \in D1 : unit'[v].status = scope'[s].status
      BY <3>1, <2>7, <2>1, <2>2, <2>3, <2>5
    <3> QED BY <3>2 DEF D1
  <2>8. CASE s = ScopeOf[u]
    <3> DEFINE old == scope[s].status
               new == scope'[s].status
    <3>1. new = _worse_status(old, status) /\ scope'[s].completed = scope[s].completed + 1
      BY <2>8, <1>13
    <3>2. /\ new \in {old, status}
          /\ _STATUS_RANK[old] <= _STATUS_RANK[new]
          /\ _STATUS_RANK[status] <= _STATUS_RANK[new]
      BY <3>1, <2>6, WorseStatus
    <3>3. \A r \in RunStatus : _STATUS_RANK[r] \in Int
      BY DEF RunStatus, _STATUS_RANK
    <3>4. new \in RunStatus /\ old \in RunStatus
      BY <3>2, <2>6
    <3>5. scope'[s].completed = Cardinality(D1)
      BY <3>1, <2>8, <2>1, <2>2, <2>5
    <3>6. ASSUME NEW v \in D1
          PROVE  _STATUS_RANK[unit'[v].status] <= _STATUS_RANK[new]
      <4>1. CASE v = u
        BY <4>1, <3>2, <1>5
      <4>2. CASE v # u
        <5>1. v \in D0
          BY <4>2, <2>2
        <5>2. /\ _STATUS_RANK[unit'[v].status] <= _STATUS_RANK[old]
              /\ unit'[v].status \in RunStatus
          BY <5>1, <2>1, <2>3
        <5> QED BY <5>2, <3>2, <3>3, <3>4
      <4> QED BY <4>1, <4>2
    <3>7. new = "success" \/ \E v \in D1 : unit'[v].status = new
      <4>1. CASE new = status
        BY <4>1, <2>2, <2>8, <1>5
      <4>2. CASE new = old
        BY <4>2, <2>1, <2>2, <2>3
      <4> QED BY <4>1, <4>2, <3>2
    <3> QED BY <3>5, <3>6, <3>7 DEF D1
  <2> QED BY <2>7, <2>8
<1>15. \A v \in Units : scope'[ScopeOf[v]].phase = "idle" => unit'[v].pc = "blocked"
  <2> SUFFICES ASSUME NEW v \in Units, scope'[ScopeOf[v]].phase = "idle"
               PROVE  unit'[v].pc = "blocked"
    OBVIOUS
  <2>1. scope[ScopeOf[v]].phase = "idle" /\ unit[v].pc = "blocked"
    BY <1>13 DEF SchedulerInv
  <2>2. ScopeOf[v] # ScopeOf[u]
    BY <2>1 DEF Working
  <2>3. v # u /\ v \notin Dependents(u)
    BY <2>2, <1>2
  <2> QED BY <2>1, <2>3, <1>4
<1>16. \A s \in Scopes : scope'[s].phase = "returned"
                        => \A v \in PlanOf(s) : unit'[v].pc = "done"
  BY <1>6, <1>13 DEF SchedulerInv, PlanOf
<1>17. SlotsConserved' /\ nodeFree' \in Nat /\ typeFree' \in [Types -> Nat]
  <2>1. ~(HoldsNode(u))' /\ ~(HoldsType(u))'
    BY <1>5 DEF HoldsNode, HoldsType
  <2>2. \A v \in Units \ {u} : (HoldsNode(v))' <=> HoldsNode(v)
    BY <1>2, <1>4 DEF HoldsNode, InMetanode
  <2>5. \A v \in Units \ {u} : (HoldsType(v))' <=> HoldsType(v)
    BY <1>2, <1>4 DEF HoldsType, TypeLimited, InMetanode
  <2>3. /\ typeFree' = [t \in Types |->
                  IF HoldsType(u) /\ Type[u] = t THEN typeFree[t] + 1 ELSE typeFree[t]]
        /\ nodeFree' = IF HoldsNode(u) THEN nodeFree + 1 ELSE nodeFree
    BY DEF Complete, ReleaseSlots
  <2>4. /\ nodeFree' = IF HoldsNode(u) /\ ~(HoldsNode(u))' THEN nodeFree + 1
                       ELSE IF ~HoldsNode(u) /\ (HoldsNode(u))' THEN nodeFree - 1
                       ELSE nodeFree
        /\ typeFree' = [t \in Types |->
                IF HoldsType(u) /\ ~(HoldsType(u))' /\ Type[u] = t THEN typeFree[t] + 1
                ELSE IF ~HoldsType(u) /\ (HoldsType(u))' /\ Type[u] = t THEN typeFree[t] - 1
                ELSE typeFree[t]]
    BY <2>1, <2>3
  <2>7. SlotsConserved'
    BY <2>2, <2>4, <2>5, SlotsStep
  <2>6. nodeFree' \in Nat /\ typeFree' \in [Types -> Nat]
    BY <2>3, <1>1 DEF Shape
  <2> QED BY <2>6, <2>7
<1>18. late' \in BOOLEAN
  BY <1>1 DEF Complete, Shape
<1> QED
  BY <1>8, <1>10, <1>11, <1>13, <1>14, <1>15, <1>16, <1>17, <1>18 DEF SchedulerInv

---------------------------------------------------------------------------
(* The actions                                                             *)

(* What moving one unit changes in the slots that are held.                *)
LEMMA MoveHolds ==
    ASSUME SchedulerInv, NEW u \in Units, NEW pc \in Pcs, Move(u, pc)
    PROVE  /\ \A v \in Units \ {u} : (HoldsNode(v))' <=> HoldsNode(v)
           /\ \A v \in Units \ {u} : (HoldsType(v))' <=> HoldsType(v)
           /\ (HoldsNode(u))' <=> pc = "running" /\ ~InMetanode(ScopeOf[u])
           /\ (HoldsType(u))' <=> /\ TypeLimited(u)
                                  /\ pc \in {"node_wait", "running", "driving", "aborting"}
<1>1. /\ unit'[u].pc = pc
      /\ \A v \in Units \ {u} : unit'[v] = unit[v]
  <2>1. unit' = [unit EXCEPT ![u].pc = pc] /\ unit \in [Units -> UnitRows]
    BY DEF Move, SchedulerInv
  <2>2. unit'[u] = [unit[u] EXCEPT !.pc = pc] /\ unit[u] \in UnitRows
    BY <2>1
  <2>3. unit'[u].pc = pc
    BY <2>2 DEF UnitRows
  <2> QED BY <2>1, <2>3
<1>2. \A v \in Units \ {u} : (HoldsNode(v))' <=> HoldsNode(v)
  BY <1>1 DEF HoldsNode, InMetanode
<1>3. \A v \in Units \ {u} : (HoldsType(v))' <=> HoldsType(v)
  BY <1>1 DEF HoldsType, TypeLimited, InMetanode
<1>4. (HoldsNode(u))' <=> pc = "running" /\ ~InMetanode(ScopeOf[u])
  BY <1>1 DEF HoldsNode, InMetanode
<1>5. (HoldsType(u))' <=> /\ TypeLimited(u)
                          /\ pc \in {"node_wait", "running", "driving", "aborting"}
  BY <1>1 DEF HoldsType, TypeLimited, InMetanode
<1> QED BY <1>2, <1>3, <1>4, <1>5

(* A step that only moves the phases of calls.                             *)
LEMMA PhaseStep ==
    ASSUME SchedulerInv, UNCHANGED <<unit, indegree, nodeFree, typeFree, late>>, CallsMoved
    PROVE  SchedulerInv'
<1>0. /\ scope' \in [Scopes -> ScopeRows]
      /\ \A s \in Scopes : /\ scope'[s].status = scope[s].status
                           /\ scope'[s].completed = scope[s].completed
                           /\ scope'[s].phase = "idle" => scope[s].phase = "idle"
                           /\ scope'[s].phase = "returned" =>
                                \/ scope[s].phase = "returned"
                                \/ \A u \in PlanOf(s) : unit[u].pc = "done"
  BY DEF CallsMoved
<1>1. Undone
  BY <1>0 DEF Undone, SchedulerInv
<1>2. IndegreeCounts' /\ VerdictSoFar'
  BY <1>1, UndoneStep
<1>3. StartsAfterDeps'
  BY DEF SchedulerInv, StartsAfterDeps
<1>4. SlotsConserved'
  BY DEF SchedulerInv, SlotsConserved, HoldsNode, HoldsType, TypeLimited, InMetanode
<1>5. \A u \in Units : scope'[ScopeOf[u]].phase = "idle" => unit'[u].pc = "blocked"
  BY <1>0 DEF SchedulerInv
<1>6. \A s \in Scopes : scope'[s].phase = "returned" => \A u \in PlanOf(s) : unit'[u].pc = "done"
  BY <1>0 DEF SchedulerInv, PlanOf
<1> QED BY <1>0, <1>2, <1>3, <1>4, <1>5, <1>6 DEF SchedulerInv

(* Setting the phase of a call leaves its verdict and its count.           *)
LEMMA PhaseRow ==
    ASSUME scope \in [Scopes -> ScopeRows], NEW s \in Scopes,
           NEW phase \in {"running", "cancelling", "returned", "raised"},
           SetPhase(s, phase)
    PROVE  /\ scope' \in [Scopes -> ScopeRows]
           /\ \A c \in Scopes : /\ scope'[c].status = scope[c].status
                                /\ scope'[c].completed = scope[c].completed
                                /\ scope'[c].phase = IF c = s THEN phase ELSE scope[c].phase
<1> DEFINE row == scope[s]
           new == [row EXCEPT !.phase = phase]
<1> USE DEF SetPhase
<1>1. row \in ScopeRows /\ scope'[s] = new
  OBVIOUS
<1>2. \A c \in Scopes : c # s => scope'[c] = scope[c]
  OBVIOUS
<1> HIDE DEF row
<1>3. new \in ScopeRows /\ new.phase = phase /\ new.status = row.status
      /\ new.completed = row.completed
  BY <1>1 DEF ScopeRows
<1> HIDE DEF new
<1>4. scope' \in [Scopes -> ScopeRows]
  BY <1>1, <1>3
<1> QED BY <1>1, <1>2, <1>3, <1>4 DEF row

(* The same for a driver's interruption of its rows.                       *)
LEMMA InterruptedRows ==
    ASSUME scope \in [Scopes -> ScopeRows], NEW u, scope' = Interrupted(u)
    PROVE  CallsKept
<1>1. ASSUME NEW c \in Scopes
      PROVE  /\ scope'[c] \in ScopeRows
             /\ scope'[c].status = scope[c].status
             /\ scope'[c].completed = scope[c].completed
             /\ scope'[c].phase = "idle" => scope[c].phase = "idle"
             /\ scope'[c].phase = "returned" => scope[c].phase = "returned"
  <2> DEFINE row == scope[c]
             new == [row EXCEPT !.phase = "cancelling"]
  <2>1. row \in ScopeRows /\ (scope'[c] = row \/ scope'[c] = new)
    BY DEF Interrupted
  <2> HIDE DEF row
  <2>2. /\ new \in ScopeRows /\ new.phase = "cancelling" /\ new.status = row.status
        /\ new.completed = row.completed
    BY <2>1 DEF ScopeRows
  <2> HIDE DEF new
  <2> QED BY <2>1, <2>2 DEF row
<1>2. scope' = [c \in Scopes |-> scope'[c]]
  BY DEF Interrupted
<1>3. scope' \in [Scopes -> ScopeRows]
  BY <1>1, <1>2
<1> QED BY <1>1, <1>3 DEF CallsKept

(* The units that have nothing to wait for are queued when a call begins.  *)
LEMMA BeginStep ==
    ASSUME SchedulerInv, NEW s \in Scopes, scope[s].phase = "idle",
           scope' = [scope EXCEPT ![s].phase = "running"],
           unit' = Begun(s),
           UNCHANGED <<indegree, nodeFree, typeFree, late>>
    PROVE  SchedulerInv'
<1>1. Shape
  BY DEF SchedulerInv, Shape
<1>2. /\ scope' \in [Scopes -> ScopeRows]
      /\ \A c \in Scopes : /\ scope'[c].status = scope[c].status
                           /\ scope'[c].completed = scope[c].completed
                           /\ scope'[c].phase = IF c = s THEN "running" ELSE scope[c].phase
  <2>1. scope \in [Scopes -> ScopeRows]
    BY <1>1 DEF Shape
  <2> HIDE DEF Shape
  <2>2. "running" \in {"running", "cancelling", "returned", "raised"}
    OBVIOUS
  <2>3. SetPhase(s, "running")
    BY DEF SetPhase
  <2> QED BY <2>1, <2>2, <2>3, PhaseRow
<1>3. \A v \in Units : ScopeOf[v] = s => unit[v].pc = "blocked"
  BY DEF SchedulerInv
<1>4. ASSUME NEW v \in Units
      PROVE  /\ unit'[v] \in UnitRows
             /\ unit'[v].status = unit[v].status
             /\ unit'[v].pc = IF ScopeOf[v] = s /\ indegree[v] = 0 THEN "queued" ELSE unit[v].pc
  <2> DEFINE row == unit[v]
             new == [row EXCEPT !.pc = "queued"]
  <2>1. row \in UnitRows /\ unit'[v] = IF ScopeOf[v] = s /\ indegree[v] = 0 THEN new ELSE row
    BY <1>1 DEF Begun, Shape
  <2> HIDE DEF row
  <2>2. new \in UnitRows /\ new.pc = "queued" /\ new.status = row.status
    BY <2>1 DEF UnitRows, Pcs
  <2> HIDE DEF new
  <2> QED BY <2>1, <2>2 DEF row
<1>5. unit' \in [Units -> UnitRows]
  <2>1. unit' = [v \in Units |-> unit'[v]]
    BY DEF Begun
  <2> QED BY <2>1, <1>4
<1>6. Undone
  BY <1>2, <1>3, <1>4, <1>5 DEF Undone
<1>7. IndegreeCounts' /\ VerdictSoFar'
  BY <1>6, UndoneStep
<1>8. StartsAfterDeps'
  <2> SUFFICES ASSUME NEW v \in Units, unit'[v].pc # "blocked", NEW d \in Deps[v]
               PROVE  unit'[d].pc = "done"
    BY DEF StartsAfterDeps
  <2>1. d \in Units
    OBVIOUS
  <2>2. CASE unit[v].pc # "blocked"
    <3>1. unit[d].pc = "done"
      BY <2>2 DEF SchedulerInv, StartsAfterDeps
    <3> QED BY <3>1, <2>1, <1>6 DEF Undone
  <2>3. CASE unit[v].pc = "blocked"
    <3>1. indegree[v] = 0
      BY <2>3, <1>4
    <3> DEFINE Open == {e \in Deps[v] : unit[e].pc # "done"}
    <3>2. IsFiniteSet(Open) /\ Cardinality(Open) = 0
      <4>1. Open \in SUBSET Units
        OBVIOUS
      <4>2. IsFiniteSet(Open)
        BY <4>1, UnitsFinite
      <4>3. indegree[v] = Cardinality(Open)
        BY DEF SchedulerInv, IndegreeCounts
      <4> QED BY <4>2, <4>3, <3>1
    <3>3. Open = {}
      BY <3>2, FS_EmptySet
    <3>4. unit[d].pc = "done"
      BY <3>3
    <3> QED BY <3>4, <2>1, <1>6 DEF Undone
  <2> QED BY <2>2, <2>3
<1>9. SlotsConserved'
  <2>1. \A v \in Units : (HoldsNode(v))' <=> HoldsNode(v)
    BY <1>3, <1>4 DEF HoldsNode, InMetanode
  <2>2. \A v \in Units : (HoldsType(v))' <=> HoldsType(v)
    BY <1>3, <1>4 DEF HoldsType, TypeLimited, InMetanode
  <2>3. {v \in Units : (HoldsNode(v))'} = {v \in Units : HoldsNode(v)}
    BY <2>1
  <2>4. \A t \in Types : {v \in Units : (HoldsType(v))' /\ Type[v] = t}
                        = {v \in Units : HoldsType(v) /\ Type[v] = t}
    BY <2>2
  <2>5. nodeFree' + Cardinality({v \in Units : (HoldsNode(v))'}) = NodeLimit
    BY <2>3 DEF SchedulerInv, SlotsConserved
  <2>6. \A t \in Types : typeFree'[t]
            + Cardinality({v \in Units : (HoldsType(v))' /\ Type[v] = t}) = TypeLimit[t]
    BY <2>4 DEF SchedulerInv, SlotsConserved
  <2> QED BY <2>5, <2>6 DEF SlotsConserved
<1>10. \A v \in Units : scope'[ScopeOf[v]].phase = "idle" => unit'[v].pc = "blocked"
  BY <1>2, <1>4 DEF SchedulerInv
<1>11. \A c \in Scopes : scope'[c].phase = "returned"
                         => \A v \in PlanOf(c) : unit'[v].pc = "done"
  BY <1>2, <1>6 DEF SchedulerInv, PlanOf, Undone
<1> QED BY <1>1, <1>2, <1>5, <1>7, <1>8, <1>9, <1>10, <1>11 DEF SchedulerInv, Shape

(* A unit's move that neither takes nor returns a slot.                    *)
LEMMA FreeMove ==
    ASSUME SchedulerInv, NEW u \in Units, NEW pc \in Pcs \ {"blocked", "done"},
           unit[u].pc \in InFlight \cup {"queued"},
           scope[ScopeOf[u]].phase \in {"running", "cancelling"},
           Move(u, pc), UNCHANGED <<indegree, nodeFree, typeFree, late>>,
           (HoldsNode(u))' <=> HoldsNode(u), (HoldsType(u))' <=> HoldsType(u),
           CallsKept
    PROVE  SchedulerInv'
<1>1. nodeFree \in Nat /\ typeFree \in [Types -> Nat]
  BY DEF SchedulerInv
<1>2. typeFree = [t \in Types |-> typeFree[t]]
  BY <1>1
<1>3. \A v \in Units \ {u} : (HoldsNode(v))' <=> HoldsNode(v)
  BY MoveHolds
<1>4. \A v \in Units \ {u} : (HoldsType(v))' <=> HoldsType(v)
  BY MoveHolds
<1>5. nodeFree' = IF HoldsNode(u) /\ ~(HoldsNode(u))' THEN nodeFree + 1
                  ELSE IF ~HoldsNode(u) /\ (HoldsNode(u))' THEN nodeFree - 1
                  ELSE nodeFree
  OBVIOUS
<1>6. typeFree' = [t \in Types |->
                IF HoldsType(u) /\ ~(HoldsType(u))' /\ Type[u] = t THEN typeFree[t] + 1
                ELSE IF ~HoldsType(u) /\ (HoldsType(u))' /\ Type[u] = t THEN typeFree[t] - 1
                ELSE typeFree[t]]
  BY <1>2
<1>7. SlotsConserved'
  BY <1>3, <1>4, <1>5, <1>6, SlotsStep
<1> QED BY <1>1, <1>7, MoveStep

(* A unit that fails or is cancelled returns what it holds.                *)
LEMMA ReleasingMove ==
    ASSUME SchedulerInv, NEW u \in Units, NEW pc \in {"failed", "cancelled"},
           unit[u].pc \in InFlight \cup {"queued"},
           scope[ScopeOf[u]].phase \in {"running", "cancelling"},
           Move(u, pc), ReleaseSlots(u), UNCHANGED <<indegree, scope, late>>
    PROVE  SchedulerInv'
<1>1. pc \in Pcs \ {"blocked", "done"} /\ pc \notin {"node_wait", "running", "driving", "aborting"}
  BY DEF Pcs
<1>2. nodeFree \in Nat /\ typeFree \in [Types -> Nat] /\ scope \in [Scopes -> ScopeRows]
  BY DEF SchedulerInv
<1>3. ~(HoldsNode(u))' /\ ~(HoldsType(u))'
  BY <1>1, MoveHolds
<1>4. \A v \in Units \ {u} : (HoldsNode(v))' <=> HoldsNode(v)
  BY <1>1, MoveHolds
<1>5. \A v \in Units \ {u} : (HoldsType(v))' <=> HoldsType(v)
  BY <1>1, MoveHolds
<1>6. /\ nodeFree' = IF HoldsNode(u) THEN nodeFree + 1 ELSE nodeFree
      /\ typeFree' = [t \in Types |->
              IF HoldsType(u) /\ Type[u] = t THEN typeFree[t] + 1 ELSE typeFree[t]]
  BY DEF ReleaseSlots
<1>7. /\ nodeFree' = IF HoldsNode(u) /\ ~(HoldsNode(u))' THEN nodeFree + 1
                     ELSE IF ~HoldsNode(u) /\ (HoldsNode(u))' THEN nodeFree - 1
                     ELSE nodeFree
      /\ typeFree' = [t \in Types |->
              IF HoldsType(u) /\ ~(HoldsType(u))' /\ Type[u] = t THEN typeFree[t] + 1
              ELSE IF ~HoldsType(u) /\ (HoldsType(u))' /\ Type[u] = t THEN typeFree[t] - 1
              ELSE typeFree[t]]
  BY <1>3, <1>6
<1>8. SlotsConserved'
  BY <1>4, <1>5, <1>7, SlotsStep
<1>9. nodeFree' \in Nat /\ typeFree' \in [Types -> Nat]
  BY <1>2, <1>6
<1>10. CallsKept
  BY <1>2 DEF CallsKept
<1> QED BY <1>1, <1>8, <1>9, <1>10, MoveStep

(* Each action of a worker and of a driver preserves the invariant.        *)
LEMMA UnitPreserves ==
    ASSUME SchedulerInv, NEW u \in Units, UnitStep(u) \/ Fault(u)
    PROVE  SchedulerInv'
<1>1. /\ unit \in [Units -> UnitRows] /\ scope \in [Scopes -> ScopeRows]
      /\ nodeFree \in Nat /\ typeFree \in [Types -> Nat]
  BY DEF SchedulerInv
<1>2. Dependents(u) \subseteq Units
  BY DEF Dependents
<1>3. {"success", "error", "waiting", "timed_out"} \subseteq RunStatus
  BY DEF RunStatus
<1>4. {} \in SUBSET Units /\ \A taken \in SUBSET Dependents(u) : taken \in SUBSET Units
  BY <1>2
<1>5. UNCHANGED scope => CallsKept
  BY <1>1 DEF CallsKept
<1>6. \A pc \in Pcs : Move(u, pc) =>
        /\ (HoldsNode(u))' <=> pc = "running" /\ ~InMetanode(ScopeOf[u])
        /\ (HoldsType(u))' <=> TypeLimited(u) /\ pc \in {"node_wait", "running", "driving", "aborting"}
  BY MoveHolds
<1>7. ASSUME Fail(u), Working(u), unit[u].pc \in InFlight \cup {"queued"}
      PROVE  SchedulerInv'
  <2>1. Move(u, "failed") /\ ReleaseSlots(u) /\ UNCHANGED <<indegree, scope, late>>
    BY <1>7 DEF Fail
  <2>2. scope[ScopeOf[u]].phase \in {"running", "cancelling"}
    BY <1>7 DEF Working
  <2> QED BY <1>7, <2>1, <2>2, ReleasingMove
<1>8. CASE Take(u)
  <2>1. Working(u) /\ unit[u].pc \in InFlight \cup {"queued"}
    BY <1>8 DEF Take, Takeable
  <2>2. CASE Complete(u, "timed_out", {})
    BY <2>1, <2>2, <1>3, <1>4, CompleteStep
  <2>3. CASE Move(u, "type_wait") /\ UNCHANGED <<indegree, scope, nodeFree, typeFree, late>>
    <3>1. "type_wait" \in Pcs \ {"blocked", "done"}
      BY DEF Pcs
    <3>2. /\ (HoldsNode(u))' <=> HoldsNode(u)
          /\ (HoldsType(u))' <=> HoldsType(u)
      BY <1>8, <2>3, <3>1, <1>6 DEF Take, Takeable, HoldsNode, HoldsType
    <3>3. scope[ScopeOf[u]].phase \in {"running", "cancelling"}
      BY <2>1 DEF Working
    <3> QED BY <2>1, <2>3, <3>1, <3>2, <3>3, <1>5, FreeMove
  <2> QED BY <1>8, <2>2, <2>3 DEF Take, Takeable
<1>9. CASE AcquireType(u)
  <2> DEFINE pc == IF u \in Drivers THEN "driving" ELSE "node_wait"
  <2>1. /\ Working(u) /\ unit[u].pc = "type_wait"
        /\ TypeLimited(u) => typeFree[Type[u]] > 0
        /\ typeFree' = [t \in Types |->
                IF TypeLimited(u) /\ Type[u] = t THEN typeFree[t] - 1 ELSE typeFree[t]]
        /\ Move(u, pc)
        /\ UNCHANGED <<indegree, scope, nodeFree, late>>
    BY <1>9 DEF AcquireType
  <2>2. pc \in Pcs \ {"blocked", "done"} /\ pc \in {"node_wait", "driving"}
    BY DEF Pcs
  <2> HIDE DEF pc
  <2>3. ~HoldsNode(u) /\ ~HoldsType(u)
    BY <2>1 DEF HoldsNode, HoldsType
  <2>4. ~(HoldsNode(u))' /\ ((HoldsType(u))' <=> TypeLimited(u))
    BY <2>1, <2>2, <1>6
  <2>5. \A v \in Units \ {u} : (HoldsNode(v))' <=> HoldsNode(v)
    BY <2>1, <2>2, MoveHolds
  <2>6. \A v \in Units \ {u} : (HoldsType(v))' <=> HoldsType(v)
    BY <2>1, <2>2, MoveHolds
  <2>7. /\ nodeFree' = IF HoldsNode(u) /\ ~(HoldsNode(u))' THEN nodeFree + 1
                       ELSE IF ~HoldsNode(u) /\ (HoldsNode(u))' THEN nodeFree - 1
                       ELSE nodeFree
        /\ typeFree' = [t \in Types |->
                IF HoldsType(u) /\ ~(HoldsType(u))' /\ Type[u] = t THEN typeFree[t] + 1
                ELSE IF ~HoldsType(u) /\ (HoldsType(u))' /\ Type[u] = t THEN typeFree[t] - 1
                ELSE typeFree[t]]
    BY <2>1, <2>3, <2>4
  <2>8. SlotsConserved'
    BY <2>5, <2>6, <2>7, SlotsStep
  <2>9. nodeFree' \in Nat /\ typeFree' \in [Types -> Nat]
    BY <2>1, <1>1
  <2>10. unit[u].pc \in InFlight \cup {"queued"} /\ scope[ScopeOf[u]].phase \in {"running", "cancelling"}
    BY <2>1 DEF InFlight, Working
  <2> QED BY <2>1, <2>2, <2>8, <2>9, <2>10, <1>5, MoveStep
<1>10. CASE AcquireNode(u)
  <2>1. /\ Working(u) /\ unit[u].pc = "node_wait" /\ unit[u].pc \in InFlight
        /\ ~InMetanode(ScopeOf[u]) => nodeFree > 0
    BY <1>10 DEF AcquireNode, Admitted, InFlight
  <2>2. CASE \E status \in RunStatus, taken \in SUBSET Units : Complete(u, status, taken)
    BY <2>1, <2>2, CompleteStep
  <2>3. CASE /\ Move(u, "running")
             /\ nodeFree' = IF InMetanode(ScopeOf[u]) THEN nodeFree ELSE nodeFree - 1
             /\ UNCHANGED <<indegree, scope, typeFree, late>>
    <3>1. "running" \in Pcs \ {"blocked", "done"}
      BY DEF Pcs
    <3>2. ~HoldsNode(u) /\ (HoldsType(u) <=> TypeLimited(u))
      BY <2>1 DEF HoldsNode, HoldsType
    <3>3. ((HoldsNode(u))' <=> ~InMetanode(ScopeOf[u])) /\ ((HoldsType(u))' <=> TypeLimited(u))
      BY <2>3, <3>1, <1>6
    <3>4. \A v \in Units \ {u} : (HoldsNode(v))' <=> HoldsNode(v)
      BY <2>3, <3>1, MoveHolds
    <3>5. \A v \in Units \ {u} : (HoldsType(v))' <=> HoldsType(v)
      BY <2>3, <3>1, MoveHolds
    <3>6. typeFree = [t \in Types |-> typeFree[t]]
      BY <1>1
    <3>7. /\ nodeFree' = IF HoldsNode(u) /\ ~(HoldsNode(u))' THEN nodeFree + 1
                         ELSE IF ~HoldsNode(u) /\ (HoldsNode(u))' THEN nodeFree - 1
                         ELSE nodeFree
          /\ typeFree' = [t \in Types |->
                  IF HoldsType(u) /\ ~(HoldsType(u))' /\ Type[u] = t THEN typeFree[t] + 1
                  ELSE IF ~HoldsType(u) /\ (HoldsType(u))' /\ Type[u] = t THEN typeFree[t] - 1
                  ELSE typeFree[t]]
      BY <2>3, <3>2, <3>3, <3>6
    <3>8. SlotsConserved'
      BY <3>4, <3>5, <3>7, SlotsStep
    <3>9. nodeFree' \in Nat /\ typeFree' \in [Types -> Nat]
      BY <2>1, <2>3, <1>1
    <3>10. scope[ScopeOf[u]].phase \in {"running", "cancelling"}
      BY <2>1 DEF Working
    <3> QED BY <2>1, <2>3, <3>1, <3>8, <3>9, <3>10, <1>5, MoveStep
  <2>4. \/ \E status \in RunStatus, taken \in SUBSET Units : Complete(u, status, taken)
        \/ /\ Move(u, "running")
           /\ nodeFree' = IF InMetanode(ScopeOf[u]) THEN nodeFree ELSE nodeFree - 1
           /\ UNCHANGED <<indegree, scope, typeFree, late>>
    BY <1>10, <1>3, <1>4 DEF AcquireNode
  <2> QED BY <2>2, <2>3, <2>4
<1>11. CASE RunNode(u)
  <2>1. Working(u) /\ unit[u].pc \in InFlight
    BY <1>11 DEF RunNode, InFlight
  <2>2. \E status \in RunStatus, taken \in SUBSET Units : Complete(u, status, taken)
    BY <1>11, <1>3, <1>4 DEF RunNode, Verdict
  <2> QED BY <2>1, <2>2, CompleteStep
<1>12. CASE AbortRows(u)
  <2>1. /\ Working(u) /\ unit[u].pc = "driving" /\ Move(u, "aborting")
        /\ scope' = Interrupted(u) /\ UNCHANGED <<indegree, nodeFree, typeFree, late>>
    BY <1>12 DEF AbortRows
  <2>2. "aborting" \in Pcs \ {"blocked", "done"} /\ unit[u].pc \in InFlight
    BY <2>1 DEF Pcs, InFlight
  <2>3. /\ (HoldsNode(u))' <=> HoldsNode(u)
        /\ (HoldsType(u))' <=> HoldsType(u)
    BY <2>1, <2>2, <1>6 DEF HoldsNode, HoldsType
  <2>4. scope[ScopeOf[u]].phase \in {"running", "cancelling"}
    BY <2>1 DEF Working
  <2>5. CallsKept
    BY <2>1, <1>1, InterruptedRows
  <2> QED BY <2>1, <2>2, <2>3, <2>4, <2>5, FreeMove
<1>13. CASE FinishLoop(u)
  <2>1. Working(u) /\ unit[u].pc \in InFlight
    BY <1>13 DEF FinishLoop, InFlight
  <2>2. \E status \in RunStatus, taken \in SUBSET Units : Complete(u, status, taken)
    BY <1>13, <1>3, <1>4 DEF FinishLoop
  <2> QED BY <2>1, <2>2, CompleteStep
<1>18. CASE FinishMetanode(u)
  <2>1. Working(u) /\ unit[u].pc \in InFlight
    BY <1>18 DEF FinishMetanode, InFlight
  <2>2. \E status \in RunStatus, taken \in SUBSET Units : Complete(u, status, taken)
    BY <1>18, <1>3, <1>4 DEF FinishMetanode
  <2> QED BY <2>1, <2>2, CompleteStep
<1>14. CASE RaiseRow(u)
  BY <1>14, <1>7 DEF RaiseRow, InFlight
<1>15. CASE InterruptRows(u)
  <2>1. scope' = Interrupted(u) /\ UNCHANGED <<unit, indegree, nodeFree, typeFree, late>>
    BY <1>15 DEF InterruptRows
  <2>2. CallsKept
    BY <2>1, <1>1, InterruptedRows
  <2>3. CallsMoved
    BY <2>2 DEF CallsKept, CallsMoved
  <2> QED BY <2>1, <2>3, PhaseStep
<1>16. CASE CancelUnit(u)
  BY <1>16, ReleasingMove DEF CancelUnit
<1>17. CASE Fault(u)
  BY <1>17, <1>7 DEF Fault, Takeable, Admitted, InFlight
<1> QED
  BY <1>8, <1>9, <1>10, <1>11, <1>12, <1>13, <1>14, <1>15, <1>16, <1>17,
     <1>18 DEF UnitStep

(* Each step of a call, of the caller and of the clock does.               *)
LEMMA ScopePreserves ==
    ASSUME SchedulerInv,
           (\E s \in Scopes : ScopeStep(s)) \/ CancelCaller \/ DeadlinePasses \/ UNCHANGED vars
    PROVE  SchedulerInv'
<1>1. scope \in [Scopes -> ScopeRows]
  BY DEF SchedulerInv
<1>2. ASSUME NEW s \in Scopes, NEW phase \in {"running", "cancelling", "returned", "raised"},
             SetPhase(s, phase),
             UNCHANGED <<unit, indegree, nodeFree, typeFree, late>>,
             phase = "returned" => \A u \in PlanOf(s) : unit[u].pc = "done"
      PROVE  SchedulerInv'
  <2>1. /\ scope' \in [Scopes -> ScopeRows]
        /\ \A c \in Scopes : /\ scope'[c].status = scope[c].status
                             /\ scope'[c].completed = scope[c].completed
                             /\ scope'[c].phase = IF c = s THEN phase ELSE scope[c].phase
    BY <1>1, <1>2, PhaseRow
  <2>2. CallsMoved
    BY <1>2, <2>1 DEF CallsMoved
  <2> QED BY <1>2, <2>2, PhaseStep
<1>3. ASSUME NEW s \in Scopes, StartIteration(s)
      PROVE  SchedulerInv'
  BY <1>3, BeginStep DEF StartIteration
<1>4. ASSUME NEW s \in Scopes, Supervise(s)
      PROVE  SchedulerInv'
  BY <1>4, <1>2 DEF Supervise, SetPhase
<1>5. ASSUME NEW s \in Scopes, Return(s)
      PROVE  SchedulerInv'
  <2> DEFINE all == scope[s].completed = Cardinality(PlanOf(s))
             done == {u \in PlanOf(s) : unit[u].pc = "done"}
             phase == IF all THEN "returned" ELSE "raised"
  <2>1. /\ SetPhase(s, phase)
        /\ UNCHANGED <<unit, indegree, nodeFree, typeFree, late>>
    BY <1>5 DEF Return, SetPhase
  <2>2. ASSUME all PROVE \A u \in PlanOf(s) : unit[u].pc = "done"
    <3>1. PlanOf(s) \in SUBSET Units /\ done \in SUBSET PlanOf(s)
      BY DEF PlanOf
    <3>2. scope[s].completed = Cardinality(done)
      BY DEF SchedulerInv, VerdictSoFar
    <3>3. done = PlanOf(s)
      BY <2>2, <3>1, <3>2, UnitsFinite, FS_Subset
    <3> QED BY <3>3
  <2>3. phase \in {"running", "cancelling", "returned", "raised"}
        /\ (phase = "returned" => \A u \in PlanOf(s) : unit[u].pc = "done")
    BY <2>2
  <2> HIDE DEF phase
  <2> QED BY <2>1, <2>3, <1>2
<1>6. ASSUME NEW s \in Scopes, Raise(s)
      PROVE  SchedulerInv'
  BY <1>6, <1>2 DEF Raise, SetPhase
<1>7. CASE CancelCaller
  BY <1>7, <1>2 DEF CancelCaller, SetPhase
<1>8. CASE UNCHANGED <<unit, indegree, scope, nodeFree, typeFree>> /\ late' \in BOOLEAN
  <2>1. Undone
    BY <1>8 DEF Undone, SchedulerInv
  <2>2. IndegreeCounts' /\ VerdictSoFar'
    BY <2>1, UndoneStep
  <2>3. StartsAfterDeps'
    BY <1>8 DEF SchedulerInv, StartsAfterDeps
  <2>4. SlotsConserved'
    BY <1>8 DEF SchedulerInv, SlotsConserved, HoldsNode, HoldsType, TypeLimited, InMetanode
  <2> QED BY <1>8, <2>2, <2>3, <2>4 DEF SchedulerInv, PlanOf
<1>9. CASE DeadlinePasses
  BY <1>8, <1>9 DEF DeadlinePasses
<1>10. CASE UNCHANGED vars
  BY <1>8, <1>10 DEF vars, SchedulerInv
<1> QED BY <1>3, <1>4, <1>5, <1>6, <1>7, <1>9, <1>10 DEF ScopeStep

---------------------------------------------------------------------------
(* The theorems                                                            *)

(* In the initial state nothing is done, nothing is held, and a unit is    *)
(* queued exactly when it is in the graph itself and depends on nothing.   *)
LEMMA InitEstablishes == Init => SchedulerInv
<1> SUFFICES ASSUME Init PROVE SchedulerInv
  OBVIOUS
<1>1. ASSUME NEW u \in Units
      PROVE  /\ unit[u] = [pc |-> IF ScopeOf[u] = Root /\ Deps[u] = {} THEN "queued" ELSE "blocked",
                           status |-> "success", taken |-> {}]
             /\ unit[u].pc = IF ScopeOf[u] = Root /\ Deps[u] = {} THEN "queued" ELSE "blocked"
             /\ unit[u] \in UnitRows
  BY DEF Init, UnitRows, RunStatus, Pcs
<1>2. ASSUME NEW s \in Scopes
      PROVE  /\ scope[s].phase = IF s = Root THEN "running" ELSE "idle"
             /\ scope[s].status = "success" /\ scope[s].completed = 0
             /\ scope[s] \in ScopeRows
  BY DEF Init, ScopeRows, RunStatus
<1>3. unit \in [Units -> UnitRows] /\ scope \in [Scopes -> ScopeRows]
  BY <1>1, <1>2 DEF Init
<1>4. IndegreeCounts /\ indegree \in [Units -> Int]
  <2>1. ASSUME NEW u \in Units
        PROVE  /\ indegree[u] = Cardinality({d \in Deps[u] : unit[d].pc # "done"})
               /\ indegree[u] \in Int
    <3> DEFINE Open == {d \in Deps[u] : unit[d].pc # "done"}
    <3>1. Open = Deps[u]
      BY <1>1
    <3>2. indegree[u] = Cardinality(Deps[u]) /\ Deps[u] \in SUBSET Units
      BY DEF Init
    <3>3. Cardinality(Deps[u]) \in Nat
      BY <3>2, UnitsFinite
    <3> HIDE DEF Open
    <3>4. indegree[u] = Cardinality(Open) /\ indegree[u] \in Int
      BY <3>1, <3>2, <3>3
    <3> QED BY <3>4 DEF Open
  <2>2. IndegreeCounts
    BY <2>1 DEF IndegreeCounts
  <2>3. indegree = [u \in Units |-> Cardinality(Deps[u])] /\ \A u \in Units : indegree[u] \in Int
    BY <2>1 DEF Init
  <2>4. indegree \in [Units -> Int]
    BY <2>3
  <2> QED BY <2>2, <2>4
<1>5. StartsAfterDeps
  BY <1>1 DEF StartsAfterDeps
<1>6. SlotsConserved /\ nodeFree \in Nat /\ typeFree \in [Types -> Nat]
  <2> DEFINE N == {u \in Units : HoldsNode(u)}
             T(t) == {u \in Units : HoldsType(u) /\ Type[u] = t}
  <2>1. N = {}
    BY <1>1 DEF HoldsNode
  <2>2. \A u \in Units : ~HoldsType(u)
    BY <1>1 DEF HoldsType
  <2>3. \A t \in Types : T(t) = {}
    BY <2>2
  <2>4. Cardinality({}) = 0
    BY FS_EmptySet
  <2>5. /\ nodeFree = NodeLimit /\ nodeFree \in Nat
        /\ typeFree = TypeLimit /\ typeFree \in [Types -> Nat]
        /\ \A t \in Types : TypeLimit[t] \in Nat
    BY DEF Init
  <2> HIDE DEF N, T
  <2>6. nodeFree + Cardinality(N) = NodeLimit
    BY <2>1, <2>4, <2>5
  <2>7. ASSUME NEW t \in Types PROVE typeFree[t] + Cardinality(T(t)) = TypeLimit[t]
    <3>1. Cardinality(T(t)) = 0
      BY <2>3, <2>4
    <3>2. typeFree[t] = TypeLimit[t] /\ TypeLimit[t] \in Nat
      BY <2>5
    <3> QED BY <3>1, <3>2
  <2> QED BY <2>5, <2>6, <2>7 DEF SlotsConserved, N, T
<1>7. VerdictSoFar
  <2> SUFFICES ASSUME NEW s \in Scopes
               PROVE  LET done == {u \in PlanOf(s) : unit[u].pc = "done"} IN
                      /\ scope[s].completed = Cardinality(done)
                      /\ \A u \in done : _STATUS_RANK[unit[u].status] <= _STATUS_RANK[scope[s].status]
                      /\ scope[s].status = "success" \/ \E u \in done : unit[u].status = scope[s].status
    BY DEF VerdictSoFar
  <2>1. {u \in PlanOf(s) : unit[u].pc = "done"} = {}
    BY <1>1 DEF PlanOf
  <2>2. Cardinality({}) = 0
    BY FS_EmptySet
  <2> QED BY <2>1, <2>2, <1>2
<1>8. \A u \in Units : scope[ScopeOf[u]].phase = "idle" => unit[u].pc = "blocked"
  BY <1>1, <1>2
<1>9. \A s \in Scopes : scope[s].phase # "returned"
  BY <1>2
<1>10. late \in BOOLEAN
  BY DEF Init
<1> QED BY <1>3, <1>4, <1>5, <1>6, <1>7, <1>8, <1>9, <1>10 DEF SchedulerInv

(* Every step of Next, and a stuttering one, keeps the invariant.          *)
LEMMA NextPreserves == SchedulerInv /\ [Next]_vars => SchedulerInv'
BY UnitPreserves, ScopePreserves DEF Next

(* SchedulerInv is an invariant of every graph the engine can be given.    *)
THEOREM SchedulerInvariant == Spec => []SchedulerInv
BY InitEstablishes, NextPreserves, PTL DEF Spec

(* Units, counters and calls keep their shape; in particular no semaphore  *)
(* is taken below zero and no dependency is counted twice.                 *)
THEOREM SchedulerTypes == Spec => []TypeOK
<1>1. SchedulerInv => TypeOK
  <2> SUFFICES ASSUME SchedulerInv PROVE TypeOK
    OBVIOUS
  <2>1. nodeFree \in 0..NodeLimit
    <3> DEFINE Holders == {u \in Units : HoldsNode(u)}
    <3>1. nodeFree \in Nat /\ nodeFree + Cardinality(Holders) = NodeLimit
      BY DEF SchedulerInv, SlotsConserved
    <3>2. Cardinality(Holders) \in Nat
      BY UnitsFinite
    <3> QED BY <3>1, <3>2
  <2>2. indegree \in [Units -> Nat]
    <3>1. ASSUME NEW u \in Units PROVE indegree[u] \in Nat
      <4> DEFINE Open == {d \in Deps[u] : unit[d].pc # "done"}
      <4>1. indegree[u] = Cardinality(Open)
        BY DEF SchedulerInv, IndegreeCounts
      <4>2. Open \in SUBSET Units
        OBVIOUS
      <4> QED BY <4>1, <4>2, UnitsFinite
    <3> QED BY <3>1 DEF SchedulerInv
  <2> QED BY <2>1, <2>2 DEF SchedulerInv, TypeOK
<1> QED BY <1>1, SchedulerInvariant, PTL

(* The dependency counters are right however the workers' completions      *)
(* interleave, so a unit is queued exactly once.                           *)
THEOREM CountersRight == Spec => []IndegreeCounts
<1>1. SchedulerInv => IndegreeCounts
  BY DEF SchedulerInv
<1> QED BY <1>1, SchedulerInvariant, PTL

(* No unit begins before everything it depends on has completed.           *)
THEOREM NoEarlyStart == Spec => []StartsAfterDeps
<1>1. SchedulerInv => StartsAfterDeps
  BY DEF SchedulerInv
<1> QED BY <1>1, SchedulerInvariant, PTL

(* No failure, skip, abort or cancellation leaks a concurrency slot or     *)
(* frees one twice.                                                        *)
THEOREM SlotConservation == Spec => []SlotsConserved
<1>1. SchedulerInv => SlotsConserved
  BY DEF SchedulerInv
<1> QED BY <1>1, SchedulerInvariant, PTL

(* A call that returned completed its whole plan and reports the worst of  *)
(* its units' verdicts.                                                    *)
THEOREM WorstVerdict == Spec => []ReportsWorst
<1>1. SchedulerInv => ReportsWorst
  <2> SUFFICES ASSUME SchedulerInv, NEW s \in Scopes, scope[s].phase = "returned"
               PROVE  /\ \A u \in PlanOf(s) : unit[u].pc = "done"
                      /\ \A u \in PlanOf(s) :
                            _STATUS_RANK[unit[u].status] <= _STATUS_RANK[scope[s].status]
                      /\ \/ scope[s].status = "success"
                         \/ \E u \in PlanOf(s) : unit[u].status = scope[s].status
    BY DEF ReportsWorst
  <2>1. \A u \in PlanOf(s) : unit[u].pc = "done"
    BY DEF SchedulerInv
  <2>2. {u \in PlanOf(s) : unit[u].pc = "done"} = PlanOf(s)
    BY <2>1
  <2> QED BY <2>1, <2>2 DEF SchedulerInv, VerdictSoFar
<1> QED BY <1>1, SchedulerInvariant, PTL

---------------------------------------------------------------------------
(* The end of the run                                                      *)
(*                                                                         *)
(* Nothing starts after the outermost call has ended, if what runs at the  *)
(* same time in a loop are plain nodes out of which no exception comes     *)
(* (PlainRows).  Without that, a row that raises takes its driver away and *)
(* leaves the other rows running, and a cancelled driver ends with the     *)
(* first row that ends, however far down the others still have to pass the *)
(* cancellation on.                                                        *)

Concurrent == {u \in Drivers : Concurrency[u] > 1}

PlainRows ==
    \A s \in Scopes \ {Root} : Driver[s] \in Concurrent =>
      /\ PlanOf(s) \cap (Drivers \cup MayFault) = {}
      /\ \A S \in SUBSET PlanOf(s) : S # {} => \E u \in S : Deps[u] \cap S = {}

(* A unit is in flight in a call that is going on.                         *)
InFlightIsActive == \A u \in Units : unit[u].pc \in InFlight => Active(ScopeOf[u])

(* A driver has no rows before it drives.                                  *)
RowsComeLater ==
    \A u \in Drivers :
      /\ unit[u].pc \notin {"node_wait", "running"}
      /\ unit[u].pc \in {"blocked", "queued", "type_wait"} =>
            \A s \in Children(u) : scope[s].phase = "idle"

(* A row goes on only under its driver; the rows of a concurrent loop may  *)
(* outlive it while they are being cancelled.                              *)
RowsAreDriven ==
    \A s \in Scopes \ {Root} :
      Active(s) /\ (scope[s].phase = "running" \/ Driver[s] \notin Concurrent) =>
        unit[Driver[s]].pc \in {"driving", "aborting"}

(* A sequential loop has one row at a time, and none after one that raised.*)
OneRowAtATime ==
    \A s, c \in Scopes \ {Root} :
      /\ Driver[s] = Driver[c] /\ Driver[s] \notin Concurrent
      /\ Active(s) /\ (Active(c) \/ scope[c].phase = "raised")
      => s = c

(* The rows of a concurrent loop do not raise while it is driving.         *)
RowsDoNotRaise ==
    \A s \in Scopes \ {Root} : Driver[s] \in Concurrent =>
      /\ unit[Driver[s]].pc = "driving" /\ Working(Driver[s]) =>
            scope[s].phase \in {"idle", "running", "returned"}
      /\ unit[Driver[s]].pc = "failed" => scope[s].phase \in {"idle", "returned"}
      /\ \A u \in PlanOf(s) : unit[u].pc # "failed"

(* In a call that has begun, no unit is forgotten: one that has nothing    *)
(* left to wait for is not blocked, and none is cancelled out of turn.     *)
NoUnitForgotten ==
    \A u \in Units :
      /\ scope[ScopeOf[u]].phase # "idle" /\ indegree[u] = 0 => unit[u].pc # "blocked"
      /\ scope[ScopeOf[u]].phase = "running" => unit[u].pc # "cancelled"

NestInv ==
    /\ SchedulerInv
    /\ InFlightIsActive /\ RowsComeLater /\ RowsAreDriven
    /\ OneRowAtATime /\ RowsDoNotRaise /\ NoUnitForgotten

---------------------------------------------------------------------------
(* What a step does to positions and phases                                *)

RowsQuiet(u) == \A s \in Children(u) : ~Active(s)

PhasesKept == \A s \in Scopes : scope'[s].phase = scope[s].phase
UnitsKept == /\ \A v \in Units : unit'[v].pc = unit[v].pc
             /\ indegree' = indegree
OnlyUnit(u, pc) == /\ \A v \in Units : unit'[v].pc = IF v = u THEN pc ELSE unit[v].pc
                   /\ indegree' = indegree
OnlyCall(s, phase) ==
    \A c \in Scopes : scope'[c].phase = IF c = s THEN phase ELSE scope[c].phase
RowsInterrupted(u) ==
    \A c \in Scopes : scope'[c].phase =
        IF c \in Children(u) /\ scope[c].phase = "running" THEN "cancelling" ELSE scope[c].phase

(* A unit completed, with the rows it drove at rest, and its dependents    *)
(* may have been queued.                                                   *)
Settled(u) ==
    /\ Working(u) /\ PhasesKept
    /\ unit[u].pc \in InFlight \cup {"queued"}
    /\ u \in Drivers => RowsQuiet(u)
    /\ unit'[u].pc = "done"
    /\ \A v \in Units \ {u} : \/ unit'[v].pc = unit[v].pc
                              \/ unit[v].pc = "blocked" /\ unit'[v].pc = "queued"
    /\ \A v \in Units : indegree'[v] = 0 => indegree[v] = 0 \/ unit'[v].pc # "blocked"

(* A unit got a step further, in a call that is going on.                  *)
Advanced(u) ==
    /\ Working(u) /\ PhasesKept
    /\ \/ unit[u].pc = "queued" /\ OnlyUnit(u, "type_wait")
       \/ u \in Drivers /\ unit[u].pc = "type_wait" /\ OnlyUnit(u, "driving")
       \/ u \notin Drivers /\ unit[u].pc = "type_wait" /\ OnlyUnit(u, "node_wait")
       \/ unit[u].pc = "node_wait" /\ OnlyUnit(u, "running")

(* An exception came out of a unit.                                        *)
Dropped(u) ==
    /\ Working(u) /\ PhasesKept
    /\ u \in Drivers \cup MayFault
    /\ u \in Drivers => /\ RowsQuiet(u)
                        /\ u \in Concurrent => ~RowRaised(u)
    /\ OnlyUnit(u, "failed")

(* A unit was cancelled, with its rows at rest or on their way.            *)
Stopped(u) ==
    /\ scope[ScopeOf[u]].phase = "cancelling" /\ PhasesKept
    /\ u \in Drivers => \/ RowsQuiet(u)
                        \/ u \in Concurrent /\ \A s \in Children(u) : scope[s].phase # "running"
    /\ OnlyUnit(u, "cancelled")

Aborted(u) ==
    /\ u \in Concurrent /\ unit[u].pc = "driving" /\ Working(u)
    /\ OnlyUnit(u, "aborting") /\ RowsInterrupted(u)

PassedOn(u) ==
    /\ scope[ScopeOf[u]].phase = "cancelling"
    /\ unit[u].pc \in {"driving", "aborting"}
    /\ UnitsKept /\ RowsInterrupted(u)

(* A row began under its driver.                                           *)
RowStarted(s) ==
    /\ s # Root /\ scope[s].phase = "idle" /\ OnlyCall(s, "running")
    /\ unit[Driver[s]].pc = "driving" /\ Working(Driver[s])
    /\ Driver[s] \notin Concurrent =>
          \A c \in Children(Driver[s]) : ~Active(c) /\ scope[c].phase # "raised"
    /\ \A v \in Units : \/ unit'[v].pc = unit[v].pc
                        \/ unit[v].pc = "blocked" /\ unit'[v].pc = "queued"
    /\ \A v \in PlanOf(s) : indegree[v] = 0 => unit'[v].pc # "blocked"
    /\ indegree' = indegree

(* A call was told to stop, because of a unit that failed or by its caller.*)
ToldToStop(s) ==
    /\ scope[s].phase = "running" /\ OnlyCall(s, "cancelling")
    /\ s = Root \/ FailedOf(s) # {}
    /\ UnitsKept

(* A call ended, with nothing in flight.                                   *)
CallEnded(s) ==
    /\ Active(s) /\ InFlightOf(s) = {}
    /\ \/ OnlyCall(s, "returned")
       \/ /\ OnlyCall(s, "raised")
          /\ s # Root /\ Driver[s] \in Concurrent => scope[s].phase = "cancelling"
    /\ UnitsKept

EngineMove ==
    \/ UnitsKept /\ PhasesKept
    \/ \E u \in Units : \/ Settled(u) \/ Advanced(u) \/ Dropped(u) \/ Stopped(u)
                        \/ Aborted(u) \/ PassedOn(u)
    \/ \E s \in Scopes : RowStarted(s) \/ ToldToStop(s) \/ CallEnded(s)

(* A unit's record with another position.                                  *)
LEMMA MovedUnit ==
    ASSUME unit \in [Units -> UnitRows], NEW u \in Units, NEW pc, Move(u, pc),
           indegree' = indegree
    PROVE  OnlyUnit(u, pc)
<1>1. unit' = [unit EXCEPT ![u].pc = pc]
  BY DEF Move
<1>2. unit[u] \in UnitRows /\ unit'[u] = [unit[u] EXCEPT !.pc = pc]
  BY <1>1
<1>3. unit'[u].pc = pc
  BY <1>2 DEF UnitRows
<1>4. \A v \in Units : v # u => unit'[v] = unit[v]
  BY <1>1
<1> QED BY <1>3, <1>4 DEF OnlyUnit

(* A completion, seen from the positions.                                  *)
LEMMA CompletedUnit ==
    ASSUME SchedulerInv, NEW u \in Units, NEW status, NEW taken,
           unit[u].pc \in InFlight \cup {"queued"}, Working(u),
           u \in Drivers => RowsQuiet(u),
           Complete(u, status, taken)
    PROVE  Settled(u)
<1>1. /\ unit \in [Units -> UnitRows] /\ scope \in [Scopes -> ScopeRows]
      /\ indegree \in [Units -> Int]
      /\ unit[u].pc \notin {"blocked", "done"} /\ ScopeOf[u] \in Scopes
  BY DEF SchedulerInv, InFlight
<1>2. \A v \in Dependents(u) : v \in Units /\ unit[v].pc = "blocked"
  BY <1>1 DEF SchedulerInv, StartsAfterDeps, Dependents
<1>3. /\ unit'[u] = [pc |-> "done", status |-> status, taken |-> taken]
      /\ \A v \in Units : v # u /\ ~(v \in Dependents(u) /\ indegree[v] = 1)
                            => unit'[v] = unit[v]
      /\ \A v \in Units : v # u /\ v \in Dependents(u) /\ indegree[v] = 1
                            => unit'[v] = [unit[v] EXCEPT !.pc = "queued"]
      /\ \A v \in Units : indegree'[v] = IF v \in Dependents(u) THEN indegree[v] - 1 ELSE indegree[v]
      /\ scope' = [scope EXCEPT ![ScopeOf[u]].status = _worse_status(@, status),
                                ![ScopeOf[u]].completed = @ + 1]
  BY DEF Complete
<1>4. unit'[u].pc = "done"
  BY <1>3
<1>5. ASSUME NEW v \in Units \ {u}, v \in Dependents(u) /\ indegree[v] = 1
      PROVE  unit[v].pc = "blocked" /\ unit'[v].pc = "queued"
  <2> DEFINE row == unit[v]
  <2>0. row \in UnitRows
    BY <1>1
  <2>1. row \in UnitRows /\ unit'[v] = [row EXCEPT !.pc = "queued"]
    <3>1. v \in Units /\ v # u
      OBVIOUS
    <3> QED BY <1>3, <1>5, <2>0, <3>1
  <2> HIDE DEF row
  <2>2. [row EXCEPT !.pc = "queued"].pc = "queued"
    BY <2>1 DEF UnitRows
  <2>3. unit'[v].pc = "queued"
    BY <2>1, <2>2
  <2> QED BY <2>3, <1>2, <1>5
<1>6. \A v \in Units \ {u} : \/ unit'[v].pc = unit[v].pc
                             \/ unit[v].pc = "blocked" /\ unit'[v].pc = "queued"
  BY <1>3, <1>5
<1>7. \A v \in Units : indegree'[v] = 0 => indegree[v] = 0 \/ unit'[v].pc # "blocked"
  <2> SUFFICES ASSUME NEW v \in Units, indegree'[v] = 0, indegree[v] # 0
               PROVE  unit'[v].pc # "blocked"
    OBVIOUS
  <2>1. v \in Dependents(u) /\ indegree[v] = 1
    BY <1>1, <1>3
  <2> QED BY <2>1, <1>4, <1>5
<1>8. PhasesKept
  <2> SUFFICES ASSUME NEW s \in Scopes PROVE scope'[s].phase = scope[s].phase
    BY DEF PhasesKept
  <2>1. CASE s # ScopeOf[u]
    BY <2>1, <1>1, <1>3
  <2>2. CASE s = ScopeOf[u]
    <3> DEFINE row == scope[s]
               worse == _worse_status(row.status, status)
    <3>1. row \in ScopeRows /\ scope'[s] = Counted(row, worse)
      BY <2>2, <1>1, <1>3 DEF Counted
    <3> HIDE DEF row, worse
    <3>2. Counted(row, worse).phase = row.phase
      BY <3>1 DEF ScopeRows, Counted
    <3> QED BY <3>1, <3>2 DEF row
  <2> QED BY <2>1, <2>2
<1> QED BY <1>4, <1>6, <1>7, <1>8 DEF Settled


(* Setting the phase of a call, and interrupting rows, seen as phases.     *)
LEMMA CallMoved ==
    ASSUME SchedulerInv, NEW s \in Scopes,
           NEW phase \in {"running", "cancelling", "returned", "raised"},
           SetPhase(s, phase)
    PROVE  OnlyCall(s, phase)
BY PhaseRow DEF SchedulerInv, OnlyCall

LEMMA InterruptedCalls ==
    ASSUME SchedulerInv, NEW u \in Units, scope' = Interrupted(u)
    PROVE  RowsInterrupted(u)
<1> SUFFICES ASSUME NEW c \in Scopes
             PROVE  scope'[c].phase = IF c \in Children(u) /\ scope[c].phase = "running"
                                      THEN "cancelling" ELSE scope[c].phase
  BY DEF RowsInterrupted
<1> DEFINE row == scope[c]
<1>1. row \in ScopeRows
  BY DEF SchedulerInv
<1>2. scope'[c] = IF c \in Children(u) /\ row.phase = "running"
                  THEN [row EXCEPT !.phase = "cancelling"] ELSE row
  BY DEF Interrupted
<1> HIDE DEF row
<1>3. [row EXCEPT !.phase = "cancelling"].phase = "cancelling"
  BY <1>1 DEF ScopeRows
<1> QED BY <1>2, <1>3 DEF row

(* A row of a concurrent loop whose queue has drained has run its whole    *)
(* plan: nothing of it fails, and no units are left waiting for each other.*)
LEMMA RowReturns ==
    ASSUME NestInv, PlainRows, NEW s \in Scopes \ {Root}, Driver[s] \in Concurrent,
           scope[s].phase = "running",
           \A u \in PlanOf(s) : unit[u].pc \notin InFlight \cup {"queued"}
    PROVE  scope[s].completed = Cardinality(PlanOf(s))
<1>1. /\ unit \in [Units -> UnitRows]
      /\ \A u \in Units : indegree[u] = Cardinality({d \in Deps[u] : unit[d].pc # "done"})
      /\ scope[s].completed = Cardinality({u \in PlanOf(s) : unit[u].pc = "done"})
  BY DEF NestInv, SchedulerInv, IndegreeCounts, VerdictSoFar
<1> DEFINE Left == {u \in PlanOf(s) : unit[u].pc # "done"}
<1>2. \A u \in Left : unit[u].pc = "blocked"
  <2> SUFFICES ASSUME NEW u \in Left PROVE unit[u].pc = "blocked"
    OBVIOUS
  <2>1. u \in Units /\ ScopeOf[u] = s /\ u \in PlanOf(s)
    BY DEF PlanOf
  <2>2. unit[u].pc \in Pcs /\ unit[u].pc # "done"
    BY <1>1, <2>1 DEF UnitRows
  <2>3. unit[u].pc \notin {"failed", "cancelled"}
    BY <2>1 DEF NestInv, RowsDoNotRaise, NoUnitForgotten
  <2> QED BY <2>1, <2>2, <2>3 DEF Pcs, InFlight
<1>3. Left = {}
  <2> SUFFICES ASSUME Left # {} PROVE FALSE
    OBVIOUS
  <2>1. Left \in SUBSET PlanOf(s)
    OBVIOUS
  <2>2. PICK u \in Left : Deps[u] \cap Left = {}
    <3> HIDE DEF Left
    <3> QED BY <2>1 DEF PlainRows
  <2>3. u \in Units /\ ScopeOf[u] = s
    BY DEF PlanOf
  <2>4. \A d \in Deps[u] : unit[d].pc = "done"
    BY <2>2, <2>3 DEF PlanOf
  <2> DEFINE Open == {d \in Deps[u] : unit[d].pc # "done"}
  <2>5. Open = {}
    BY <2>4
  <2>6. indegree[u] = Cardinality(Open)
    BY <1>1, <2>3
  <2>7. indegree[u] = 0
    <3> HIDE DEF Open
    <3>1. Cardinality({}) = 0
      BY FS_EmptySet
    <3> QED BY <2>5, <2>6, <3>1
  <2>8. unit[u].pc # "blocked"
    BY <2>3, <2>7 DEF NestInv, NoUnitForgotten
  <2> QED BY <2>8, <1>2
<1>4. {u \in PlanOf(s) : unit[u].pc = "done"} = PlanOf(s)
  BY <1>3
<1> QED BY <1>1, <1>4

(* A driver out of which an exception comes has no row that goes on, and a *)
(* concurrent one no row that raised.                                      *)
LEMMA DriverDrops ==
    ASSUME NestInv, NEW u \in Drivers, Working(u),
           \/ unit[u].pc = "driving" /\ RowsQuiet(u)
           \/ unit[u].pc = "driving" /\ RowRaised(u)
           \/ unit[u].pc = "queued"
    PROVE  RowsQuiet(u) /\ (u \in Concurrent => ~RowRaised(u))
<1>1. CASE unit[u].pc = "queued"
  BY <1>1 DEF NestInv, RowsComeLater, RowsQuiet, RowRaised, Active
<1>2. CASE unit[u].pc = "driving" /\ u \in Concurrent
  BY <1>2 DEF NestInv, RowsDoNotRaise, RowRaised, RowsQuiet, Children, Active
<1>3. CASE unit[u].pc = "driving" /\ u \notin Concurrent
  <2>1. CASE RowRaised(u)
    <3> SUFFICES ASSUME NEW s \in Children(u), Active(s) PROVE FALSE
      BY <1>3 DEF RowsQuiet
    <3>1. PICK c \in Children(u) : scope[c].phase = "raised"
      BY <2>1 DEF RowRaised
    <3>2. s = c
      BY <3>1, <1>3 DEF NestInv, OneRowAtATime, Children
    <3> QED BY <3>1, <3>2 DEF Active
  <2> QED BY <1>3, <2>1
<1> QED BY <1>1, <1>2, <1>3

(* Every step of a unit is one of the moves.                               *)
LEMMA UnitMoves ==
    ASSUME NestInv, NEW u \in Units, UnitStep(u) \/ Fault(u)
    PROVE  EngineMove
<1>1. /\ SchedulerInv /\ unit \in [Units -> UnitRows] /\ scope \in [Scopes -> ScopeRows]
      /\ Drivers \subseteq Units
  BY DEF NestInv, SchedulerInv, Drivers
<1>2. UNCHANGED scope => PhasesKept
  BY DEF PhasesKept
<1>3. UNCHANGED <<unit, indegree>> => UnitsKept
  BY DEF UnitsKept
<1>4. ASSUME NEW status, NEW taken, Complete(u, status, taken), Working(u),
             unit[u].pc \in InFlight \cup {"queued"}, u \in Drivers => RowsQuiet(u)
      PROVE  EngineMove
  BY <1>1, <1>4, CompletedUnit DEF EngineMove
<1>5. ASSUME NEW pc, Move(u, pc), indegree' = indegree PROVE OnlyUnit(u, pc)
  BY <1>1, <1>5, MovedUnit
<1>6. u \in Drivers /\ unit[u].pc = "queued" => RowsQuiet(u)
  BY DEF NestInv, RowsComeLater, RowsQuiet, Active
<1>7. u \in Drivers => unit[u].pc \notin {"node_wait", "running"}
  BY DEF NestInv, RowsComeLater
<1>8. CASE Take(u)
  <2>1. CASE Complete(u, "timed_out", {})
    BY <1>4, <1>6, <1>8, <2>1 DEF Take, Takeable
  <2>2. CASE Move(u, "type_wait") /\ UNCHANGED <<indegree, scope>>
    BY <1>2, <1>5, <1>8, <2>2 DEF Take, Takeable, EngineMove, Advanced
  <2> QED BY <1>8, <2>1, <2>2 DEF Take
<1>9. CASE AcquireType(u)
  <2>1. /\ Working(u) /\ PhasesKept /\ unit[u].pc = "type_wait"
        /\ OnlyUnit(u, IF u \in Drivers THEN "driving" ELSE "node_wait")
    BY <1>2, <1>5, <1>9 DEF AcquireType
  <2> QED BY <2>1 DEF EngineMove, Advanced
<1>10. CASE AcquireNode(u)
  <2>1. Working(u) /\ unit[u].pc = "node_wait" /\ u \notin Drivers
    BY <1>7, <1>10 DEF AcquireNode, Admitted
  <2>2. ASSUME NEW v, NEW taken, Complete(u, v, taken) PROVE EngineMove
    BY <1>4, <2>1, <2>2 DEF InFlight
  <2>3. CASE Move(u, "running") /\ UNCHANGED <<indegree, scope>>
    BY <1>2, <1>5, <2>1, <2>3 DEF EngineMove, Advanced
  <2> QED BY <1>10, <2>2, <2>3 DEF AcquireNode
<1>11. CASE RunNode(u)
  <2>1. Working(u) /\ unit[u].pc = "running" /\ u \notin Drivers
    BY <1>7, <1>11 DEF RunNode
  <2>2. ASSUME NEW v, NEW taken, Complete(u, v, taken) PROVE EngineMove
    BY <1>4, <2>1, <2>2 DEF InFlight
  <2> QED BY <1>11, <2>2 DEF RunNode, Verdict
<1>12. CASE AbortRows(u)
  <2>1. u \in Concurrent
    BY <1>7, <1>12 DEF AbortRows, Concurrent, RowFailed, Children, Drivers
  <2>2. OnlyUnit(u, "aborting") /\ RowsInterrupted(u)
    BY <1>1, <1>5, <1>12, InterruptedCalls DEF AbortRows
  <2> QED BY <1>12, <2>1, <2>2 DEF AbortRows, EngineMove, Aborted
<1>13. CASE FinishLoop(u)
  <2>1. Working(u) /\ unit[u].pc \in InFlight \cup {"queued"} /\ RowsQuiet(u)
    BY <1>13 DEF FinishLoop, RowsQuiet, InFlight
  <2>2. ASSUME NEW v, NEW taken, Complete(u, v, taken) PROVE EngineMove
    BY <1>4, <2>1, <2>2
  <2> QED BY <1>13, <2>2 DEF FinishLoop
<1>14. CASE FinishMetanode(u)
  <2>1. PICK s \in Children(u) : scope[s].phase \in {"idle", "raised", "returned"}
    BY <1>14 DEF FinishMetanode
  <2>2. \A c \in Children(u) : c = s
    BY <1>1, <1>14, NestingAssumption DEF FinishMetanode, Children, Drivers, Loops
  <2>3. RowsQuiet(u)
    BY <2>1, <2>2 DEF RowsQuiet, Active
  <2>4. ASSUME NEW v, NEW taken, Complete(u, v, taken) PROVE EngineMove
    BY <1>4, <1>14, <2>3, <2>4 DEF FinishMetanode, InFlight
  <2> QED BY <1>14, <2>4 DEF FinishMetanode
<1>15. CASE RaiseRow(u)
  <2>1. u \in Drivers
    BY <1>15 DEF RaiseRow, Loops, Drivers
  <2>2. RowsQuiet(u) /\ (u \in Concurrent => ~RowRaised(u))
    BY <1>15, <2>1, DriverDrops DEF RaiseRow
  <2>3. Working(u) /\ PhasesKept /\ OnlyUnit(u, "failed")
    BY <1>2, <1>5, <1>15 DEF RaiseRow, Fail
  <2> QED BY <2>1, <2>2, <2>3 DEF EngineMove, Dropped
<1>16. CASE InterruptRows(u)
  <2>1. UnitsKept /\ RowsInterrupted(u)
    BY <1>1, <1>3, <1>16, InterruptedCalls DEF InterruptRows
  <2> QED BY <1>16, <2>1 DEF InterruptRows, EngineMove, PassedOn
<1>17. CASE CancelUnit(u)
  <2>1. PhasesKept /\ OnlyUnit(u, "cancelled")
    BY <1>2, <1>5, <1>17 DEF CancelUnit
  <2>2. u \in Drivers => \/ RowsQuiet(u)
                         \/ u \in Concurrent /\ \A s \in Children(u) : scope[s].phase # "running"
    <3> SUFFICES ASSUME u \in Drivers
                 PROVE  \/ RowsQuiet(u)
                        \/ u \in Concurrent /\ \A s \in Children(u) : scope[s].phase # "running"
      OBVIOUS
    <3>1. CASE unit[u].pc = "type_wait"
      BY <3>1 DEF NestInv, RowsComeLater, RowsQuiet, Active
    <3>2. CASE unit[u].pc \in {"driving", "aborting"}
      BY <1>17, <3>2 DEF CancelUnit, RowsEnded, RowsQuiet, Concurrent
    <3> QED BY <1>7, <1>17, <3>1, <3>2 DEF CancelUnit, InFlight
  <2> QED BY <1>17, <2>1, <2>2 DEF CancelUnit, EngineMove, Stopped
<1>18. CASE Fault(u)
  <2>1. u \in MayFault /\ Working(u) /\ PhasesKept /\ OnlyUnit(u, "failed")
    BY <1>2, <1>5, <1>18 DEF Fault, Fail
  <2>2. ASSUME u \in Drivers PROVE RowsQuiet(u) /\ (u \in Concurrent => ~RowRaised(u))
    <3>1. \/ unit[u].pc = "driving" /\ RowsQuiet(u)
          \/ unit[u].pc = "queued"
      BY <1>7, <1>18, <2>2 DEF Fault, RowsQuiet, Takeable, Admitted
    <3> QED BY <2>1, <2>2, <3>1, DriverDrops
  <2> QED BY <2>1, <2>2 DEF EngineMove, Dropped
<1> QED BY <1>8, <1>9, <1>10, <1>11, <1>12, <1>13, <1>14, <1>15, <1>16, <1>17, <1>18 DEF UnitStep


(* Every step of a call is one of the moves.                               *)
LEMMA CallMoves ==
    ASSUME NestInv, PlainRows, NEW s \in Scopes, ScopeStep(s)
    PROVE  EngineMove
<1>1. /\ SchedulerInv /\ unit \in [Units -> UnitRows] /\ scope \in [Scopes -> ScopeRows]
      /\ \A u \in Units : scope[ScopeOf[u]].phase = "idle" => unit[u].pc = "blocked"
  BY DEF NestInv, SchedulerInv
<1>2. UNCHANGED <<unit, indegree>> => UnitsKept
  BY DEF UnitsKept
<1>3. ASSUME NEW phase \in {"running", "cancelling", "returned", "raised"},
             scope' = [scope EXCEPT ![s].phase = phase]
      PROVE  OnlyCall(s, phase)
  <2>1. SetPhase(s, phase)
    BY <1>3 DEF SetPhase
  <2> QED BY <1>1, <2>1, CallMoved
<1>4. CASE StartIteration(s)
  <2> DEFINE u == Driver[s]
  <2>1. u \in Drivers /\ u \in Units /\ s \in Children(u) /\ s # Root
    BY <1>4 DEF StartIteration, Drivers, Children
  <2>2. unit[u].pc = "driving" /\ Working(u)
    <3>1. ASSUME unit[u].pc = "failed", Concurrency[u] > 1 PROVE ~RowRaised(u)
      BY <2>1, <3>1 DEF NestInv, RowsDoNotRaise, RowRaised, Children, Concurrent
    <3> QED BY <1>4, <3>1 DEF StartIteration
  <2>3. ASSUME u \notin Concurrent, NEW c \in Children(u)
        PROVE  ~Active(c) /\ scope[c].phase # "raised"
    <3> DEFINE Busy == {r \in Children(u) : Active(r)}
    <3>1. Concurrency[u] = 1
      BY <2>1, <2>3 DEF Concurrent
    <3>2. Cardinality(Busy) < 1 /\ ~RowRaised(u)
      BY <1>4, <3>1 DEF StartIteration
    <3>3. IsFiniteSet(Busy)
      BY NestingAssumption, FS_Subset DEF Children
    <3>4. Busy = {}
      <4> HIDE DEF Busy
      <4> QED BY <3>2, <3>3, FS_CardinalityType, FS_EmptySet
    <3> QED BY <2>3, <3>2, <3>4 DEF RowRaised
  <2>4. ASSUME NEW v \in Units
        PROVE  /\ \/ unit'[v].pc = unit[v].pc
                  \/ unit[v].pc = "blocked" /\ unit'[v].pc = "queued"
               /\ v \in PlanOf(s) /\ indegree[v] = 0 => unit'[v].pc # "blocked"
    <3> DEFINE row == unit[v]
    <3>1. row \in UnitRows
      BY <1>1
    <3>2. unit'[v] = IF ScopeOf[v] = s /\ indegree[v] = 0
                     THEN [row EXCEPT !.pc = "queued"] ELSE row
      BY <1>4 DEF StartIteration, Begun
    <3>3. ScopeOf[v] = s => row.pc = "blocked"
      BY <1>1, <1>4 DEF StartIteration
    <3> HIDE DEF row
    <3>4. [row EXCEPT !.pc = "queued"].pc = "queued"
      BY <3>1 DEF UnitRows
    <3> QED BY <3>2, <3>3, <3>4 DEF row, PlanOf
  <2>5. OnlyCall(s, "running") /\ scope[s].phase = "idle" /\ indegree' = indegree
    BY <1>3, <1>4 DEF StartIteration
  <2>6. \A v \in PlanOf(s) : indegree[v] = 0 => unit'[v].pc # "blocked"
    BY <2>4 DEF PlanOf
  <2> QED BY <2>1, <2>2, <2>3, <2>4, <2>5, <2>6 DEF EngineMove, RowStarted
<1>5. CASE Supervise(s)
  BY <1>2, <1>3, <1>5 DEF Supervise, EngineMove, ToldToStop
<1>6. CASE Return(s)
  <2> DEFINE phase == IF scope[s].completed = Cardinality(PlanOf(s)) THEN "returned" ELSE "raised"
  <2>1. /\ scope[s].phase = "running" /\ InFlightOf(s) = {} /\ UnitsKept
        /\ \A u \in PlanOf(s) : unit[u].pc \notin InFlight \cup {"queued"}
    BY <1>2, <1>6 DEF Return, InFlightOf
  <2>3. OnlyCall(s, phase) /\ phase \in {"returned", "raised"}
    <3>1. scope' = [scope EXCEPT ![s].phase = phase] /\ phase \in {"returned", "raised"}
      BY <1>6 DEF Return
    <3> HIDE DEF phase
    <3>2. CASE phase = "returned"
      BY <1>3, <3>1, <3>2
    <3>3. CASE phase = "raised"
      BY <1>3, <3>1, <3>3
    <3> QED BY <3>1, <3>2, <3>3
  <2>2. s # Root /\ Driver[s] \in Concurrent => phase = "returned"
    BY <2>1, RowReturns
  <2> HIDE DEF phase
  <2> QED BY <2>1, <2>2, <2>3 DEF EngineMove, CallEnded, Active
<1>7. CASE Raise(s)
  BY <1>2, <1>3, <1>7 DEF Raise, EngineMove, CallEnded, Active
<1> QED BY <1>4, <1>5, <1>6, <1>7 DEF ScopeStep

(* Every step is one of the moves.                                         *)
LEMMA EngineMoves ==
    ASSUME NestInv, PlainRows, [Next]_vars
    PROVE  EngineMove
<1>1. CASE CancelCaller
  <2>1. OnlyCall(Root, "cancelling") /\ UnitsKept
    BY <1>1, CallMoved DEF CancelCaller, SetPhase, NestInv, UnitsKept
  <2> QED BY <1>1, <2>1 DEF CancelCaller, EngineMove, ToldToStop
<1>2. CASE DeadlinePasses \/ UNCHANGED vars
  BY <1>2 DEF DeadlinePasses, vars, EngineMove, UnitsKept, PhasesKept
<1> QED BY <1>1, <1>2, UnitMoves, CallMoves DEF Next


---------------------------------------------------------------------------
(* The invariant, against the moves                                        *)

(* A unit fails only by the move of that name.                             *)
LEMMA FailureIsADrop ==
    ASSUME NestInv, EngineMove
    PROVE  \A u \in Units : unit'[u].pc = "failed" => unit[u].pc = "failed" \/ Dropped(u)
<1> SUFFICES ASSUME NEW v \in Units, unit'[v].pc = "failed", unit[v].pc # "failed"
             PROVE  Dropped(v)
  OBVIOUS
<1>1. ~UnitsKept
  BY DEF UnitsKept
<1>2. ASSUME NEW s \in Scopes PROVE ~RowStarted(s) /\ ~ToldToStop(s) /\ ~CallEnded(s)
  BY <1>1, <1>2 DEF RowStarted, ToldToStop, CallEnded
<1>3. ASSUME NEW u \in Units
      PROVE  ~Settled(u) /\ ~Advanced(u) /\ ~Stopped(u) /\ ~Aborted(u) /\ ~PassedOn(u)
  <2>1. ~Settled(u)
    BY DEF Settled
  <2>2. ~Advanced(u)
    BY DEF Advanced, OnlyUnit
  <2>3. ~Stopped(u) /\ ~Aborted(u) /\ ~PassedOn(u)
    BY <1>1 DEF Stopped, Aborted, PassedOn, OnlyUnit
  <2> QED BY <2>1, <2>2, <2>3
<1>4. ASSUME NEW u \in Units, Dropped(u) PROVE Dropped(v)
  BY <1>4 DEF Dropped, OnlyUnit
<1> QED BY <1>1, <1>2, <1>3, <1>4 DEF EngineMove

(* A call does not end under a unit in flight.                             *)
LEMMA InFlightStep ==
    ASSUME NestInv, EngineMove
    PROVE  InFlightIsActive'
<1>1. InFlightIsActive /\ \A u \in Units : ScopeOf[u] \in Scopes
  BY DEF NestInv
<1> SUFFICES ASSUME NEW v \in Units, unit'[v].pc \in InFlight
             PROVE  scope'[ScopeOf[v]].phase \in {"running", "cancelling"}
  BY DEF InFlightIsActive, Active
<1> USE DEF InFlightIsActive, Active
<1>2. CASE UnitsKept /\ PhasesKept
  BY <1>1, <1>2 DEF UnitsKept, PhasesKept
<1>3. ASSUME NEW u \in Units, Settled(u)
      PROVE  scope'[ScopeOf[v]].phase \in {"running", "cancelling"}
  BY <1>1, <1>3 DEF Settled, PhasesKept, InFlight
<1>4. ASSUME NEW u \in Units, Advanced(u)
      PROVE  scope'[ScopeOf[v]].phase \in {"running", "cancelling"}
  BY <1>1, <1>4 DEF Advanced, OnlyUnit, PhasesKept, Working
<1>5. ASSUME NEW u \in Units, Dropped(u) \/ Stopped(u)
      PROVE  scope'[ScopeOf[v]].phase \in {"running", "cancelling"}
  BY <1>1, <1>5 DEF Dropped, Stopped, OnlyUnit, PhasesKept, InFlight
<1>6. ASSUME NEW u \in Units, Aborted(u) \/ PassedOn(u)
      PROVE  scope'[ScopeOf[v]].phase \in {"running", "cancelling"}
  <2>1. unit[v].pc \in InFlight
    BY <1>6 DEF Aborted, PassedOn, OnlyUnit, UnitsKept, InFlight
  <2> QED BY <1>1, <1>6, <2>1 DEF Aborted, PassedOn, RowsInterrupted
<1>7. ASSUME NEW s \in Scopes, RowStarted(s) \/ ToldToStop(s)
      PROVE  scope'[ScopeOf[v]].phase \in {"running", "cancelling"}
  <2>1. unit[v].pc \in InFlight
    BY <1>7 DEF RowStarted, ToldToStop, UnitsKept, InFlight
  <2> QED BY <1>1, <1>7, <2>1 DEF RowStarted, ToldToStop, OnlyCall
<1>8. ASSUME NEW s \in Scopes, CallEnded(s)
      PROVE  scope'[ScopeOf[v]].phase \in {"running", "cancelling"}
  <2>1. unit[v].pc \in InFlight
    BY <1>8 DEF CallEnded, UnitsKept
  <2>2. ScopeOf[v] # s
    BY <1>8, <2>1 DEF CallEnded, InFlightOf, PlanOf
  <2> QED BY <1>1, <1>8, <2>1, <2>2 DEF CallEnded, OnlyCall
<1> QED BY <1>2, <1>3, <1>4, <1>5, <1>6, <1>7, <1>8 DEF EngineMove

(* Rows begin under a driving driver only.                                 *)
LEMMA LaterStep ==
    ASSUME NestInv, EngineMove
    PROVE  RowsComeLater'
<1>1. RowsComeLater /\ Drivers \subseteq Units
  BY DEF NestInv, Drivers
<1> SUFFICES ASSUME NEW w \in Drivers
             PROVE  /\ unit'[w].pc \notin {"node_wait", "running"}
                    /\ unit'[w].pc \in {"blocked", "queued", "type_wait"} =>
                          \A c \in Children(w) : scope'[c].phase = "idle"
  BY DEF RowsComeLater, Children
<1> DEFINE Goal == /\ unit'[w].pc \notin {"node_wait", "running"}
                   /\ unit'[w].pc \in {"blocked", "queued", "type_wait"} =>
                          \A c \in Children(w) : scope'[c].phase = "idle"
<1>2. /\ unit[w].pc \notin {"node_wait", "running"}
      /\ unit[w].pc \in {"blocked", "queued", "type_wait"} =>
            \A c \in Children(w) : scope[c].phase = "idle"
      /\ w \in Units /\ \A c \in Children(w) : c \in Scopes /\ c # Root /\ Driver[c] = w
  BY <1>1 DEF RowsComeLater, Children
<1>3. CASE UnitsKept /\ PhasesKept
  BY <1>2, <1>3 DEF UnitsKept, PhasesKept
<1>4. ASSUME NEW u \in Units, Settled(u) PROVE Goal
  BY <1>2, <1>4 DEF Settled, PhasesKept
<1>5. ASSUME NEW u \in Units, Advanced(u) PROVE Goal
  BY <1>2, <1>5 DEF Advanced, OnlyUnit, PhasesKept
<1>6. ASSUME NEW u \in Units, Dropped(u) \/ Stopped(u) PROVE Goal
  BY <1>2, <1>6 DEF Dropped, Stopped, OnlyUnit, PhasesKept
<1>7. ASSUME NEW u \in Units, Aborted(u) \/ PassedOn(u) PROVE Goal
  BY <1>2, <1>7 DEF Aborted, PassedOn, OnlyUnit, UnitsKept, RowsInterrupted
<1>8. ASSUME NEW s \in Scopes, RowStarted(s) PROVE Goal
  BY <1>2, <1>8 DEF RowStarted, OnlyCall
<1>9. ASSUME NEW s \in Scopes, ToldToStop(s) \/ CallEnded(s) PROVE Goal
  BY <1>2, <1>9 DEF ToldToStop, CallEnded, OnlyCall, UnitsKept, Active
<1> QED BY <1>3, <1>4, <1>5, <1>6, <1>7, <1>8, <1>9 DEF EngineMove

(* A driver ends with its rows.                                            *)
LEMMA DrivenStep ==
    ASSUME NestInv, EngineMove
    PROVE  RowsAreDriven'
<1>1. RowsAreDriven /\ RowsComeLater
  BY DEF NestInv
<1> SUFFICES ASSUME NEW c \in Scopes \ {Root},
                    scope'[c].phase \in {"running", "cancelling"},
                    scope'[c].phase = "running" \/ Driver[c] \notin Concurrent
             PROVE  unit'[Driver[c]].pc \in {"driving", "aborting"}
  BY DEF RowsAreDriven, Active
<1> DEFINE w == Driver[c]
           Goal == unit'[w].pc \in {"driving", "aborting"}
<1>2. /\ w \in Drivers /\ w \in Units /\ c \in Children(w) /\ c \in Scopes
      /\ Active(c) /\ (scope[c].phase = "running" \/ w \notin Concurrent) =>
            unit[w].pc \in {"driving", "aborting"}
  BY <1>1 DEF RowsAreDriven, Drivers, Children
<1> HIDE DEF w
<1>3. CASE UnitsKept /\ PhasesKept
  BY <1>2, <1>3 DEF UnitsKept, PhasesKept, Active, w
<1>4. ASSUME NEW u \in Units, Settled(u) PROVE Goal
  BY <1>2, <1>4 DEF Settled, PhasesKept, RowsQuiet, Active, w
<1>5. ASSUME NEW u \in Units, Advanced(u) PROVE Goal
  BY <1>1, <1>2, <1>5 DEF Advanced, OnlyUnit, PhasesKept, Active, w
<1>6. ASSUME NEW u \in Units, Dropped(u) \/ Stopped(u) PROVE Goal
  BY <1>2, <1>6 DEF Dropped, Stopped, OnlyUnit, PhasesKept, RowsQuiet, Active, w
<1>7. ASSUME NEW u \in Units, Aborted(u) \/ PassedOn(u) PROVE Goal
  BY <1>2, <1>7 DEF Aborted, PassedOn, OnlyUnit, UnitsKept, RowsInterrupted, Active, w
<1>8. ASSUME NEW s \in Scopes, RowStarted(s) PROVE Goal
  BY <1>2, <1>8 DEF RowStarted, OnlyCall, Active, w
<1>9. ASSUME NEW s \in Scopes, ToldToStop(s) \/ CallEnded(s) PROVE Goal
  BY <1>2, <1>9 DEF ToldToStop, CallEnded, OnlyCall, UnitsKept, Active, w
<1> QED BY <1>3, <1>4, <1>5, <1>6, <1>7, <1>8, <1>9 DEF EngineMove, w


(* The next row of a sequential loop begins when the last has returned.    *)
LEMMA OneRowStep ==
    ASSUME NestInv, EngineMove
    PROVE  OneRowAtATime'
<1>1. OneRowAtATime
  BY DEF NestInv
<1> SUFFICES ASSUME NEW a \in Scopes \ {Root}, NEW c \in Scopes \ {Root},
                    Driver[a] = Driver[c], Driver[a] \notin Concurrent,
                    scope'[a].phase \in {"running", "cancelling"},
                    scope'[c].phase \in {"running", "cancelling", "raised"}
             PROVE  a = c
  BY DEF OneRowAtATime, Active
<1>2. /\ Active(a) /\ (Active(c) \/ scope[c].phase = "raised") => a = c
      /\ Active(c) /\ (Active(a) \/ scope[a].phase = "raised") => a = c
      /\ a \in Children(Driver[a]) /\ c \in Children(Driver[a])
  BY <1>1 DEF OneRowAtATime, Children
<1>3. CASE PhasesKept
  BY <1>2, <1>3 DEF PhasesKept, Active
<1>4. ASSUME NEW u \in Units, RowsInterrupted(u) PROVE a = c
  BY <1>2, <1>4 DEF RowsInterrupted, Active
<1>5. ASSUME NEW s \in Scopes, RowStarted(s) PROVE a = c
  BY <1>2, <1>5 DEF RowStarted, OnlyCall, Active
<1>6. ASSUME NEW s \in Scopes, ToldToStop(s) \/ CallEnded(s) PROVE a = c
  BY <1>2, <1>6 DEF ToldToStop, CallEnded, OnlyCall, Active
<1> QED BY <1>3, <1>4, <1>5, <1>6 DEF EngineMove, Settled, Advanced, Dropped, Stopped,
        Aborted, PassedOn

(* A row that cannot fail raises only after it was told to stop.           *)
LEMMA NoRaiseStep ==
    ASSUME NestInv, PlainRows, EngineMove
    PROVE  RowsDoNotRaise'
<1>1. RowsDoNotRaise /\ RowsComeLater /\ \A u \in Units : ScopeOf[u] \in Scopes
  BY DEF NestInv
<1> SUFFICES ASSUME NEW c \in Scopes \ {Root}, Driver[c] \in Concurrent
             PROVE  /\ /\ unit'[Driver[c]].pc = "driving"
                       /\ scope'[ScopeOf[Driver[c]]].phase = "running"
                       => scope'[c].phase \in {"idle", "running", "returned"}
                    /\ unit'[Driver[c]].pc = "failed" =>
                          scope'[c].phase \in {"idle", "returned"}
                    /\ \A v \in PlanOf(c) : unit'[v].pc # "failed"
  BY DEF RowsDoNotRaise, Working, PlanOf
<1> DEFINE w == Driver[c]
<1>2. /\ w \in Drivers /\ w \in Units /\ c \in Children(w) /\ c \in Scopes /\ w \in Concurrent
      /\ ScopeOf[w] \in Scopes
      /\ PlanOf(c) \cap (Drivers \cup MayFault) = {} /\ PlanOf(c) \subseteq Units
      /\ unit[w].pc = "driving" /\ scope[ScopeOf[w]].phase = "running" =>
            scope[c].phase \in {"idle", "running", "returned"}
      /\ unit[w].pc = "failed" => scope[c].phase \in {"idle", "returned"}
      /\ \A v \in PlanOf(c) : unit[v].pc # "failed"
      /\ unit[w].pc \in {"blocked", "queued", "type_wait"} => scope[c].phase = "idle"
      /\ scope[ScopeOf[w]].phase = "idle" => unit[w].pc = "blocked"
  BY <1>1 DEF RowsDoNotRaise, RowsComeLater, PlainRows, PlanOf, Working, Drivers, Children,
     NestInv, SchedulerInv
<1> HIDE DEF w
<1>3. \A v \in PlanOf(c) : unit'[v].pc # "failed"
  BY <1>2, FailureIsADrop DEF Dropped
<1> DEFINE Goal == /\ /\ unit'[w].pc = "driving"
                      /\ scope'[ScopeOf[w]].phase = "running"
                      => scope'[c].phase \in {"idle", "running", "returned"}
                   /\ unit'[w].pc = "failed" => scope'[c].phase \in {"idle", "returned"}
<1>4. ASSUME UnitsKept, PhasesKept PROVE Goal
  BY <1>2, <1>4 DEF UnitsKept, PhasesKept
<1>5. ASSUME NEW u \in Units, Settled(u) PROVE Goal
  BY <1>2, <1>5 DEF Settled, PhasesKept
<1>6. ASSUME NEW u \in Units, Advanced(u) PROVE Goal
  BY <1>2, <1>6 DEF Advanced, OnlyUnit, PhasesKept
<1>7. ASSUME NEW u \in Units, Dropped(u) PROVE Goal
  <2>1. CASE u # w
    BY <1>2, <1>7, <2>1 DEF Dropped, OnlyUnit, PhasesKept
  <2>2. CASE u = w
    <3>1. scope[c].phase \in {"idle", "running", "cancelling", "returned", "raised"}
      BY <1>2 DEF NestInv, SchedulerInv, ScopeRows
    <3> QED BY <1>2, <1>7, <2>2, <3>1 DEF Dropped, OnlyUnit, PhasesKept, RowsQuiet, RowRaised, Active
  <2> QED BY <2>1, <2>2
<1>8. ASSUME NEW u \in Units, Stopped(u) PROVE Goal
  BY <1>2, <1>8 DEF Stopped, OnlyUnit, PhasesKept
<1>9. ASSUME NEW u \in Units, Aborted(u) \/ PassedOn(u) PROVE Goal
  <2>1. CASE u = w
    BY <1>2, <1>9, <2>1 DEF Aborted, PassedOn, OnlyUnit, UnitsKept, RowsInterrupted
  <2>2. CASE u # w
    <3>1. c \notin Children(u)
      BY <1>2, <2>2 DEF Children, w
    <3>2. scope'[c].phase = scope[c].phase /\ unit'[w].pc = unit[w].pc
      BY <1>2, <1>9, <2>2, <3>1 DEF Aborted, PassedOn, OnlyUnit, UnitsKept, RowsInterrupted
    <3>3. scope'[ScopeOf[w]].phase = "running" => scope[ScopeOf[w]].phase = "running"
      BY <1>2, <1>9 DEF Aborted, PassedOn, RowsInterrupted
    <3> QED BY <1>2, <3>2, <3>3
  <2> QED BY <2>1, <2>2
<1>10. ASSUME NEW s \in Scopes, RowStarted(s) PROVE Goal
  <2>1. unit'[w].pc \in {"driving", "failed"} => unit'[w].pc = unit[w].pc /\ ScopeOf[w] # s
    BY <1>2, <1>10 DEF RowStarted
  <2>2. CASE s = c
    BY <1>2, <1>10, <2>1, <2>2 DEF RowStarted, OnlyCall, w
  <2>3. CASE s # c
    BY <1>2, <1>10, <2>1, <2>3 DEF RowStarted, OnlyCall
  <2> QED BY <2>2, <2>3
<1>11. ASSUME NEW s \in Scopes, ToldToStop(s) PROVE Goal
  <2>1. s # c
    BY <1>2, <1>11 DEF ToldToStop, FailedOf
  <2> QED BY <1>2, <1>11, <2>1 DEF ToldToStop, OnlyCall, UnitsKept
<1>12. ASSUME NEW s \in Scopes, CallEnded(s) PROVE Goal
  BY <1>2, <1>12 DEF CallEnded, OnlyCall, UnitsKept, Active, w
<1> QED BY <1>3, <1>4, <1>5, <1>6, <1>7, <1>8, <1>9, <1>10, <1>11, <1>12 DEF EngineMove, w

(* A unit is queued by its last dependency, or by the beginning.           *)
LEMMA ForgottenStep ==
    ASSUME NestInv, EngineMove
    PROVE  NoUnitForgotten'
<1>1. /\ NoUnitForgotten /\ \A u \in Units : ScopeOf[u] \in Scopes
      /\ \A u \in Units : scope[ScopeOf[u]].phase = "idle" => unit[u].pc = "blocked"
  BY DEF NestInv, SchedulerInv
<1> SUFFICES ASSUME NEW v \in Units
             PROVE  /\ scope'[ScopeOf[v]].phase # "idle" /\ indegree'[v] = 0
                           => unit'[v].pc # "blocked"
                    /\ scope'[ScopeOf[v]].phase = "running" => unit'[v].pc # "cancelled"
  BY DEF NoUnitForgotten
<1> DEFINE Goal == /\ scope'[ScopeOf[v]].phase # "idle" /\ indegree'[v] = 0
                           => unit'[v].pc # "blocked"
                   /\ scope'[ScopeOf[v]].phase = "running" => unit'[v].pc # "cancelled"
<1>2. /\ scope[ScopeOf[v]].phase # "idle" /\ indegree[v] = 0 => unit[v].pc # "blocked"
      /\ scope[ScopeOf[v]].phase = "running" => unit[v].pc # "cancelled"
      /\ scope[ScopeOf[v]].phase = "idle" => unit[v].pc = "blocked"
      /\ ScopeOf[v] \in Scopes
  BY <1>1 DEF NoUnitForgotten
<1>3. CASE UnitsKept /\ PhasesKept
  BY <1>2, <1>3 DEF UnitsKept, PhasesKept
<1>4. ASSUME NEW u \in Units, Settled(u) PROVE Goal
  BY <1>2, <1>4 DEF Settled, PhasesKept
<1>5. ASSUME NEW u \in Units, Advanced(u) \/ Dropped(u) \/ Stopped(u) PROVE Goal
  BY <1>2, <1>5 DEF Advanced, Dropped, Stopped, OnlyUnit, PhasesKept
<1>6. ASSUME NEW u \in Units, Aborted(u) \/ PassedOn(u) PROVE Goal
  BY <1>2, <1>6 DEF Aborted, PassedOn, OnlyUnit, UnitsKept, RowsInterrupted
<1>7. ASSUME NEW s \in Scopes, RowStarted(s) PROVE Goal
  BY <1>2, <1>7 DEF RowStarted, OnlyCall, PlanOf
<1>8. ASSUME NEW s \in Scopes, ToldToStop(s) \/ CallEnded(s) PROVE Goal
  BY <1>2, <1>8 DEF ToldToStop, CallEnded, OnlyCall, UnitsKept, Active
<1> QED BY <1>3, <1>4, <1>5, <1>6, <1>7, <1>8 DEF EngineMove

(* The invariant of the nesting holds throughout.                          *)
LEMMA NestInvariant ==
    ASSUME PlainRows
    PROVE  Spec => []NestInv
<1>1. Init => NestInv
  <2> SUFFICES ASSUME Init PROVE NestInv
    OBVIOUS
  <2>1. SchedulerInv
    BY InitEstablishes
  <2>2. /\ \A u \in Units :
             unit[u].pc = IF ScopeOf[u] = Root /\ Deps[u] = {} THEN "queued" ELSE "blocked"
        /\ \A s \in Scopes : scope[s].phase = IF s = Root THEN "running" ELSE "idle"
    BY DEF Init
  <2>3. InFlightIsActive /\ RowsComeLater /\ RowsAreDriven /\ OneRowAtATime /\ RowsDoNotRaise
    BY <2>2 DEF InFlightIsActive, RowsComeLater, RowsAreDriven, OneRowAtATime, RowsDoNotRaise,
       InFlight, Active, Working, Children, Drivers, PlanOf
  <2>4. NoUnitForgotten
    <3> SUFFICES ASSUME NEW u \in Units, scope[ScopeOf[u]].phase # "idle", indegree[u] = 0
                 PROVE  unit[u].pc # "blocked"
      BY <2>2 DEF NoUnitForgotten
    <3>1. indegree[u] = Cardinality(Deps[u]) /\ Deps[u] \in SUBSET Units
      BY DEF Init
    <3>2. Deps[u] = {}
      BY <3>1, UnitsFinite, FS_EmptySet
    <3> QED BY <2>2, <3>2
  <2> QED BY <2>1, <2>3, <2>4 DEF NestInv
<1>2. NestInv /\ [Next]_vars => NestInv'
  <2> SUFFICES ASSUME NestInv, [Next]_vars PROVE NestInv'
    OBVIOUS
  <2>1. EngineMove
    BY EngineMoves
  <2>2. SchedulerInv'
    BY NextPreserves DEF NestInv
  <2> QED BY <2>1, <2>2, InFlightStep, LaterStep, DrivenStep, OneRowStep, NoRaiseStep,
          ForgottenStep DEF NestInv
<1> QED BY <1>1, <1>2, PTL DEF Spec

(* Once the outermost call has ended, no node starts any more, whatever    *)
(* was cancelled, failed or late, and however loops and metanodes nest, if *)
(* the rows of concurrent loops are plain.  What still runs is driven, and *)
(* so is its driver's call, up to the outermost.                           *)
THEOREM EndIsFinal ==
    ASSUME PlainRows
    PROVE  Spec => NoStartAfterEnd
<1>1. ASSUME NestInv, [Next]_vars, scope[Root].phase \in {"returned", "raised"},
             NEW v \in Units, unit'[v].pc = "running"
      PROVE  unit[v].pc = "running"
  <2> SUFFICES ASSUME unit[v].pc # "running" PROVE FALSE
    OBVIOUS
  <2>1. EngineMove
    BY <1>1, EngineMoves
  <2>2. Working(v)
    BY <1>1, <2>1 DEF EngineMove, UnitsKept, Settled, Advanced, Dropped, Stopped, Aborted,
       PassedOn, RowStarted, ToldToStop, CallEnded, OnlyUnit
  <2> DEFINE Driven == {s \in Scopes : /\ Active(s)
                                       /\ \/ scope[s].phase = "running"
                                          \/ s = Root
                                          \/ Driver[s] \notin Concurrent}
  <2>3. Driven # {}
    BY <2>2 DEF Working, Active
  <2>4. ASSUME NEW s \in Driven \ {Root} PROVE ScopeOf[Driver[s]] \in Driven
    <3>1. /\ unit[Driver[s]].pc \in {"driving", "aborting"}
          /\ Driver[s] \in Drivers /\ Driver[s] \in Units
      BY <1>1, <2>4 DEF NestInv, RowsAreDriven, Drivers
    <3> DEFINE outer == ScopeOf[Driver[s]]
    <3>2. outer \in Scopes /\ Active(outer) /\ Driver[s] \in PlanOf(outer)
      BY <1>1, <3>1 DEF NestInv, InFlightIsActive, InFlight, PlanOf
    <3>3. outer = Root \/ Driver[outer] \notin Concurrent
      BY <3>1, <3>2 DEF PlainRows
    <3> QED BY <3>2, <3>3
  <2>5. Root \in Driven
    <3>1. Driven \in SUBSET Scopes
      OBVIOUS
    <3> HIDE DEF Driven
    <3> QED BY <2>3, <2>4, <3>1, NestingAssumption
  <2> QED BY <1>1, <2>5 DEF Active
<1>2. NestInv /\ [Next]_vars =>
        [scope[Root].phase \in {"returned", "raised"}
           => \A u \in Units : unit'[u].pc = "running" => unit[u].pc = "running"]_vars
  BY <1>1
<1> QED BY <1>2, NestInvariant, PTL DEF Spec, NoStartAfterEnd

=============================================================================
