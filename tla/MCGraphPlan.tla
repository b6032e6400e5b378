---------------------------- MODULE MCGraphPlan ----------------------------
(* Model checking of GraphPlan: small graphs with up to two loops, and     *)
(* three loops inside one another in every order of insertion.             *)
EXTENDS GraphPlan, TLC

Plain == [n \in Nodes |-> "plain"]
NoPair == [n \in Nodes |-> None]

(* One loop from s to e, or two.                                           *)
OneLoop(s, e) ==
    [kind |-> [Plain EXCEPT ![s] = "loop_start", ![e] = "loop_end"],
     pair |-> [NoPair EXCEPT ![e] = s]]

TwoLoops(s, e, t, f) ==
    [kind |-> [n \in Nodes |-> IF n \in {s, t} THEN "loop_start"
                               ELSE IF n \in {e, f} THEN "loop_end" ELSE "plain"],
     pair |-> [n \in Nodes |-> IF n = e THEN s ELSE IF n = f THEN t ELSE None]]

Shapes == {[kind |-> Plain, pair |-> NoPair], OneLoop(1, 4), OneLoop(3, 2),
           TwoLoops(1, 4, 2, 3), TwoLoops(3, 1, 2, 4), TwoLoops(1, 3, 2, 3)}

MaxEdges == 4

SmallGraphs ==
    {[edges |-> edges, kind |-> shape.kind, pair |-> shape.pair] :
        edges \in {E \in SUBSET ((1..4) \X (1..4)) :
                     Cardinality(E) <= MaxEdges /\ \A n \in 2..4 : <<n, n>> \notin E},
        shape \in Shapes}

(* A loop around a loop around a node, inserted along the chain or the     *)
(* inner loop first, and up to two more edges.                             *)
Insertions == {<<1, 2, 3, 4, 5>>, <<5, 2, 1, 3, 4>>}

NestedGraphs ==
    {[edges |-> {<<p[i], p[i + 1]>> : i \in 1..4} \cup extra,
      kind |-> TwoLoops(p[1], p[5], p[2], p[4]).kind,
      pair |-> TwoLoops(p[1], p[5], p[2], p[4]).pair] :
        p \in Insertions,
        extra \in {{}} \cup {{a, b} : a \in (1..5) \X (1..5), b \in (1..5) \X (1..5)}}

AllGraphs == SmallGraphs \cup NestedGraphs

SmallRequests ==
    {[whole |-> TRUE, targets |-> {}, cache |-> {}]} \cup
    {[whole |-> FALSE, targets |-> t, cache |-> c] :
        t \in {{4}, {3, 5}}, c \in {{}, {2}, {3}}}

WholeRun == {[whole |-> TRUE, targets |-> {}, cache |-> {}]}

(* Three loops inside one another, their six nodes inserted in any order:  *)
(* p[1] -> p[2] -> p[3] -> p[4] -> p[5] -> p[6], starts first.             *)
TripleNests ==
    {[edges |-> {<<p[i], p[i + 1]>> : i \in 1..5},
      kind |-> [n \in 1..6 |-> IF n \in {p[1], p[2], p[3]} THEN "loop_start" ELSE "loop_end"],
      pair |-> [n \in 1..6 |-> IF n = p[4] THEN p[3] ELSE IF n = p[5] THEN p[2]
                               ELSE IF n = p[6] THEN p[1] ELSE None]] :
        p \in Permutations(1..6)}

===========================================================================
