--------------------------- MODULE MCRuntimePool ---------------------------
(* Model checking of RuntimePool: two environments, elastic with two runs  *)
(* and single (spawn-per-run) with a run that makes a chain of sub-workflow *)
(* calls deeper than the throttle.                                         *)
EXTENDS RuntimePool

MCEnvOf == [r \in {"r1", "r2", "r3"} |-> IF r = "r3" THEN "single" ELSE "elastic"]
MCMinSize == [e \in {"elastic", "single"} |-> IF e = "elastic" THEN 1 ELSE 0]
MCMaxSize == [e \in {"elastic", "single"} |-> IF e = "elastic" THEN 2 ELSE 1]
MCEstimate == [e \in {"elastic", "single"} |-> IF e = "elastic" THEN 1 ELSE 3]
MCCaller == [c \in {"outer", "inner"} |-> IF c = "inner" THEN "outer" ELSE "r3"]

=============================================================================
