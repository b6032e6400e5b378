------------------------ MODULE MCEnvironmentBuilds ------------------------
(* Model checking of EnvironmentBuilds: one environment that keeps a warm  *)
(* worker, its configuration edited once or not at all.                    *)
EXTENDS EnvironmentBuilds

MCEnvOf == [r \in Runs |-> "env"]
MCOne == [e \in {"env"} |-> 1]
MCZero == [e \in {"env"} |-> 0]
MCForward == [v \in {"v0", "v1"} |-> {"v1"}]
MCAttempts == [j \in Jobs |-> IF j = 1 THEN 1 ELSE 2]
MCNoCaller == [c \in {} |-> "none"]

=============================================================================
