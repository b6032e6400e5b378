SPECIFICATION Spec
CONSTANTS
    Tokens = {t1, t2}
    NoToken = NoToken
    Requests = {r1}
    MaxAttempts = 1
    Nodes = 1
    Local = FALSE
    Overlap = FALSE
    Events = {"crash", "park", "missing_graph", "cancel", "replay", "runner_offline"}
SYMMETRY Symmetry
INVARIANT TypeOK
INVARIANT DeadlineBeforeWork
INVARIANT SuccessIsMirrored
PROPERTY ImplementsLease
\* The run is over once its rows are settled and its attempts have ended.
CHECK_DEADLOCK FALSE
