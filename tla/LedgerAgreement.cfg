SPECIFICATION Spec
CONSTANTS
    Tokens = {t1, t2, t3}
    NoToken = NoToken
    Requests = {r1}
    MaxAttempts = 2
    Nodes = 1
    Local = TRUE
    Overlap = FALSE
    Events = {"crash", "wait", "approval", "cancel"}
SYMMETRY Symmetry
INVARIANT Agreement
INVARIANT LeaseableIsDispatchable
INVARIANT CancelledHasNoCheckpoint
\* The run is over once its rows are settled and its attempts have ended.
CHECK_DEADLOCK FALSE
