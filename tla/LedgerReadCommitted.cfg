SPECIFICATION Spec
CONSTANTS
    Tokens = {t1, t2}
    NoToken = NoToken
    Requests = {r1}
    MaxAttempts = 2
    Nodes = 1
    Local = TRUE
    Overlap = TRUE
    Events = {"crash", "db_error", "wait", "cancel", "shutdown", "stuck"}
SYMMETRY Symmetry
INVARIANT TokenIsLease
PROPERTY TerminalIsFinal
PROPERTY OwnershipThroughQueue
\* The run is over once its rows are settled and its attempts have ended.
CHECK_DEADLOCK FALSE
