SPECIFICATION FairSpec
CONSTANTS
    Tokens = {t1, t2}
    NoToken = NoToken
    Requests = {}
    MaxAttempts = 1
    Nodes = 1
    Local = TRUE
    Overlap = FALSE
    Events = {"crash", "stuck", "park", "db_error", "cancel"}
INVARIANT AttemptBudget
PROPERTY NeverLost
PROPERTY CancelStopsWork
\* The run is over once its rows are settled and its attempts have ended.
CHECK_DEADLOCK FALSE
