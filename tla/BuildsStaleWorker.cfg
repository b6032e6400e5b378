SPECIFICATION BuildSpec
CONSTANTS
    Envs = {"env"}
    Runs = {"r1"}
    EnvOf <- MCEnvOf
    Procs = {"p1", "p2"}
    Images = {"v0", "v1"}
    MinSize <- MCOne
    MaxSize <- MCOne
    RunCap = 0
    Estimate <- MCZero
    Budget = 0
    Ceilings = {1}
    Calls = {}
    Caller <- MCNoCaller
    SubCap = 1
    MaxDrains = 9
    NoProc = "none"
    NoImage = "none"
    Jobs = {1, 2}
    Builders = {"b1", "b2"}
    Local = {"b1", "b2"}
    MaxAttempts <- MCAttempts
    EditTo <- MCForward
    FirstImage = "v0"
    MaxFaults = 0
INVARIANT SettledIsFresh
\* Every build and every run may be over.
CHECK_DEADLOCK FALSE
