SPECIFICATION FairPoolSpec
CONSTANTS
    Envs = {"elastic", "single"}
    Runs = {"r1", "r2", "r3"}
    EnvOf <- MCEnvOf
    Procs = {"p1", "p2"}
    Images = {"v0"}
    MinSize <- MCMinSize
    MaxSize <- MCMaxSize
    RunCap = 1
    Estimate <- MCEstimate
    Budget = 2
    Ceilings = {1, 2}
    Calls = {"outer", "inner"}
    Caller <- MCCaller
    SubCap = 1
    MaxDrains = 1
    NoProc = "none"
    NoImage = "none"
INVARIANT TypeOK
INVARIANT SlotsConserved
INVARIANT NoSharedWorker
INVARIANT IdleIsCurrent
INVARIANT WithinBudget
PROPERTY DispatchEnds
\* Every run may be over.
CHECK_DEADLOCK FALSE
