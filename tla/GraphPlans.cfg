SPECIFICATION Spec
CONSTANTS
    NodeCount = 5
    Graphs <- AllGraphs
    Requests <- SmallRequests
INVARIANT TypeOK
INVARIANT NeededIsLeast
INVARIANT CycleVerdict
INVARIANT FedFirst
INVARIANT TargetsRun
INVARIANT NoStall
