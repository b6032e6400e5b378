SPECIFICATION Spec
CONSTANTS
    NodeCount = 6
    Graphs <- TripleNests
    Requests <- WholeRun
INVARIANT RunsOnce
