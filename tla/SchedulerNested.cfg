SPECIFICATION FairSpec
CONSTANTS
    Units <- MCUnits
    Scopes <- MCScopes
    Root = "root"
    Types = {"http"}
    Unlimited = "other"
    ScopeOf <- MCScopeOf
    Deps <- MCDeps
    Kind <- MCKind
    Driver <- MCDriver
    Embedded <- MCEmbedded
    Type <- MCType
    TypeLimit <- MCTypeLimit
    Concurrency <- MCConcurrency
    NodeLimit = 1
    WorkerLimit = 2
    OnErrorFail = {"loop"}
    Cached = {"arg"}
    MayPause = {"fetch"}
    MayFault = {"meta", "join"}
    Events = {"deadline", "cancel"}
INVARIANT TypeOK
INVARIANT StartsAfterDeps
INVARIANT SlotsConserved
INVARIANT ReportsWorst
PROPERTY NoStartAfterEnd
PROPERTY Terminates
\* The engine stops when the run is over.
CHECK_DEADLOCK FALSE
