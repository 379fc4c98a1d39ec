CONSTANTS
    NTasks = 4
    DependsOn <- ForkDependsOn
    OrderAfter <- NoSets4
    OnFailure <- ForkOnFailure
    OnFailureClasses <- ForkClasses
    MaxRetries <- ForkRetries
    RepairTargets <- NoSets4
    Claims <- NoSets4
    Replayable = {1, 2, 3, 4}
    Duplicates = {}
    Precached = {1}
    Limit = 2
    MaxReplans = 1
    Faults = {"cancel", "unresolved", "replan"}
SPECIFICATION Spec
INVARIANTS
    TypeOK
    OneDispatchInFlight
    HoldingsMatchFlight
    BuiltOnDone
    RerunExecutes
    VerdictIsDurable
    NothingLeftRunning
PROPERTIES
    CancelledRunStartsNothing
    WaveReachesSource
