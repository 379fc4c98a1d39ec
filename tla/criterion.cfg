CONSTANTS
    NTasks = 5
    DependsOn <- CriterionDependsOn
    OrderAfter <- CriterionOrderAfter
    OnFailure <- CriterionOnFailure
    OnFailureClasses <- CriterionClasses
    MaxRetries <- CriterionRetries
    RepairTargets <- CriterionTargetsOf
    Claims <- CriterionClaims
    Replayable = {1, 2, 3, 4, 5}
    Duplicates = {5}
    Precached = {}
    Limit = 2
    MaxReplans = 0
    Faults = {"budget"}
SPECIFICATION Spec
INVARIANTS
    NoConflictInFlight
    RetriesBounded
    DispatchedWhenPending
    WorkConserving
PROPERTIES
    StrandedOnlyByDependency
