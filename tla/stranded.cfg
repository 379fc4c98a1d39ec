CONSTANTS
    NTasks = 2
    DependsOn <- NoSets2
    OrderAfter <- NoSets2
    OnFailure <- NoEdge2
    OnFailureClasses <- NoSets2
    MaxRetries <- NoEdge2
    RepairTargets <- NoSets2
    Claims <- NoSets2
    Replayable = {1, 2}
    Duplicates = {}
    Precached = {}
    Limit = 1
    MaxReplans = 0
    Faults = {"pause"}
SPECIFICATION Spec
PROPERTIES
    StrandedOnlyByDependency
