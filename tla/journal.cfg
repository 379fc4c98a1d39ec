CONSTANTS
    NTasks = 3
    DependsOn <- SiblingsDependsOn
    OrderAfter <- NoSets3
    OnFailure <- SiblingsOnFailure
    OnFailureClasses <- NoSets3
    MaxRetries <- SiblingsRetries
    RepairTargets <- NoSets3
    Claims <- NoSets3
    Replayable = {1, 3}
    Duplicates = {}
    Precached = {}
    Limit = 2
    MaxReplans = 1
    Faults = {"journal", "cancel", "unresolved", "capability", "replan", "denied", "pause", "early", "thrash"}
SPECIFICATION FairSpec
PROPERTIES
    RunEnds
