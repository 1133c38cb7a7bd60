SPECIFICATION Spec
CONSTANTS
    None = None
    Kind <- MCKind
    Dep <- MCDep
    MaxBuilds = 2
    MaxJobs = 2
    MaxFaults = 1
    Attempts = 2
INVARIANTS StoreIsSound OnlyFailuresLeak
PROPERTIES DeletesOwnOrOld FailsOnlyFor
CHECK_DEADLOCK FALSE
