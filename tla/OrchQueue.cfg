SPECIFICATION Spec
CONSTANTS
    MaxDelegations = 3
    MaxParallel = 1
    HasExecutor = TRUE
    Outcomes <- BothOutcomes
    HistoryLimit = 2
    WritesMayFail = TRUE
    MaxRestarts = 1
    Pipelines = {p}
    NumStages = 1
    UnknownRoles <- NoUnknownRole
    Cancellable = {p}
    NoPipeline = NoPipeline
CHECK_DEADLOCK FALSE
INVARIANTS TypeOK QueueMatchesStatus SlotsBounded NoIdleSlot
PROPERTIES ImplementsLifecycle
