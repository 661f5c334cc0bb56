SPECIFICATION Spec
CONSTANTS
    MaxDelegations = 3
    MaxParallel = 1
    HasExecutor = TRUE
    Outcomes <- BothOutcomes
    HistoryLimit = 2
    WritesMayFail = FALSE
    MaxRestarts = 0
    Pipelines = {p}
    NumStages = 3
    UnknownRoles <- NoUnknownRole
    Cancellable = {}
    NoPipeline = NoPipeline
CHECK_DEADLOCK FALSE
INVARIANTS FailuresBlock
