SPECIFICATION Spec
CONSTANTS
    MaxDelegations = 4
    MaxParallel = 2
    HasExecutor = TRUE
    Outcomes <- BothOutcomes
    HistoryLimit = 4
    WritesMayFail = FALSE
    MaxRestarts = 0
    Pipelines = {p}
    NumStages = 2
    UnknownRoles <- NoUnknownRole
    Cancellable = {p}
    NoPipeline = NoPipeline
CHECK_DEADLOCK FALSE
PROPERTIES CancelledStaysCancelled
