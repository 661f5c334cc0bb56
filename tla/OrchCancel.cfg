SPECIFICATION PanelFairSpec
CONSTANTS
    MaxDelegations = 3
    MaxParallel = 1
    HasExecutor = TRUE
    Outcomes <- BothOutcomes
    HistoryLimit = 2
    WritesMayFail = FALSE
    MaxRestarts = 1
    Pipelines = {p}
    NumStages = 2
    UnknownRoles <- SecondStageUnknown
    Cancellable = {p}
    NoPipeline = NoPipeline
CHECK_DEADLOCK FALSE
INVARIANTS StageTracksDelegation CancelledIsQuiet OrphansRetired PanelShowsWork
PROPERTIES StagesStartInOrder CancelCompletes QueueDrains
