SPECIFICATION Spec
CHECK_DEADLOCK FALSE
CONSTANTS
    TextLines = {"", "x"}
    MaxLines = 5
    ContextLines = 1
    MaxOutput = 11
    NumFiles = 2
    MaxCalls = 2
    Editors = {"a", "b"}
    Paths = {"p"}
    Surroundings = {"x", "y"}
    CacheMaxEntries = 1
    MaxRequests = 2
    Sessions = {"s1", "s2"}
    Skills = {1, 2}
    Triggers <- MCTriggers
    Kind <- MCKind
    Threshold = 1
    MaxMessages = 4
    MaxTurns = 3
    MaxSwitches = 1
    SourceFiles = {1, 2, 3}
    Shapes <- MCShapes
    ImportGraphs <- MCImports
    RequestTokens = {1, 2}
    CharsPerToken = 2
    ReadLimit = 2
    SeedLimit = 2
    Window = 2
    Around = 1
    MinSlice = 3
    Budgets = {3, 7}
    Agents = {"a1", "a2"}
    Consolidators = {"c1", "c2"}
    Interval = 1
    DocumentSize = 1
    MaxReports = 2
    MaxMemos = 1
    MaxCycles = 2
    MaxDays = 2
    Documents = {1, 2, 3, 4}
    DocumentKinds <- MCDocumentKinds
    Recorders = {"r1", "r2"}
    Patterns = {"p", "q"}
    Recorded = {"f"}
    MaxRecordedTurns = 2
    MaxToolCalls = 2
    MaxUsage = 1
    MaxRollbacks = 2
INVARIANTS EditsAreWhole CompletionsFit ContextIsTheBest LossesAreExplained RecordsAreKept
PROPERTIES PatternsLostWereMissed
