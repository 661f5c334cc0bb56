SPECIFICATION FairSpec
CONSTANTS
    Turns = {t1, t2}
    NoTurn = NoTurn
    Tools = {"write_file", "bash", "nonesuch"}
    Registered = {"write_file", "bash"}
    Risk <- MCRisk
    AlwaysAsk = {"bash"}
    Modes = {"ask", "debug"}
    MaxToolRounds = 1
    MaxCost = 0
    MaxRestarts = 0
    Answers = {"operator", "approve", "deny"}
    HostWaitsFor = "turn"
    MayAbandon = FALSE
CHECK_DEADLOCK FALSE
INVARIANTS ForbiddenNeverRuns NothingLeftBehind
PROPERTIES TurnsEnd
