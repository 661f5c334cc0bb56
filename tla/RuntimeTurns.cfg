SPECIFICATION Spec
CONSTANTS
    Turns = {t1, t2}
    NoTurn = NoTurn
    Tools = {"write_file"}
    Registered = {"write_file"}
    Risk <- MCRisk
    AlwaysAsk = {}
    Modes = {"build"}
    MaxToolRounds = 1
    MaxCost = 1
    MaxRestarts = 1
    Answers = {"operator"}
    HostWaitsFor = "turn"
    MayAbandon = TRUE
CHECK_DEADLOCK FALSE
INVARIANTS TotalsMatchReceipts WorkingTurnIsCancellable QuietSessionIsQuiet
