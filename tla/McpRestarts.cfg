SPECIFICATION FairSpec
CONSTANTS
    MaxSpawns = 3
    MaxRestarts = 1
    MaxCalls = 2
    ExitKinds = {"failure"}
    SpawnMayThrow = TRUE
CHECK_DEADLOCK FALSE
INVARIANTS NoDuplicateServer RestartsBounded
PROPERTIES BackoffEnds
