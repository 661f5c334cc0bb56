SPECIFICATION Spec
CONSTANTS
    Sessions = {auto, d1}
    Drivers = {auto}
    Cap = 3
    MaxCost = 2
    MaxRequests = 3
    FinalOnly = TRUE
CHECK_DEADLOCK FALSE
INVARIANTS OvershootBounded TrackerCountsOnce
PROPERTIES DriverStopsAtCap
