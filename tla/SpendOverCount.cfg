SPECIFICATION Spec
CONSTANTS
    Sessions = {d1}
    Drivers = {}
    Cap = 3
    MaxCost = 2
    MaxRequests = 2
    FinalOnly = FALSE
CHECK_DEADLOCK FALSE
INVARIANTS DelegationCostIsTurnCost
