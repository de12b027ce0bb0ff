SPECIFICATION Spec
CONSTANTS
    MaxReq = 5
    MaxFlight = 2
    MaxSends = 2
    MaxCoin = 2
    Initial = 1
CHECK_DEADLOCK FALSE
INVARIANTS
    ShownCurrent
    ChequeInReach
PROPERTIES
    LoadingEnds
