SPECIFICATION Spec
CONSTANTS
    Q = 7
    VECTOR_LEN = 4
    RANGE_LEN = 2
    AGG_NUM = 2
    Values = {0, 3, 4}
    Draws = {5}
    Blinds <- MCBlinds
    Challenges = {2, 3}
    MaxChecks = 3
INVARIANTS
    RoundsKeepRelation
    BasesAgree
    Complete
    OnlyInRange
CHECK_DEADLOCK FALSE
