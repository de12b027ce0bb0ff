SPECIFICATION Spec
CONSTANTS
    Q = 7
    Shapes <- MCShapes
    Sizes <- MCSizes
    Rows <- MCRows
    Blinds <- MCBlinds
    Rhos <- MCRhos
    Challenges = {2, 3, 5}
INVARIANTS
    PaddingRight
    SidesAgree
    Complete
    OnlyMembers
CHECK_DEADLOCK FALSE
