SPECIFICATION Spec
CONSTANTS
    Users = {"u", "v"}
    Nobody = "nobody"
    MaxCoin = 4
    MaxTx = 3
    Q = 7
    Byte = 4
    BN_LEN = 2
    Secret <- MCSecret
    Sessions <- MCSessions
    Draws <- MCDraws
    Challenges = {2, 5}
    AnyPoints <- MCAnyPoints
INVARIANTS
    AcceptsExactly
    Sound
    Simulatable
CHECK_DEADLOCK FALSE
