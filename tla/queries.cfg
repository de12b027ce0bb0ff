SPECIFICATION QuerySpec
CONSTANTS
    alice = alice
    bob = bob
    Users <- MCUsers
    Nobody = Nobody
    MaxInit = 2
    Amounts <- AmountsTwo
    MaxCoin = 2
    MaxTx = 4
    MaxKeys = 2
    MaxCrashes = 1
    SqlFails = FALSE
    SelectFails = TRUE
    RemoveFails = FALSE
SYMMETRY Symmetry
INVARIANTS
    RefreshableRowsTrue
    HistoryRowsTrue
    RefreshableListed
    LoginFindsAccount
