SPECIFICATION Spec
CONSTANTS
    alice = alice
    bob = bob
    Users <- MCUsers
    Nobody = Nobody
    MaxInit = 1
    Amounts <- AmountsSmall
    MaxCoin = 2
    MaxTx = 2
    MaxKeys = 1
    MaxCrashes = 0
    SqlFails = FALSE
    RemoveFails = FALSE
INVARIANT
    SuccessTruthful
