SPECIFICATION Spec
CONSTANTS
    alice = alice
    bob = bob
    Users <- MCSelf
    Nobody = Nobody
    MaxInit = 1
    Amounts <- AmountsOne
    MaxCoin = 4
    MaxTx = 6
    MaxKeys = 1
    MaxCrashes = 1
    SqlFails = TRUE
    RemoveFails = TRUE
INVARIANTS
    RowsBacked
PROPERTIES
    CreditsPaid
