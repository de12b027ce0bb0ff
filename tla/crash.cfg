SPECIFICATION FairSpec
CONSTANTS
    alice = alice
    bob = bob
    Users <- MCUsers
    Nobody = Nobody
    MaxInit = 1
    Amounts <- AmountsOne
    MaxCoin = 3
    MaxTx = 5
    MaxKeys = 2
    MaxCrashes = 1
    SqlFails = FALSE
    RemoveFails = FALSE
INVARIANTS
    KnownChequeUnique
    SnUnique
    AccountsOpen
    CreditsBounded
PROPERTIES
    Recorded
    CreditsPaid
