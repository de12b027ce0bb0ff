SPECIFICATION Spec
CONSTANTS
    alice = alice
    bob = bob
    Users <- MCUsers
    Nobody = Nobody
    MaxInit = 2
    Amounts <- AmountsWide
    MaxCoin = 3
    MaxTx = 4
    MaxKeys = 2
    MaxCrashes = 0
    SqlFails = FALSE
    RemoveFails = FALSE
SYMMETRY Symmetry
INVARIANTS
    TypeOK
    Conservation
    AccountsRecorded
PROPERTIES
    ImplementsLedger
