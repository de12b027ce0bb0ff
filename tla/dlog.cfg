SPECIFICATION ElGamalSpec
CONSTANTS
    IO_THREAD_NUM = 2
    Sizes = {2, 4}
    MaxCrashes = 2
    DEC_THREAD_NUM = 3
    MaxMessage = 24
    Order = 29
    Eta = 10
    Keys = {3}
    Messages = {1, 9, 20}
    Coins = {2, 5}
    Scalars = {0, 3}
INVARIANTS
    TypeOK
    TableRight
    RefusalExplained
    DlogRight
    EarlyStop
    CtxExclusive
    ParallelAgrees
    DecryptsRight
PROPERTIES
    BootEnds
    Terminates
