SPECIFICATION FairSpec
CONSTANTS
    IO_THREAD_NUM = 2
    Sizes = {2, 4}
    MaxCrashes = 2
    DEC_THREAD_NUM = 3
    MaxMessage = 24
    Order = 29
INVARIANTS
    SuccessMeansFound
