SPECIFICATION FairSpec
CONSTANTS
    A = A
    B = B
    Modulus = 12
    TxWin = 6
    MaxTransmit = 2
    Quota = 4
    SdusA = 3
    SdusB = 0
    Long = {2}
    Segments = 2
    MaxBusy = 0
    MaxLoss = 2
    LinkRoom = 2
INVARIANTS
    OnlyRetriesClose
PROPERTIES
    SdusArrive
CHECK_DEADLOCK FALSE
