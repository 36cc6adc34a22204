SPECIFICATION Spec
CONSTANTS
    A = A
    B = B
    Modulus = 4
    TxWin = 2
    MaxTransmit = 1
    Quota = 4
    SdusA = 2
    SdusB = 1
    Long = {1}
    Segments = 4
    MaxBusy = 1
    MaxLoss = 1
    LinkRoom = 2
INVARIANTS
    TypeOK
    SrejHoldsFrame
    UnackedIsWindow
PROPERTIES
    ReliableFifo
CHECK_DEADLOCK FALSE
