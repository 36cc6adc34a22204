SPECIFICATION FairSpec
CONSTANTS
    A = A
    B = B
    MAX_RFC_PORTS = 1
    Ports = {1}
    ClientsOfA = {1}
    Full = {1}
    credit_rx_max = 2
    credit_rx_low = 0
    rx_buf_critical = 2
    RFCOMM_K_MAX = 1
    MaxOpens = 2
    WritesA = 2
    WritesB = 1
    MaxHolds = 1
    MaxTimeouts = 0
INVARIANTS
    TypeOK
    CreditsConserved
    InOrder
    NoIdleData
PROPERTIES
    WaitsEnd
CHECK_DEADLOCK FALSE
