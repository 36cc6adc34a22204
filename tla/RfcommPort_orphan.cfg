SPECIFICATION Spec
CONSTANTS
    A = A
    B = B
    MAX_RFC_PORTS = 1
    Ports = {1}
    ClientsOfA = {1}
    Full = {1}
    credit_rx_max = 2
    credit_rx_low = 0
    rx_buf_critical = 2
    RFCOMM_K_MAX = 1
    MaxOpens = 2
    WritesA = 0
    WritesB = 0
    MaxHolds = 0
    MaxTimeouts = 0
INVARIANTS
    NoOrphans
CHECK_DEADLOCK FALSE
