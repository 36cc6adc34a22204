SPECIFICATION Spec
CONSTANTS
    A = A
    B = B
    PoolA = 1
    PoolB = 1
    Failing = {B}
    Connected = TRUE
    Callers = {A, B}
    MaxConn = 1
    MaxCfg = 1
    MaxDrop = 0
INVARIANTS
    PoolIntact
    OwnerInformed
    OpenIsPartnered
CHECK_DEADLOCK FALSE
