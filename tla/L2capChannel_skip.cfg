SPECIFICATION Spec
CONSTANTS
    A = A
    B = B
    PoolA = 2
    PoolB = 1
    Failing = {A}
    Connected = FALSE
    Callers = {A}
    MaxConn = 2
    MaxCfg = 0
    MaxDrop = 0
INVARIANT
    LinkUpReachesAll
CHECK_DEADLOCK FALSE
