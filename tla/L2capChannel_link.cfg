SPECIFICATION FairSpec
CONSTANTS
    A = A
    B = B
    PoolA = 1
    PoolB = 1
    Failing = {B}
    Connected = FALSE
    Callers = {A}
    MaxConn = 1
    MaxCfg = 1
    MaxDrop = 1
INVARIANTS
    TypeOK
    NoLostWakeup
    OpenIsPartnered
PROPERTY
    ChannelsSettle
CHECK_DEADLOCK FALSE
