SPECIFICATION Spec
CONSTANTS
  c1 = c1  c2 = c2  c3 = c3  p1 = p1
  None = None
  Cmds = {c1, c2}
  Pkts <- NoPkts
  Kind <- KindTwins
  Opcode <- OpcodeTwins
  Frags <- NoFrags
  SegLimits = {0}
  QueueLen = 1
  QueueSizeMax = 2
  CtlSlots = 2
INVARIANTS
  TypeOK
  TimerGuardsPending
  ResponseFindsCommand
  CommandReleasedOnce
CHECK_DEADLOCK FALSE
