SPECIFICATION Spec
CONSTANTS
  c1 = c1  c2 = c2  c3 = c3  p1 = p1
  None = None
  Cmds = {c1, c2, c3}
  Pkts = {p1}
  Kind <- KindMixed
  Opcode <- OpcodeMixed
  Frags <- FragsThree
  SegLimits = {0, 2}
  QueueLen = 2
  QueueSizeMax = 2
  CtlSlots = 1
INVARIANTS
  OneCredit
  PacketSingleOwner
CHECK_DEADLOCK FALSE
