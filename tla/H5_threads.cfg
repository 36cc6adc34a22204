SPECIFICATION Spec
CONSTANTS
  NPkts = 2
  Sco = {}
  NEvts = 0
  Baud = {}
  SeqNums = 8
  CtlWindow = 2
  DataRetrans = 2
  SyncRetrans = 0
  ConfRetrans = 0
  Preemptive = TRUE
  PromptPeer = FALSE
  ChanCap = 1
  MaxLoss = 0
  CtlKinds = {}
  CtlMsgs = 0
INVARIANT
  PacketInOnePlace
CHECK_DEADLOCK FALSE
