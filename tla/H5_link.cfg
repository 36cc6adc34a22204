SPECIFICATION Spec
CONSTANTS
  NPkts = 0
  Sco = {}
  NEvts = 2
  Baud = {1}
  SeqNums = 2
  CtlWindow = 1
  DataRetrans = 1
  SyncRetrans = 1
  ConfRetrans = 2
  Preemptive = TRUE
  PromptPeer = TRUE
  ChanCap = 1
  MaxLoss = 1
  CtlKinds = {"sync", "conf"}
  CtlMsgs = 1
INVARIANTS
  ConfKeepsTrying
  EventsInOrder
CHECK_DEADLOCK FALSE
