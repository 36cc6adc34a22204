SPECIFICATION FairSpec
CONSTANTS
  NPkts = 5
  Sco = {2}
  NEvts = 1
  Baud = {}
  SeqNums = 3
  CtlWindow = 2
  DataRetrans = 2
  SyncRetrans = 1
  ConfRetrans = 1
  Preemptive = FALSE
  PromptPeer = FALSE
  ChanCap = 1
  MaxLoss = 1
  CtlKinds = {}
  CtlMsgs = 0
INVARIANTS
  TypeOK
  InOrderDelivery
  AckedWereDelivered
PROPERTY
  SentDelivered
CHECK_DEADLOCK FALSE
