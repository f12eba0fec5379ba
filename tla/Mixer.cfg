CONSTANTS
  Cards = {"speaker", "reelmagic"}
  ResetFirst = {}
  HaltOnly = {}
  Fittings <- Machines
  TickFrames = 1
  OutputSize = 3
  CaptureSize = 2
  FifoSize = 1
  WorkSize = 2
  Burst = 1
  MaxLead = 1
SPECIFICATION FairSpec
INVARIANTS NoCircularWait NoDanglingChannel
PROPERTIES SilenceOnlyForALock EveryWaitEnds
CHECK_DEADLOCK FALSE
