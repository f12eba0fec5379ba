CONSTANTS
  Cards = {"ps1"}
  ResetFirst = {"ps1"}
  HaltOnly = {}
  Fittings <- Ps1Machine
  TickFrames = 1
  OutputSize = 3
  CaptureSize = 2
  FifoSize = 1
  WorkSize = 2
  Burst = 1
  MaxLead = 1
SPECIFICATION Spec
INVARIANT NoCircularWait
CHECK_DEADLOCK FALSE
