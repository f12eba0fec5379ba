CONSTANTS
  Events <- SomeEvents
  PIC_QUEUESIZE = 3
  CPU_CycleMax = 3
  Sub = 2
  Delays = {1, 7}
  MaxInstruction = 2
  IrqGrace = 2
  MaxRaises = 1
SPECIFICATION FairSpec
INVARIANTS QueueIntact ServedInTime
PROPERTIES EventuallyCalled
