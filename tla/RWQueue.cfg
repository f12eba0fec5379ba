CONSTANTS
  Producers = {p1}
  Consumers = {c1}
  Uses <- BothUses
  MaxBulk = 3
  MaxItems = 4
SPECIFICATION FairSpec
INVARIANTS ChunkInRange DeliveredAsTold NoLostWakeup
PROPERTIES CapacityRespected StopEndsCalls
CHECK_DEADLOCK FALSE
