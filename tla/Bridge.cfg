\* Three concurrent calls, one of which may fault: a fault blocks everyone,
\* so the system may stop.  No symmetry: the run checks liveness.
CONSTANTS
  Commands = {c1, c2, c3}
  Faulting = {c3}
  MaxDepth = 3
SPECIFICATION FairSpec
INVARIANTS
  NoDanglingCommand
  OutcomesExact
PROPERTIES
  EveryCallReturns
  ServiceSpec
CHECK_DEADLOCK FALSE
