CONSTANTS
  Primary = {3}
  Secondary = {0, 1}
  Inits <- SomeInits
  AutoEoi = FALSE
SPECIFICATION FairSpec8259
INVARIANTS ReadyIsSignalled CascadeExact
PROPERTIES Nested InterruptsGoOn
