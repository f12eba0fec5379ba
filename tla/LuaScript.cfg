SPECIFICATION FairSpec
CONSTANTS
  Texts <- SmallTexts
  Shifted = {"A"}
  Unmapped = {"?"}
  Timeouts = {0, 2}
  Slots = 4
  Ceiling = 2
  MaxFrame = 4
INVARIANTS WaitMatchesCall KeysAccounted
PROPERTIES ReturnsRight TypeReturnsClean StalledWaitEnds
CHECK_DEADLOCK FALSE
