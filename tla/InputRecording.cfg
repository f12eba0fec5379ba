CONSTANTS
  Calls = {"typed", "timed", "recorded", "short"}
  Body <- Recordings
  FrameBased = {"recorded", "short"}
  KeyBufferSize = 2
  FrameLimit = 2
  MaxFrame = 4
  MaxStart = 1
  MaxHostKeys = 2
  Requests = {"start1", "start2", "pause1", "stop1"}
  Does <- Handlers
  Sessions <- SomeSessions
SPECIFICATION RecFairSpec
INVARIANTS OneHandler SentInOrder NoKeyRefused
PROPERTIES NeverEarly ReplayEnds StopReturnsRecording
