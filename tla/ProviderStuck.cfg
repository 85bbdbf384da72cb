SPECIFICATION FairSpec
CONSTANTS
  Calls <- TwoCalls
  MaxRetries = 1
  MaxFrames <- NoFrames
  NetRoom = 1
PROPERTIES
  BackoffEnds
CHECK_DEADLOCK FALSE
