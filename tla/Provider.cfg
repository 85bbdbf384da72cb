SPECIFICATION FairSpec
CONSTANTS
  Calls <- TwoCalls
  MaxRetries = 1
  MaxFrames <- LongestFirst
  NetRoom = 1
INVARIANTS
  CallsBeforeStop
  NothingTwice
  StopTellsTheTruth
PROPERTIES
  RequestsAreWarranted
  StreamEnds
CHECK_DEADLOCK FALSE
