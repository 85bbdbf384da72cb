SPECIFICATION FairSpec
CONSTANTS
  Callers = {c1, c2}
  Kinds <- ThreeKinds
  Capacity = 2
  MaxCalls = 3
  MaxDrops = 1
  MaxStops = 1
  NoCaller = NoCaller
INVARIANTS
  OnlyTheWriterIsMidFrame
PROPERTIES
  ImplementsRemoteCalls
  EveryCallReturns
CHECK_DEADLOCK FALSE
