SPECIFICATION FairSpec
CONSTANTS
  Tasks = {t1, t2}
  Ops = {"connect", "refresh", "call", "ping"}
  Capacity = 2
  Width = 2
  MaxCalls = 3
  MaxFaults = 1
  ChildIds = {2}
  NoTask = NoTask
INVARIANTS
  ChildGetsWholeLines
PROPERTIES
  ImplementsRemoteCalls
  ExitEndsEveryCall
CHECK_DEADLOCK FALSE
