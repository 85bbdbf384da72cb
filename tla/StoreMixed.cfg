SPECIFICATION Spec
CONSTANTS
  Tasks = {t1, t2}
  Keys = {k1}
  KeyOf <- OneKey
  Inodes = {i1, i2}
  Operations = {op1, op2}
  Messages <- MCMessages
  WordSize = 4
  Calls = {"append", "stage", "cancel"}
  Rewrites = {}
  MaxBatch = 2
  MaxCalls = 4
  MaxCrashes = 1
  MaxAborts = 1
  MaxDrops = 0
  NoTask = NoTask
  NoFile = NoFile
INVARIANTS
  EveryLineParses
  AckedIsStored
PROPERTIES
  ImplementsOutbox
CHECK_DEADLOCK FALSE
