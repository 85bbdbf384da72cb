SPECIFICATION Spec
CONSTANTS
  Tasks = {t1}
  Keys = {k1}
  KeyOf <- OneKey
  Inodes = {i1, i2}
  Operations = {op1, op2}
  Messages <- MCMessages
  WordSize = 4
  Calls = {"stage", "recover"}
  Rewrites = {}
  MaxBatch = 1
  MaxCalls = 5
  MaxCrashes = 2
  MaxAborts = 0
  MaxDrops = 0
  NoTask = NoTask
  NoFile = NoFile
INVARIANT AckedIsStored
SYMMETRY Symmetry
CHECK_DEADLOCK FALSE
