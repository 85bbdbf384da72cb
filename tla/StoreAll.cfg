SPECIFICATION Spec
CONSTANTS
  Tasks = {t1, t2}
  Keys = {k1, k2}
  KeyOf <- TwoKeys
  Inodes = {i1, i2, i3, i4}
  Operations = {op1}
  Messages <- MCMessages
  WordSize = 4
  Calls = {"append", "stage", "cancel", "recover", "delete", "archive", "rewrite"}
  Rewrites <- WholeLogs
  MaxBatch = 1
  MaxCalls = 4
  MaxCrashes = 0
  MaxAborts = 1
  MaxDrops = 1
  NoTask = NoTask
  NoFile = NoFile
INVARIANTS
  OperationShownOnce
  LoadedIsListed
SYMMETRY InodeSymmetry
CHECK_DEADLOCK FALSE
