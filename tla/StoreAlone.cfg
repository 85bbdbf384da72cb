SPECIFICATION Spec
CONSTANTS
  Tasks = {t1}
  Keys = {k1}
  KeyOf <- OneKey
  Inodes = {i1, i2, i3}
  Operations = {op1}
  Messages <- MCMessages
  WordSize = 4
  Calls = {"append", "stage", "recover", "delete", "archive", "rewrite"}
  Rewrites <- WholeLogs
  MaxBatch = 2
  MaxCalls = 5
  MaxCrashes = 1
  MaxAborts = 1
  MaxDrops = 0
  NoTask = NoTask
  NoFile = NoFile
PROPERTIES
  TornTailIsCut
  RewriteIsWhole
SYMMETRY Symmetry
CHECK_DEADLOCK FALSE
