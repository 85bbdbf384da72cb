SPECIFICATION Spec
CONSTANTS
  op1 = op1
  op2 = op2
  m1 = m1
  m2 = m2
  summary = summary
  Messages <- MCMessages
  Operations <- MCOperations
  Summary = summary
  WordSize = 2
  MaxLines = 6
  MaxRestarts = 1
  SnapshotWhilePending = FALSE
INVARIANTS
  TranscriptIsHistory
  ProjectionIsCurrent
  TotalsCountEveryLine
  WorkIsRecoverable
  StagedIsMaterialized
PROPERTY ShownStaysShown
SYMMETRY Symmetry
CHECK_DEADLOCK FALSE
