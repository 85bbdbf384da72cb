SPECIFICATION FairSpec
CONSTANTS
  Tasks = {t1, t2, t3}
  Paths = {p1, p2, p3, p4}
  Locks = {l1, l2, l3, l4}
  Threshold = 2
  NoTask = NoTask
  NoLock = NoLock
INVARIANTS
  TypeOK
  OneAppender
  RegistryBounded
PROPERTY WaiterAppends
