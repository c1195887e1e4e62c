CONSTANTS
  w1 = w1
  w2 = w2
  k1 = k1
  k2 = k2
  t1 = t1
  t2 = t2
  t3 = t3
  t4 = t4
  Worker = {w1, w2}
  Key = {k1, k2}
  Token = {t1, t2, t3, t4}
  NoToken = NoToken
  NoJob = NoJob
  BatchSize = 2
  MaxAttempts = 2
  MaxFaults = 3
SPECIFICATION Spec
SYMMETRY Symmetric
INVARIANTS
  OverlapOnlyAfterOverrun
PROPERTIES
  HolderDecides
  KeepsContract
CHECK_DEADLOCK FALSE
