CONSTANTS
  w1 = w1
  w2 = w2
  k1 = k1
  t1 = t1
  t2 = t2
  t3 = t3
  Worker = {w1, w2}
  Key = {k1}
  Token = {t1, t2, t3}
  NoToken = NoToken
  NoJob = NoJob
  BatchSize = 1
  MaxAttempts = 2
  MaxFaults = 2
SPECIFICATION FairMailSpec
INVARIANTS
  OneCopyUnlessOverlapped
  JournalIsTrue
PROPERTIES
  IsOutbox
  InterruptedDeadLetters
  EveryJobSettles
CHECK_DEADLOCK FALSE
