CONSTANTS
  Thread = {1, 2, 3}
  Archives <- MCArchives
  Messages <- MCMessages
  Lines <- MCLines
  MaxLines = 4
  MaxThreads = 2
  Concurrency = 2
  ExcerptMax = 2
  MaxChanges = 2
  b1 = b1
  b2 = b2
  Container = {c1, c2}
  Body = {b1, b2}
  Size <- MCSize
  Builds <- MCBuilds
  Path <- MCPath
  Legacy = {"access"}
  PerRequest = {"apply"}
  Arguments <- MCArguments
  NoCopy = NoCopy
  MaxSteps = 3
  Id = {s1, s2}
  Key = {k1}
  Offset <- MCOffset
  Ttl = 3
  Window = 1
  HitMax = 2
  HitWindow = 2
  ReapLimit = 1
  NoSession = NoSession
  MaxTime = 4
SYMMETRY Symmetry
SPECIFICATION AllSpec
INVARIANTS
  ServedIsPublic
  PagesAreWhole
  WordsKeepTheirWriter
  PagesAreTheContainers
  JudgedByTrueTime
CHECK_DEADLOCK FALSE
