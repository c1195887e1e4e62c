SPECIFICATION Spec
CONSTANTS
  p1 = p1
  p2 = p2
  r1 = r1
  r2 = r2
  s1 = s1
  s2 = s2
  s3 = s3
  Person <- MCPerson
  Keyholder <- MCPerson
  Request <- MCRequest
  Session <- MCSession
  NoOne = NoOne
  NoSession = NoSession
  MaxMoves = 4
SYMMETRY Symmetric
INVARIANTS
  OnlyLateSessionsSurvive
  ResetEndsOldSessions
PROPERTIES
  DepartureIsFinal
  DepartsAsShown
  AuthorityEnds
