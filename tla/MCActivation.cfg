CONSTANTS
  Person = {p1, p2}
  Address = {a1, a2}
  Token = {t1, t2}
  Operator = {o1, o2}
  Request = {r1, r2}
  NoOne = NoOne
  MaxTime = 1
  MaxVersions = 2
SPECIFICATION Spec
SYMMETRY ActivationSymmetry
INVARIANTS
  OnePublicationPerForm
  ActivatesOnce
PROPERTIES
  AssentWasCurrent
CHECK_DEADLOCK FALSE
