CONSTANTS
  e1 = e1
  e2 = e2
  s1 = s1
  r1 = r1
  r2 = r2
  Event = {e1, e2}
  CancelBilling = CancelBilling
  Sub = {s1}
  Runner = {r1, r2}
  NoJob = NoJob
  MaxAttempts = 1
  MaxThrowing = 1
  a1 = a1
  q1 = q1
  q2 = q2
  Actor = {a1}
  Request = {q1, q2}
  Amount = {0, 1, 2}
  MaxForms = 3
  MaxChoices = 2
SPECIFICATION AllSpec
SYMMETRY Symmetry
INVARIANTS
  NoResurrection
CHECK_DEADLOCK FALSE
