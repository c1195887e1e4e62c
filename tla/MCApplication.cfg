SPECIFICATION ApplicationSpec
CONSTANTS
  Keyholder = {k1, k2}
  Request = {r1, r2}
  Copy = {c1, c2}
  NoOne = NoOne
SYMMETRY ApplicationSymmetry
INVARIANTS
  OneEnding
  TokensSpentForEffect
  DecidedByClaimant
  ActsAsShown
  RepeatedReviewConverges
PROPERTIES
  ActsUnderGrant
CHECK_DEADLOCK FALSE
