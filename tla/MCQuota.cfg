SPECIFICATION Spec
CONSTANTS
  r1 = r1
  r2 = r2
  key = key
  m1 = m1
  m2 = m2
  policy = policy
  column = column
  Requests = {r1, r2}
  Model = m1
  Tiers <- OneTier
  Key = key
  Gates <- TwoGates
  Metered = {column}
  Limit <- Limits
  Width <- Widths
  TokenLimit = 1
  TokenWidth = 1
  MaxTime = 1
  MaxTries = 1
  MaxFaults = 1
SYMMETRY RequestSymmetry
CHECK_DEADLOCK FALSE
INVARIANT TypeOK
INVARIANT CountsAreEarned
INVARIANT OnlyTriesAreCharged
INVARIANT ProviderCountedOnce
INVARIANT AnswersAreBilled
