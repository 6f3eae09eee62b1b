SPECIFICATION Spec
CONSTANTS
  p1 = p1
  p2 = p2
  r1 = r1
  r2 = r2
  r3 = r3
  key = key
  global = global
  TheLimit = 4
  TheThreshold = 3
  TheEstimate = 2
  MaxCost = 2
  Processes = {p1}
  Requests = {r1, r2, r3}
  Budgets = {global, key}
  Blocking = {key}
  Periodic = {}
  Limit <- SameLimit
  Threshold <- SameThreshold
  Applies <- AppliesSome
  Estimate <- SameEstimate
  Costs <- SameCosts
  CopyTTL = 1
  RetryPause = 1
  HoldTTL = 3
  LoadTime = 1
  MaxRun = 1
  SpendCap = 5
  Faults <- GateFaults
SYMMETRY ProcSymmetric
INVARIANT TypeOK
INVARIANT NoOvershoot
INVARIANT AlertedOnce
INVARIANT ThresholdFirst
