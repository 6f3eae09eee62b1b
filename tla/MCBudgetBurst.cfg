SPECIFICATION Spec
CONSTANTS
  p1 = p1
  p2 = p2
  r1 = r1
  r2 = r2
  r3 = r3
  key = key
  global = global
  TheLimit = 2
  TheThreshold = 1
  TheEstimate = 1
  MaxCost = 1
  Processes = {p1, p2}
  Requests = {r1, r2}
  Budgets = {global}
  Blocking = {global}
  Periodic = {}
  Limit <- SameLimit
  Threshold <- SameThreshold
  Applies <- AppliesToAll
  Estimate <- SameEstimate
  Costs <- SameCosts
  CopyTTL = 1
  RetryPause = 1
  HoldTTL = 3
  LoadTime = 1
  MaxRun = 1
  SpendCap = 3
  Faults <- NoFaults
SYMMETRY Symmetric
INVARIANT NoOvershoot
