SPECIFICATION FairSpec
CONSTANTS
  p1 = p1
  p2 = p2
  r1 = r1
  r2 = r2
  r3 = r3
  key = key
  global = global
  TheLimit = 1
  TheThreshold = 1
  TheEstimate = 0
  MaxCost = 1
  Processes = {p1}
  Requests = {r1, r2}
  Budgets = {global}
  Blocking = {global}
  Periodic = {global}
  Limit <- SameLimit
  Threshold <- SameThreshold
  Applies <- AppliesToAll
  Estimate <- SameEstimate
  Costs <- SameCosts
  CopyTTL = 1
  RetryPause = 1
  HoldTTL = 2
  LoadTime = 1
  MaxRun = 1
  SpendCap = 2
  Faults <- AlertFaults
PROPERTY ExhaustionAnnounced
