SPECIFICATION Spec
CONSTANTS
  i1 = i1
  i2 = i2
  c1 = c1
  c2 = c2
  c3 = c3
  Base = base
  rule = rule
  Instances = {i1}
  Calls = {c1, c2}
  Rules = {rule}
  Asked = {rule}
  ThresholdNum = 1
  ThresholdDen = 2
  MinSamples = 1
  WindowBuckets = 1
  BucketWidth = 1
  OpenDuration = 2
  HalfOpenProbes = 2
  MemoTTL = 0
  Skew <- SameClocks
  MaxSkew = 0
  MaxDelay = 1
  MaxTime = 5
  BucketCap = 1
  Faults <- ServerFaults
SYMMETRY CallSymmetry
CHECK_DEADLOCK FALSE
INVARIANT TypeOK
INVARIANT ProbeQuota
INVARIANT TokenIdentifiesWindow
PROPERTY VerdictByCurrentProbe
PROPERTY Promise
