SPECIFICATION FairSpec
CONSTANTS
  i1 = i1
  i2 = i2
  c1 = c1
  c2 = c2
  c3 = c3
  Base = base
  rule = rule
  Instances = {i1, i2}
  Calls = {c1}
  Rules = {}
  Asked = {base}
  ThresholdNum = 1
  ThresholdDen = 2
  MinSamples = 1
  WindowBuckets = 1
  BucketWidth = 1
  OpenDuration = 2
  HalfOpenProbes = 1
  MemoTTL = 3
  Skew <- AheadClock
  MaxSkew = 1
  MaxDelay = 0
  MaxTime = 5
  BucketCap = 1
  Faults <- FlushFaults
CHECK_DEADLOCK FALSE
INVARIANT MemoStalenessBounded
INVARIANT MemoDenialEndsWithEpisode
PROPERTY OpenIsLeftAlone
PROPERTY ProbeWindowEnds
