SPECIFICATION Spec
CONSTANTS
  w1 = w1
  w2 = w2
  d1 = d1
  d2 = d2
  None = None
  Workers = {w1, w2}
  Deliveries = {d1}
  Batch = 1
  Concurrency = 1
  MaxRetries = 2
  Stuck = 2
  Deadline = 2
  Waits = {1, 2}
  MaxFaults = 2
  MaxEdits = 0
INVARIANT OnlyHopelessAbandoned
