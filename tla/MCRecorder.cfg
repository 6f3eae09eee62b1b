SPECIFICATION FairSpec
CONSTANTS
  r1 = r1
  r2 = r2
  r3 = r3
  w1 = w1
  w2 = w2
  Requests = {r1, r2, r3}
  Workers = {w1, w2}
  QueueSize = 1
  Nothing = nothing
  Weathers <- FairAndFoul
INVARIANT TypeOK
INVARIANT NothingStranded
PROPERTY KeepsTheBooks
PROPERTY FinishedIsCharged
PROPERTY CloseEnds
CHECK_DEADLOCK FALSE
