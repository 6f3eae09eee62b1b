SPECIFICATION Spec
CONSTANTS
  r1 = r1
  r2 = r2
  None = None
  Refreshers = {r1}
  MaxTries = 3
  Life = 2
  Ahead = 1
  MaxGrants = 2
  MaxRotations = 1
  MaxFaults = 0
  MaxEdits = 0
INVARIANT ReconnectRecovers
CHECK_DEADLOCK FALSE
