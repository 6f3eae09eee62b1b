SPECIFICATION FairSpec
CONSTANTS
  r1 = r1
  r2 = r2
  None = None
  Refreshers = {r1, r2}
  MaxTries = 3
  Life = 2
  Ahead = 1
  MaxGrants = 2
  MaxRotations = 2
  MaxFaults = 3
  MaxEdits = 1
INVARIANT TypeOK
INVARIANT TokenKept
PROPERTY OnlyDeadDisabled
PROPERTY KeptAlive
CHECK_DEADLOCK FALSE
