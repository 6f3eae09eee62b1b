SPECIFICATION FairSpec
CONSTANTS
  r1 = r1
  r2 = r2
  p1 = p1
  p2 = p2
  Requests = {r1, r2}
  Providers = {p1, p2}
  MaxConcurrent <- OneSlotAtP1
  Plans <- ComboAndOthers
  Kinds = {"transient", "local", "invalid"}
  None = none
  MaxEvents = 1
INVARIANT TypeOK
INVARIANT SlotsAreHeld
INVARIANT ReportsMatchOutcome
 
INVARIANT RefusedModelNotAsked
INVARIANT AnswerIsReal
PROPERTY RequestsEnd
