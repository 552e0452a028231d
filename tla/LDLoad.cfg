SPECIFICATION FairSpec
CONSTANTS
  c1 = c1
  c2 = c2
  d1 = d1
  d2 = d2
  None = None
  Caller = {c1, c2}
  Dir = {d1, d2}
  Home = d1
  Request <- MCRequest
  Lang = {"java", "python", "node"}
  MaxTries = 2
  MaxLoads = 3
  MaxVersion = 2
  MaxEdited = 1
  Faults = TRUE
INVARIANT ExclusiveInit
INVARIANT OneMachine
INVARIANT OwnReply
INVARIANT FreshModule
INVARIANT ZeroMeansRan
PROPERTY EveryLoadReturns
CHECK_DEADLOCK FALSE
