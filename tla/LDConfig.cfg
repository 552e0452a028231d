SPECIFICATION Spec
CONSTANTS
  c1 = c1
  d1 = d1
  None = None
  Caller = {c1}
  Dir = {d1}
  Home = d1
  Request <- MCCsv
  Lang = {"java", "node"}
  MaxTries = 2
  MaxLoads = 1
  MaxVersion = 1
  MaxEdited = 0
  Faults = FALSE
INVARIANT ConfigDelivered
CHECK_DEADLOCK FALSE
