SPECIFICATION FlowSpec
CONSTANTS
  t1 = t1
  t2 = t2
  p1 = p1
  c1 = c1
  c2 = c2
  q1 = q1
  q2 = q2
  Fin = Fin
  None = None
  Task = {t1, t2}
  Poller = {p1}
  MaxQueue = 1
  PthreadFails = TRUE
  Coroutine = {c1, c2}
  Req = {q1, q2}
INVARIANT TaskPlaces
INVARIANT LiveTaskHasWaiter
INVARIANT NoLostCompletion
INVARIANT OwnResponse
INVARIANT HandlerLeftByRefusal
PROPERTY RefinesCallSpec
SYMMETRY Symmetry
CHECK_DEADLOCK FALSE
