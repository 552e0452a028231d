SPECIFICATION Spec
CONSTANTS
  t1 = t1
  p1 = p1
  p2 = p2
  Fin = Fin
  Task = {t1}
  Poller = {p1, p2}
  MaxQueue = 2
  PthreadFails = FALSE
INVARIANT NoPollerOnFreedQueue
SYMMETRY Symmetry
CHECK_DEADLOCK FALSE
