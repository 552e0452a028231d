SPECIFICATION Spec
CONSTANTS
  t1 = t1
  t2 = t2
  t3 = t3
  t4 = t4
  t5 = t5
  p1 = p1
  p2 = p2
  p3 = p3
  Fin = Fin
  Task = {t1, t2, t3, t4, t5}
  Poller = {p1, p2, p3}
  MaxQueue = 2
  PthreadFails = TRUE
INVARIANT WaitingCount
INVARIANT QueueBound
INVARIANT NoLostWakeup
INVARIANT FinLast
INVARIANT DrainedBeforeFree
INVARIANT FreedOnce
SYMMETRY Symmetry
CHECK_DEADLOCK FALSE
