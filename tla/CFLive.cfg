SPECIFICATION ListFairSpec
CONSTANTS
  t1 = t1
  t2 = t2
  p1 = p1
  c1 = c1
  c2 = c2
  q1 = q1
  Fin = Fin
  None = None
  Task = {t1, t2}
  Poller = {p1}
  MaxQueue = 2
  PthreadFails = FALSE
  Coroutine = {c1, c2}
  Req = {q1}
INVARIANT ListsSpell
INVARIANT NoTaskLeak
INVARIANT CleanupTarget
PROPERTY RefinesFairCallSpec
PROPERTY RefinesLife
PROPERTY EveryTaskFreed
PROPERTY EveryTaskPolled
PROPERTY UnloadCompletes
CHECK_DEADLOCK FALSE
