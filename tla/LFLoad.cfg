CONSTANTS
  Lib = {l1, l2}
  Cfg = {c1}
  Obj = {o1, o2, o3}
  None = None
  MayUnpin = TRUE
  LoadsFail = TRUE
SPECIFICATION FairLoadSpec
CHECK_DEADLOCK FALSE
INVARIANTS LiveRuntimeServes OneRuntimePerKey PinnedLibraryMapped
PROPERTIES EntryOwnership EachLoadLives UnloadReleases
