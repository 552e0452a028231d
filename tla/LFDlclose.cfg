CONSTANTS
  Lib = {l1}
  Cfg = {c1}
  Obj = {o1, o2}
  None = None
  MayUnpin = TRUE
  LoadsFail = FALSE
SPECIFICATION LoadSpec
SYMMETRY Symm
CHECK_DEADLOCK FALSE
INVARIANTS LibraryMapped
