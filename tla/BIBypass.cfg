SPECIFICATION Spec
CONSTANTS
  None = None
  Image <- MCImage
  NgxBuild <- MCNgxBuild
INVARIANT CheckedBeforeUse
CHECK_DEADLOCK FALSE
