SPECIFICATION Spec
CONSTANTS
  None = None
  Frame = Frame
  Str <- MCStr
  Runtime = {"go", "java", "python", "rust", "node", "any"}
INVARIANT DataDelivered
INVARIANT EchoExact
CHECK_DEADLOCK FALSE
