SPECIFICATION Spec
CONSTANTS
  Phases = {"once", "twice"}
  Reproducible = {"twice"}
  Links = {"l1", "l2"}
  MaxGeneration = 2
  Limits <- MCLimits
INVARIANTS
  
  OutputsOwn
  ReplyIsOwn
  RepliesAwaited
  RunsWhereOpened
PROPERTY RequestsReturn
CHECK_DEADLOCK FALSE
