SPECIFICATION Spec
CONSTANTS
  Phases = {"once", "twice"}
  Reproducible = {"twice"}
  Links = {"l1", "l2"}
  MaxGeneration = 2
  Limits <- RetireLimits
INVARIANT CommittedKept
CHECK_DEADLOCK FALSE
