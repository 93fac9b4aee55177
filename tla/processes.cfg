CONSTANTS
  c1 = c1  c2 = c2  first = first  second = second
  Children = {c1, c2}
  Closers = {first, second}
  Forking = {c1}
  Collectors <- MCCollectors
  Sessions = {"s"}
  SessionOf <- MCSessionOf
SPECIFICATION MCSpec
INVARIANTS OneCollector OutcomeHonest CaptureWhole 
PROPERTIES CancelStops ShutdownReturns
CHECK_DEADLOCK FALSE
