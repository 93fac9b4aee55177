SPECIFICATION Spec
CONSTANTS
  compile = compile
  link = link
  t1 = t1
  t2 = t2
  Phases <- MCPhases
  Order <- MCOrder
  Deps <- MCDeps
  Mandatory <- MCPhases
  ImagePhases <- MCImage
  Threads = {t1, t2}
  Domains = {"toolchain"}
  Ops = {"run", "retry"}
  Failures = {"retryable"}
  Faults = FALSE
  ReproRequired = FALSE
  MaxRetriesPerPhase = 1
  MaxRetriesPerSession = 2
  MaxAttempts = 4
  MaxRetryCalls = 3
  MaxReservations = 4
  MaxArtifacts = 3
  MaxGeneration = 2
  MaxEpoch = 1
INVARIANTS
  ConsumedInputsAuthoritative
CHECK_DEADLOCK FALSE
