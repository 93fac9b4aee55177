SPECIFICATION FairSpec
CONSTANTS
  compile = compile
  link = link
  t1 = t1
  t2 = t2
  Phases <- MCPhases
  Order <- MCOrder
  Deps <- MCDeps
  Mandatory <- MCPhases
  ImagePhases <- MCImage
  Threads = {t1, t2}
  Domains = {"toolchain"}
  Ops = {"run_session", "retry", "cancel_session", "retire", "registry"}
  Failures = {"retryable"}
  Faults = FALSE
  ReproRequired = FALSE
  MaxRetriesPerPhase = 1
  MaxRetriesPerSession = 1
  MaxAttempts = 2
  MaxRetryCalls = 1
  MaxReservations = 2
  MaxArtifacts = 3
  MaxGeneration = 2
  MaxEpoch = 1
INVARIANTS
  SessionCommitSound
PROPERTIES
  CallsReturn
  AttemptsConclude
CHECK_DEADLOCK FALSE
