SPECIFICATION Spec
CONSTANTS
  compile = compile
  link = link
  t1 = t1
  t2 = t2
  Phases <- MCPhases
  Order <- MCOrder
  Deps <- MCDeps
  Mandatory <- MCPhases
  ImagePhases <- MCImage
  Threads = {t1}
  Domains = {"toolchain"}
  Ops = {"run_session", "report", "restart", "recover", "shutdown", "registry"}
  Failures = {"unknown"}
  Faults = TRUE
  ReproRequired = TRUE
  MaxRetriesPerPhase = 1
  MaxRetriesPerSession = 2
  MaxAttempts = 2
  MaxRetryCalls = 1
  MaxReservations = 2
  MaxArtifacts = 2
  MaxGeneration = 2
  MaxEpoch = 3
INVARIANTS
  CommitIsDurable
  SessionCommitSound
  InputsFromCommitted
  FencedLosesAuthority
PROPERTIES
  ImplementsLedger
CHECK_DEADLOCK FALSE
