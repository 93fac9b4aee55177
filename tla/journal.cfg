SPECIFICATION Spec
CONSTANTS
  Sessions = {1, 2}
  Bundles <- MCBundles
  NoBundle = NoBundle
  MaxRecord = 3
  MaxRecords = 3
  MaxJournal = 15
  MaxEpoch = 2
  MaxFaults = 2
INVARIANTS
  JournalTypeOK
  AckedSurvive
  UnscarredOpens
  ReplayFindsAcked
  SnapshotWhole
PROPERTIES
  EpochsIncrease
CHECK_DEADLOCK FALSE
