SPECIFICATION Spec
CONSTANTS
  NSessions = 2
  MaxGeneration = 3
  MaxBundles = 3
  MaxRestarts = 2
  Samples <- ProducedSamples
  Fate <- CodecFate
  Plans <- MCPlans
INVARIANTS
  SavedTypeOK
  RefusesOnlyUnguarded
  GenerationNamesContent
  
  PlanOrdered
  
PROPERTY SavedIsRestored
CHECK_DEADLOCK FALSE
