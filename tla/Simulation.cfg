SPECIFICATION FairSpec
CONSTANTS
  MaxBurst = 2
  Capacity = 2
  MaxMade = 3
  MaxPublished = 2
INVARIANTS
  SimulationTypeOK
  MovesLoadedModel
PROPERTIES
  OnlyQuitUsesFreed
  CloseEndsProgram
  LinkGoesForward
  LastCommandIsObeyed
