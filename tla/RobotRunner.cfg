SPECIFICATION RunnerFairSpec
CONSTANTS
  MaxSampled = 1
  MaxCycle = 2
  MaxMade = 1
  MayFail = TRUE
INVARIANTS
  RunnerTypeOK
PROPERTIES
  SensesWholeValues
  SendsWholeCommands
  CommandsArrive
  ReferenceIsOldest
  CyclesGoOn
