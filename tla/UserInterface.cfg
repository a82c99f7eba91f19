SPECIFICATION FairSpec
CONSTANTS
  MaxSent = 3
  Capacity = 2
INVARIANTS
  TypeOK
PROPERTIES
  CommandsAreWhole
  ExitReturns
  FirstSessionServes
