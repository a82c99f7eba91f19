SPECIFICATION FairSpec
CONSTANTS
  MaxSent = 2
  Capacity = 2
PROPERTIES
  EverySessionServes
