SPECIFICATION FairSpec
CONSTANTS
  MaxSampled = 3
  MaxCycle = 3
  MayFail = TRUE
PROPERTIES
  TransfersAgain
