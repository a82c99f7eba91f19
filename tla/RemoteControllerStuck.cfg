SPECIFICATION FairSpec
CONSTANTS
  Inputs = {"lb", "rb", "y"}
  QueueLength = 2
PROPERTIES
  StopIsHeard
