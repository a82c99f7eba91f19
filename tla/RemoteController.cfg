SPECIFICATION FairSpec
CONSTANTS
  Inputs = {"lb", "rb", "y"}
  QueueLength = 2
INVARIANTS
  TypeOK
  MapCatchesUp
  NoPhantomChords
PROPERTIES
  TrustedStopIsHeard
  NoticedLossIsRepaired
