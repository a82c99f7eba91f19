SPECIFICATION Spec
CONSTANTS
  StandTicks = 9
  RecoverTicks = 6
  SitTicks = 6
  EnableAfter = 3
  EnableCap = 5
INVARIANTS
  TypeOK
  RlRidesOnStand
  NoUserResidue
  FoldMatchesOrigin
  FaultEndsInDamping
  OnlyLateRequestsAreLost
PROPERTIES
  ImplementsModeSwitch
  MotionsComplete
  MitModeKept
