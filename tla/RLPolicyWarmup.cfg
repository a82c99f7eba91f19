SPECIFICATION Spec
CONSTANTS
  Window = 10
  Steps = 4
  Interval = 2
  Recall = 3
  Warmup = 4
  MaxLoop = 95
INVARIANTS
  WarmupCoversJoints
