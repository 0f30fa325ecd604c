SPECIFICATION FairSpec
CONSTANTS
  MaxSteps = 2
  MaxFanout = 2
  Scored = TRUE
  Cap = 4
  Buffer = 1
  Modes <- BothModes
  Panics <- BothModes
  MaxPlan = 3
  MaxDeltas = 1
INVARIANTS WorkersContained OvershootBounded ResultsInPlace
PROPERTIES ImplementsForkJoin Settles
CHECK_DEADLOCK FALSE
