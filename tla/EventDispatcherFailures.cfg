SPECIFICATION Spec
CONSTANTS
  MaxTime = 2
  FirstSequence = 0
  MaxSequence = 3
  MaxRuns = 3
  PhaseInputs <- MCPhaseInputs
  MayFail = TRUE
INVARIANTS
  FutureBucketsArmed
  NoEventLost
  UniqueSequences
PROPERTIES
  DispatchInKeyOrder
  RunReportsWhatItLeaves
CHECK_DEADLOCK FALSE
