SPECIFICATION FairSpec
CONSTANTS
  MaxTime = 2
  FirstSequence = 0
  MaxSequence = 3
  MaxRuns = 2
  PhaseInputs <- MCPhaseInputs
  MayFail = FALSE
INVARIANTS
  TypeOK
  OneCallbackPerBucket
PROPERTIES
  ImplementsQueue
  RunDrains
  EventuallyDispatched
CHECK_DEADLOCK FALSE
