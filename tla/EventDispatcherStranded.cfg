SPECIFICATION Spec
CONSTANTS
  MaxTime = 1
  FirstSequence = 0
  MaxSequence = 2
  MaxRuns = 2
  PhaseInputs <- MCPhaseInputs
  MayFail = TRUE
PROPERTIES
  AcceptedIsScheduled
CHECK_DEADLOCK FALSE
