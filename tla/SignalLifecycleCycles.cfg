SPECIFICATION Spec
CONSTANTS
  MaxCount = 9
  NoCount = NoCount
  NoState = NoState
  NoSignal = NoSignal
  NoCycle = NoCycle
  NoCallback = NoCallback
  MaxVersion = 2
  MaxTime = 9
  StartTime <- MCStarts
  CloseTime <- MCCloses
  FirstSequence = 0
  MaxSequence = 30
  MaxRuns = 3
  HostEvents <- MCTwoCycles
  InitialNodes <- MCInitialNodes
  Transmitters = {1, 2, 3}
  Receivers = {1, 2, 3}
  Durations = {1}
  Bands <- MCOneBand
  Responses <- MCTwoResponses
  Misrouted = {}
  ProvidersMayFail = FALSE
  FirstTransmissionId = 1
  FirstReceptionId = 1
  MaxId = 9
INVARIANTS
  LedgerOfOpenCycle
PROPERTIES
  EveryCycleCommits
  ImplementsReceptions
CHECK_DEADLOCK FALSE
