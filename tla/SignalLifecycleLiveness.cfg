SPECIFICATION FairSpec
CONSTANTS
  MaxCount = 9
  NoCount = NoCount
  NoState = NoState
  NoSignal = NoSignal
  NoCycle = NoCycle
  NoCallback = NoCallback
  MaxVersion = 1
  MaxTime = 6
  StartTime <- MCStart
  CloseTime <- MCCloseAt6
  FirstSequence = 0
  MaxSequence = 9
  MaxRuns = 1
  HostEvents <- MCTwoCloses
  InitialNodes <- MCInitialNodes
  Transmitters = {1, 2, 3}
  Receivers = {1, 2, 3}
  Durations = {1}
  Bands <- MCOneBand
  Responses <- MCFewResponses
  Misrouted = {}
  ProvidersMayFail = TRUE
  FirstTransmissionId = 1
  FirstReceptionId = 1
  MaxId = 2
INVARIANTS
  ReceptionsNumbered
PROPERTIES
  EventuallyReceived
  CycleEnds
CHECK_DEADLOCK FALSE
