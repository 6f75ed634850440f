SPECIFICATION Spec
CONSTANTS
  MaxCount = 9
  NoCount = NoCount
  NoState = NoState
  NoSignal = NoSignal
  NoCycle = NoCycle
  NoCallback = NoCallback
  MaxVersion = 1
  MaxTime = 9
  StartTime <- MCStart
  CloseTime <- MCCloseAt6
  FirstSequence = 0
  MaxSequence = 9
  MaxRuns = 1
  HostEvents <- MCRefused
  InitialNodes <- MCInitialNodes
  Transmitters = {1, 2, 3}
  Receivers = {1, 2, 3}
  Durations = {0, 1, 3}
  Bands <- MCBands
  Responses <- MCResponses
  Misrouted = {}
  ProvidersMayFail = FALSE
  FirstTransmissionId = 1
  FirstReceptionId = 1
  MaxId = 9
INVARIANTS
  TypeOK
  WindowComplete
  ClosedCycle
  CanonicalOrder
PROPERTIES
  ReceiverFailsOnlyBelowZero
CHECK_DEADLOCK FALSE
