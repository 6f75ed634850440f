SPECIFICATION Spec
CONSTANTS
  MaxCount = 9
  NoCount = NoCount
  NoState = NoState
  NoSignal = NoSignal
  NoCycle = NoCycle
  NoCallback = NoCallback
  MaxVersion = 1
  MaxTime = 6
  StartTime <- MCStart
  CloseTime <- MCCloseAt4
  FirstSequence = 0
  MaxSequence = 4
  MaxRuns = 2
  HostEvents <- MCMistakes
  InitialNodes <- MCInitialNodes
  Transmitters = {1, 2, 3}
  Receivers = {1, 2, 3}
  Durations = {1}
  Bands <- MCOneBand
  Responses <- MCFewResponses
  Misrouted <- MCMisrouted
  ProvidersMayFail = TRUE
  FirstTransmissionId = 1
  FirstReceptionId = 1
  MaxId = 2
INVARIANTS
  ReceptionsNumbered
  SessionsOfWhatWasSent
PROPERTIES
  LedgerKeptUntilCommit
  CommitIsFinal
CHECK_DEADLOCK FALSE
