SPECIFICATION Spec
CONSTANTS
  MaxCount = 5
  NoCount = NoCount
  NoState = NoState
  NoCycle = NoCycle
  NoWorking = NoWorking
  NoDelta = NoDelta
  o1 = o1
  o2 = o2
  Owners = {o1, o2}
  NodeInputs = {1}
  InitialNodes <- MCOneNode
  Velocities = {2}
  QueryTimes = {0, 1}
  CycleIds = {1, 2}
  FirstVersion = 0
  MaxVersion = 2
  MaxChanges = 1
INVARIANTS
  TypeOK
  NoLostUpdate
PROPERTIES
  ImplementsHistory
