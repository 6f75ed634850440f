SPECIFICATION Spec
CONSTANTS
  MaxCount = 5
  NoCount = NoCount
  NoState = NoState
  NoCycle = NoCycle
  NoWorking = NoWorking
  NoDelta = NoDelta
  NoVector = NoVector
  Owners = {o1}
  o1 = o1
  NodeInputs <- MCNodeInputs
  InitialNodes <- MCInitialNodes
  Velocities <- MCVelocities
  QueryTimes <- MCQueryTimes
  CycleIds = {1, 2}
  FirstVersion = 0
  MaxVersion = 1
  MaxChanges = 2
INVARIANTS
  TypeOK
  LookupsAgree
  ProjectionIsTrajectory
PROPERTIES
  ImplementsWorld
