CONSTANTS
  q1 = q1
  World = World
  None = None
  NoLocation = NoLocation
  Queues <- OneQueue
  MaxGeneration = 3
  MaxCommands = 5
  MaxIndex = 2
  MaxTogether = 5
SPECIFICATION Spec
CONSTRAINT FewTogether
INVARIANTS
  HandlesExact
  DeadStaysDead
  SpawnFindsItsEntity
  DepthFirst
  RunOnce
CHECK_DEADLOCK FALSE
