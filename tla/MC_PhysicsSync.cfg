CONSTANTS
  Entities = {e1, e2}
  e1 = e1
  e2 = e2
  Kinds <- AllKinds
  Origin = Origin
  Positions = {Origin, Away}
  Still = Still
  Velocities = {Still, Spinning}
  Spawns <- SomeSpawns
SPECIFICATION Spec
CONSTRAINT Small
SYMMETRY Same
INVARIANTS
  MappingsHold
  AddedIsHandled
  DrawnWhereTheBodyIs
  SteppedAsAsked
  PanicNeedsRemoval
CHECK_DEADLOCK FALSE
