CONSTANTS
  Materials = {texture, light}
  texture = texture
  light = light
  MaxGroups = 5
  MaxKept = 5
SPECIFICATION DrawSpec
SYMMETRY BothMaterials
INVARIANTS
  DanglingIsExplained
  DrawnOnce
  MovesBeyondFour
CHECK_DEADLOCK FALSE
