CONSTANTS
  e1 = e1
  e2 = e2
  e3 = e3
  e4 = e4
  e5 = e5
  TableEntities <- Five
  Rows = 5
SPECIFICATION IterSpec
SYMMETRY Same
INVARIANTS
  OwnValues
  EachOnce
  RowsHold
CHECK_DEADLOCK FALSE
