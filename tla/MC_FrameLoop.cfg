CONSTANTS
  KeyW = KeyW
  ArrowUp = ArrowUp
  ShiftLeft = ShiftLeft
  Left = Left
  Fifth = Fifth
  Keys <- AllKeys
  Buttons <- BothButtons
  Modifiers <- SprintKeys
  Unmapped <- FifthButton
  Sprint = ShiftLeft
  Forward <- MoveKeys
  MaxPending = 2
  MaxRequests = 0
SPECIFICATION Spec
CONSTRAINT Apart
INVARIANTS
  PressIsFresh
  EdgesAreSeen
  StopsWithoutKeys
CHECK_DEADLOCK FALSE
