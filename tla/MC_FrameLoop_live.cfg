CONSTANTS
  KeyW = KeyW
  ArrowUp = ArrowUp
  ShiftLeft = ShiftLeft
  Left = Left
  Fifth = Fifth
  Keys <- SprintKeys
  Buttons <- FifthButton
  Modifiers <- SprintKeys
  Unmapped <- FifthButton
  Sprint = ShiftLeft
  Forward <- Nothing
  MaxPending = 2
  MaxRequests = 3
SPECIFICATION FairSpec
PROPERTIES
  CloseEnds
  RequestsAreServed
CHECK_DEADLOCK FALSE
