SPECIFICATION Spec
CONSTANTS
  Pane = {p1, p2}
  Size = {10, 30}
  WindowWidth = 120
  Content <- MCContent
  MaxMoves = 2
  MaxTimers = 2
SYMMETRY Symmetry
INVARIANTS TypeOK EarlyEchoesNotSaved  SidebarsAgreeAtRest
CHECK_DEADLOCK FALSE
