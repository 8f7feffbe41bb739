SPECIFICATION Spec
CONSTANTS
  Modes = {"single", "threads"}
  Windows = {w1, w2}
  NoWindow = NoWindow
  Sizes = {1, 2}
  InitSize = 1
  XKinds = {"configure", "reparent", "map", "button", "input"}
  MaxX = 1
  MaxCreates = 2
  MaxDraws = 1
PROPERTIES CloseReturns ListIsEmptied
CHECK_DEADLOCK FALSE
