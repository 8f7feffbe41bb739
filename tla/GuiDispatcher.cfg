SPECIFICATION Spec
CONSTANTS
  Modes = {"single", "threads"}
  Windows = {w1, w2}
  NoWindow = NoWindow
  Sizes = {1, 2}
  InitSize = 1
  XKinds = {"configure", "reparent", "button", "input"}
  MaxX = 2
  MaxCreates = 2
  MaxDraws = 0
INVARIANTS PendingCoversList CallbackOnLiveWindow
  CallbackForItsOwnWindow
  LastResizeHandled WindowKnowsItsSize FaultsHaveACause
CHECK_DEADLOCK FALSE
