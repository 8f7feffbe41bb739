CONSTANTS
  Null = Null
  Buttons = {b1, b2}
  Points <- MCPoints
  Sizes <- MCSizes
  BarHeight = 2
  BarWidth = 2
  MinThumb = 3
  Parts = 1
  Word = 32
  MaxDraws = 1

SPECIFICATION Spec

SYMMETRY Symmetry

VIEW View

INVARIANTS
  TilesTheWindow
  WidgetsKnowTheirFocus
  DragHasTheGrab
  NewScreensGetDrawn
  FaultsHaveACause

PROPERTY
  ReleaseFollowsPress

CHECK_DEADLOCK FALSE
