SPECIFICATION Spec
CONSTANTS
  Expansion = 4
  HAdvance = 2
  VAdvance = 2
  MaxLen = 3
  Opened <- MCOpened
  Garbage <- MCGarbage
INVARIANTS ShowsTextInOrder ScreenIsCurrent FaultsHaveACause PageUpGoesUp
CHECK_DEADLOCK FALSE
