SPECIFICATION Spec
CONSTANTS
  Uis = {"ew", "ncurses", "debug"}
  MaxInputs = 3
INVARIANTS OnlyLateEventsDropped FaultsHaveACause
PROPERTIES QuitEnds HandshakeShowsScreen
