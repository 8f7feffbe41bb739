SPECIFICATION Spec
CONSTANTS
  Uis = {"ncurses"}
  MaxInputs = 2
INVARIANT NoAssertFails
