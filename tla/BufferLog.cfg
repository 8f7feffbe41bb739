SPECIFICATION Spec
CONSTANTS
  Char = {"a", "b"}
  MaxText = 2
  MaxCommits = 6
INVARIANTS Replayable
PROPERTIES ImplementsHistory
