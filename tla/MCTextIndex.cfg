SPECIFICATION IndexSpec
CONSTANTS
  MaxPage = 2
  MinPage = 2
  MaxLen = 4
  Inserts <- MCInserts
  MaxAge = 2
  Iter = {i1}
VIEW MCView
INVARIANTS
  ContentInOrder
  TreeAndListAgree
  AcceptedReadsItsOffset
  IndexMatchesText
CHECK_DEADLOCK FALSE
