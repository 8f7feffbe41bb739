SPECIFICATION Spec
CONSTANTS
  small = small
  large = large
  long = long
  Files = {small, large, long}
  Long = {long}
  Blocks <- MCBlocks
  MaxTransfers = 2
  Present <- MCPresent
  MaxLate = 1
INVARIANT FilesArrive
PROPERTY TransferEnds
CHECK_DEADLOCK FALSE
