SPECIFICATION Spec
CONSTANTS
  Producers = {p1, p2}
  MaxQueueSize = 10
  ElementSize = 3
  WordSize = 20
  x1 = x1
  x2 = x2
  white = white
  Blank = Blank
  Positions <- MCPositions
  Colors <- MCColors
INVARIANT NothingLost
