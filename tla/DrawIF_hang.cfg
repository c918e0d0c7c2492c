SPECIFICATION Spec
CONSTANTS
  Producers = {p1}
  Width = 1
  MaxQueueSize = 3
  ElementSize = 1
  WordSize = 8
  white = white
  Blank = Blank
  Positions <- MCOnePosition
  Colors <- MCColors
PROPERTY FrameEnds
CHECK_DEADLOCK FALSE
