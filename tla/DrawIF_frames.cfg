SPECIFICATION Spec
CONSTANTS
  Producers = {p1}
  Width = 1
  MaxQueueSize = 5
  ElementSize = 2
  WordSize = 16
  white = white
  Blank = Blank
  Positions <- MCPositions
  Colors <- MCColors
INVARIANTS FrameExact CrashOnlyFullOrRaced ReadsWholeElements DrawsInside
PROPERTIES RenderAdvances
CHECK_DEADLOCK FALSE
