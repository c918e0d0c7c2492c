SPECIFICATION Spec
CONSTANTS
  MaxSignals = 2
  MaxCommands = 2
INVARIANTS PixelsOutliveUse PixelsFreedOnce ServerSocketClosed HowItEnds
PROPERTIES StopRequestEnds
CHECK_DEADLOCK FALSE
