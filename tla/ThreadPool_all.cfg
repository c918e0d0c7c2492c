SPECIFICATION Spec
CONSTANTS
  NumWorkers = 2
  Submitters = {s1, s2}
  TaskIds = {a, b}
  MaxCopies = 2
  MaxTasks = 3
  None = None
INVARIANTS NoSleepingOnWork DestroyedMeansEnded AbortOnlyBeforeFirstRun
PROPERTIES ImplementsTaskPool TasksStarted DestructorEnds
CHECK_DEADLOCK FALSE
