CONSTANTS
  MCLast = 1
  Names <- MCNames
  Parents = {}
  States = {walking}
  Checks = {TRUE}
  None = None
  MaxThreads = 2
  MaxTimers = 1

SPECIFICATION Spec

INVARIANTS
  LinkedOnce
  SleepersWake
PROPERTIES
  DetachedOutlive
  SteadyInProgress
