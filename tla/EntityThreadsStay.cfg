CONSTANTS
  MCLast = 0
  Names <- MCNames
  Parents = {}
  States = {}
  Checks = {TRUE}
  None = None
  MaxThreads = 1
  MaxTimers = 0

SPECIFICATION Spec

PROPERTY OnlyParentsStay
