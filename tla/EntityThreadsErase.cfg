CONSTANTS
  MCLast = 0
  Names <- MCNames
  Parents <- MCParents
  States = {}
  Checks = {FALSE}
  None = None
  MaxThreads = 3
  MaxTimers = 0

SPECIFICATION Spec

PROPERTIES
  ParentsOutlive
  CompletedGo
