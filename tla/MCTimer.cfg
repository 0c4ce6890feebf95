CONSTANTS
  Lengths <- MCLengths
  MaxClock = 7
  None = None

SPECIFICATION TimerSpec

INVARIANTS
  NeverCompletesEarly
  RemainingIsExact
