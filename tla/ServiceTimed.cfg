CONSTANTS
  TypeOrder <- MCTypeOrder
  Delays <- MCDelays
  MaxEvents = 3
  MaxTime = 2

SPECIFICATION Spec

INVARIANT TimedEventsAreKept
