CONSTANTS
  TypeOrder <- MCTypeOrder
  Delays <- MCDelays
  MaxEvents = 4
  MaxTime = 2

SPECIFICATION FairSpec

INVARIANTS
  DispatchersTakeTurns
  OwedAreHandled
  NothingLost
PROPERTIES
  ImplementsMailboxes
  EventsAreHandled
