SPECIFICATION Spec
CONSTANTS
  a = a
  b = b
  c = c
  a1 = a1
  b1 = b1
  c1 = c1
  x = x
  y = y
  calm = calm
  alert = alert
  Entities = {a, b, c}
  Threads = {a1, b1, c1}
  Types = {x, y}
  States <- MCStates
  Detached = {a1, c1}
  Owner <- MCOwner
  Code <- MCCode
  Rules <- MCRules
  Initial = calm
  Counts = 3
  Mortal = {b1, b}
  Nothing = Nothing
INVARIANTS
  WaitersAreListed
  CapturesAreKept
CHECK_DEADLOCK FALSE
PROPERTY
  WaitersAreAsked
