SPECIFICATION Spec
CONSTANTS
  root = root
  a = a
  b = b
  Entities = {root, a, b}
  Root = root
  Null = Null
  Ring = 3
  MaxMoves = 2
  Given <- MCGiven
SYMMETRY MCSymmetry
INVARIANTS
  CachesAreCurrent
  ChangesAreMarked
PROPERTIES
  AttachingKeepsTheWorld
  MovesArrive
