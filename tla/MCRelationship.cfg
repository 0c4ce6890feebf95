\* Three entities below the root: the smallest family with a middle child.
SPECIFICATION Spec
CONSTANTS
  e1 = e1
  e2 = e2
  e3 = e3
  root = root
  Null = null
  Absent = absent
  Root = root
  Entities = {root, e1, e2, e3}
SYMMETRY EntitySymmetry
INVARIANTS
  IntactChainsAreSound
  CountMatchesParents
  ParentsAreAlive
PROPERTIES
  IntactStepsAreForestSteps
CHECK_DEADLOCK FALSE
