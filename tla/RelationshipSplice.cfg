SPECIFICATION Spec
CONSTANTS
  e1 = e1
  e2 = e2
  e3 = e3
  root = root
  Null = null
  Absent = absent
  Root = root
  Entities = {root, e1, e2, e3}
SYMMETRY EntitySymmetry
INVARIANT EnumerationMeetsEveryChild
CHECK_DEADLOCK FALSE
