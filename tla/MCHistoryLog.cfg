\* Two values and four snapshots: room for an undo past a stored live value,
\* a redo back to it, and a cursor that truncate_back leaves beyond the end.
SPECIFICATION LogSpec
CONSTANTS
  a = a
  b = b
  Values = {a, b}
  MaxSnapshots = 4
SYMMETRY ValueSymmetry
INVARIANT
  UndoneValueKept
PROPERTIES
  LastRedoRestoresUndone
  ImplementsUndoStacks
