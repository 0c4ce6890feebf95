SPECIFICATION StepsSpec
CONSTANTS
  Scripts <- MCScripts
  Inline = 6
  Moves = {2, 3, 5}
  FileLines = 2
  Nowhere = Nowhere
  Longest = 1
  Terms <- MCTerms
INVARIANT PrecedenceHolds
CHECK_DEADLOCK FALSE
