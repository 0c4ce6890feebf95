SPECIFICATION StepsSpec
CONSTANTS
  Scripts <- MCScripts
  Inline = 6
  Moves = {2, 3, 5}
  FileLines = 2
  Nowhere = Nowhere
  Longest = 4
  Terms <- MCTerms
INVARIANTS
  EveryLineIsBuilt
  OvertakenByDirectives
  BlocksSpanTheirLines
  MultiIsOneUpdate
  CadenceIsHonoured
  ValuesMeanWhatTheySay
  ValuesUseTheirTerms
PROPERTIES
  FollowsItsLines
  UpdatesEnd
CHECK_DEADLOCK FALSE
