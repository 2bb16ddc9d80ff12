SPECIFICATION Spec
CONSTANTS
  Blocks = {a, b}
  Nil = nil
  None = none
  Turns <- MCTurns
  Slack = 0
  MaxHeight = 2
  LongHeights = {3}
  MaxRound = 1
  MaxCrashes = 2
  TornWrites = TRUE
INVARIANTS NoDoubleSign   
SYMMETRY Symmetry
CHECK_DEADLOCK FALSE
