\* One decided height and the next; two crashes, without torn records.
SPECIFICATION Spec
CONSTANTS
  Blocks = {a, b}
  Nil = nil
  None = none
  Turns <- MCTurns
  Slack = 0
  MaxHeight = 1
  LongHeights = {2}
  MaxRound = 1
  MaxCrashes = 2
  TornWrites = FALSE
SYMMETRY Symmetry
CHECK_DEADLOCK FALSE
INVARIANT LockAlwaysSurvives
