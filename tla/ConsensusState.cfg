SPECIFICATION Spec
CONSTANTS
  Blocks = {a, b, x, y}
  Nil = nil
  None = none
  MaxRound = 1
  Invalid = {x, y}
  Garbled = {y}
  Turns = {{0}, {1}}
  MyBlock = a
  WaitForTxs = {TRUE, FALSE}
  EmptyInterval = TRUE
  MaxTocks = 1
INVARIANTS  LockIsLastPrecommit  ProposalJustified WaitIsTimed
PROPERTY KeepsLockRule
