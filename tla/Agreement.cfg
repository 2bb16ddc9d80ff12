SPECIFICATION Voting
CONSTANTS
  Validators = {v1, v2, v3, v4}
  Faulty = {v4}
  Quorums <- MCQuorums
  Blocks = {a, b}
  Nil = nil
  None = none
  MaxRound = 1
INVARIANTS Agreed Settled AgreementInv
SYMMETRY Symmetry
CHECK_DEADLOCK FALSE
