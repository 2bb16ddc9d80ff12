SPECIFICATION Spec
CONSTANTS
  Replicas = {r1, r2}
  TestCases = {t1, t2}
  Filters = {"drop", "end"}
  MaxPosts = 1
  MaxCrafts = 1
  MayFail = TRUE
  MayQuit = TRUE
SYMMETRY Symmetry
INVARIANTS RestartedBetween DriverStarted AtMostOneLate VerdictsComplete
CHECK_DEADLOCK FALSE
