SPECIFICATION FairSpec
CONSTANTS
  Replicas = {r1}
  TestCases = {t1}
  Filters = {"deliver", "store", "deliverAll", "craft"}
  MaxPosts = 2
  MaxCrafts = 1
  MayFail = TRUE
  MayQuit = TRUE
INVARIANTS SentOnce
PROPERTIES  DispatchEnds
CHECK_DEADLOCK FALSE
