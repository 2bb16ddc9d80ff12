SPECIFICATION FairSpec
CONSTANTS
  Subs = {s1, s2}
  ChanCap = 1
  MaxAdds = 3
  MaxFlushes = 1
  MayStop = TRUE
INVARIANTS AtMostOnce
PROPERTIES  EventuallyTaken StopReturns
CHECK_DEADLOCK FALSE
