SPECIFICATION FairSpec
CONSTANTS
  Subs = {s1, s2}
  ChanCap = 1
  MaxAdds = 3
  MaxFlushes = 1
  MayStop = TRUE
  MaxToggles = 2
INVARIANTS SizeMatches
 
