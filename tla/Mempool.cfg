\* Two transactions fill the mempool; the request queue has room for the
\* rechecks of a full mempool with a flush of the timer after each.
SPECIFICATION Spec
CONSTANTS
  Txs = {t1, t2}
  Nil = Nil
  Callers = {c1, c2}
  Configs <- MCConfigs
  Size = 2
  MaxTxsBytes = 2
  CacheSize = 1
  reqQueueSize = 4
  MaxChecks = 3
  MaxHeight = 2
  MaxBlockTxs = 2
INVARIANTS  IndexMatches CommittedStaysOut Announced
 
CHECK_DEADLOCK FALSE
