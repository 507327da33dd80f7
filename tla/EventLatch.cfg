SPECIFICATION FairSpec
CONSTANTS
  Thread = {t1, t2, t3}
  NoThread = NoThread
  Spurious = TRUE
  Waiters = {t1}
  MaxOps = 4
CHECK_DEADLOCK FALSE
INVARIANTS ReturnsTriggered NobodySleepsOnTriggered
PROPERTY TriggeredWaitReturns
