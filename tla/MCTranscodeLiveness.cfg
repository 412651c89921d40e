SPECIFICATION FairSpec
CONSTANTS
  Workers = {w1}
  Dispatchers = {d1}
  Tasks = {t1}
  NoTask = NoTask
  MaxRetries = 1
CHECK_DEADLOCK FALSE
INVARIANT FailedJobIsRequeueable
PROPERTIES ClaimedJobSettles UndispatchedJobLeaves
