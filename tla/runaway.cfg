SPECIFICATION IndexerSpec
CONSTANTS
  m1 = m1
  u1 = u1
  r1 = r1
  r2 = r2
  t1 = t1
  t2 = t2
  Matches = {m1}
  Users = {u1}
  Retriers = {r1}
  Ticks = {t1}
  PageSize = 6
  Window = 6
  MaxRetries = 2
  Int8Max = 400
  Starts <- QuietStarts
  Reindexed = {0}
  MaxRows = 6
  None = None
INVARIANTS
  IndexedIsOnChain
CHECK_DEADLOCK FALSE
