SPECIFICATION IndexerSpec
CONSTANTS
  m1 = m1
  u1 = u1
  r1 = r1
  r2 = r2
  t1 = t1
  t2 = t2
  Matches = {m1}
  Users = {u1}
  Retriers = {r1, r2}
  Ticks = {t1, t2}
  PageSize = 6
  Window = 6
  MaxRetries = 2
  Int8Max = 20
  Starts <- SomeStarts
  Reindexed = {0}
  MaxRows = 6
  None = None
SYMMETRY Interchangeable
INVARIANTS
  MirrorSound
  MatchesCounted
CHECK_DEADLOCK FALSE
