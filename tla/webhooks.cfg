SPECIFICATION WebhooksSpec
CONSTANTS
  resolved = resolved
  t1 = t1
  t2 = t2
  m1 = m1
  e1 = e1
  Endpoints = {e1}
  EventTypes = {resolved}
  Ticks = {t1, t2}
  Emitters = {m1}
  Subscriptions = {{resolved}}
  Edits <- SomeEdits
  MaxAttempts = 2
  BatchSize = 1
  MaxLogs = 2
  MaxCrashes = 1
  Unused = Unused
  Gone = Gone
INVARIANTS
  SettledHonestly
PROPERTIES
  DeletedStaysDeleted
  DeliveriesEnd
CHECK_DEADLOCK FALSE
