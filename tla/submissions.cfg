SPECIFICATION SubmissionsSpec
CONSTANTS
  alice = alice
  bob = bob
  k1 = k1
  yes = yes
  no = no
  Users = {alice, bob}
  Keys = {k1}
  Bodies = {yes, no}
  Options = {yes}
  MaxRequests = 2
  Calls <- SomeCalls
  ChainEvents <- SomeEvents
  PageSize = 2
  Operations = {"resolve"}
  Starts <- SomeStarts
  None = None
INVARIANTS
  ReplaysAreTrue
  CountedArePredicted
PROPERTIES
  NeverStakedAgain
  KeysDrain
  StakesReachTheBase
CHECK_DEADLOCK FALSE
