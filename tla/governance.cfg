SPECIFICATION GovSpec
CONSTANTS
  alice = alice
  bob = bob
  carol = carol
  dave = dave
  admin = admin
  oracle = oracle
  contract = contract
  Users = {alice, dave}
  Admin = admin
  Oracle = oracle
  Contract = contract
  MaxTime = 2
  ProtocolFees = {200}
  MinStakes = {1}
  PauseValues = {TRUE, FALSE}
  NewAdmins = {bob}
  NewOracles = {}
  Voters = {bob, carol}
  Proposers = {alice}
  Changes <- SomeChanges
  Durations = {0, 1}
  QuorumPart = 1
  MaxProposals = 2
INVARIANTS
  GovTypeOK
  VotesCounted
  EnactedByMajority
  EnactedOnce
CHECK_DEADLOCK FALSE
