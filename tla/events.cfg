SPECIFICATION EventsSpec
CONSTANTS
  alice = alice
  bob = bob
  carol = carol
  agent = agent
  treasury = treasury
  contract = contract
  Users = {alice, bob}
  Address <- AddressOrder
  Agent = agent
  Treasury = treasury
  Contract = contract
  None = None
  MaxTime = 3
  Fees = {1}
  NewAgents = {carol}
  NewTreasuries = {carol}
  Payees = {treasury}
  Withdrawals = {1}
  PauseValues = {TRUE, FALSE}
  Offers <- SomeOffers
  Creators = {alice}
  MaxEvents = 2
  MatchTimes = {2, 4}
  Multipliers = {1, 3}
  MaxMatches = 2
  Scores <- ScoreLines
  InitialFunds = 5
INVARIANTS
  PoolsEscrowed
  GradesComplete
  TopScorersPaid
PROPERTIES
  StandingsSettled
CHECK_DEADLOCK FALSE
