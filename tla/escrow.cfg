SPECIFICATION DisciplinedSpec
CONSTANTS
  alice = alice
  bob = bob
  carol = carol
  admin = admin
  oracle = oracle
  contract = contract
  yes = yes
  no = no
  Users = {alice, bob, carol}
  Admin = admin
  Oracle = oracle
  Contract = contract
  None = None
  Outcomes = {yes, no}
  MaxTime = 2
  ProtocolFees = {5000, 10000}
  MinStakes = {1}
  PauseValues = {}
  NewAdmins = {}
  NewOracles = {}
  MaxMarkets = 1
  Creators = {alice}
  RootParams <- RootMarkets
  ChildParams = {}
  CreatorFees = {}
  Closers = {}
  NewEndTimes = {}
  Stakes = {2,3}
  Bonds = {1}
  MaxDisputes = 1
  Resettable = {}
  Withdrawals = {1}
  InitialFunds = 5
  MaxBatch = 2
  MaxDepth = 5
  StakePoint = 2
INVARIANTS
  EscrowCovers
  SettledAtMostOnce
  PayoutsWithinPool
SYMMETRY BackerSymmetry
CHECK_DEADLOCK FALSE
