SPECIFICATION DisciplinedSpec
CONSTANTS
  alice = alice
  bob = bob
  carol = carol
  admin = admin
  oracle = oracle
  contract = contract
  yes = yes
  no = no
  Users = {alice, bob}
  Admin = admin
  Oracle = oracle
  Contract = contract
  None = None
  Outcomes = {yes, no}
  MaxTime = 3
  ProtocolFees = {200}
  MinStakes = {1}
  PauseValues = {}
  NewAdmins = {}
  NewOracles = {}
  MaxMarkets = 2
  Creators = {alice}
  RootParams <- RootMarkets
  ChildParams <- ChildMarkets
  CreatorFees = {}
  Closers = {}
  NewEndTimes = {}
  Stakes = {1}
  Bonds = {1}
  MaxDisputes = 1
  Resettable = {}
  Withdrawals = {}
  InitialFunds = 2
  MaxBatch = 2
  MaxDepth = 5
  StakePoint = 2
INVARIANTS
  ChildrenFollowResolution
  CancelledIsRefunded
PROPERTIES
  MarketsAreSeparatePurses
SYMMETRY OutcomeSymmetry
CHECK_DEADLOCK FALSE
