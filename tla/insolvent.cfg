SPECIFICATION Spec
CONSTANTS
  alice = alice
  bob = bob
  carol = carol
  admin = admin
  oracle = oracle
  contract = contract
  yes = yes
  no = no
  Users = {alice, bob}
  Admin = admin
  Oracle = oracle
  Contract = contract
  None = None
  Outcomes = {yes, no}
  MaxTime = 3
  ProtocolFees = {200}
  MinStakes = {1}
  PauseValues = {}
  NewAdmins = {}
  NewOracles = {}
  MaxMarkets = 1
  Creators = {alice, bob}
  RootParams <- RootMarkets
  ChildParams = {}
  CreatorFees = {}
  Closers = {oracle}
  NewEndTimes = {2}
  Stakes = {2, 3}
  Bonds = {1}
  MaxDisputes = 2
  Resettable = {}
  Withdrawals = {1}
  InitialFunds = 5
  MaxBatch = 1
  MaxDepth = 5
  StakePoint = 2
INVARIANTS
  PayoutsCovered
SYMMETRY Symmetry
CHECK_DEADLOCK FALSE
