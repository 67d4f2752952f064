SPECIFICATION PrivateSpec
CONSTANTS
  alice = alice
  bob = bob
  carol = carol
  admin = admin
  oracle = oracle
  contract = contract
  yes = yes
  no = no
  Users = {alice, bob}
  Admin = admin
  Oracle = oracle
  Contract = contract
  None = None
  Outcomes = {yes, no}
  MaxTime = 2
  ProtocolFees = {200}
  MinStakes = {1}
  PauseValues = {TRUE, FALSE}
  NewAdmins = {bob}
  NewOracles = {bob}
  MaxMarkets = 1
  Creators = {alice}
  RootParams <- PrivateMarkets
  ChildParams = {}
  CreatorFees = {0}
  Closers = {bob, oracle}
  NewEndTimes = {}
  Stakes = {1}
  Bonds = {}
  MaxDisputes = 1
  Resettable = {alice}
  Withdrawals = {}
  InitialFunds = 1
  MaxBatch = 1
  MaxDepth = 5
  StakePoint = 2
  UseLimits = {1, 2}
  Lifetimes = {2}
  MaxIssued = 2
INVARIANTS
  OnlyInvitedPredict
  AdmittedWithinGrants
PROPERTIES
  DeadCodesStayDead
SYMMETRY OutcomeSymmetry
CHECK_DEADLOCK FALSE
