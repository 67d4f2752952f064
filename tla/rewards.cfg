SPECIFICATION RewardsSpec
CONSTANTS
  u1 = u1
  u2 = u2
  m1 = m1
  yes = yes
  no = no
  admin = admin
  oracle = oracle
  contract = contract
  Users = {u1, u2}
  Admin = admin
  Oracle = oracle
  Contract = contract
  MaxTime = 2
  ProtocolFees = {0}
  MinStakes = {1}
  PauseValues = {TRUE}
  NewAdmins = {}
  NewOracles = {}
  Markets = {m1}
  Outcomes = {yes, no}
  Deposits = {1001}
  Burns = {1001, 1500}
  Swaps = {400}
  MinOuts = {150}
  MaxCalls = 4
  None = None
  Terms <- SomeTerms
  Prizes = {101}
  Boards <- SomeBoards
  Predictors = {u1}
  MaxSeasons = 2
  MaxPoints = 8
SYMMETRY SwappedOutcomes
INVARIANTS
  NoDilution
  TokensMinted
  SeasonsDisjoint
  DueSeasonsPayable
  RewardsCovered
PROPERTIES
  ProductNeverFalls
CHECK_DEADLOCK FALSE
