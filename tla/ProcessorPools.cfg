SPECIFICATION Spec
CONSTANTS
  r1 = r1
  r2 = r2
  r3 = r3
  r4 = r4
  enterprise = enterprise
  premium = premium
  free = free
  stranger = stranger
  Requests = {r1, r2, r3}
  Users = {enterprise, premium}
  KnownUsers = {enterprise, premium}
  UserOf <- SharedPool
  TierOf <- MCTierOf
  Faulty = TRUE
  MaxWorkers <- MCMaxWorkers
  BankSize <- MCBankSize
  Texts <- TwoTexts
  TextsOf <- MCTextsOf
SYMMETRY PairSymmetry
INVARIANTS
  TypeOK
  SlotAccounting
  CountersAgree
  AvailableIsAcquirable
  WaitsOnlyForFallback
  MetricsMatchEvents
PROPERTIES
  DegradesAsPromised
