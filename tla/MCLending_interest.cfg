SPECIFICATION Spec
CONSTANTS
  Accounts = {a, b}
  Markets = {m1}
  Admin = admin
  TreasuryAddress = treasury
  NoMarket = none
  ExpScale = 100
  InitialExchangeRate = 100
  BorrowRateMax = 200
  RateModels <- OnlyJump
  InitialWallet <- SharedMarket
  MaxBlock = 2
  CollateralFactorMax = 90
  InitialCollateralFactor = 50
  InitialCloseFactor = 100
  InitialIncentive = 100
  InitialPrice <- EvenPrices
  InitialPaused <- Open
  ListedAtStart = {m1}
  Amounts = {1}
  GiftAmounts = {1}
  PriceChanges <- NoChange
  CollateralFactors = {}
  CloseFactors = {}
  Incentives = {}
  BorrowCaps = {}
  TreasuryPercents = {50}
  ReserveFactors = {}
  PauseStates <- OpenOrPaused
  a = a
  b = b
  m1 = m1
  m2 = m2
INVARIANTS
  TypeOK
  SupplyMatchesBalances
  UnderlyingConserved
PROPERTIES
  SuppliersKeepTheirShare
  PauseFreezesPositions
CHECK_DEADLOCK FALSE
