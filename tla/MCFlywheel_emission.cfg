SPECIFICATION FSpec
CONSTANTS
  Accounts = {a}
  Markets = {m2}
  Admin = admin
  TreasuryAddress = treasury
  NoMarket = none
  ExpScale = 100
  InitialExchangeRate = 100
  BorrowRateMax = 200
  RateModels <- OnlyFree
  InitialWallet <- BRNOnly
  MaxBlock = 2
  CollateralFactorMax = 90
  InitialCollateralFactor = 50
  InitialCloseFactor = 100
  InitialIncentive = 100
  InitialPrice <- EvenPrices
  InitialPaused <- Open
  ListedAtStart = {}
  Amounts = {1}
  GiftAmounts = {}
  PriceChanges <- NoChange
  CollateralFactors = {0, 50}
  CloseFactors = {100}
  Incentives = {100}
  BorrowCaps = {0}
  TreasuryPercents = {}
  ReserveFactors = {0}
  PauseStates <- NoPauses
  a = a
  b = b
  m1 = m1
  m2 = m2
  DoubleScale = 10
  InitialBRN = 1
  BRNMarket = m2
  InitialSpeed <- NoSpeed
  Speeds = {0, 1}
  Grants = {1}
INVARIANTS
  FlywheelTypeOK
  EmissionBounded
  BRNConserved
CHECK_DEADLOCK FALSE
