SPECIFICATION FSpec
CONSTANTS
  Accounts = {a}
  Markets = {m2}
  Admin = admin
  TreasuryAddress = treasury
  NoMarket = none
  ExpScale = 100
  InitialExchangeRate = 100
  BorrowRateMax = 200
  RateModels <- OnlyFree
  InitialWallet <- BRNOnly
  MaxBlock = 1
  CollateralFactorMax = 90
  InitialCollateralFactor = 50
  InitialCloseFactor = 100
  InitialIncentive = 100
  InitialPrice <- EvenPrices
  InitialPaused <- Open
  ListedAtStart = {m2}
  Amounts = {1}
  GiftAmounts = {}
  PriceChanges <- NoChange
  CollateralFactors = {0}
  CloseFactors = {}
  Incentives = {}
  BorrowCaps = {}
  TreasuryPercents = {}
  ReserveFactors = {}
  PauseStates <- NoPauses
  a = a
  b = b
  m1 = m1
  m2 = m2
  DoubleScale = 10
  InitialBRN = 20
  BRNMarket = m2
  InitialSpeed <- SpeedTwo
  Speeds = {}
  Grants = {}
PROPERTIES
  ClaimKeepsTheRest
CHECK_DEADLOCK FALSE
