SPECIFICATION FSpec
CONSTANTS
  Accounts = {a, b}
  Markets = {m1}
  Admin = admin
  TreasuryAddress = treasury
  NoMarket = none
  ExpScale = 100
  InitialExchangeRate = 100
  BorrowRateMax = 200
  RateModels <- OnlyFree
  InitialWallet <- OneUnitEach
  MaxBlock = 1
  CollateralFactorMax = 90
  InitialCollateralFactor = 50
  InitialCloseFactor = 100
  InitialIncentive = 100
  InitialPrice <- EvenPrices
  InitialPaused <- Open
  ListedAtStart = {m1}
  Amounts = {1}
  GiftAmounts = {}
  PriceChanges <- NoChange
  CollateralFactors = {0}
  CloseFactors = {}
  Incentives = {}
  BorrowCaps = {}
  TreasuryPercents = {}
  ReserveFactors = {}
  PauseStates <- NoPauses
  a = a
  b = b
  m1 = m1
  m2 = m2
  DoubleScale = 10
  InitialBRN = 1
  BRNMarket = none
  InitialSpeed <- SpeedOne
  Speeds = {}
  Grants = {}
SYMMETRY UsersAlike
PROPERTIES
  EntitlementKept
CHECK_DEADLOCK FALSE
