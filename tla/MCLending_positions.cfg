SPECIFICATION Spec
CONSTANTS
  Accounts = {a, b}
  Markets = {m1, m2}
  Admin = admin
  TreasuryAddress = treasury
  NoMarket = none
  ExpScale = 1000
  InitialExchangeRate = 1000
  BorrowRateMax = 2000
  RateModels <- OnlyFree
  InitialWallet <- CollateralAndLender
  MaxBlock = 0
  CollateralFactorMax = 900
  InitialCollateralFactor = 500
  InitialCloseFactor = 1000
  InitialIncentive = 1000
  InitialPrice <- M1Dear
  InitialPaused <- Open
  ListedAtStart = {m1}
  Amounts = {2}
  GiftAmounts = {}
  PriceChanges <- M1Falls
  CollateralFactors = {500}
  CloseFactors = {}
  Incentives = {}
  BorrowCaps = {}
  TreasuryPercents = {}
  ReserveFactors = {}
  PauseStates <- NoPauses
  a = a
  b = b
  m1 = m1
  m2 = m2
INVARIANTS
  AssetsMatchMembership
  BorrowerIsMember
CHECK_DEADLOCK FALSE
PROPERTIES NoShortfallByTransaction
