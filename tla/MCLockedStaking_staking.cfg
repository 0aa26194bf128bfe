SPECIFICATION FairSpec
CONSTANTS
  Account = {a, b}
  Token = {brn}
  StakedToken = brn
  MaxRewards = 1
  RewardToken <- InStakedToken
  RewardScale <- TwiceTheIndex
  FirstWallet <- TwoAndOne
  FirstBalance <- NoneGiven
  FirstCount = 0
  FirstDuration = 2
  FirstPenalty = 1
  IndexScale = 6
  PenaltyScale = 2
  WordSize = 64
  Amounts = {1, 2}
  AdminAmounts = {2}
  Durations = {1}
  Penalties = {3}
  Speeds = {2}
  RewardCounts = {1}
  MaxTime = 3
  MaxDeposits = 2
  a = a
  b = b
  brn = brn
INVARIANTS
  StakingTypeOK
  SupplyIsUnlockedAndLocks
  TokensAccounted
  MaturedOnly
  WithinEmission
PROPERTIES
  EveryDepositFreed
CHECK_DEADLOCK FALSE
