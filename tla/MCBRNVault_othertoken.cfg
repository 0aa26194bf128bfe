SPECIFICATION Spec
CONSTANTS
  Account = {a, b}
  Nobody = nobody
  Token = {brn, xtoken}
  BRN = brn
  Pools <- BothPools
  Terms <- FewTerms
  FirstWallet <- WalletsBoth
  FirstStore <- Store
  AccScale = 4
  AllocPoints = {1}
  RewardRates = {4}
  LockPeriods = {2}
  Users <- Everybody
  Delegators = {a}
  Delegatees = {a, b}
  Amounts = {1}
  Gifts = {}
  MaxBlock = 3
  MaxSeconds = 1
  AddBlocks = {1}
  SettingBlocks = {2}
  MaxRequests = 2
  a = a
  b = b
  brn = brn
  xtoken = xtoken
  nobody = nobody
INVARIANT VotesMatchStake
CHECK_DEADLOCK FALSE
