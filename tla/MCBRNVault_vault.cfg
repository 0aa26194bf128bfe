SPECIFICATION Spec
CONSTANTS
  Account = {a, b}
  Nobody = nobody
  Token = {brn, xtoken}
  BRN = brn
  Pools <- BothPools
  Terms <- FewTerms
  FirstWallet <- Wallets
  FirstStore <- Store
  AccScale = 4
  AllocPoints = {1}
  RewardRates = {4}
  LockPeriods = {2}
  Users <- Separate
  Delegators = {a}
  Delegatees = {b, nobody}
  Amounts = {1}
  Gifts = {1}
  MaxBlock = 3
  MaxSeconds = 1
  AddBlocks = {1}
  SettingBlocks = {2}
  MaxRequests = 2
  a = a
  b = b
  brn = brn
  xtoken = xtoken
  nobody = nobody
INVARIANTS
  VaultTypeOK
  PopsWhatIsDue
  VotesMatchStake
  PastVotesFixed
  HoldsStakes
  WithinSchedule
CHECK_DEADLOCK FALSE
