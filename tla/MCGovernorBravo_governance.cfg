SPECIFICATION FairSpec
CONSTANTS
  ann = ann
  bob = bob
  d = d
  gov = gov
  lock = lock
  none = none
  Account <- Holders
  Nobody = none
  TimelockAddress = lock
  Governor = gov
  Guardian = d
  Calls <- AllCalls
  Actions <- SomeActions
  MinimumDelay = 1
  MaximumDelay = 2
  GracePeriod = 1
  FirstAdmin = d
  FirstPendingAdmin = gov
  FirstDelay = 1
  Voters <- Two
  FirstVotes <- FirstPower
  QuorumVotes = 3
  MinVotingDelay = 1
  MaxVotingDelay = 2
  MinVotingPeriod = 1
  MaxVotingPeriod = 2
  MinProposalThreshold = 1
  MaxProposalThreshold = 2
  FirstVotingDelay = 1
  FirstVotingPeriod = 1
  FirstThreshold = 1
  FirstMaxOperations = 2
  AlphaCounts <- NoneOrTwo
  InitiatedWith <- One
  FirstGovernorAdmins <- Admins
  ForeignCalls <- AdminsCalls
  MaxSlack = 0
  Lots <- LotsOfTwo
  Ballots <- YesOrNo
  Intervals <- Seconds
  MaxBlock = 7
  MaxProposals = 3
  MaxForeign = 1
  MoveBlocks <- MidVote
INVARIANTS
  TypeOK
  NoOrphanEntries
  LostOnlyToATwin
  VotesCountOnce
  OneLiveProposal
CHECK_DEADLOCK FALSE
PROPERTIES
  RulesChangeByVote
  FollowsLifecycle
  ResolvesInTime
