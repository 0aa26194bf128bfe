\* A prompt or a script, in a dry run or not, started up to twice.
SPECIFICATION Spec
CONSTANTS
  FirstLines <- MCFirstLines
  LaterLines <- MCLaterLines
  Contracts = {"proxy", "impl", "merged"}
  Proxy = "proxy"
  Target = "merged"
  Root = "root"
  MaxSent = 2
  MaxDeployed = 2
  MaxStarts = 2
  MaxLines = 2
  MaxInvariants = 2
INVARIANTS
  HoldExcusesOne
  ExpectationsMet
  KnownOnDisk
  AbiLossNeedsACrash
  GatedDeploysOnce
  OneCommandAnswers
PROPERTIES
  SentAsAsked
  DryRunLeavesAll
CHECK_DEADLOCK FALSE
