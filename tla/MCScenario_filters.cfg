\* Holds and clearings of one type or all, against their help texts.
SPECIFICATION Spec
CONSTANTS
  FirstLines <- MCFirstLines
  LaterLines <- MCLaterLines
  Contracts = {"proxy", "impl", "merged"}
  Proxy = "proxy"
  Target = "merged"
  Root = "root"
  MaxSent = 2
  MaxDeployed = 2
  MaxStarts = 2
  MaxLines = 2
  MaxInvariants = 2
INVARIANT FilteredAsNamed
CHECK_DEADLOCK FALSE
