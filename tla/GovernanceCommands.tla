-------------------------- MODULE GovernanceCommands ----------------------
(***************************************************************************)
(* The scenario runner's commands on the governors and on the timelock     *)
(* (src/scenario/src/Event), laid out as MarketCommands is.  An event of a *)
(* governor may go on to its proposals or to its guardian.                 *)
(***************************************************************************)
EXTENDS ScenarioCommands

GovernorFunctions ==
  On({"genGovernor"}, "build")
  @@ On({"verifyGovernor"}, "quiet")
  @@ On({"propose", "setBlockNumber", "setBlockTimestamp"}, "send")

GovernorRows == <<
  Cmd("Deploy", 0, <<Rest>>, "genGovernor"),
  View("Verify", 1, <<One, One>>, "quiet"),
  Cmd("Propose", 1, <<One, One, One, One, One, One>>, "propose"),
  Cmd("Proposal", 1, <<One, Rest>>, "Proposal"),
  Cmd("Guardian", 1, <<One, Rest>>, "Guardian"),
  Cmd("SetBlockNumber", 1, <<One, One>>, "setBlockNumber"),
  Cmd("SetBlockTimestamp", 1, <<One, One>>, "setBlockTimestamp") >>

GovernorTable == Table(GovernorRows, GovernorFunctions)

ProposalRows == <<
  Cmd("Vote", 1, <<One, One>>, "send"),
  Cmd("Queue", 1, <<One>>, "send"),
  Cmd("Execute", 1, <<One>>, "send"),
  Cmd("Cancel", 1, <<One>>, "send") >>

ProposalTable == Table(ProposalRows, NoFunctions)

GuardianRows == <<
  Cmd("QueueSetTimelockPendingAdmin", 0, <<One, One>>, "send"),
  Cmd("ExecuteSetTimelockPendingAdmin", 0, <<One, One>>, "send"),
  Cmd("AcceptAdmin", 0, <<>>, "send"),
  Cmd("Abdicate", 0, <<>>, "send") >>

GuardianTable == Table(GuardianRows, NoFunctions)

GovernorBravoFunctions1 ==
  On({"genGovernor"}, "build")
  @@ On({"verifyGovernor"}, "quiet")
  @@ On({"mergeABI"}, "merge")
  @@ On({"propose", "setVotingDelay", "setVotingPeriod", "setProposalThreshold"}, "send")

GovernorBravoFunctions2 ==
  On({"setProposalMaxOperations", "initiate", "harnessInitiate", "setPendingAdmin",
      "acceptAdmin", "setGuardian"}, "send")
  @@ On({"setImplementation"}, "mergeLater")

GovernorBravoFunctions3 == On({"setBlockNumber", "setBlockTimestamp"}, "send")

GovernorBravoRows1 == <<
  Cmd("Deploy", 0, <<Rest>>, "genGovernor"),
  Cmd("Propose", 1, <<One, One, One, One, One, One>>, "propose"),
  Cmd("Proposal", 1, <<One, Rest>>, "BravoProposal"),
  Cmd("SetBlockNumber", 1, <<One, One>>, "setBlockNumber"),
  Cmd("SetBlockTimestamp", 1, <<One, One>>, "setBlockTimestamp"),
  Cmd("SetVotingDelay", 1, <<One, One>>, "setVotingDelay"),
  Cmd("SetVotingPeriod", 1, <<One, One>>, "setVotingPeriod"),
  Cmd("SetProposalThreshold", 1, <<One, One>>, "setProposalThreshold") >>

GovernorBravoRows2 == <<
  Cmd("SetProposalMaxOperations", 1, <<One, One>>, "setProposalMaxOperations"),
  Cmd("Initiate", 1, <<One, One>>, "initiate"),
  Cmd("HarnessInitiate", 1, <<One>>, "harnessInitiate"),
  Cmd("SetImplementation", 1, <<One, One>>, "setImplementation"),
  Cmd("SetPendingAdmin", 1, <<One, One>>, "setPendingAdmin"),
  Cmd("AcceptAdmin", 1, <<One>>, "acceptAdmin"),
  Cmd("SetGuardian", 1, <<One, One>>, "setGuardian"),
  Cmd("MergeABI", 1, <<One, One>>, "mergeABI") >>

GovernorBravoTable == Table(GovernorBravoRows1 \o GovernorBravoRows2,
  GovernorBravoFunctions1 @@ GovernorBravoFunctions2 @@ GovernorBravoFunctions3)

BravoProposalRows1 == <<
  Cmd("VoteWithReason", 1, <<One, One, One>>, "send"),
  Cmd("Vote", 1, <<One, One>>, "send"),
  Cmd("Queue", 1, <<One>>, "send"),
  Cmd("Execute", 1, <<One>>, "send") >>

BravoProposalRows2 == <<
  Cmd("Cancel", 1, <<One>>, "send") >>

BravoProposalTable == Table(BravoProposalRows1 \o BravoProposalRows2, NoFunctions)

TimelockFunctions1 ==
  On({"genTimelock"}, "build")
  @@ On({"acceptAdmin", "setPendingAdmin", "setAdmin", "setDelay", "harnessFastForward",
         "harnessSetBlockTimestamp", "queueTransaction", "cancelTransaction"}, "send")

TimelockFunctions2 ==
  On({"executeTransaction"}, "send")
  @@ On({"verifyTimelock"}, "quiet")

TimelockRows1 == <<
  Cmd("Deploy", 0, <<Rest>>, "genTimelock"),
  Cmd("FastForward", 0, <<Impl, One>>, "harnessFastForward"),
  Cmd("SetBlockTimestamp", 0, <<Impl, One>>, "harnessSetBlockTimestamp"),
  Cmd("SetDelay", 0, <<Impl, One>>, "setDelay"),
  Cmd("AcceptAdmin", 0, <<Impl>>, "acceptAdmin"),
  Cmd("SetPendingAdmin", 0, <<Impl, One>>, "setPendingAdmin"),
  Cmd("SetAdmin", 0, <<Impl, One>>, "setAdmin"),
  Cmd("QueueTransaction", 0, <<Impl, One, One, One, One, Rest>>, "queueTransaction"),
  Cmd("CancelTransaction", 0, <<Impl, One, One, One, One, Rest>>, "cancelTransaction") >>

TimelockRows2 == <<
  Cmd("ExecuteTransaction", 0, <<Impl, One, One, One, One, Rest>>, "executeTransaction"),
  View("Verify", 0, <<Impl, One, Opt>>, "verifyTimelock") >>

TimelockTable == Table(TimelockRows1 \o TimelockRows2,
  TimelockFunctions1 @@ TimelockFunctions2)

GovernanceTables ==
  [Governor |-> GovernorTable, Proposal |-> ProposalTable, Guardian |-> GuardianTable,
   GovernorBravo |-> GovernorBravoTable, BravoProposal |-> BravoProposalTable,
   Timelock |-> TimelockTable]
=============================================================================
