-------------------------- MODULE TokenCommands ---------------------------
(***************************************************************************)
(* The scenario runner's commands on tokens, on the BRN vault and on the   *)
(* BAI controller (src/scenario/src/Event), laid out as MarketCommands is. *)
(***************************************************************************)
EXTENDS ScenarioCommands

Erc20Functions ==
  On({"genToken"}, "build")
  @@ On({"verifyErc20"}, "quiet")
  @@ On({"approve", "faucet", "transfer", "transferFrom", "setFail", "setPaused", "setFee"}, "send")

Erc20Rows == <<
  Cmd("Deploy", 0, <<Rest>>, "genToken"),
  View("Verify", 1, <<One, One>>, "quiet"),
  Cmd("Approve", 1, <<One, One, One>>, "approve"),
  Cmd("Faucet", 1, <<One, One, One>>, "faucet"),
  Cmd("Transfer", 1, <<One, One, One>>, "transfer"),
  Cmd("TransferFrom", 1, <<One, One, One, One>>, "transferFrom"),
  Cmd("SetFail", 1, <<One, One>>, "setFail"),
  Cmd("Pause", 1, <<One, Opt>>, "setPaused"),
  Cmd("SetFee", 1, <<One, One, One>>, "setFee") >>

Erc20Table == Table(Erc20Rows, Erc20Functions)

BRNFunctions ==
  On({"genBRN"}, "build")
  @@ On({"verifyBRN"}, "quiet")
  @@ On({"approve", "transfer", "transferFrom", "transferScenario", "transferFromScenario",
         "delegate", "setBlockNumber"}, "send")

BRNRows == <<
  Cmd("Deploy", 0, <<Rest>>, "genBRN"),
  View("Verify", 0, <<Impl, One, Opt>>, "verifyBRN"),
  Cmd("Approve", 0, <<Impl, One, One>>, "approve"),
  Cmd("Transfer", 0, <<Impl, One, One>>, "transfer"),
  Cmd("TransferFrom", 0, <<Impl, One, One, One>>, "transferFrom"),
  Cmd("TransferScenario", 0, <<Impl, One, One>>, "transferScenario"),
  Cmd("TransferFromScenario", 0, <<Impl, One, One>>, "transferFromScenario"),
  Cmd("Delegate", 0, <<Impl, One>>, "delegate"),
  Cmd("SetBlockNumber", 0, <<Impl, One>>, "setBlockNumber") >>

BRNTable == Table(BRNRows, BRNFunctions)

SXPFunctions ==
  On({"genSXP"}, "build")
  @@ On({"verifySXP"}, "quiet")
  @@ On({"approve", "transfer", "transferFrom", "transferScenario", "transferFromScenario",
         "delegate", "setBlockNumber"}, "send")

SXPRows == <<
  Cmd("Deploy", 0, <<Rest>>, "genSXP"),
  View("Verify", 0, <<Impl, One, Opt>>, "verifySXP"),
  Cmd("Approve", 0, <<Impl, One, One>>, "approve"),
  Cmd("Transfer", 0, <<Impl, One, One>>, "transfer"),
  Cmd("TransferFrom", 0, <<Impl, One, One, One>>, "transferFrom"),
  Cmd("TransferScenario", 0, <<Impl, One, One>>, "transferScenario"),
  Cmd("TransferFromScenario", 0, <<Impl, One, One>>, "transferFromScenario"),
  Cmd("Delegate", 0, <<Impl, One>>, "delegate"),
  Cmd("SetBlockNumber", 0, <<Impl, One>>, "setBlockNumber") >>

SXPTable == Table(SXPRows, SXPFunctions)

BAIFunctions ==
  On({"genBAI"}, "build")
  @@ On({"verifyBAI"}, "quiet")
  @@ On({"approve", "faucet", "transfer", "transferFrom", "transferScenario",
         "transferFromScenario", "rely"}, "send")

BAIRows == <<
  Cmd("Deploy", 0, <<Rest>>, "genBAI"),
  View("Verify", 0, <<Impl, One, Opt>>, "verifyBAI"),
  Cmd("Approve", 0, <<Impl, One, One>>, "approve"),
  Cmd("Faucet", 0, <<Impl, One, One>>, "faucet"),
  Cmd("Transfer", 0, <<Impl, One, One>>, "transfer"),
  Cmd("TransferFrom", 0, <<Impl, One, One, One>>, "transferFrom"),
  Cmd("TransferScenario", 0, <<Impl, One, One>>, "transferScenario"),
  Cmd("TransferFromScenario", 0, <<Impl, One, One>>, "transferFromScenario"),
  Cmd("Rely", 0, <<Impl, One>>, "rely") >>

BAITable == Table(BAIRows, BAIFunctions)

BRNVaultFunctions1 ==
  On({"genBRNVault"}, "build")
  @@ On({"delegate", "setBrnStore", "addPool", "deposit", "requestWithdrawal", "executeWithdrawal"}, "send")

BRNVaultFunctions2 == On({"setWithdrawalLockingPeriod"}, "send")

BRNVaultRows1 == <<
  Cmd("Deploy", 0, <<Rest>>, "genBRNVault"),
  Cmd("Delegate", 0, <<Impl, One>>, "delegate"),
  Cmd("SetBrnStore", 0, <<Impl, One, One>>, "setBrnStore"),
  Cmd("Add", 0, <<Impl, One, One, One, One, One>>, "addPool"),
  Cmd("Deposit", 0, <<Impl, One, One, One>>, "deposit"),
  Cmd("RequestWithdrawal", 0, <<Impl, One, One, One>>, "requestWithdrawal"),
  Cmd("ExecuteWithdrawal", 0, <<Impl, One, One>>, "executeWithdrawal") >>

BRNVaultRows2 == <<
  Cmd("SetWithdrawalLockingPeriod", 0, <<Impl, One, One, One>>, "setWithdrawalLockingPeriod") >>

BRNVaultTable == Table(BRNVaultRows1 \o BRNVaultRows2,
  BRNVaultFunctions1 @@ BRNVaultFunctions2)

BRNVaultImplFunctions ==
  On({"genBRNVault"}, "build")
  @@ On({"become"}, "become")

BRNVaultImplRows == <<
  Cmd("Deploy", 0, <<Rest>>, "genBRNVault"),
  Cmd("Become", 1, <<Impl, One>>, "become") >>

BRNVaultImplTable == Table(BRNVaultImplRows, BRNVaultImplFunctions)

BRNVaultProxyFunctions ==
  On({"genBRNVaultProxy"}, "build")
  @@ On({"setPendingImplementation"}, "send")

BRNVaultProxyRows == <<
  Cmd("Deploy", 0, <<Rest>>, "genBRNVaultProxy"),
  Cmd("SetPendingImplementation", 0, <<Impl, One>>, "setPendingImplementation") >>

BRNVaultProxyTable == Table(BRNVaultProxyRows, BRNVaultProxyFunctions)

BAIControllerFunctions ==
  On({"genBAIController"}, "build")
  @@ On({"setPendingAdmin", "acceptAdmin", "setComptroller", "mint", "repay", "liquidateBAI",
         "setTreasuryData", "initialize"}, "send")
  @@ On({"sendAny"}, "bypass")

BAIControllerRows == <<
  Cmd("Deploy", 0, <<Rest>>, "genBAIController"),
  Cmd("Send", 0, <<Impl, One, Rest>>, "sendAny"),
  Cmd("SetComptroller", 0, <<Impl, One>>, "setComptroller"),
  Cmd("Mint", 0, <<Impl, One>>, "mint"),
  Cmd("Repay", 0, <<Impl, Null>>, "repay"),
  Cmd("LiquidateBAI", 0, <<Impl, One, One, Null>>, "liquidateBAI"),
  Cmd("SetTreasuryData", 0, <<Impl, One, One, One>>, "setTreasuryData"),
  Cmd("Initialize", 0, <<Impl>>, "initialize") >>

BAIControllerTable == Table(BAIControllerRows, BAIControllerFunctions)

BAIControllerImplFunctions ==
  On({"genBAIControllerImpl"}, "build")
  @@ On({"mergeABI"}, "merge")
  @@ On({"becomeG1", "becomeG2", "become"}, "become")
  @@ On({"verifyBAIControllerImpl"}, "quiet")

BAIControllerImplRows == <<
  Cmd("Deploy", 0, <<Rest>>, "genBAIControllerImpl"),
  View("Verify", 1, <<One, One>>, "quiet"),
  Cmd("BecomeG1", 1, <<Impl, One>>, "becomeG1"),
  Cmd("BecomeG2", 1, <<Impl, One>>, "becomeG2"),
  Cmd("Become", 1, <<Impl, One>>, "become"),
  Cmd("MergeABI", 1, <<Impl, One>>, "mergeABI") >>

BAIControllerImplTable == Table(BAIControllerImplRows, BAIControllerImplFunctions)

BAIUnitrollerFunctions ==
  On({"genBAIUnitroller"}, "build")
  @@ On({"verifyBAIUnitroller"}, "quiet")
  @@ On({"acceptAdmin", "setPendingAdmin", "setPendingImpl"}, "send")

BAIUnitrollerRows == <<
  Cmd("Deploy", 0, <<Rest>>, "genBAIUnitroller"),
  View("Verify", 0, <<Impl, One>>, "verifyBAIUnitroller"),
  Cmd("AcceptAdmin", 0, <<Impl>>, "acceptAdmin"),
  Cmd("SetPendingAdmin", 0, <<Impl, One>>, "setPendingAdmin"),
  Cmd("SetPendingImpl", 0, <<Impl, One>>, "setPendingImpl") >>

BAIUnitrollerTable == Table(BAIUnitrollerRows, BAIUnitrollerFunctions)

TokenTables ==
  [Erc20 |-> Erc20Table, BRN |-> BRNTable, SXP |-> SXPTable, BAI |-> BAITable,
   BRNVault |-> BRNVaultTable, BRNVaultImpl |-> BRNVaultImplTable,
   BRNVaultProxy |-> BRNVaultProxyTable, BAIController |-> BAIControllerTable,
   BAIControllerImpl |-> BAIControllerImplTable, BAIUnitroller |-> BAIUnitrollerTable]
=============================================================================
