-------------------------- MODULE MarketCommands --------------------------
(***************************************************************************)
(* The scenario runner's commands on markets, on the Comptroller and on    *)
(* what they rely on (src/scenario/src/Event).  For each table: what the   *)
(* functions of its file do, and its rows.  The rows of the source name    *)
(* the function they run, or do their work in place.                       *)
(***************************************************************************)
EXTENDS ScenarioCommands

BRTokenFunctions1 ==
  On({"genBRToken"}, "build")
  @@ On({"accrueInterest", "mint", "mintBehalf", "redeem", "redeemUnderlying", "borrow",
         "repayBorrow", "repayBorrowBehalf"}, "send")

BRTokenFunctions2 ==
  On({"liquidateBorrow", "seize", "evilSeize", "setPendingAdmin", "acceptAdmin", "addReserves",
      "reduceReserves", "setReserveFactor", "setInterestRateModel", "setComptroller"}, "send")

BRTokenFunctions3 ==
  On({"becomeImplementation", "resignImplementation", "setImplementation", "donate",
      "setBRTokenMock"}, "send")
  @@ On({"verifyBRToken", "printMinters"}, "quiet")

BRTokenFunctions4 == On({"printBorrowers", "printLiquidity"}, "quiet")

BRTokenRows1 == <<
  Cmd("Deploy", 0, <<Rest>>, "genBRToken"),
  View("Verify", 1, <<One, One>>, "quiet"),
  Cmd("AccrueInterest", 1, <<One>>, "accrueInterest"),
  Cmd("Mint", 1, <<One, Null>>, "mint"),
  Cmd("MintBehalf", 1, <<One, One, Null>>, "mintBehalf"),
  Cmd("Redeem", 1, <<One, One>>, "redeem"),
  Cmd("RedeemUnderlying", 1, <<One, One>>, "redeemUnderlying"),
  Cmd("Borrow", 1, <<One, One>>, "borrow"),
  Cmd("RepayBorrow", 1, <<One, Null>>, "repayBorrow"),
  Cmd("RepayBorrowBehalf", 1, <<One, One, Null>>, "repayBorrowBehalf") >>

BRTokenRows2 == <<
  Cmd("Liquidate", 1, <<One, One, One, Null>>, "liquidateBorrow"),
  Cmd("Seize", 1, <<One, One, One, One>>, "seize"),
  Cmd("EvilSeize", 1, <<One, One, One, One, One>>, "evilSeize"),
  Cmd("ReduceReserves", 1, <<One, One>>, "reduceReserves"),
  Cmd("AddReserves", 1, <<One, One>>, "addReserves"),
  Cmd("SetPendingAdmin", 1, <<One, One>>, "setPendingAdmin"),
  Cmd("AcceptAdmin", 1, <<One>>, "acceptAdmin"),
  Cmd("SetReserveFactor", 1, <<One, One>>, "setReserveFactor"),
  Cmd("SetInterestRateModel", 1, <<One, One>>, "setInterestRateModel"),
  Cmd("SetComptroller", 1, <<One, One>>, "setComptroller") >>

BRTokenRows3 == <<
  Cmd("BecomeImplementation", 1, <<One, One>>, "becomeImplementation"),
  Cmd("ResignImplementation", 1, <<One>>, "resignImplementation"),
  Cmd("SetImplementation", 1, <<One, One, One, One>>, "setImplementation"),
  Cmd("Donate", 1, <<One>>, "donate"),
  Cmd("Mock", 1, <<One, One, One>>, "setBRTokenMock"),
  View("Minters", 1, <<One>>, "printMinters"),
  View("Borrowers", 1, <<One>>, "printBorrowers"),
  View("Liquidity", 1, <<One>>, "printLiquidity"),
  View("Decode", 1, <<One, One>>, "quiet") >>

BRTokenTable == Table(BRTokenRows1 \o BRTokenRows2 \o BRTokenRows3,
  BRTokenFunctions1 @@ BRTokenFunctions2 @@ BRTokenFunctions3 @@ BRTokenFunctions4)

BRTokenDelegateFunctions ==
  On({"genBRTokenDelegate"}, "build")
  @@ On({"verifyBRTokenDelegate"}, "quiet")

BRTokenDelegateRows == <<
  Cmd("Deploy", 0, <<Rest>>, "genBRTokenDelegate"),
  View("Verify", 1, <<One, One>>, "quiet") >>

BRTokenDelegateTable == Table(BRTokenDelegateRows, BRTokenDelegateFunctions)

ComptrollerFunctions1 ==
  On({"genComptroller"}, "build")
  @@ On({"setProtocolPaused", "setMaxAssets", "setLiquidationIncentive", "setLiquidatorContract",
         "unlistMarket", "enterMarkets", "exitMarket", "setPriceOracle",
         "setCollateralFactor", "setCloseFactor"}, "send")
  @@ On({"supportMarket"}, "sendLive")

ComptrollerFunctions2 ==
  On({"setBAIMintRate", "setBAIController", "fastForward", "addBrainiacMarkets",
      "dropBrainiacMarket", "refreshBrainiacSpeeds", "claimBrainiac", "grantBRN",
      "setBrainiacRate", "setBrainiacSpeed"}, "send")
  @@ On({"sendAny"}, "bypass")
  @@ On({"printLiquidity"}, "quiet")

ComptrollerFunctions3 ==
  On({"setPendingAdmin", "acceptAdmin", "setMarketBorrowCaps", "setBorrowCapGuardian",
      "setComptrollerLens", "setTreasuryData"}, "send")

ComptrollerRows1 == <<
  Cmd("Deploy", 0, <<Rest>>, "genComptroller"),
  Cmd("SetProtocolPaused", 0, <<Impl, One>>, "setProtocolPaused"),
  Cmd("SupportMarket", 0, <<Impl, One>>, "supportMarket"),
  Cmd("UnList", 0, <<Impl, One>>, "unlistMarket"),
  Cmd("EnterMarkets", 0, <<Impl, One>>, "enterMarkets"),
  Cmd("ExitMarket", 0, <<Impl, One>>, "exitMarket"),
  Cmd("SetMaxAssets", 0, <<Impl, One>>, "setMaxAssets"),
  Cmd("LiquidationIncentive", 0, <<Impl, One>>, "setLiquidationIncentive"),
  Cmd("SetLiquidatorContract", 0, <<Impl, One>>, "setLiquidatorContract"),
  Cmd("SetComptrollerLens", 0, <<Impl, One>>, "setComptrollerLens"),
  Cmd("SetPriceOracle", 0, <<Impl, One>>, "setPriceOracle") >>

ComptrollerRows2 == <<
  Cmd("SetCollateralFactor", 0, <<Impl, One, One>>, "setCollateralFactor"),
  Cmd("SetCloseFactor", 0, <<Impl, One>>, "setCloseFactor"),
  Cmd("SetBAIMintRate", 0, <<Impl, One>>, "setBAIMintRate"),
  Cmd("SetBAIController", 0, <<Impl, One>>, "setBAIController"),
  Cmd("SetPendingAdmin", 0, <<Impl, One>>, "setPendingAdmin"),
  Cmd("AcceptAdmin", 0, <<Impl>>, "acceptAdmin"),
  Cmd("FastForward", 0, <<Impl, One, One>>, "fastForward"),
  View("Liquidity", 0, <<Impl>>, "printLiquidity"),
  View("Decode", 0, <<Impl, One>>, "quiet"),
  Cmd("Send", 0, <<Impl, One, Rest>>, "sendAny"),
  Cmd("AddBrainiacMarkets", 0, <<Impl, One>>, "addBrainiacMarkets") >>

ComptrollerRows3 == <<
  Cmd("DropBrainiacMarket", 0, <<Impl, One>>, "dropBrainiacMarket"),
  Cmd("RefreshBrainiacSpeeds", 0, <<Impl>>, "refreshBrainiacSpeeds"),
  Cmd("ClaimBrainiac", 0, <<Impl, One>>, "claimBrainiac"),
  Cmd("GrantBRN", 0, <<Impl, One, One>>, "grantBRN"),
  Cmd("SetBrainiacRate", 0, <<Impl, One>>, "setBrainiacRate"),
  Cmd("SetBrainiacSpeed", 0, <<Impl, One, One>>, "setBrainiacSpeed"),
  Cmd("SetMarketBorrowCaps", 0, <<Impl, One, One>>, "setMarketBorrowCaps"),
  Cmd("SetBorrowCapGuardian", 0, <<Impl, One>>, "setBorrowCapGuardian"),
  Cmd("SetTreasuryData", 0, <<Impl, One, One, One>>, "setTreasuryData") >>

ComptrollerTable == Table(ComptrollerRows1 \o ComptrollerRows2 \o ComptrollerRows3,
  ComptrollerFunctions1 @@ ComptrollerFunctions2 @@ ComptrollerFunctions3)

ComptrollerImplFunctions1 ==
  On({"genComptrollerImpl"}, "build")
  @@ On({"mergeABI"}, "merge")
  @@ On({"becomeG1", "becomeG2", "becomeG3", "becomeG4", "becomeG5"}, "become")

ComptrollerImplFunctions2 ==
  On({"become"}, "become")
  @@ On({"verifyComptrollerImpl"}, "quiet")

ComptrollerImplRows1 == <<
  Cmd("Deploy", 0, <<Rest>>, "genComptrollerImpl"),
  View("Verify", 1, <<One, One>>, "quiet"),
  Cmd("BecomeG1", 1, <<Impl, One>>, "becomeG1"),
  Cmd("BecomeG2", 1, <<Impl, One>>, "becomeG2"),
  Cmd("BecomeG3", 1, <<Impl, One>>, "becomeG3"),
  Cmd("BecomeG4", 1, <<Impl, One>>, "becomeG4"),
  Cmd("BecomeG5", 1, <<Impl, One>>, "becomeG5"),
  Cmd("Become", 1, <<Impl, One>>, "become") >>

ComptrollerImplRows2 == <<
  Cmd("MergeABI", 1, <<Impl, One>>, "mergeABI") >>

ComptrollerImplTable == Table(ComptrollerImplRows1 \o ComptrollerImplRows2,
  ComptrollerImplFunctions1 @@ ComptrollerImplFunctions2)

UnitrollerFunctions ==
  On({"genUnitroller"}, "build")
  @@ On({"verifyUnitroller"}, "quiet")
  @@ On({"acceptAdmin", "setPendingAdmin", "setPendingImpl"}, "send")

UnitrollerRows == <<
  Cmd("Deploy", 0, <<Rest>>, "genUnitroller"),
  View("Verify", 0, <<Impl, One>>, "verifyUnitroller"),
  Cmd("AcceptAdmin", 0, <<Impl>>, "acceptAdmin"),
  Cmd("SetPendingAdmin", 0, <<Impl, One>>, "setPendingAdmin"),
  Cmd("SetPendingImpl", 0, <<Impl, One>>, "setPendingImpl") >>

UnitrollerTable == Table(UnitrollerRows, UnitrollerFunctions)

InterestRateModelFunctions ==
  On({"genInterestRateModel"}, "build")
  @@ On({"verifyInterestRateModel"}, "quiet")

InterestRateModelRows == <<
  Cmd("Deploy", 0, <<Rest>>, "genInterestRateModel"),
  View("Verify", 1, <<One, One>>, "quiet") >>

InterestRateModelTable == Table(InterestRateModelRows, InterestRateModelFunctions)

PriceOracleFunctions ==
  On({"genPriceOracle"}, "build")
  @@ On({"setPriceOracleFn"}, "adopt")
  @@ On({"setPrice", "setDirectPrice"}, "send")
  @@ On({"verifyPriceOracle"}, "quiet")

PriceOracleRows == <<
  Cmd("Deploy", 0, <<Rest>>, "genPriceOracle"),
  Cmd("Set", 0, <<Rest>>, "setPriceOracleFn"),
  Cmd("SetPrice", 0, <<Impl, One, One>>, "setPrice"),
  Cmd("SetDirectPrice", 0, <<Impl, One, One>>, "setDirectPrice"),
  View("Verify", 0, <<Impl, One, Opt>>, "verifyPriceOracle") >>

PriceOracleTable == Table(PriceOracleRows, PriceOracleFunctions)

PriceOracleProxyFunctions ==
  On({"genPriceOracleProxy"}, "build")
  @@ On({"verifyPriceOracleProxy"}, "quiet")
  @@ On({"setSaiPrice"}, "send")

PriceOracleProxyRows == <<
  Cmd("Deploy", 0, <<Rest>>, "genPriceOracleProxy"),
  View("Verify", 0, <<Impl, One, Opt>>, "verifyPriceOracleProxy"),
  Cmd("SetSaiPrice", 0, <<Impl, One>>, "setSaiPrice") >>

PriceOracleProxyTable == Table(PriceOracleProxyRows, PriceOracleProxyFunctions)

MaximillionFunctions ==
  On({"genMaximillion"}, "build")
  @@ On({"verifyMaximillion"}, "quiet")
  @@ On({"repayBehalf"}, "send")

MaximillionRows == <<
  Cmd("Deploy", 0, <<Rest>>, "genMaximillion"),
  View("Verify", 0, <<Impl, One>>, "verifyMaximillion"),
  Cmd("RepayBehalf", 0, <<Impl, One>>, "repayBehalf") >>

MaximillionTable == Table(MaximillionRows, MaximillionFunctions)

LiquidatorFunctions ==
  On({"genLiquidator"}, "build")
  @@ On({"liquidateBorrow"}, "send")

LiquidatorRows == <<
  Cmd("Deploy", 0, <<Rest>>, "genLiquidator"),
  Cmd("LiquidateBorrow", 0, <<Impl, One, One, One, One>>, "liquidateBorrow") >>

LiquidatorTable == Table(LiquidatorRows, LiquidatorFunctions)

MarketTables ==
  [BRToken |-> BRTokenTable, BRTokenDelegate |-> BRTokenDelegateTable,
   Comptroller |-> ComptrollerTable, ComptrollerImpl |-> ComptrollerImplTable,
   Unitroller |-> UnitrollerTable, InterestRateModel |-> InterestRateModelTable,
   PriceOracle |-> PriceOracleTable, PriceOracleProxy |-> PriceOracleProxyTable,
   Maximillion |-> MaximillionTable, Liquidator |-> LiquidatorTable]
=============================================================================
