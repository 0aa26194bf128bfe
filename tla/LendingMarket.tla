--------------------------- MODULE LendingMarket ---------------------------
(***************************************************************************)
(* The lending protocol: every transaction a user, the admin, the oracle   *)
(* or a keeper can send to the markets and the comptroller.  Transactions  *)
(* are atomic; what varies is their order, who sends them and how many     *)
(* blocks pass in between.                                                 *)
(*                                                                         *)
(* A transaction that reverts changes nothing and is no step.  One that    *)
(* returns an error code keeps what it did before: every market operation  *)
(* has then only accrued interest, which is action AccrueInterest, except  *)
(* a borrow, which has also entered the borrower: action BorrowRejected.   *)
(***************************************************************************)
EXTENDS Comptroller

CONSTANTS              \* the arguments TLC tries
  Amounts,             \* underlying, and brTokens, of one operation
  GiftAmounts,         \* underlying donated, or added to or taken from reserves
  PriceChanges,        \* <<market, price>> pairs
  CollateralFactors, CloseFactors, Incentives, BorrowCaps,
  TreasuryPercents, ReserveFactors, PauseStates

ASSUME InputsAssumption ==
  /\ \A S \in {Amounts, GiftAmounts, CollateralFactors, CloseFactors, Incentives,
               BorrowCaps, TreasuryPercents, ReserveFactors} : S \subseteq Nat
  /\ PriceChanges \subseteq Markets \X Nat
  /\ PauseStates \subseteq PauseFlags

vars == <<tokenVars, membershipVars, riskVars>>

Init == TokenInit /\ ComptrollerInit

-----------------------------------------------------------------------------
(* The environment *)

AdvanceBlock ==
  /\ blockNumber < MaxBlock
  /\ blockNumber' = blockNumber + 1
  /\ UNCHANGED <<market, wallet, membershipVars, riskVars>>

SetUnderlyingPrice(m, p) ==
  /\ price' = [price EXCEPT ![m] = p]
  /\ UNCHANGED <<tokenVars, membershipVars, listed, collateralFactor, borrowCap,
                 closeFactor, liquidationIncentive, treasuryPercent, paused>>

\* A plain transfer of the underlying to the market.
Donate(a, m, amount) ==
  /\ amount <= wallet[m][a]
  /\ market' = [market EXCEPT ![m].cash = @ + amount]
  /\ wallet' = [wallet EXCEPT ![m] = Pay(@, a, amount)]
  /\ UNCHANGED <<blockNumber, membershipVars, riskVars>>

-----------------------------------------------------------------------------
(* Users.  Books(m) are all books once m has accrued interest. *)

Books(m) == [market EXCEPT ![m] = Accrued(@)]

AccrueInterest(m) ==
  /\ CanAccrue(market[m])
  /\ market' = Books(m)
  /\ UNCHANGED <<blockNumber, wallet, membershipVars, riskVars>>

\* mint (payer = receiver) and mintBehalf.
Mint(payer, receiver, m, amount) ==
  LET t == Accrued(market[m])
  IN  /\ CanAccrue(market[m])
      /\ MintAllowed(m)
      /\ ExchangeRateKnown(t)
      /\ ExchangeRate(t) > 0
      /\ amount <= wallet[m][payer]
      /\ market' = [market EXCEPT ![m] = MintFresh(t, receiver, amount)]
      /\ wallet' = [wallet EXCEPT ![m] = Pay(@, payer, amount)]
      /\ UNCHANGED <<blockNumber, membershipVars, riskVars>>

\* redeemFresh: checks, the treasury's fee, then the burn.
RedeemBoth(a, m, tokens, amount) ==
  LET t   == Accrued(market[m])
      fee == MulTruncate(amount, treasuryPercent)
  IN  /\ RedeemAllowed(Books(m), m, a, tokens)
      /\ CanRedeem(t, a, tokens, amount)
      /\ tokens # 0 \/ amount = 0                          \* redeemVerify
      /\ market' = [market EXCEPT ![m] = RedeemFresh(t, a, tokens, amount)]
      /\ wallet' = [wallet EXCEPT ![m] =
                      PayOut(@, a, amount, fee)]
      /\ UNCHANGED <<blockNumber, membershipVars, riskVars>>

Redeem(a, m, tokens) ==
  LET t == Accrued(market[m])
  IN  /\ CanAccrue(market[m])
      /\ ExchangeRateKnown(t)
      /\ RedeemBoth(a, m, tokens, MulTruncate(ExchangeRate(t), tokens))

RedeemUnderlying(a, m, amount) ==
  LET t == Accrued(market[m])
  IN  /\ CanAccrue(market[m])
      /\ ExchangeRateKnown(t)
      /\ ExchangeRate(t) > 0
      /\ RedeemBoth(a, m, DivScalarByExp(amount, ExchangeRate(t)), amount)

Borrow(a, m, amount) ==
  LET t == Accrued(market[m])
  IN  /\ CanAccrue(market[m])
      /\ BorrowOpen(m)
      /\ price[m] # 0
      /\ BelowBorrowCap(Books(m), m, amount)
      /\ LiquidForBorrow(Books(m), m, a, amount)
      /\ amount <= t.cash
      /\ market' = [market EXCEPT ![m] = BorrowFresh(t, a, amount)]
      /\ wallet' = [wallet EXCEPT ![m] = Receive(@, a, amount)]
      /\ AddToMarket(m, a)
      /\ UNCHANGED <<blockNumber, riskVars>>

\* borrow returns an error code after borrowAllowed has entered the borrower.
BorrowRejected(a, m, amount) ==
  /\ CanAccrue(market[m])
  /\ BorrowOpen(m)
  /\ \/ price[m] = 0
     \/ /\ BelowBorrowCap(Books(m), m, amount)
        /\ \/ ~LiquidForBorrow(Books(m), m, a, amount)
           \/ amount > Accrued(market[m]).cash
  /\ market' = Books(m)
  /\ AddToMarket(m, a)
  /\ UNCHANGED <<blockNumber, wallet, riskVars>>

\* repayBorrow and repayBorrowBehalf of an exact amount.
Repay(payer, borrower, m, amount) ==
  LET t == Accrued(market[m])
  IN  /\ CanAccrue(market[m])
      /\ RepayBorrowAllowed(m)
      /\ CanRepay(t, borrower, amount)
      /\ amount <= wallet[m][payer]
      /\ market' = [market EXCEPT ![m] = RepayBorrowFresh(t, borrower, amount)]
      /\ wallet' = [wallet EXCEPT ![m] = Pay(@, payer, amount)]
      /\ UNCHANGED <<blockNumber, membershipVars, riskVars>>

\* The same with repayAmount = uint(-1): all the borrower owes.
RepayAll(payer, borrower, m) ==
  Repay(payer, borrower, m, BorrowBalanceStored(Accrued(market[m]), borrower))

\* transfer
Transfer(src, dst, m, tokens) ==
  /\ CanMove(market[m], src, dst, tokens)
  /\ TransferAllowed(market, m, src, tokens)
  /\ market' = [market EXCEPT ![m] = MoveTokens(@, src, dst, tokens)]
  /\ UNCHANGED <<blockNumber, wallet, membershipVars, riskVars>>

\* liquidateBorrow: accrue both markets, repay, then seize at the new books.
LiquidateBorrow(liquidator, borrower, borrowed, collateral, amount) ==
  LET fresh  == [market EXCEPT ![borrowed] = Accrued(@),
                               ![collateral] = Accrued(market[collateral])]
      repaid == [fresh EXCEPT ![borrowed] = RepayBorrowFresh(@, borrower, amount)]
      seized == SeizeTokens(repaid, borrowed, collateral, amount)
  IN  /\ liquidator # borrower
      /\ amount # 0
      /\ amount <= wallet[borrowed][liquidator]
      /\ CanAccrue(market[borrowed])
      /\ CanAccrue(market[collateral])
      /\ CanRepay(fresh[borrowed], borrower, amount)
      /\ LiquidateBorrowAllowed(fresh, borrowed, collateral, borrower, amount)
      /\ SeizeKnown(repaid, borrowed, collateral)
      /\ CanMove(repaid[collateral], borrower, liquidator, seized)
      /\ SeizeAllowed(borrowed, collateral)
      /\ market' = [repaid EXCEPT ![collateral] =
                      MoveTokens(@, borrower, liquidator, seized)]
      /\ wallet' = [wallet EXCEPT ![borrowed] = Pay(@, liquidator, amount)]
      /\ UNCHANGED <<blockNumber, membershipVars, riskVars>>

EnterMarket(a, m) ==
  /\ m \in listed
  /\ AddToMarket(m, a)
  /\ UNCHANGED <<tokenVars, riskVars>>

\* Mutant of CanExit: the debt is not asked for.
CanExitInDebt(a, m) ==
  /\ ExchangeRateKnown(market[m])
  /\ RedeemAllowedInternal(market, m, a, market[m].tokens[a])
  /\ a \in accountMembership[m]

\* exitMarket reads the stored debt, without accruing interest first.
CanExit(a, m) ==
  /\ ExchangeRateKnown(market[m])
  /\ BorrowBalanceStored(market[m], a) = 0
  /\ RedeemAllowedInternal(market, m, a, market[m].tokens[a])
  /\ a \in accountMembership[m]

ExitMarket(a, m) ==
  /\ CanExit(a, m)
  /\ RemoveFromMarket(m, a)
  /\ UNCHANGED <<tokenVars, riskVars>>

-----------------------------------------------------------------------------
(* The admin (governance) *)

SupportMarket(m) ==
  /\ m \notin listed
  /\ listed' = listed \cup {m}
  /\ collateralFactor' = [collateralFactor EXCEPT ![m] = 0]
  /\ UNCHANGED <<tokenVars, membershipVars, borrowCap, closeFactor,
                 liquidationIncentive, treasuryPercent, paused, price>>

SetCollateralFactor(m, factor) ==
  /\ m \in listed
  /\ factor <= CollateralFactorMax
  /\ factor # 0 => price[m] # 0
  /\ collateralFactor' = [collateralFactor EXCEPT ![m] = factor]
  /\ UNCHANGED <<tokenVars, membershipVars, listed, borrowCap, closeFactor,
                 liquidationIncentive, treasuryPercent, paused, price>>

SetCloseFactor(factor) ==
  /\ closeFactor' = factor
  /\ UNCHANGED <<tokenVars, membershipVars, listed, collateralFactor, borrowCap,
                 liquidationIncentive, treasuryPercent, paused, price>>

SetLiquidationIncentive(incentive) ==
  /\ incentive >= ExpScale
  /\ liquidationIncentive' = incentive
  /\ UNCHANGED <<tokenVars, membershipVars, listed, collateralFactor, borrowCap,
                 closeFactor, treasuryPercent, paused, price>>

SetMarketBorrowCap(m, cap) ==
  /\ borrowCap' = [borrowCap EXCEPT ![m] = cap]
  /\ UNCHANGED <<tokenVars, membershipVars, listed, collateralFactor, closeFactor,
                 liquidationIncentive, treasuryPercent, paused, price>>

SetTreasuryPercent(percent) ==
  /\ percent < ExpScale
  /\ treasuryPercent' = percent
  /\ UNCHANGED <<tokenVars, membershipVars, listed, collateralFactor, borrowCap,
                 closeFactor, liquidationIncentive, paused, price>>

\* _setMintPaused, _setBorrowPaused, _setSeizePaused, _setProtocolPaused: one
\* flag changes, a market's flag only if the market is listed.
SetPaused(flags) ==
  /\ \/ \E m \in listed :
          \/ flags = [paused EXCEPT !.mint = IF m \in flags.mint THEN @ \cup {m} ELSE @ \ {m}]
          \/ flags = [paused EXCEPT !.borrow = IF m \in flags.borrow THEN @ \cup {m} ELSE @ \ {m}]
     \/ flags = [paused EXCEPT !.seize = flags.seize]
     \/ flags = [paused EXCEPT !.protocol = flags.protocol]
  /\ paused' = flags
  /\ UNCHANGED <<tokenVars, membershipVars, listed, collateralFactor, borrowCap,
                 closeFactor, liquidationIncentive, treasuryPercent, price>>

\* _setReserveFactor and _setInterestRateModel accrue at the old terms first.
SetReserveFactor(m, factor) ==
  LET t == Accrued(market[m])
  IN  /\ CanAccrue(market[m])
      /\ factor <= ExpScale                              \* reserveFactorMaxMantissa
      /\ market' = [market EXCEPT ![m] = [t EXCEPT !.reserveFactor = factor]]
      /\ UNCHANGED <<blockNumber, wallet, membershipVars, riskVars>>

SetInterestRateModel(m, model) ==
  LET t == Accrued(market[m])
  IN  /\ CanAccrue(market[m])
      /\ market' = [market EXCEPT ![m] = [t EXCEPT !.rateModel = model]]
      /\ UNCHANGED <<blockNumber, wallet, membershipVars, riskVars>>

AddReserves(a, m, amount) ==
  LET t == Accrued(market[m])
  IN  /\ CanAccrue(market[m])
      /\ amount <= wallet[m][a]
      /\ market' = [market EXCEPT ![m] = [t EXCEPT !.cash = @ + amount,
                                                   !.totalReserves = @ + amount]]
      /\ wallet' = [wallet EXCEPT ![m] = Pay(@, a, amount)]
      /\ UNCHANGED <<blockNumber, membershipVars, riskVars>>

ReduceReserves(m, amount) ==
  LET t == Accrued(market[m])
  IN  /\ CanAccrue(market[m])
      /\ amount <= t.cash
      /\ amount <= t.totalReserves
      /\ market' = [market EXCEPT ![m] = [t EXCEPT !.cash = @ - amount,
                                                   !.totalReserves = @ - amount]]
      /\ wallet' = [wallet EXCEPT ![m] = Receive(@, Admin, amount)]
      /\ UNCHANGED <<blockNumber, membershipVars, riskVars>>

-----------------------------------------------------------------------------
UserAction(m) ==
  \/ AccrueInterest(m)
  \/ \E a \in Accounts :
       \/ EnterMarket(a, m)
       \/ ExitMarket(a, m)
       \/ \E b \in Accounts : RepayAll(a, b, m)
       \/ \E n \in GiftAmounts : Donate(a, m, n) \/ AddReserves(a, m, n)
       \/ \E n \in Amounts :
            \/ Redeem(a, m, n)
            \/ RedeemUnderlying(a, m, n)
            \/ Borrow(a, m, n)
            \/ BorrowRejected(a, m, n)
            \/ \E b \in Accounts :
                 \/ Mint(a, b, m, n)
                 \/ Repay(a, b, m, n)
                 \/ Transfer(a, b, m, n)
                 \/ \E c \in Markets : LiquidateBorrow(a, b, m, c, n)

AdminAction ==
  \/ \E f \in CloseFactors : SetCloseFactor(f)
  \/ \E i \in Incentives : SetLiquidationIncentive(i)
  \/ \E p \in TreasuryPercents : SetTreasuryPercent(p)
  \/ \E flags \in PauseStates : SetPaused(flags)
  \/ \E m \in Markets :
       \/ SupportMarket(m)
       \/ \E f \in CollateralFactors : SetCollateralFactor(m, f)
       \/ \E c \in BorrowCaps : SetMarketBorrowCap(m, c)
       \/ \E f \in ReserveFactors : SetReserveFactor(m, f)
       \/ \E model \in RateModels : SetInterestRateModel(m, model)
       \/ \E n \in GiftAmounts : ReduceReserves(m, n)

Next ==
  \/ AdvanceBlock
  \/ \E c \in PriceChanges : SetUnderlyingPrice(c[1], c[2])
  \/ \E m \in Markets : UserAction(m)
  \/ AdminAction

Spec == Init /\ [][Next]_vars

-----------------------------------------------------------------------------
(* Properties *)

TypeOK ==
  /\ blockNumber \in Nat
  /\ market \in [Markets -> MarketBooks]
  /\ wallet \in [Markets -> [Holders -> Nat]]
  /\ listed \subseteq Markets
  /\ accountMembership \in [Markets -> SUBSET Accounts]
  /\ accountAssets \in [Accounts -> Seq(Markets)]
  /\ {collateralFactor, borrowCap, price} \subseteq [Markets -> Nat]
  /\ {closeFactor, liquidationIncentive, treasuryPercent} \subseteq Nat
  /\ paused \in PauseFlags

\* The list of assets an account is in and the membership flags of the markets
\* are two copies of one relation: no list has a duplicate or an entry without
\* its flag, so that exitMarket finds what it removes (the code's
\* assert(i < len)) and no asset counts twice as collateral.
AssetsMatchMembership ==
  \A a \in Accounts :
    /\ \A i, j \in DOMAIN accountAssets[a] :
         accountAssets[a][i] = accountAssets[a][j] => i = j
    /\ \A m \in Markets :
         a \in accountMembership[m]
           <=> \E i \in DOMAIN accountAssets[a] : accountAssets[a][i] = m

\* Whoever owes a market is in it: the lens, which visits only the assets an
\* account is in, never misses a debt, whatever was borrowed, repaid, entered
\* and exited in between and however much interest was added.
BorrowerIsMember ==
  \A m \in Markets, a \in Accounts :
    market[m].principal[a] > 0 => a \in accountMembership[m]

\* Every brToken in totalSupply is in somebody's account, and conversely: mints,
\* redemptions, transfers and seizures move both together.
SupplyMatchesBalances ==
  \A m \in Markets : market[m].totalSupply = SumFunction(market[m].tokens)

\* The underlying is only moved: fees, reserves, repayments and liquidations
\* lose none of it and pay none of it twice.
UnderlyingConserved ==
  \A m \in Markets :
    market[m].cash + SumFunction(wallet[m]) = SumFunction(InitialWallet[m])

SettingsUnchanged ==
  /\ UNCHANGED <<riskVars, blockNumber>>
  /\ \A m \in Markets : market'[m].accrualBlock = market[m].accrualBlock

\* What truncation in one market can cost an account: the collateral value of one
\* brToken, which a redemption may take from the others, for every brToken of its
\* own the truncated rate and prices, and two units for sums of truncated amounts.
RoundingLoss(m, u) ==
  2 + (TokensToDenom(market, m) * ExpScale
         + market[m].tokens[u] * (3 * price[m] + ExpScale)) \div (ExpScale * ExpScale)

\* Only the passing of time, a price or an admin's setting pushes an account into
\* a shortfall: no sequence of its own or of other accounts' transactions does,
\* beyond what truncation loses in one market.
NoShortfallByTransaction ==
  [][SettingsUnchanged =>
       \A u \in Accounts :
         LET assets == accountAssets[u]
             debtor == \E m \in Markets : market'[m].principal[u] > 0
         IN  /\ debtor
             /\ LiquidityKnown(market, assets) /\ LiquidityKnown(market, assets)'
             /\ Liquidity(market, u, assets, NoMarket, 0, 0) >= 0
             => \E m \in Markets :
                  Liquidity(market, u, assets, NoMarket, 0, 0)' >= -RoundingLoss(m, u)]_vars

\* Rounding works against whoever acts: the stored exchange rate, once it can be
\* read, falls in no step that burns no brTokens, and a redemption, even
\* redeemUnderlying, which truncates the brTokens it burns, takes at most one
\* brToken's worth from the suppliers who stay.
SuppliersKeepTheirShare ==
  [][\A m \in Markets :
       LET old == market[m]
           new == market'[m]
           backing == new.cash + new.totalBorrows - new.totalReserves
       IN  old.totalSupply > 0 /\ ExchangeRateKnown(old) /\ new.totalSupply > 0 =>
             /\ new.totalSupply >= old.totalSupply => ExchangeRate(new) >= ExchangeRate(old)
             /\ backing * ExpScale >= ExchangeRate(old) * (new.totalSupply - 1)]_vars

\* While the protocol is paused nobody's position changes: every way into the
\* tokens or the debt of an account passes a hook that reads the flag.
PauseFreezesPositions ==
  [][paused.protocol =>
       \A m \in Markets :
         /\ market'[m].tokens = market[m].tokens
         /\ market'[m].principal = market[m].principal]_vars
=============================================================================
