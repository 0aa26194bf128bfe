---------------------------- MODULE Comptroller ----------------------------
(***************************************************************************)
(* The risk engine (Comptroller.sol with Lens/ComptrollerLens.sol): which  *)
(* markets are listed, which of them an account has entered, the risk      *)
(* parameters, and the policy hooks every market calls before it acts.     *)
(*                                                                         *)
(* BAI is left out: no function of this Comptroller sets baiController, so *)
(* mintedBAIs stays 0.  transferGuardianPaused has no setter either.       *)
(***************************************************************************)
EXTENDS BRToken, SequencesExt

CONSTANTS
  NoMarket,             \* BRToken(0): no hypothetical effect
  CollateralFactorMax,  \* collateralFactorMaxMantissa
  InitialCollateralFactor, InitialCloseFactor, InitialIncentive,
  InitialPrice,         \* the protocol as a behaviour finds it: see ComptrollerInit
  InitialPaused, ListedAtStart

PauseFlags == [mint : SUBSET Markets, borrow : SUBSET Markets,
               seize : BOOLEAN, protocol : BOOLEAN]

ASSUME ComptrollerAssumption ==
  /\ NoMarket \notin Markets
  /\ ListedAtStart \subseteq Markets
  /\ CollateralFactorMax \in 0..ExpScale
  /\ InitialCollateralFactor \in 0..CollateralFactorMax
  /\ InitialCloseFactor \in Nat
  /\ InitialIncentive \in Nat /\ InitialIncentive >= ExpScale
  /\ InitialPrice \in [Markets -> Nat]
  /\ InitialPaused \in PauseFlags

VARIABLES
  listed,                \* {m : markets[m].isListed}
  accountMembership,     \* [m |-> {a : markets[m].accountMembership[a]}]
  accountAssets,         \* [a |-> the list of markets a is in]
  collateralFactor, borrowCap, closeFactor, liquidationIncentive,
  treasuryPercent,
  paused,                \* the guardian flags
  price                  \* oracle.getUnderlyingPrice, 0 when it has none

membershipVars == <<accountMembership, accountAssets>>
riskVars == <<listed, collateralFactor, borrowCap, closeFactor,
              liquidationIncentive, treasuryPercent, paused, price>>

ComptrollerInit ==
  /\ listed = ListedAtStart
  /\ accountMembership = [m \in Markets |-> {}]
  /\ accountAssets = [a \in Accounts |-> <<>>]
  /\ collateralFactor = [m \in Markets |->
                           IF m \in ListedAtStart THEN InitialCollateralFactor ELSE 0]
  /\ borrowCap = [m \in Markets |-> 0]
  /\ closeFactor = InitialCloseFactor
  /\ liquidationIncentive = InitialIncentive
  /\ treasuryPercent = 0
  /\ paused = InitialPaused
  /\ price = InitialPrice

-----------------------------------------------------------------------------
(* ComptrollerLens.getHypotheticalAccountLiquidity over the books M.  The   *)
(* result is collateral minus debt: the code's liquidity when it is         *)
(* positive, its shortfall when it is negative.                             *)

\* Otherwise the lens answers SNAPSHOT_ERROR or PRICE_ERROR.
LiquidityKnown(M, assets) ==
  \A m \in ToSet(assets) : ExchangeRateKnown(M[m]) /\ price[m] # 0

TokensToDenom(M, m) ==
  MulTruncate(MulTruncate(collateralFactor[m], ExchangeRate(M[m])), price[m])

Liquidity(M, a, assets, modify, redeemTokens, borrowAmount) ==
  LET Worth(m) == MulTruncate(TokensToDenom(M, m), M[m].tokens[a])
      Owed(m)  == MulTruncate(price[m], BorrowBalanceStored(M[m], a))
      Effects(m) ==
        IF m # modify THEN 0
        ELSE MulTruncate(TokensToDenom(M, m), redeemTokens)
               + MulTruncate(price[m], borrowAmount)
  IN  SumFunction([i \in DOMAIN assets |->
                     Worth(assets[i]) - Owed(assets[i]) - Effects(assets[i])])

Shortfall(M, a) ==
  /\ LiquidityKnown(M, accountAssets[a])
  /\ Liquidity(M, a, accountAssets[a], NoMarket, 0, 0) < 0

\* liquidateCalculateSeizeTokens; its last division reverts when it is by 0.
SeizeKnown(M, borrowed, collateral) ==
  /\ price[borrowed] # 0
  /\ price[collateral] # 0
  /\ ExchangeRateKnown(M[collateral])
  /\ MulTruncate(price[collateral], ExchangeRate(M[collateral])) # 0

SeizeTokens(M, borrowed, collateral, repaid) ==
  MulTruncate(GetExp(MulTruncate(liquidationIncentive, price[borrowed]),
                     MulTruncate(price[collateral], ExchangeRate(M[collateral]))),
              repaid)

-----------------------------------------------------------------------------
(* Membership *)

\* The list of a once addToMarketInternal(m, a) has run.
AssetsWith(m, a) ==
  IF a \in accountMembership[m] THEN accountAssets[a]
  ELSE Append(accountAssets[a], m)

AddToMarket(m, a) ==
  /\ accountMembership' = [accountMembership EXCEPT ![m] = @ \cup {a}]
  /\ accountAssets' = [accountAssets EXCEPT ![a] = AssetsWith(m, a)]

\* exitMarket copies the last entry over the first one that is m, then pops.
IndexOf(m, assets) ==
  CHOOSE i \in DOMAIN assets :
    assets[i] = m /\ \A j \in DOMAIN assets : assets[j] = m => i <= j

\* Mutant of SwapRemove: the last entry is popped and not copied.
SwapRemovePopped(assets, i) == [j \in 1..(Len(assets) - 1) |-> assets[j]]

SwapRemove(assets, i) ==
  [j \in 1..(Len(assets) - 1) |-> IF j = i THEN assets[Len(assets)] ELSE assets[j]]

RemoveFromMarket(m, a) ==
  /\ accountMembership' = [accountMembership EXCEPT ![m] = @ \ {a}]
  /\ accountAssets' = [accountAssets EXCEPT ![a] = SwapRemove(@, IndexOf(m, @))]

-----------------------------------------------------------------------------
(* Policy hooks, over the books M as the calling market has accrued them *)

MintAllowed(m) ==
  /\ ~paused.protocol
  /\ m \notin paused.mint
  /\ m \in listed

RedeemAllowedInternal(M, m, redeemer, tokens) ==
  /\ m \in listed
  /\ \/ redeemer \notin accountMembership[m]
     \/ /\ LiquidityKnown(M, accountAssets[redeemer])
        /\ Liquidity(M, redeemer, accountAssets[redeemer], m, tokens, 0) >= 0

\* Mutant of RedeemAllowed: the liquidity is the one before the redemption.
RedeemAllowedAsIs(M, m, redeemer, tokens) ==
  /\ ~paused.protocol
  /\ RedeemAllowedInternal(M, m, redeemer, 0)

RedeemAllowed(M, m, redeemer, tokens) ==
  /\ ~paused.protocol
  /\ RedeemAllowedInternal(M, m, redeemer, tokens)

\* The part of borrowAllowed before the borrower is added to the market.
BorrowOpen(m) ==
  /\ ~paused.protocol
  /\ m \notin paused.borrow
  /\ m \in listed

BelowBorrowCap(M, m, amount) ==
  borrowCap[m] = 0 \/ M[m].totalBorrows + amount < borrowCap[m]

LiquidForBorrow(M, m, borrower, amount) ==
  LET assets == AssetsWith(m, borrower)
  IN  /\ LiquidityKnown(M, assets)
      /\ Liquidity(M, borrower, assets, m, 0, amount) >= 0

\* Mutant of RepayBorrowAllowed: the protocol's pause is not looked at.
RepayAllowedPaused(m) == m \in listed

RepayBorrowAllowed(m) == ~paused.protocol /\ m \in listed

LiquidateBorrowAllowed(M, borrowed, collateral, borrower, repayAmount) ==
  /\ ~paused.protocol
  /\ {borrowed, collateral} \subseteq listed
  /\ Shortfall(M, borrower)
  /\ repayAmount <= MulTruncate(closeFactor, BorrowBalanceStored(M[borrowed], borrower))

SeizeAllowed(borrowed, collateral) ==
  /\ ~paused.protocol
  /\ ~paused.seize
  /\ {borrowed, collateral} \subseteq listed

TransferAllowed(M, m, src, tokens) ==
  /\ ~paused.protocol
  /\ RedeemAllowedInternal(M, m, src, tokens)
=============================================================================
