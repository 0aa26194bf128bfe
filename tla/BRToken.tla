------------------------------ MODULE BRToken ------------------------------
(***************************************************************************)
(* The money markets (BRToken.sol, BRErc20.sol): the books of every        *)
(* market, and the effect of each operation on them.  A market's books are *)
(* one record, so that an operation reads what accrueInterest() has just   *)
(* written in the same transaction.  Who may do what is decided by the     *)
(* policy hooks of module Comptroller; module LendingMarket puts the two   *)
(* together into the transactions users send.                              *)
(*                                                                         *)
(* The underlying is an external token without transfer fees: wallet[m][h] *)
(* is what holder h has of it and market[m].cash what the market has.      *)
(***************************************************************************)
EXTENDS ExpMath, FiniteSets, Functions

CONSTANTS
  Accounts,             \* users
  Markets,              \* brToken contracts
  Admin,                \* receives reduced reserves
  TreasuryAddress,      \* receives the redemption fees
  InitialExchangeRate,  \* initialExchangeRateMantissa
  BorrowRateMax,        \* borrowRateMaxMantissa
  RateModels,           \* interest rate models the admin may install
  InitialWallet,        \* underlying each user starts with, for each market
  MaxBlock              \* bound: last block of a behaviour

Holders == Accounts \cup {Admin, TreasuryAddress}

\* A chain has finitely many addresses: sums over them are of finite sets.
ASSUME AccountsFinite == IsFiniteSet(Accounts)

ASSUME AddressesDistinct ==
  /\ Admin \notin Accounts
  /\ TreasuryAddress \notin Accounts
  /\ Admin # TreasuryAddress

ASSUME BRTokenAssumption ==
  /\ InitialExchangeRate \in Nat \ {0}
  /\ BorrowRateMax \in Nat
  /\ InitialWallet \in [Markets -> [Accounts -> Nat]]
  /\ MaxBlock \in Nat
  /\ RateModels # {}
  /\ RateModels \subseteq [base : Nat, multiplier : Nat, jump : Nat, kink : Nat]

VARIABLES
  blockNumber,  \* block.number
  market,       \* the storage of each brToken
  wallet        \* underlying held outside the markets

tokenVars == <<blockNumber, market, wallet>>

MarketBooks ==
  [cash          : Nat,   \* underlying.balanceOf(brToken)
   totalSupply   : Nat,
   totalBorrows  : Nat,
   totalReserves : Nat,
   reserveFactor : Nat,
   borrowIndex   : Nat,
   accrualBlock  : Nat,
   rateModel     : RateModels,
   tokens        : [Accounts -> Nat],   \* accountTokens
   principal     : [Accounts -> Nat],   \* accountBorrows[a].principal
   interestIndex : [Accounts -> Nat]]   \* accountBorrows[a].interestIndex

NewMarket(model) ==
  [cash |-> 0, totalSupply |-> 0, totalBorrows |-> 0, totalReserves |-> 0,
   reserveFactor |-> 0, borrowIndex |-> ExpScale, accrualBlock |-> 0,
   rateModel |-> model,
   tokens |-> [a \in Accounts |-> 0],
   principal |-> [a \in Accounts |-> 0],
   interestIndex |-> [a \in Accounts |-> 0]]

TokenInit ==
  /\ blockNumber = 0
  /\ market \in [Markets -> {NewMarket(model) : model \in RateModels}]
  /\ wallet = [m \in Markets |->
                 [h \in Holders |-> IF h \in Accounts THEN InitialWallet[m][h] ELSE 0]]

-----------------------------------------------------------------------------
(* Views *)

\* Borrowers' debt, or nothing when there is no principal.
BorrowBalanceStored(t, a) ==
  IF t.principal[a] = 0 THEN 0
  ELSE (t.principal[a] * t.borrowIndex) \div t.interestIndex[a]

\* cash + borrows - reserves underflows: the exchange rate cannot be read.
ExchangeRateKnown(t) ==
  t.totalSupply = 0 \/ t.cash + t.totalBorrows >= t.totalReserves

ExchangeRate(t) ==
  IF t.totalSupply = 0 THEN InitialExchangeRate
  ELSE GetExp(t.cash + t.totalBorrows - t.totalReserves, t.totalSupply)

\* JumpRateModel.utilizationRate reverts when its divisor is not positive.
RateKnown(t) ==
  t.totalBorrows = 0 \/ t.cash + t.totalBorrows > t.totalReserves

UtilizationRate(t) ==
  IF t.totalBorrows = 0 THEN 0
  ELSE GetExp(t.totalBorrows, t.cash + t.totalBorrows - t.totalReserves)

BorrowRate(t) ==
  LET model == t.rateModel
      util  == UtilizationRate(t)
  IN  IF util <= model.kink
      THEN MulTruncate(util, model.multiplier) + model.base
      ELSE MulTruncate(util - model.kink, model.jump)
             + MulTruncate(model.kink, model.multiplier) + model.base

-----------------------------------------------------------------------------
(* accrueInterest: once per block, before anything else a market does. *)

CanAccrue(t) ==
  \/ t.accrualBlock = blockNumber
  \/ RateKnown(t) /\ BorrowRate(t) <= BorrowRateMax

Accrued(t) ==
  IF t.accrualBlock = blockNumber THEN t
  ELSE LET factor   == BorrowRate(t) * (blockNumber - t.accrualBlock)
           interest == MulTruncate(factor, t.totalBorrows)
       IN  [t EXCEPT
              !.accrualBlock  = blockNumber,
              !.totalBorrows  = @ + interest,
              !.totalReserves = @ + MulTruncate(t.reserveFactor, interest),
              !.borrowIndex   = @ + MulTruncate(factor, t.borrowIndex)]

-----------------------------------------------------------------------------
(* Effects of the operations on the books of one market. *)

\* Mutant of MintFresh: the brTokens are rounded up.
MintFreshRoundedUp(t, minter, amount) ==
  LET mintTokens == DivScalarByExp(amount, ExchangeRate(t)) + 1
  IN  [t EXCEPT !.cash = @ + amount,
                !.totalSupply = @ + mintTokens,
                !.tokens[minter] = @ + mintTokens]

\* mintFresh: the exchange rate is the one before the transfer in.
MintFresh(t, minter, amount) ==
  LET mintTokens == DivScalarByExp(amount, ExchangeRate(t))
  IN  [t EXCEPT !.cash = @ + amount,
                !.totalSupply = @ + mintTokens,
                !.tokens[minter] = @ + mintTokens]

\* redeemFresh burns `tokens` and pays `amount` out, whichever was asked for.
RedeemFresh(t, redeemer, tokens, amount) ==
  [t EXCEPT !.cash = @ - amount,
            !.totalSupply = @ - tokens,
            !.tokens[redeemer] = @ - tokens]

BorrowFresh(t, borrower, amount) ==
  [t EXCEPT !.cash = @ - amount,
            !.totalBorrows = @ + amount,
            !.principal[borrower] = BorrowBalanceStored(t, borrower) + amount,
            !.interestIndex[borrower] = t.borrowIndex]

RepayBorrowFresh(t, borrower, amount) ==
  [t EXCEPT !.cash = @ + amount,
            !.totalBorrows = @ - amount,
            !.principal[borrower] = BorrowBalanceStored(t, borrower) - amount,
            !.interestIndex[borrower] = t.borrowIndex]

\* transferTokens and seizeInternal compute both balances, then write both.
MoveTokens(t, src, dst, tokens) ==
  [t EXCEPT !.tokens = [@ EXCEPT ![src] = t.tokens[src] - tokens,
                                 ![dst] = t.tokens[dst] + tokens]]

\* Mutant of CanMove: self-transfers let through.
CanMoveToSelf(t, src, dst, tokens) == tokens <= t.tokens[src]

CanMove(t, src, dst, tokens) ==
  /\ src # dst
  /\ tokens <= t.tokens[src]

\* Both subtractions of repayBorrowFresh are checked: it reverts on underflow.
CanRepay(t, borrower, amount) ==
  /\ amount <= BorrowBalanceStored(t, borrower)
  /\ amount <= t.totalBorrows

\* Mutant of CanRedeem: the market's cash is not looked at.
CanRedeemUncovered(t, redeemer, tokens, amount) ==
  /\ tokens <= t.totalSupply
  /\ tokens <= t.tokens[redeemer]

\* The checks redeemFresh makes besides the comptroller's hook.
CanRedeem(t, redeemer, tokens, amount) ==
  /\ tokens <= t.totalSupply
  /\ tokens <= t.tokens[redeemer]
  /\ amount <= t.cash

Pay(w, from, amount)     == [w EXCEPT ![from] = @ - amount]
Receive(w, to, amount)   == [w EXCEPT ![to] = @ + amount]

\* Mutant of PayOut: the fee is paid on top of the whole amount.
PayOutAndFee(w, to, amount, fee) ==
  Receive(Receive(w, TreasuryAddress, fee), to, amount)

\* redeemFresh sends the treasury its fee and the redeemer the rest.
PayOut(w, to, amount, fee) ==
  Receive(Receive(w, TreasuryAddress, fee), to, amount - fee)
=============================================================================
