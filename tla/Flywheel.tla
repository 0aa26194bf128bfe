------------------------------ MODULE Flywheel ------------------------------
(***************************************************************************)
(* The distribution of BRN (Comptroller.sol, "Brainiac Distribution"): each *)
(* market pays its speed per block to its suppliers and as much to its     *)
(* borrowers, in proportion.  Nobody is paid when a block passes: an index *)
(* per market and side says what one token has earned so far, an account   *)
(* remembers the index it was last settled at, and every policy hook       *)
(* settles the accounts whose position is about to change.  Each           *)
(* transaction of LendingMarket is here joined with what its hook settles. *)
(***************************************************************************)
EXTENDS LendingMarket

CONSTANTS
  DoubleScale,      \* 1e36: mantissa of 1.0 of the indices, and their initial value
  InitialBRN,       \* BRN the comptroller starts with
  BRNMarket,        \* brBrnToken, the market of BRN itself; NoMarket: not set
  InitialSpeed,     \* speeds of the markets as a behaviour finds them
  Speeds,           \* speeds the admin may set
  Grants            \* amounts the admin may grant

BrainiacInitialIndex == DoubleScale

ASSUME FlywheelAssumption ==
  /\ DoubleScale \in Nat \ {0}
  /\ InitialBRN \in Nat
  /\ BRNMarket \in Markets \cup {NoMarket}
  /\ InitialSpeed \in [Markets -> Nat]
  /\ Speeds \subseteq Nat
  /\ Grants \subseteq Nat

\* The comptroller keeps a list of its markets; a speed is a uint.
ASSUME FlywheelFinite == IsFiniteSet(Markets) /\ IsFiniteSet(Speeds)

VARIABLE flywheel

flywheelVars == <<vars, flywheel>>

MarketState == [index : Nat, block : Nat]

FlywheelBooks ==
  [speed         : [Markets -> Nat],
   supply        : [Markets -> MarketState],
   borrow        : [Markets -> MarketState],
   supplierIndex : [Markets -> [Accounts -> Nat]],
   borrowerIndex : [Markets -> [Accounts -> Nat]],
   accrued       : [Accounts -> Nat],
   balance       : Nat,                 \* BRN.balanceOf(comptroller)
   claimed       : [Accounts -> Nat]]   \* history: rewards paid out so far

\* block.number: a chain's first block is not 0, the "never" of the states.
Now == blockNumber + 1

FlywheelInit ==
  LET never    == [index |-> 0, block |-> 0]
      started  == [index |-> BrainiacInitialIndex, block |-> Now]
      states   == [m \in Markets |-> IF InitialSpeed[m] = 0 THEN never ELSE started]
      zeros    == [a \in Accounts |-> 0]
  IN  flywheel = [speed |-> InitialSpeed, supply |-> states, borrow |-> states,
                  supplierIndex |-> [m \in Markets |-> zeros],
                  borrowerIndex |-> [m \in Markets |-> zeros],
                  accrued |-> zeros, balance |-> InitialBRN, claimed |-> zeros]

FInit == Init /\ FlywheelInit

-----------------------------------------------------------------------------
(* Indices.  F is the flywheel, M the books of the markets it reads. *)

\* Mutant of Grown: the block is not stored, so the same blocks are paid again.
GrownFromStart(state, speed, amount) ==
  [index |-> state.index + (IF speed = 0 \/ amount = 0 THEN 0
                            ELSE ((Now - state.block) * speed * DoubleScale) \div amount),
   block |-> state.block]

\* One update of an index; without a speed, or anybody to pay, only time passes.
Grown(state, speed, amount) ==
  [index |-> state.index + (IF speed = 0 \/ amount = 0 THEN 0
                            ELSE ((Now - state.block) * speed * DoubleScale) \div amount),
   block |-> Now]

\* An amount of debt in units of the market's borrow index.
PerIndex(M, m, debt) == (debt * ExpScale) \div M[m].borrowIndex

\* updateBrainiacSupplyIndex and updateBrainiacBorrowIndex: the state they store.
SupplyNow(F, M, m) == Grown(F.supply[m], F.speed[m], M[m].totalSupply)
BorrowNow(F, M, m) == Grown(F.borrow[m], F.speed[m], PerIndex(M, m, M[m].totalBorrows))

\* The index a supplier is paid from; the first time, the initial one.
PaidFrom(F, m, a, index) ==
  IF F.supplierIndex[m][a] = 0 /\ index > 0 THEN BrainiacInitialIndex
  ELSE F.supplierIndex[m][a]

\* distributeSupplierBrainiac and distributeBorrowerBrainiac: what they add.
SupplierDelta(F, M, m, a, index) ==
  (M[m].tokens[a] * (index - PaidFrom(F, m, a, index))) \div DoubleScale

BorrowerDelta(F, M, m, a, index) ==
  IF F.borrowerIndex[m][a] = 0 THEN 0
  ELSE (PerIndex(M, m, BorrowBalanceStored(M[m], a))
          * (index - F.borrowerIndex[m][a])) \div DoubleScale

\* Subtracting the supplier's index reverts on underflow.
CanSettleSuppliers(F, M, m, who) ==
  LET index == SupplyNow(F, M, m).index
  IN  \A a \in who : PaidFrom(F, m, a, index) <= index

SettleSuppliers(F, M, m, who) ==
  LET state    == SupplyNow(F, M, m)
      delta(a) == IF a \in who THEN SupplierDelta(F, M, m, a, state.index) ELSE 0
  IN  [F EXCEPT
         !.supply[m] = state,
         !.supplierIndex[m] = [a \in Accounts |-> IF a \in who THEN state.index ELSE @[a]],
         !.accrued = [a \in Accounts |-> @[a] + delta(a)]]

SettleBorrower(F, M, m, a) ==
  LET state == BorrowNow(F, M, m)
  IN  [F EXCEPT !.borrow[m] = state,
                !.borrowerIndex[m][a] = state.index,
                !.accrued[a] = @ + BorrowerDelta(F, M, m, a, state.index)]

\* The two forms in which the hooks call them.
\* Mutant of SuppliersSettled: one side of a transfer or seizure is forgotten.
FirstSupplierSettled(m, src, dst) ==
  /\ CanSettleSuppliers(flywheel, market, m, {src})
  /\ flywheel' = SettleSuppliers(flywheel, market, m, {src})

SuppliersSettled(m, src, dst) ==
  /\ CanSettleSuppliers(flywheel, market, m, {src, dst})
  /\ flywheel' = SettleSuppliers(flywheel, market, m, {src, dst})

BorrowerSettled(m, a) == flywheel' = SettleBorrower(flywheel, Books(m), m, a)

-----------------------------------------------------------------------------
(* The transactions of the lending market, with their hooks *)

MintAndSettle(payer, receiver, m, amount) ==
  Mint(payer, receiver, m, amount) /\ SuppliersSettled(m, receiver, receiver)

RedeemAndSettle(a, m, n) ==
  (Redeem(a, m, n) \/ RedeemUnderlying(a, m, n)) /\ SuppliersSettled(m, a, a)

\* redeemFresh returns an error code once its hook has settled the redeemer.
RedeemRejected(a, m, tokens) ==
  LET t == Accrued(market[m])
  IN  /\ AccrueInterest(m)
      /\ ExchangeRateKnown(t)
      /\ RedeemAllowed(Books(m), m, a, tokens)
      /\ ~CanRedeem(t, a, tokens, MulTruncate(ExchangeRate(t), tokens))
      /\ SuppliersSettled(m, a, a)

BorrowAndSettle(a, m, amount) ==
  Borrow(a, m, amount) /\ BorrowerSettled(m, a)

\* The hook settles after its own checks: only a lack of cash comes later.
BorrowRejectedLate(a, m, amount) ==
  /\ BorrowRejected(a, m, amount)
  /\ IF price[m] # 0 /\ LiquidForBorrow(Books(m), m, a, amount)
     THEN BorrowerSettled(m, a)
     ELSE UNCHANGED flywheel

RepayAndSettle(payer, borrower, m, amount) ==
  Repay(payer, borrower, m, amount) /\ BorrowerSettled(m, borrower)

RepayAllAndSettle(payer, borrower, m) ==
  RepayAll(payer, borrower, m) /\ BorrowerSettled(m, borrower)

TransferAndSettle(src, dst, m, tokens) ==
  Transfer(src, dst, m, tokens) /\ SuppliersSettled(m, src, dst)

\* transferTokens refuses after its hook has settled both.
TransferRejected(src, dst, m, tokens) ==
  /\ TransferAllowed(market, m, src, tokens)
  /\ ~CanMove(market[m], src, dst, tokens)
  /\ SuppliersSettled(m, src, dst)
  /\ UNCHANGED vars

\* repayBorrowAllowed settles the borrower's debt, seizeAllowed both suppliers.
LiquidateAndSettle(liquidator, borrower, borrowed, collateral, amount) ==
  LET fresh  == [market EXCEPT ![borrowed] = Accrued(@)]
      repaid == SettleBorrower(flywheel, fresh, borrowed, borrower)
      both   == {borrower, liquidator}
  IN  /\ LiquidateBorrow(liquidator, borrower, borrowed, collateral, amount)
      /\ CanSettleSuppliers(repaid, market, collateral, both)
      /\ flywheel' = SettleSuppliers(repaid, market, collateral, both)

-----------------------------------------------------------------------------
(* Claims.  A claim threads the flywheel f and the books M through its      *)
(* grants, because a grant to a bankrupt account mints brBRN for it.        *)

\* Mutant of GrantDue: the comptroller's BRN is not looked at.
GrantDueUncovered(s, a) == s.f.accrued[a] # 0

\* grantBRNInternal pays nothing, and returns the amount, otherwise.
GrantDue(s, a) == s.f.accrued[a] \in 1..s.f.balance

\* Mutant of PaidOut: the claimer is paid and the comptroller's BRN stays.
PaidOutFromNothing(f, a, amount) ==
  [f EXCEPT !.accrued[a] = 0, !.claimed[a] = @ + amount]

PaidOut(f, a, amount) ==
  [f EXCEPT !.accrued[a] = 0, !.balance = @ - amount, !.claimed[a] = @ + amount]

CanGrant(s, a, bankrupt, collateral) ==
  GrantDue(s, a) /\ bankrupt =>
    /\ collateral
    /\ BRNMarket \in Markets
    /\ MintAllowed(BRNMarket)
    /\ CanAccrue(s.M[BRNMarket])
    /\ ExchangeRateKnown(Accrued(s.M[BRNMarket]))
    /\ ExchangeRate(Accrued(s.M[BRNMarket])) > 0
    /\ CanSettleSuppliers(s.f, s.M, BRNMarket, {a})

\* The mint's own hook settles the account too, but then accrued is set to what
\* grantBRNInternal returned for the amount it was called with: 0.
Granted(s, a, bankrupt) ==
  LET amount == s.f.accrued[a]
  IN  IF ~GrantDue(s, a) THEN s
      ELSE IF ~bankrupt THEN [s EXCEPT !.f = PaidOut(@, a, amount)]
      ELSE [f |-> PaidOut(SettleSuppliers(s.f, s.M, BRNMarket, {a}), a, amount),
            M |-> [s.M EXCEPT ![BRNMarket] = MintFresh(Accrued(@), a, amount)]]

\* claimBrainiac of one holder in one market; a longer claim is several of these
\* in a row, if none of its grants ends the shortfall the claim read at its start.
\* The borrow index is read as it is stored.
ClaimBrainiac(a, m, borrowers, suppliers, collateral) ==
  LET bankrupt == Shortfall(market, a)
      start    == [f |-> flywheel, M |-> market]
      debt     == IF borrowers THEN [start EXCEPT !.f = SettleBorrower(@, market, m, a)]
                  ELSE start
      paid     == IF borrowers THEN Granted(debt, a, bankrupt) ELSE start
      stake    == IF suppliers THEN [paid EXCEPT !.f = SettleSuppliers(@, paid.M, m, {a})]
                  ELSE paid
      end      == IF suppliers THEN Granted(stake, a, bankrupt) ELSE paid
  IN  /\ m \in listed
      /\ borrowers => CanGrant(debt, a, bankrupt, collateral)
      /\ suppliers => CanSettleSuppliers(paid.f, paid.M, m, {a})
      /\ suppliers => CanGrant(stake, a, bankrupt, collateral)
      /\ flywheel' = end.f
      /\ market' = end.M
      /\ wallet' = IF bankrupt \/ BRNMarket = NoMarket THEN wallet
                   ELSE [wallet EXCEPT ![BRNMarket] =
                           Receive(@, a, end.f.claimed[a] - flywheel.claimed[a])]
      /\ UNCHANGED <<blockNumber, membershipVars, riskVars>>

-----------------------------------------------------------------------------
(* The admin *)

\* setBrainiacSpeedInternal of a market that has a speed settles at the old one.
ChangeSpeed(m, speed) ==
  /\ flywheel.speed[m] # 0
  /\ flywheel' = [flywheel EXCEPT !.speed[m] = speed,
                                  !.supply[m] = SupplyNow(flywheel, market, m),
                                  !.borrow[m] = BorrowNow(flywheel, market, m)]
  /\ UNCHANGED vars

\* The same of a market that has none: a state never touched is initialised.
StartSpeed(m, speed) ==
  LET Started(state) ==
        IF state.index = 0 /\ state.block = 0
        THEN [index |-> BrainiacInitialIndex, block |-> Now] ELSE state
  IN  /\ flywheel.speed[m] = 0
      /\ speed # 0
      /\ m \in listed
      /\ flywheel' = [flywheel EXCEPT !.speed[m] = speed, !.supply[m] = Started(@),
                                      !.borrow[m] = Started(@)]
      /\ UNCHANGED vars

\* _grantBRN
GrantBRN(a, amount) ==
  /\ amount <= flywheel.balance
  /\ flywheel' = [flywheel EXCEPT !.balance = @ - amount]
  /\ wallet' = IF BRNMarket = NoMarket THEN wallet
               ELSE [wallet EXCEPT ![BRNMarket] = Receive(@, a, amount)]
  /\ UNCHANGED <<blockNumber, market, membershipVars, riskVars>>

-----------------------------------------------------------------------------
SettlingAction(m) ==
  \/ \E a, b \in Accounts : RepayAllAndSettle(a, b, m)
  \/ \E a \in Accounts, n \in Amounts :
       \/ RedeemAndSettle(a, m, n)
       \/ RedeemRejected(a, m, n)
       \/ BorrowAndSettle(a, m, n)
       \/ BorrowRejectedLate(a, m, n)
       \/ \E b \in Accounts :
            \/ MintAndSettle(a, b, m, n)
            \/ RepayAndSettle(a, b, m, n)
            \/ TransferAndSettle(a, b, m, n)
            \/ TransferRejected(a, b, m, n)
            \/ \E c \in Markets : LiquidateAndSettle(a, b, m, c, n)

\* What calls no hook that settles.
PlainAction ==
  \/ AdvanceBlock
  \/ AdminAction
  \/ \E c \in PriceChanges : SetUnderlyingPrice(c[1], c[2])
  \/ \E m \in Markets :
       \/ AccrueInterest(m)
       \/ \E a \in Accounts :
            \/ EnterMarket(a, m) \/ ExitMarket(a, m)
            \/ \E n \in GiftAmounts : Donate(a, m, n) \/ AddReserves(a, m, n)

FNext ==
  \/ PlainAction /\ UNCHANGED flywheel
  \/ \E m \in Markets :
       \/ SettlingAction(m)
       \/ \E a \in Accounts, borrowers, suppliers \in BOOLEAN :
            ClaimBrainiac(a, m, borrowers, suppliers, FALSE)
       \/ /\ BRNMarket \in Markets
          /\ \E a \in Accounts, borrowers, suppliers \in BOOLEAN :
               ClaimBrainiac(a, m, borrowers, suppliers, TRUE)
       \/ \E s \in Speeds : ChangeSpeed(m, s) \/ StartSpeed(m, s)
  \/ \E a \in Accounts, n \in Grants : GrantBRN(a, n)

FSpec == FInit /\ [][FNext]_flywheelVars

-----------------------------------------------------------------------------
(* Properties *)

\* What settling a in market m would add to its rewards now; nothing while the
\* market's index has not reached the initial one and settling reverts.
Unsettled(F, M, m, a) ==
  LET supplied == SupplyNow(F, M, m).index
      borrowed == BorrowNow(F, M, m).index
  IN  (IF PaidFrom(F, m, a, supplied) > supplied THEN 0
       ELSE SupplierDelta(F, M, m, a, supplied))
        + BorrowerDelta(F, M, m, a, borrowed)

\* Everything a has earned by now: paid, accrued, and what settling it in every
\* market would add.
Entitlement(a) ==
  flywheel.claimed[a] + flywheel.accrued[a]
    + SumFunction([m \in Markets |-> Unsettled(flywheel, market, m, a)])

SpeedStarts == \E m \in Markets : flywheel.speed[m] = 0 /\ flywheel'.speed[m] # 0

\* A claim paid by minting brBRN for the claimer, however few brTokens.
PaidInBRTokens(a) ==
  /\ flywheel'.claimed[a] > flywheel.claimed[a]
  /\ BRNMarket \in Markets
  /\ market'[BRNMarket].cash > market[BRNMarket].cash

FlywheelTypeOK == flywheel \in FlywheelBooks

\* Every hook settles the right accounts, at the right books, before the position
\* changes: in a market without interest no transaction of anybody, and no change
\* of a speed that was not 0, takes from or adds to what any account has earned.
EntitlementKept ==
  [][(blockNumber' = blockNumber /\ ~SpeedStarts) =>
       \A a \in Accounts : PaidInBRTokens(a) \/ Entitlement(a)' = Entitlement(a)]_flywheelVars

\* The BRN of a claim or a grant leaves the comptroller exactly once: what the
\* claimer, its market and everybody else have, and the comptroller's rest, add
\* up to what there was, also when a claim is paid by minting brBRN in mid-claim.
BRNConserved ==
  BRNMarket \in Markets =>
    market[BRNMarket].cash + SumFunction(wallet[BRNMarket]) + flywheel.balance
      = SumFunction(InitialWallet[BRNMarket]) + InitialBRN

HighestSpeed == Max({0} \cup Speeds \cup {InitialSpeed[m] : m \in Markets})

\* No order of settling, claiming and changing speeds makes the markets pay more
\* than the highest speed, per block and side.
EmissionBounded ==
  SumFunction([a \in Accounts |-> flywheel.accrued[a] + flywheel.claimed[a]])
    <= 2 * Cardinality(Markets) * HighestSpeed * blockNumber

-----------------------------------------------------------------------------
(* What the code says of itself and does not keep *)

\* "The initial Brainiac index for a market": where a market that has a speed starts.
StartsAtInitialIndex ==
  \A m \in Markets :
    flywheel.speed[m] # 0 => flywheel.supply[m].index >= BrainiacInitialIndex

\* grantBRNInternal returns "The amount of BRN which was NOT transferred to the
\* user": a claim paid in brBRN leaves the rest of the rewards accrued.
ClaimKeepsTheRest ==
  [][\A a \in Accounts :
       PaidInBRTokens(a) => Entitlement(a)' = Entitlement(a)]_flywheelVars
=============================================================================
