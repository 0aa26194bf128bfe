--------------------------- MODULE FlywheelProofs ---------------------------
(***************************************************************************)
(* What is proved of Flywheel for every set of accounts and markets, every *)
(* speed and scale: the reward books keep their types, so that no index is *)
(* subtracted from a smaller one, no reward is negative and no grant is of *)
(* more BRN than the comptroller has; the lending market underneath keeps  *)
(* its invariant, also when a claim mints brBRN in its middle; BRN is only *)
(* moved; and, while the markets lend without interest, no transaction     *)
(* takes from or adds to what anybody has earned and no block of a market  *)
(* is paid for twice.                                                      *)
(***************************************************************************)
EXTENDS Flywheel, LendingConservationProofs

-----------------------------------------------------------------------------
(* The reward books *)

\* What they keep besides their types: no state is from the future and nobody was
\* settled at an index of the borrow side that the market has not reached.
RewardInv(F, now) ==
  /\ F \in FlywheelBooks
  /\ \A m \in Markets :
       /\ F.supply[m].block <= now
       /\ F.borrow[m].block <= now
       /\ \A u \in Accounts : F.borrowerIndex[m][u] <= F.borrow[m].index

\* An update moves the index up and the block to now.
LEMMA GrownType ==
  ASSUME NEW state \in MarketState, NEW speed \in Nat, NEW amount \in Nat,
         blockNumber \in Nat, state.block <= Now
  PROVE  /\ Grown(state, speed, amount) \in MarketState
         /\ Grown(state, speed, amount).index >= state.index
         /\ Grown(state, speed, amount).block = Now
<1> DEFINE paid == (Now - state.block) * speed * DoubleScale
           growth == IF speed = 0 \/ amount = 0 THEN 0 ELSE paid \div amount
<1>1. Now \in Nat /\ state.index \in Nat /\ state.block \in Nat
  BY DEF Now, MarketState
<1>2. paid \in Nat
  <2>1. Now - state.block \in Nat
    BY <1>1
  <2>2. (Now - state.block) * speed \in Nat
    BY <2>1, TimesNat
  <2> QED
    BY <2>2, TimesNat, FlywheelAssumption
<1> HIDE DEF paid
<1>3. growth \in Nat
  BY <1>2, DivNat
<1>4. Grown(state, speed, amount) = [index |-> state.index + growth, block |-> Now]
  BY DEF Grown, paid
<1> HIDE DEF growth
<1> QED
  BY <1>1, <1>3, <1>4 DEF MarketState

\* A debt in units of the borrow index is a natural.
LEMMA PerIndexType ==
  ASSUME NEW M, NEW m \in Markets, BooksInv(M[m], blockNumber), NEW debt \in Nat
  PROVE  PerIndex(M, m, debt) \in Nat
<1>1. M[m].borrowIndex \in Nat /\ M[m].borrowIndex > 0
  BY DEF BooksInv, MarketBooks
<1>2. debt * ExpScale \in Nat
  BY TimesNat, ExpScaleAssumption
<1> QED
  BY <1>1, <1>2, DivNat DEF PerIndex

\* Both updates of a market's states.
LEMMA IndicesType ==
  ASSUME NEW F, RewardInv(F, Now), blockNumber \in Nat,
         NEW M, NEW m \in Markets, BooksInv(M[m], blockNumber)
  PROVE  /\ SupplyNow(F, M, m) \in MarketState
         /\ SupplyNow(F, M, m).block = Now
         /\ BorrowNow(F, M, m) \in MarketState
         /\ BorrowNow(F, M, m).block = Now
         /\ BorrowNow(F, M, m).index >= F.borrow[m].index
<1>1. M[m].totalSupply \in Nat /\ M[m].totalBorrows \in Nat
  BY DEF BooksInv, MarketBooks
<1>2. /\ F.speed[m] \in Nat
      /\ F.supply[m] \in MarketState /\ F.supply[m].block <= Now
      /\ F.borrow[m] \in MarketState /\ F.borrow[m].block <= Now
  BY DEF RewardInv, FlywheelBooks
<1>3. PerIndex(M, m, M[m].totalBorrows) \in Nat
  BY <1>1, PerIndexType
<1> QED
  BY <1>1, <1>2, <1>3, GrownType DEF SupplyNow, BorrowNow

\* distributeSupplierBrainiac of any accounts whose index does not underflow.
LEMMA SettleSuppliersInv ==
  ASSUME NEW F, RewardInv(F, Now), blockNumber \in Nat,
         NEW M, NEW m \in Markets, BooksInv(M[m], blockNumber),
         NEW who, CanSettleSuppliers(F, M, m, who)
  PROVE  /\ RewardInv(SettleSuppliers(F, M, m, who), Now)
         /\ SettleSuppliers(F, M, m, who).claimed = F.claimed
<1> DEFINE state    == SupplyNow(F, M, m)
           delta(a) == IF a \in who THEN SupplierDelta(F, M, m, a, state.index) ELSE 0
           supply   == [F.supply EXCEPT ![m] = state]
           reached  == [a \in Accounts |->
                          IF a \in who THEN state.index ELSE F.supplierIndex[m][a]]
           indices  == [F.supplierIndex EXCEPT ![m] = reached]
           accrued  == [a \in Accounts |-> F.accrued[a] + delta(a)]
           after    == [F EXCEPT !.supply = supply, !.supplierIndex = indices,
                                 !.accrued = accrued]
<1>1. F \in FlywheelBooks
  BY DEF RewardInv
<1>2. /\ F.supply \in [Markets -> MarketState]
      /\ F.supplierIndex \in [Markets -> [Accounts -> Nat]]
      /\ F.accrued \in [Accounts -> Nat]
  BY <1>1 DEF FlywheelBooks
<1>3. state \in MarketState /\ state.block = Now
  BY IndicesType
<1>4. SettleSuppliers(F, M, m, who) = after
  BY <1>1, <1>2 DEF SettleSuppliers, FlywheelBooks
<1>5. ASSUME NEW a \in Accounts
      PROVE  delta(a) \in Nat
  <2>1. CASE a \in who
    <3>1. M[m].tokens[a] \in Nat
      BY DEF BooksInv, MarketBooks
    <3>2. PaidFrom(F, m, a, state.index) \in Nat
      BY <1>2, FlywheelAssumption DEF PaidFrom, BrainiacInitialIndex
    <3>3. PaidFrom(F, m, a, state.index) <= state.index
      BY <2>1 DEF CanSettleSuppliers
    <3>4. state.index - PaidFrom(F, m, a, state.index) \in Nat
      BY <1>3, <3>2, <3>3 DEF MarketState
    <3>5. M[m].tokens[a] * (state.index - PaidFrom(F, m, a, state.index)) \in Nat
      BY <3>1, <3>4, TimesNat
    <3> QED
      BY <2>1, <3>5, DivNat, FlywheelAssumption DEF SupplierDelta
  <2> QED
    BY <2>1
<1> HIDE DEF state, delta
<1>6. accrued \in [Accounts -> Nat]
  BY <1>2, <1>5
<1>7. state.index \in Nat
  BY <1>3 DEF MarketState
<1>8. reached \in [Accounts -> Nat]
  BY <1>2, <1>7
<1> HIDE DEF reached, accrued
<1>9. indices \in [Markets -> [Accounts -> Nat]] /\ supply \in [Markets -> MarketState]
  BY <1>2, <1>3, <1>8
<1>10. \A x \in Markets : supply[x].block <= Now
  BY <1>2, <1>3 DEF RewardInv, Now
<1> HIDE DEF indices, supply
<1>11. after \in FlywheelBooks
  BY <1>1, <1>6, <1>9 DEF FlywheelBooks
<1>12. /\ after.supply = supply /\ after.borrow = F.borrow
       /\ after.borrowerIndex = F.borrowerIndex /\ after.claimed = F.claimed
  BY <1>1 DEF FlywheelBooks
<1> HIDE DEF after
<1> QED
  BY <1>4, <1>10, <1>11, <1>12 DEF RewardInv

\* distributeBorrowerBrainiac of one account.
LEMMA SettleBorrowerInv ==
  ASSUME NEW F, RewardInv(F, Now), blockNumber \in Nat,
         NEW M, NEW m \in Markets, BooksInv(M[m], blockNumber), NEW u \in Accounts
  PROVE  /\ RewardInv(SettleBorrower(F, M, m, u), Now)
         /\ SettleBorrower(F, M, m, u).claimed = F.claimed
<1> DEFINE state   == BorrowNow(F, M, m)
           delta   == BorrowerDelta(F, M, m, u, state.index)
           borrow  == [F.borrow EXCEPT ![m] = state]
           reached == [F.borrowerIndex[m] EXCEPT ![u] = state.index]
           indices == [F.borrowerIndex EXCEPT ![m] = reached]
           accrued == [F.accrued EXCEPT ![u] = F.accrued[u] + delta]
           after   == [F EXCEPT !.borrow = borrow, !.borrowerIndex = indices,
                                !.accrued = accrued]
<1>1. F \in FlywheelBooks
  BY DEF RewardInv
<1>2. /\ F.borrow \in [Markets -> MarketState]
      /\ F.borrowerIndex \in [Markets -> [Accounts -> Nat]]
      /\ F.accrued \in [Accounts -> Nat]
  BY <1>1 DEF FlywheelBooks
<1>3. state \in MarketState /\ state.block = Now /\ state.index >= F.borrow[m].index
  BY IndicesType
<1>4. SettleBorrower(F, M, m, u) = after
  BY <1>1, <1>2 DEF SettleBorrower, FlywheelBooks
<1>5. /\ F.borrow[m].index \in Nat /\ state.index \in Nat
      /\ F.borrowerIndex[m][u] \in Nat /\ F.borrowerIndex[m][u] <= F.borrow[m].index
  BY <1>2, <1>3 DEF RewardInv, MarketState
<1>6. delta \in Nat
  <2>1. PerIndex(M, m, BorrowBalanceStored(M[m], u)) \in Nat
    BY BorrowBalanceType, PerIndexType
  <2>2. state.index - F.borrowerIndex[m][u] \in Nat
    BY <1>3, <1>5
  <2>3. PerIndex(M, m, BorrowBalanceStored(M[m], u))
          * (state.index - F.borrowerIndex[m][u]) \in Nat
    BY <2>1, <2>2, TimesNat
  <2> QED
    BY <2>3, DivNat, FlywheelAssumption DEF BorrowerDelta
<1> HIDE DEF state, delta
<1>7. accrued \in [Accounts -> Nat]
  BY <1>2, <1>6
<1>8. reached \in [Accounts -> Nat] /\ \A x \in Accounts : reached[x] <= state.index
  BY <1>2, <1>3, <1>5 DEF RewardInv, MarketState
<1> HIDE DEF reached, accrued
<1>9. indices \in [Markets -> [Accounts -> Nat]] /\ borrow \in [Markets -> MarketState]
  BY <1>2, <1>3, <1>8
<1>10. \A x \in Markets :
         /\ borrow[x].block <= Now
         /\ \A y \in Accounts : indices[x][y] <= borrow[x].index
  BY <1>2, <1>3, <1>8 DEF RewardInv, Now
<1> HIDE DEF indices, borrow
<1>11. after \in FlywheelBooks
  BY <1>1, <1>7, <1>9 DEF FlywheelBooks
<1>12. /\ after.supply = F.supply /\ after.borrow = borrow
       /\ after.borrowerIndex = indices /\ after.claimed = F.claimed
  BY <1>1 DEF FlywheelBooks
<1> HIDE DEF after
<1> QED
  BY <1>4, <1>10, <1>11, <1>12 DEF RewardInv

\* A grant takes no more than the comptroller has.
LEMMA PaidOutInv ==
  ASSUME NEW F, RewardInv(F, Now), NEW u \in Accounts, NEW n \in 0..F.balance
  PROVE  /\ RewardInv(PaidOut(F, u, n), Now)
         /\ \A x \in Accounts : PaidOut(F, u, n).claimed[x] >= F.claimed[x]
<1> DEFINE accrued == [F.accrued EXCEPT ![u] = 0]
           balance == F.balance - n
           claimed == [F.claimed EXCEPT ![u] = F.claimed[u] + n]
           after   == [F EXCEPT !.accrued = accrued, !.balance = balance,
                                !.claimed = claimed]
<1>1. F \in FlywheelBooks
  BY DEF RewardInv
<1>2. F.accrued \in [Accounts -> Nat] /\ F.claimed \in [Accounts -> Nat] /\ F.balance \in Nat
  BY <1>1 DEF FlywheelBooks
<1>3. PaidOut(F, u, n) = after
  BY <1>1, <1>2 DEF PaidOut, FlywheelBooks
<1>4. accrued \in [Accounts -> Nat] /\ balance \in Nat /\ claimed \in [Accounts -> Nat]
  BY <1>2
<1>5. \A x \in Accounts : claimed[x] >= F.claimed[x]
  BY <1>2
<1> HIDE DEF accrued, balance, claimed
<1>6. after \in FlywheelBooks
  BY <1>1, <1>4 DEF FlywheelBooks
<1>7. /\ after.supply = F.supply /\ after.borrow = F.borrow
      /\ after.borrowerIndex = F.borrowerIndex /\ after.claimed = claimed
  BY <1>1 DEF FlywheelBooks
<1> HIDE DEF after
<1> QED
  BY <1>3, <1>5, <1>6, <1>7 DEF RewardInv

-----------------------------------------------------------------------------
(* Claims: the flywheel and the books a claim threads through its grants *)

\* What holds between the steps of a claim: both books in order, nobody's debt
\* changed, nobody's paid rewards taken back.
Working(s) ==
  /\ RewardInv(s.f, Now)
  /\ \A u \in Accounts : s.f.claimed[u] >= flywheel.claimed[u]
  /\ s.M \in [Markets -> MarketBooks]
  /\ \A m \in Markets : /\ BooksInv(s.M[m], blockNumber)
                        /\ s.M[m].principal = market[m].principal

\* A grant, also one paid by minting brBRN in the claim.
LEMMA GrantedWorks ==
  ASSUME blockNumber \in Nat, RewardInv(flywheel, Now),
         NEW f, NEW M, Working([f |-> f, M |-> M]), NEW u \in Accounts,
         NEW bankrupt \in BOOLEAN, NEW collateral \in BOOLEAN,
         CanGrant([f |-> f, M |-> M], u, bankrupt, collateral)
  PROVE  Working(Granted([f |-> f, M |-> M], u, bankrupt))
<1> DEFINE s == [f |-> f, M |-> M]
           n == f.accrued[u]
<1>1. /\ RewardInv(f, Now) /\ f \in FlywheelBooks
      /\ \A x \in Accounts : f.claimed[x] >= flywheel.claimed[x]
      /\ M \in [Markets -> MarketBooks]
      /\ \A m \in Markets : /\ BooksInv(M[m], blockNumber)
                            /\ M[m].principal = market[m].principal
  BY DEF Working, RewardInv
<1>2. /\ f.claimed \in [Accounts -> Nat] /\ flywheel.claimed \in [Accounts -> Nat]
      /\ f.balance \in Nat
  BY <1>1 DEF RewardInv, FlywheelBooks
<1>3. CASE ~GrantDue(s, u)
  BY <1>3 DEF Granted
<1>4. CASE GrantDue(s, u) /\ ~bankrupt
  <2>1. n \in 0..f.balance
    BY <1>2, <1>4 DEF GrantDue
  <2>2. Granted(s, u, bankrupt) = [f |-> PaidOut(f, u, n), M |-> M]
    BY <1>4 DEF Granted
  <2>3. /\ RewardInv(PaidOut(f, u, n), Now)
        /\ \A x \in Accounts : PaidOut(f, u, n).claimed[x] >= f.claimed[x]
    BY <1>1, <2>1, PaidOutInv
  <2>4. PaidOut(f, u, n).claimed \in [Accounts -> Nat]
    BY <2>3 DEF RewardInv, FlywheelBooks
  <2>5. \A x \in Accounts : PaidOut(f, u, n).claimed[x] >= flywheel.claimed[x]
    BY <1>1, <1>2, <2>3, <2>4
  <2> QED
    BY <1>1, <2>2, <2>3, <2>5 DEF Working
<1>5. CASE GrantDue(s, u) /\ bankrupt
  <2> DEFINE b == BRNMarket
             t == Accrued(M[b])
             F == SettleSuppliers(f, M, b, {u})
             minted == MintFresh(t, u, n)
  <2>1. /\ b \in Markets /\ CanAccrue(M[b])
        /\ ExchangeRateKnown(t) /\ ExchangeRate(t) > 0
        /\ CanSettleSuppliers(f, M, b, {u})
    BY <1>5 DEF CanGrant
  <2>2. n \in 1..f.balance /\ n \in Nat
    BY <1>2, <1>5 DEF GrantDue
  <2>3. RewardInv(F, Now) /\ F.claimed = f.claimed
    BY <1>1, <2>1, SettleSuppliersInv
  <2>4. F.balance = f.balance
    BY <1>1 DEF SettleSuppliers, FlywheelBooks
  <2>5. BooksInv(t, blockNumber) /\ t.principal = M[b].principal
    BY <1>1, <2>1, AccruedInv
  <2> HIDE DEF t, F
  <2>6. BooksInv(minted, blockNumber) /\ minted.principal = M[b].principal
    BY <2>1, <2>2, <2>5, MintFreshInv
  <2>7. n \in 0..F.balance
    BY <1>2, <2>2, <2>4
  <2>8. /\ RewardInv(PaidOut(F, u, n), Now)
        /\ \A x \in Accounts : PaidOut(F, u, n).claimed[x] >= F.claimed[x]
    BY <2>3, <2>7, PaidOutInv
  <2>9. Granted(s, u, bankrupt) = [f |-> PaidOut(F, u, n), M |-> [M EXCEPT ![b] = minted]]
    BY <1>5 DEF Granted, t, F
  <2> HIDE DEF minted, n
  <2>10. [M EXCEPT ![b] = minted] \in [Markets -> MarketBooks]
    BY <1>1, <2>6 DEF BooksInv
  <2>11. \A m \in Markets :
           /\ BooksInv([M EXCEPT ![b] = minted][m], blockNumber)
           /\ [M EXCEPT ![b] = minted][m].principal = market[m].principal
    BY <1>1, <2>1, <2>6
  <2>12. PaidOut(F, u, n).claimed \in [Accounts -> Nat]
    BY <2>8 DEF RewardInv, FlywheelBooks
  <2>13. \A x \in Accounts : PaidOut(F, u, n).claimed[x] >= flywheel.claimed[x]
    BY <1>1, <1>2, <2>3, <2>8, <2>12
  <2> QED
    BY <2>8, <2>9, <2>10, <2>11, <2>13 DEF Working
<1> QED
  BY <1>3, <1>4, <1>5

\* claimBrainiac: the books it leaves are in order and no debt has changed.
LEMMA ClaimWorks ==
  ASSUME WellFormed, RewardInv(flywheel, Now), NEW u \in Accounts, NEW m \in Markets,
         NEW borrowers \in BOOLEAN, NEW suppliers \in BOOLEAN, NEW collateral \in BOOLEAN,
         ClaimBrainiac(u, m, borrowers, suppliers, collateral)
  PROVE  /\ Working([f |-> flywheel', M |-> market'])
         /\ UNCHANGED <<blockNumber, membershipVars, riskVars>>
         /\ wallet' \in [Markets -> [Holders -> Nat]]
<1> DEFINE bankrupt == Shortfall(market, u)
           start == [f |-> flywheel, M |-> market]
           debt  == IF borrowers THEN [start EXCEPT !.f = SettleBorrower(@, market, m, u)]
                    ELSE start
           paid  == IF borrowers THEN Granted(debt, u, bankrupt) ELSE start
           stake == IF suppliers THEN [paid EXCEPT !.f = SettleSuppliers(@, paid.M, m, {u})]
                    ELSE paid
           end   == IF suppliers THEN Granted(stake, u, bankrupt) ELSE paid
<1>1. /\ borrowers => CanGrant(debt, u, bankrupt, collateral)
      /\ suppliers => CanSettleSuppliers(paid.f, paid.M, m, {u})
      /\ suppliers => CanGrant(stake, u, bankrupt, collateral)
      /\ flywheel' = end.f /\ market' = end.M
      /\ wallet' = IF bankrupt \/ BRNMarket = NoMarket THEN wallet
                   ELSE [wallet EXCEPT ![BRNMarket] =
                           Receive(wallet[BRNMarket], u, end.f.claimed[u] - flywheel.claimed[u])]
      /\ UNCHANGED <<blockNumber, membershipVars, riskVars>>
  BY DEF ClaimBrainiac
<1>2. /\ blockNumber \in Nat /\ market \in [Markets -> MarketBooks]
      /\ \A x \in Markets : BooksInv(market[x], blockNumber)
      /\ wallet \in [Markets -> [Holders -> Nat]] /\ Accounts \subseteq Holders
  BY WellFormedFacts DEF WellFormed, TypeOK
<1>3. bankrupt \in BOOLEAN
  BY DEF Shortfall, LiquidityKnown
<1>4. flywheel.claimed \in [Accounts -> Nat]
  BY DEF RewardInv, FlywheelBooks
<1>5. Working(start)
  BY <1>2, <1>4 DEF Working
<1> HIDE DEF bankrupt
<1>6. Working(paid)
  <2>1. CASE borrowers
    <3> DEFINE f == SettleBorrower(flywheel, market, m, u)
    <3>1. debt = [f |-> f, M |-> market]
      BY <2>1
    <3>2. RewardInv(f, Now) /\ f.claimed = flywheel.claimed
      BY <1>2, SettleBorrowerInv
    <3> HIDE DEF f
    <3>3. Working([f |-> f, M |-> market])
      BY <1>2, <1>4, <3>2 DEF Working
    <3>4. CanGrant([f |-> f, M |-> market], u, bankrupt, collateral)
      BY <1>1, <2>1, <3>1
    <3>5. Working(Granted([f |-> f, M |-> market], u, bankrupt))
      BY <1>2, <1>3, <3>3, <3>4, GrantedWorks
    <3> QED
      BY <2>1, <3>1, <3>5
  <2> QED
    BY <1>5, <2>1
<1>7. paid = [f |-> paid.f, M |-> paid.M]
  BY DEF Granted
<1> HIDE DEF paid, debt
<1>8. Working(end)
  <2>1. CASE suppliers
    <3> DEFINE f == SettleSuppliers(paid.f, paid.M, m, {u})
               M == paid.M
    <3>1. stake = [f |-> f, M |-> M]
      BY <1>7, <2>1
    <3>2. /\ RewardInv(paid.f, Now) /\ BooksInv(M[m], blockNumber)
          /\ CanSettleSuppliers(paid.f, M, m, {u})
      BY <1>1, <1>6, <2>1 DEF Working
    <3>3. RewardInv(f, Now) /\ f.claimed = paid.f.claimed
      BY <1>2, <3>2, SettleSuppliersInv
    <3> HIDE DEF f
    <3>4. Working([f |-> f, M |-> M])
      BY <1>6, <3>3 DEF Working
    <3> HIDE DEF M
    <3>5. CanGrant([f |-> f, M |-> M], u, bankrupt, collateral)
      BY <1>1, <2>1, <3>1
    <3>6. Working(Granted([f |-> f, M |-> M], u, bankrupt))
      BY <1>2, <1>3, <3>4, <3>5, GrantedWorks
    <3> QED
      BY <2>1, <3>1, <3>6
  <2> QED
    BY <1>6, <2>1
<1>9. end = [f |-> end.f, M |-> end.M]
  BY <1>7 DEF Granted
<1> HIDE DEF stake, end
<1>10. end.f.claimed[u] - flywheel.claimed[u] \in Nat
  <2>1. end.f.claimed \in [Accounts -> Nat] /\ end.f.claimed[u] >= flywheel.claimed[u]
    BY <1>8 DEF Working, RewardInv, FlywheelBooks
  <2> QED
    BY <1>4, <2>1
<1>11. wallet' \in [Markets -> [Holders -> Nat]]
  <2>1. CASE bankrupt \/ BRNMarket = NoMarket
    BY <1>1, <1>2, <2>1
  <2>2. CASE ~bankrupt /\ BRNMarket # NoMarket
    <3>1. BRNMarket \in Markets
      BY <2>2, FlywheelAssumption
    <3>2. Receive(wallet[BRNMarket], u, end.f.claimed[u] - flywheel.claimed[u])
            \in [Holders -> Nat]
      BY <1>2, <1>10, <3>1, ReceiveType
    <3> QED
      BY <1>1, <1>2, <2>2, <3>1, <3>2, WalletStep
  <2> QED
    BY <2>1, <2>2
<1> QED
  BY <1>1, <1>8, <1>9, <1>11
-----------------------------------------------------------------------------
(* Every transaction *)

\* A claim or a grant: the memberships and everybody's debt stay as they were.
LEMMA UntouchedDebtsIInv ==
  ASSUME IInv, market' \in [Markets -> MarketBooks],
         \A m \in Markets : /\ BooksInv(market'[m], blockNumber)
                            /\ market'[m].principal = market[m].principal,
         wallet' \in [Markets -> [Holders -> Nat]],
         UNCHANGED <<blockNumber, membershipVars, riskVars>>
  PROVE  IInv'
<1>1. WellFormed
  BY DEF IInv
<1>2. TypeOK'
  BY <1>1 DEF WellFormed, TypeOK, membershipVars, riskVars
<1>3. \A m \in Markets : BooksInv(market'[m], blockNumber')
  OBVIOUS
<1>4. WellFormed'
  BY <1>1, <1>2, <1>3 DEF WellFormed, riskVars
<1>5. NewDebtorsEnter
  BY DEF NewDebtorsEnter
<1> QED
  BY <1>4, <1>5, SameMembership

LEMMA ClaimIInv ==
  ASSUME IInv, RewardInv(flywheel, Now), NEW u \in Accounts, NEW m \in Markets,
         NEW borrowers \in BOOLEAN, NEW suppliers \in BOOLEAN, NEW collateral \in BOOLEAN,
         ClaimBrainiac(u, m, borrowers, suppliers, collateral)
  PROVE  IInv' /\ RewardInv(flywheel', Now)
<1>1. /\ Working([f |-> flywheel', M |-> market'])
      /\ UNCHANGED <<blockNumber, membershipVars, riskVars>>
      /\ wallet' \in [Markets -> [Holders -> Nat]]
  BY ClaimWorks DEF IInv
<1>2. /\ RewardInv(flywheel', Now)
      /\ market' \in [Markets -> MarketBooks]
      /\ \A x \in Markets : /\ BooksInv(market'[x], blockNumber)
                            /\ market'[x].principal = market[x].principal
  BY <1>1 DEF Working
<1> QED
  BY <1>1, <1>2, UntouchedDebtsIInv

LEMMA GrantIInv ==
  ASSUME IInv, RewardInv(flywheel, Now), NEW u \in Accounts, NEW n \in Nat, GrantBRN(u, n)
  PROVE  IInv' /\ RewardInv(flywheel', Now)
<1>1. /\ n <= flywheel.balance
      /\ flywheel' = [flywheel EXCEPT !.balance = flywheel.balance - n]
      /\ wallet' = IF BRNMarket = NoMarket THEN wallet
                   ELSE [wallet EXCEPT ![BRNMarket] = Receive(wallet[BRNMarket], u, n)]
      /\ UNCHANGED <<blockNumber, market, membershipVars, riskVars>>
  BY DEF GrantBRN
<1>2. RewardInv(flywheel', Now)
  <2>1. flywheel \in FlywheelBooks
    BY DEF RewardInv
  <2>2. flywheel.balance - n \in Nat
    BY <1>1, <2>1 DEF FlywheelBooks
  <2>3. /\ flywheel' \in FlywheelBooks
        /\ flywheel'.supply = flywheel.supply /\ flywheel'.borrow = flywheel.borrow
        /\ flywheel'.borrowerIndex = flywheel.borrowerIndex
    BY <1>1, <2>1, <2>2 DEF FlywheelBooks
  <2> QED
    BY <2>3 DEF RewardInv
<1>3. /\ wallet \in [Markets -> [Holders -> Nat]] /\ Accounts \subseteq Holders
      /\ market \in [Markets -> MarketBooks]
      /\ \A x \in Markets : BooksInv(market[x], blockNumber)
  BY WellFormedFacts DEF IInv, WellFormed, TypeOK
<1>4. wallet' \in [Markets -> [Holders -> Nat]]
  <2>1. CASE BRNMarket = NoMarket
    BY <1>1, <1>3, <2>1
  <2>2. CASE BRNMarket # NoMarket
    <3>1. BRNMarket \in Markets
      BY <2>2, FlywheelAssumption
    <3>2. Receive(wallet[BRNMarket], u, n) \in [Holders -> Nat]
      BY <1>3, <3>1, ReceiveType
    <3> QED
      BY <1>1, <1>3, <2>2, <3>1, <3>2, WalletStep
  <2> QED
    BY <2>1, <2>2
<1> QED
  BY <1>1, <1>2, <1>3, <1>4, UntouchedDebtsIInv

\* The admin's changes of a speed leave the lending market alone.
LEMMA SpeedRewards ==
  ASSUME IInv, RewardInv(flywheel, Now), NEW m \in Markets, NEW s \in Nat,
         ChangeSpeed(m, s) \/ StartSpeed(m, s)
  PROVE  RewardInv(flywheel', Now) /\ UNCHANGED vars
<1> DEFINE Started(state) ==
             IF state.index = 0 /\ state.block = 0
             THEN [index |-> BrainiacInitialIndex, block |-> Now] ELSE state
<1>1. PICK supplyNow, borrowNow :
        /\ flywheel' = [flywheel EXCEPT !.speed[m] = s, !.supply[m] = supplyNow,
                                        !.borrow[m] = borrowNow]
        /\ \/ /\ supplyNow = SupplyNow(flywheel, market, m)
              /\ borrowNow = BorrowNow(flywheel, market, m)
           \/ /\ supplyNow = Started(flywheel.supply[m])
              /\ borrowNow = Started(flywheel.borrow[m])
  BY DEF ChangeSpeed, StartSpeed
<1>2. flywheel \in FlywheelBooks /\ Now \in Nat
  BY WellFormedFacts DEF RewardInv, IInv, Now
<1>3. /\ flywheel.speed \in [Markets -> Nat]
      /\ flywheel.supply \in [Markets -> MarketState]
      /\ flywheel.borrow \in [Markets -> MarketState]
  BY <1>2 DEF FlywheelBooks
<1>4. /\ supplyNow \in MarketState /\ supplyNow.block <= Now
      /\ borrowNow \in MarketState /\ borrowNow.block <= Now
      /\ borrowNow.index >= flywheel.borrow[m].index
  <2>1. CASE /\ supplyNow = SupplyNow(flywheel, market, m)
             /\ borrowNow = BorrowNow(flywheel, market, m)
    BY <1>2, <2>1, IndicesType, WellFormedFacts DEF IInv
  <2>2. CASE /\ supplyNow = Started(flywheel.supply[m])
             /\ borrowNow = Started(flywheel.borrow[m])
    BY <1>2, <1>3, <2>2, FlywheelAssumption
    DEF MarketState, RewardInv, BrainiacInitialIndex
  <2> QED
    BY <1>1, <2>1, <2>2
<1> DEFINE speed  == [flywheel.speed EXCEPT ![m] = s]
           supply == [flywheel.supply EXCEPT ![m] = supplyNow]
           borrow == [flywheel.borrow EXCEPT ![m] = borrowNow]
           after  == [flywheel EXCEPT !.speed = speed, !.supply = supply, !.borrow = borrow]
<1>5. flywheel' = after
  BY <1>1, <1>2 DEF FlywheelBooks
<1>6. /\ speed \in [Markets -> Nat] /\ supply \in [Markets -> MarketState]
      /\ borrow \in [Markets -> MarketState]
  BY <1>3, <1>4
<1>7. \A x \in Markets :
        /\ supply[x].block <= Now /\ borrow[x].block <= Now
        /\ borrow[x].index >= flywheel.borrow[x].index
  BY <1>3, <1>4 DEF RewardInv, MarketState
<1> HIDE DEF speed, supply, borrow
<1>8. after \in FlywheelBooks
  BY <1>2, <1>6 DEF FlywheelBooks
<1>9. /\ after.supply = supply /\ after.borrow = borrow
      /\ after.borrowerIndex = flywheel.borrowerIndex
  BY <1>2 DEF FlywheelBooks
<1> HIDE DEF after
<1>10. \A x \in Markets, v \in Accounts : flywheel.borrowerIndex[x][v] <= borrow[x].index
  <2> TAKE x \in Markets, v \in Accounts
  <2>1. /\ flywheel.borrowerIndex[x][v] \in Nat /\ flywheel.borrow[x].index \in Nat
        /\ borrow[x].index \in Nat
    BY <1>2, <1>3, <1>6 DEF FlywheelBooks, MarketState
  <2> QED
    BY <1>7, <2>1 DEF RewardInv
<1>11. RewardInv(flywheel', Now)
  BY <1>5, <1>7, <1>8, <1>9, <1>10 DEF RewardInv
<1> QED
  BY <1>11 DEF ChangeSpeed, StartSpeed
\* The hooks' two forms keep the reward books in order.
LEMMA SuppliersSettledRewards ==
  ASSUME IInv, RewardInv(flywheel, Now), NEW m \in Markets, NEW a, NEW b,
         SuppliersSettled(m, a, b)
  PROVE  RewardInv(flywheel', Now)
  BY WellFormedFacts, SettleSuppliersInv DEF IInv, SuppliersSettled

LEMMA BorrowerSettledRewards ==
  ASSUME IInv, RewardInv(flywheel, Now), NEW m \in Markets, NEW u \in Accounts,
         CanAccrue(market[m]), BorrowerSettled(m, u)
  PROVE  RewardInv(flywheel', Now)
<1>1. /\ blockNumber \in Nat /\ market \in [Markets -> MarketBooks]
      /\ BooksInv(Accrued(market[m]), blockNumber)
  BY WellFormedFacts DEF IInv, WellFormed, TypeOK
<1>2. BooksInv(Books(m)[m], blockNumber)
  BY <1>1 DEF Books
<1> QED
  BY <1>1, <1>2, SettleBorrowerInv DEF BorrowerSettled

\* A liquidation settles the borrower's debt, then both suppliers.
LEMMA LiquidateRewards ==
  ASSUME IInv, RewardInv(flywheel, Now), NEW a \in Accounts, NEW u \in Accounts,
         NEW m \in Markets, NEW c \in Markets, NEW n \in Nat,
         LiquidateAndSettle(a, u, m, c, n)
  PROVE  RewardInv(flywheel', Now)
<1> DEFINE fresh  == [market EXCEPT ![m] = Accrued(market[m])]
           repaid == SettleBorrower(flywheel, fresh, m, u)
           both   == {u, a}
<1>1. /\ CanAccrue(market[m])
      /\ CanSettleSuppliers(repaid, market, c, both)
      /\ flywheel' = SettleSuppliers(repaid, market, c, both)
  BY DEF LiquidateAndSettle, LiquidateBorrow
<1>2. /\ blockNumber \in Nat /\ market \in [Markets -> MarketBooks]
      /\ BooksInv(Accrued(market[m]), blockNumber) /\ BooksInv(market[c], blockNumber)
  BY <1>1, WellFormedFacts DEF IInv, WellFormed, TypeOK
<1>3. BooksInv(fresh[m], blockNumber)
  BY <1>2
<1> HIDE DEF fresh
<1>4. RewardInv(repaid, Now)
  BY <1>2, <1>3, SettleBorrowerInv
<1> HIDE DEF repaid, both
<1> QED
  BY <1>1, <1>2, <1>4, SettleSuppliersInv

\* Every transaction with a settling hook is one of the lending market, or none
\* if it is a transfer refused after its hook.
LEMMA SettlingIInv ==
  ASSUME IInv, RewardInv(flywheel, Now), NEW m \in Markets, SettlingAction(m)
  PROVE  IInv' /\ RewardInv(flywheel', Now) /\ blockNumber' = blockNumber
<1> USE InputsNat
<1> DEFINE Kept == IInv' /\ RewardInv(flywheel', Now) /\ blockNumber' = blockNumber
<1>1. ASSUME UserAction(m), blockNumber' = blockNumber, RewardInv(flywheel', Now)
      PROVE  Kept
  BY <1>1, UserActionIInv
<1>2. ASSUME NEW a \in Accounts, NEW b \in Accounts, RepayAllAndSettle(a, b, m)
      PROVE  Kept
  <2>1. /\ RepayAll(a, b, m) /\ BorrowerSettled(m, b)
        /\ CanAccrue(market[m]) /\ blockNumber' = blockNumber
    BY <1>2 DEF RepayAllAndSettle, RepayAll, Repay
  <2> QED
    BY <1>1, <2>1, BorrowerSettledRewards DEF UserAction
<1>3. ASSUME NEW a \in Accounts, NEW n \in Amounts, RedeemAndSettle(a, m, n)
      PROVE  Kept
  <2>1. /\ Redeem(a, m, n) \/ RedeemUnderlying(a, m, n)
        /\ SuppliersSettled(m, a, a) /\ blockNumber' = blockNumber
    BY <1>3 DEF RedeemAndSettle, Redeem, RedeemUnderlying, RedeemBoth
  <2> QED
    BY <1>1, <2>1, SuppliersSettledRewards DEF UserAction
<1>4. ASSUME NEW a \in Accounts, NEW n \in Amounts, RedeemRejected(a, m, n)
      PROVE  Kept
  <2>1. /\ AccrueInterest(m) /\ SuppliersSettled(m, a, a) /\ blockNumber' = blockNumber
    BY <1>4 DEF RedeemRejected, AccrueInterest
  <2> QED
    BY <1>1, <2>1, SuppliersSettledRewards DEF UserAction
<1>5. ASSUME NEW a \in Accounts, NEW n \in Amounts, BorrowAndSettle(a, m, n)
      PROVE  Kept
  <2>1. /\ Borrow(a, m, n) /\ BorrowerSettled(m, a)
        /\ CanAccrue(market[m]) /\ blockNumber' = blockNumber
    BY <1>5 DEF BorrowAndSettle, Borrow
  <2> QED
    BY <1>1, <2>1, BorrowerSettledRewards DEF UserAction
<1>6. ASSUME NEW a \in Accounts, NEW n \in Amounts, BorrowRejectedLate(a, m, n)
      PROVE  Kept
  <2>1. /\ BorrowRejected(a, m, n) /\ CanAccrue(market[m]) /\ blockNumber' = blockNumber
        /\ BorrowerSettled(m, a) \/ UNCHANGED flywheel
    BY <1>6 DEF BorrowRejectedLate, BorrowRejected
  <2> QED
    BY <1>1, <2>1, BorrowerSettledRewards DEF UserAction
<1>7. ASSUME NEW a \in Accounts, NEW b \in Accounts, NEW n \in Amounts, MintAndSettle(a, b, m, n)
      PROVE  Kept
  <2>1. Mint(a, b, m, n) /\ SuppliersSettled(m, b, b) /\ blockNumber' = blockNumber
    BY <1>7 DEF MintAndSettle, Mint
  <2> QED
    BY <1>1, <2>1, SuppliersSettledRewards DEF UserAction
<1>8. ASSUME NEW a \in Accounts, NEW b \in Accounts, NEW n \in Amounts, RepayAndSettle(a, b, m, n)
      PROVE  Kept
  <2>1. /\ Repay(a, b, m, n) /\ BorrowerSettled(m, b)
        /\ CanAccrue(market[m]) /\ blockNumber' = blockNumber
    BY <1>8 DEF RepayAndSettle, Repay
  <2> QED
    BY <1>1, <2>1, BorrowerSettledRewards DEF UserAction
<1>9. ASSUME NEW a \in Accounts, NEW b \in Accounts, NEW n \in Amounts,
             TransferAndSettle(a, b, m, n)
      PROVE  Kept
  <2>1. Transfer(a, b, m, n) /\ SuppliersSettled(m, a, b) /\ blockNumber' = blockNumber
    BY <1>9 DEF TransferAndSettle, Transfer
  <2> QED
    BY <1>1, <2>1, SuppliersSettledRewards DEF UserAction
<1>10. ASSUME NEW a \in Accounts, NEW b \in Accounts, NEW n \in Amounts,
              TransferRejected(a, b, m, n)
       PROVE  Kept
  <2>1. SuppliersSettled(m, a, b) /\ UNCHANGED vars /\ blockNumber' = blockNumber
    BY <1>10 DEF TransferRejected, vars, tokenVars
  <2> QED
    BY <2>1, NextIInv, SuppliersSettledRewards
<1>11. ASSUME NEW a \in Accounts, NEW b \in Accounts, NEW c \in Markets, NEW n \in Amounts,
              LiquidateAndSettle(a, b, m, c, n)
       PROVE  Kept
  <2>1. LiquidateBorrow(a, b, m, c, n) /\ blockNumber' = blockNumber
    BY <1>11 DEF LiquidateAndSettle, LiquidateBorrow
  <2> QED
    BY <1>1, <1>11, <2>1, LiquidateRewards DEF UserAction
<1> QED
  BY <1>2, <1>3, <1>4, <1>5, <1>6, <1>7, <1>8, <1>9, <1>10, <1>11 DEF SettlingAction

\* The invariant of the flywheel and the market under it.
FInv == IInv /\ RewardInv(flywheel, Now)

\* As blocks pass, what was in order at a block stays in order at a later one.
LEMMA LaterRewards ==
  ASSUME IInv, RewardInv(flywheel, Now), UNCHANGED flywheel, PlainAction
  PROVE  RewardInv(flywheel', Now')
<1>1. blockNumber \in Nat
  BY WellFormedFacts DEF IInv
<1>2. blockNumber' = blockNumber \/ blockNumber' = blockNumber + 1
  <2>1. CASE AdvanceBlock
    BY <2>1, SMTT(30) DEF AdvanceBlock
  <2>2. CASE AdminAction
    BY <2>2 DEF AdminAction, SetCloseFactor, SetLiquidationIncentive, SetTreasuryPercent,
                SetPaused, SupportMarket, SetCollateralFactor, SetMarketBorrowCap,
                SetReserveFactor, SetInterestRateModel, ReduceReserves, tokenVars
  <2>3. CASE \E c \in PriceChanges : SetUnderlyingPrice(c[1], c[2])
    BY <2>3 DEF SetUnderlyingPrice, tokenVars
  <2>4. ASSUME NEW m \in Markets, NEW a \in Accounts, NEW n \in GiftAmounts,
               Donate(a, m, n) \/ AddReserves(a, m, n)
        PROVE  blockNumber' = blockNumber
    BY <2>4 DEF Donate, AddReserves
  <2>5. ASSUME NEW m \in Markets, NEW a \in Accounts, EnterMarket(a, m) \/ ExitMarket(a, m)
        PROVE  blockNumber' = blockNumber
    BY <2>5 DEF EnterMarket, ExitMarket, tokenVars
  <2>6. ASSUME NEW m \in Markets, AccrueInterest(m)
        PROVE  blockNumber' = blockNumber
    BY <2>6 DEF AccrueInterest
  <2> QED
    BY <2>1, <2>2, <2>3, <2>4, <2>5, <2>6 DEF PlainAction
<1>3. Now <= Now' /\ Now \in Nat /\ Now' \in Nat
  <2>1. Now = blockNumber + 1 /\ Now' = blockNumber' + 1
    BY DEF Now
  <2> QED
    BY <1>1, <1>2, <2>1
<1>4. \A m \in Markets : flywheel.supply[m].block \in Nat /\ flywheel.borrow[m].block \in Nat
  BY DEF RewardInv, FlywheelBooks, MarketState
<1> QED
  BY <1>3, <1>4 DEF RewardInv

LEMMA NextFInv == FInv /\ [FNext]_flywheelVars => FInv'
<1> SUFFICES ASSUME FInv, [FNext]_flywheelVars
             PROVE  FInv'
  OBVIOUS
<1>0. IInv /\ RewardInv(flywheel, Now)
  BY DEF FInv
<1>1. ASSUME IInv', RewardInv(flywheel', Now')
      PROVE  FInv'
  BY <1>1 DEF FInv
<1>2. ASSUME IInv', RewardInv(flywheel', Now), blockNumber' = blockNumber
      PROVE  FInv'
  BY <1>1, <1>2 DEF Now
<1>3. CASE PlainAction /\ UNCHANGED flywheel
  <2>1. IInv'
    BY <1>0, <1>3, NextIInv DEF PlainAction, Next, UserAction
  <2> QED
    BY <1>0, <1>1, <1>3, <2>1, LaterRewards
<1>4. ASSUME NEW m \in Markets, SettlingAction(m)
      PROVE  FInv'
  BY <1>0, <1>2, <1>4, SettlingIInv
<1>5. ASSUME NEW m \in Markets, NEW u \in Accounts, NEW borrowers \in BOOLEAN,
             NEW suppliers \in BOOLEAN, NEW collateral \in BOOLEAN,
             ClaimBrainiac(u, m, borrowers, suppliers, collateral)
      PROVE  FInv'
  <2>1. blockNumber' = blockNumber
    BY <1>5 DEF ClaimBrainiac
  <2> QED
    BY <1>0, <1>2, <1>5, <2>1, ClaimIInv
<1>6. ASSUME NEW m \in Markets, NEW s \in Speeds, ChangeSpeed(m, s) \/ StartSpeed(m, s)
      PROVE  FInv'
  <2>1. s \in Nat
    BY FlywheelAssumption
  <2>2. RewardInv(flywheel', Now) /\ UNCHANGED vars
    BY <1>0, <1>6, <2>1, SpeedRewards
  <2>3. IInv' /\ blockNumber' = blockNumber
    BY <1>0, <2>2, NextIInv DEF vars, tokenVars
  <2> QED
    BY <1>2, <2>2, <2>3
<1>7. ASSUME NEW u \in Accounts, NEW n \in Grants, GrantBRN(u, n)
      PROVE  FInv'
  <2>1. n \in Nat /\ blockNumber' = blockNumber
    BY <1>7, FlywheelAssumption DEF GrantBRN
  <2> QED
    BY <1>0, <1>2, <1>7, <2>1, GrantIInv
<1>8. CASE UNCHANGED flywheelVars
  <2>1. UNCHANGED vars /\ flywheel' = flywheel /\ blockNumber' = blockNumber
    BY <1>8 DEF flywheelVars, vars, tokenVars
  <2>2. IInv'
    BY <1>0, <2>1, NextIInv
  <2> QED
    BY <1>0, <1>2, <2>1, <2>2
<1> QED
  BY <1>3, <1>4, <1>5, <1>6, <1>7, <1>8 DEF FNext

LEMMA InitFInv == FInit => FInv
<1> SUFFICES ASSUME FInit
             PROVE  FInv
  OBVIOUS
<1>1. IInv /\ blockNumber = 0
  BY InitIInv DEF FInit, Init, TokenInit
<1>2. FlywheelInit
  BY DEF FInit
<1>3. Now \in Nat /\ BrainiacInitialIndex \in Nat
  BY <1>1, FlywheelAssumption DEF Now, BrainiacInitialIndex
<1>4. /\ flywheel.speed = InitialSpeed
      /\ flywheel.supply = flywheel.borrow
      /\ flywheel.supply \in [Markets -> MarketState]
      /\ \A m \in Markets : flywheel.supply[m].block <= Now
      /\ flywheel.supplierIndex = [m \in Markets |-> [a \in Accounts |-> 0]]
      /\ flywheel.borrowerIndex = [m \in Markets |-> [a \in Accounts |-> 0]]
      /\ flywheel.accrued = [a \in Accounts |-> 0]
      /\ flywheel.balance = InitialBRN
      /\ flywheel.claimed = [a \in Accounts |-> 0]
      /\ DOMAIN flywheel = {"speed", "supply", "borrow", "supplierIndex",
                            "borrowerIndex", "accrued", "balance", "claimed"}
  BY <1>2, <1>3 DEF FlywheelInit, MarketState
<1>5. flywheel \in FlywheelBooks
  BY <1>2, <1>4, FlywheelAssumption DEF FlywheelInit, FlywheelBooks
<1>6. \A m \in Markets : flywheel.borrow[m].index \in Nat
  BY <1>4 DEF MarketState
<1> QED
  BY <1>1, <1>4, <1>5, <1>6 DEF FInv, RewardInv

-----------------------------------------------------------------------------
(* The theorems *)

\* The invariant holds whatever the users, the admin and the claims do.
THEOREM FlywheelInvariance == FSpec => []FInv
  BY InitFInv, NextFInv, PTL DEF FSpec

\* The reward books keep their types: the subtractions of indices and of paid
\* BRN never go below zero, whichever speeds are set and whoever claims when.
THEOREM FlywheelTypeCorrect == FSpec => []FlywheelTypeOK
<1>1. FInv => FlywheelTypeOK
  BY DEF FInv, RewardInv, FlywheelTypeOK
<1> QED
  BY <1>1, FlywheelInvariance, PTL

\* Rewards paid by minting brBRN in the middle of a claim, and grants of BRN, do
\* not disturb what the markets rest on: a debtor is still a member.
THEOREM FlywheelKeepsDebtors == FSpec => []BorrowerIsMember
<1>1. FInv => BorrowerIsMember
  BY DEF FInv, IInv
<1> QED
  BY <1>1, FlywheelInvariance, PTL
-----------------------------------------------------------------------------
(* Refinement: while no market holds BRN itself, the flywheel only watches *)

\* A hook that settles joins a transaction of the market; it adds none.
LEMMA SettlingIsLending ==
  ASSUME NEW m \in Markets, SettlingAction(m)
  PROVE  [Next]_vars
<1>1. UserAction(m) \/ UNCHANGED vars
  <2>1. ASSUME NEW a \in Accounts, NEW b \in Accounts, RepayAllAndSettle(a, b, m)
        PROVE  UserAction(m)
    BY <2>1 DEF RepayAllAndSettle, UserAction
  <2>2. ASSUME NEW a \in Accounts, NEW n \in Amounts,
               \/ RedeemAndSettle(a, m, n) \/ RedeemRejected(a, m, n)
               \/ BorrowAndSettle(a, m, n) \/ BorrowRejectedLate(a, m, n)
        PROVE  UserAction(m)
    BY <2>2 DEF RedeemAndSettle, RedeemRejected, BorrowAndSettle, BorrowRejectedLate,
                UserAction
  <2>3. ASSUME NEW a \in Accounts, NEW b \in Accounts, NEW n \in Amounts,
               \/ MintAndSettle(a, b, m, n) \/ RepayAndSettle(a, b, m, n)
               \/ TransferAndSettle(a, b, m, n)
        PROVE  UserAction(m)
    BY <2>3 DEF MintAndSettle, RepayAndSettle, TransferAndSettle, UserAction
  <2>4. ASSUME NEW a \in Accounts, NEW b \in Accounts, NEW n \in Amounts,
               TransferRejected(a, b, m, n)
        PROVE  UNCHANGED vars
    BY <2>4 DEF TransferRejected
  <2>5. ASSUME NEW a \in Accounts, NEW b \in Accounts, NEW c \in Markets, NEW n \in Amounts,
               LiquidateAndSettle(a, b, m, c, n)
        PROVE  UserAction(m)
    BY <2>5 DEF LiquidateAndSettle, UserAction
  <2> QED
    BY <2>1, <2>2, <2>3, <2>4, <2>5 DEF SettlingAction
<1> QED
  BY <1>1 DEF Next

\* A grant of a claim that cannot mint leaves the books alone.
LEMMA ClaimIsStutter ==
  ASSUME BRNMarket = NoMarket, NEW u \in Accounts, NEW m \in Markets,
         NEW borrowers \in BOOLEAN, NEW suppliers \in BOOLEAN, NEW collateral \in BOOLEAN,
         ClaimBrainiac(u, m, borrowers, suppliers, collateral)
  PROVE  UNCHANGED vars
<1> DEFINE bankrupt == Shortfall(market, u)
           start == [f |-> flywheel, M |-> market]
           debt  == IF borrowers THEN [start EXCEPT !.f = SettleBorrower(@, market, m, u)]
                    ELSE start
           paid  == IF borrowers THEN Granted(debt, u, bankrupt) ELSE start
           stake == IF suppliers THEN [paid EXCEPT !.f = SettleSuppliers(@, paid.M, m, {u})]
                    ELSE paid
           end   == IF suppliers THEN Granted(stake, u, bankrupt) ELSE paid
<1>1. /\ borrowers => CanGrant(debt, u, bankrupt, collateral)
      /\ suppliers => CanGrant(stake, u, bankrupt, collateral)
      /\ market' = end.M
      /\ wallet' = wallet
      /\ UNCHANGED <<blockNumber, membershipVars, riskVars>>
  BY DEF ClaimBrainiac
<1>2. BRNMarket \notin Markets
  BY ComptrollerAssumption
<1>3. ASSUME NEW s, CanGrant(s, u, bankrupt, collateral)
      PROVE  \/ Granted(s, u, bankrupt) = s
             \/ Granted(s, u, bankrupt) = [s EXCEPT !.f = PaidOut(s.f, u, s.f.accrued[u])]
  BY <1>2, <1>3 DEF CanGrant, Granted
<1> HIDE DEF bankrupt
<1>4. debt.M = market /\ debt = [f |-> debt.f, M |-> debt.M]
  OBVIOUS
<1> HIDE DEF debt
<1>5. paid.M = market /\ paid = [f |-> paid.f, M |-> paid.M]
  BY <1>1, <1>3, <1>4
<1> HIDE DEF paid
<1>6. stake.M = market /\ stake = [f |-> stake.f, M |-> stake.M]
  BY <1>5
<1> HIDE DEF stake
<1>7. end.M = market
  BY <1>1, <1>3, <1>5, <1>6
<1> QED
  BY <1>1, <1>7 DEF vars, tokenVars

\* The detailed specification implements the one without rewards: every step of
\* the flywheel is a transaction of the lending market, with the same effect on
\* its books, or none at all (a settlement that reverts can only prevent one).
THEOREM RewardsOnlyWatch == BRNMarket = NoMarket => (FSpec => Spec)
<1> SUFFICES ASSUME BRNMarket = NoMarket
             PROVE  FSpec => Spec
  OBVIOUS
<1>1. FInit => Init
  BY DEF FInit
<1>2. [FNext]_flywheelVars => [Next]_vars
  <2> SUFFICES ASSUME [FNext]_flywheelVars
               PROVE  [Next]_vars
    OBVIOUS
  <2>1. CASE PlainAction
    BY <2>1 DEF PlainAction, Next, UserAction
  <2>2. ASSUME NEW m \in Markets, SettlingAction(m)
        PROVE  [Next]_vars
    BY <2>2, SettlingIsLending
  <2>3. ASSUME NEW m \in Markets, NEW u \in Accounts, NEW borrowers \in BOOLEAN,
               NEW suppliers \in BOOLEAN, NEW collateral \in BOOLEAN,
               ClaimBrainiac(u, m, borrowers, suppliers, collateral)
        PROVE  [Next]_vars
    BY <2>3, ClaimIsStutter
  <2>4. ASSUME NEW m \in Markets, NEW s \in Speeds, ChangeSpeed(m, s) \/ StartSpeed(m, s)
        PROVE  [Next]_vars
    BY <2>4 DEF ChangeSpeed, StartSpeed
  <2>5. ASSUME NEW u \in Accounts, NEW n \in Grants, GrantBRN(u, n)
        PROVE  [Next]_vars
    BY <2>5 DEF GrantBRN, vars, tokenVars
  <2>6. CASE UNCHANGED flywheelVars
    BY <2>6 DEF flywheelVars
  <2> QED
    BY <2>1, <2>2, <2>3, <2>4, <2>5, <2>6 DEF FNext
<1> QED
  BY <1>1, <1>2, PTL DEF FSpec, Spec

-----------------------------------------------------------------------------
(* Conservation: what the lending market keeps in total, and the BRN of the   *)
(* comptroller with it                                                       *)

\* Settling suppliers adds to what they may claim and pays nothing.
LEMMA SuppliersArePaidLater ==
  ASSUME NEW F \in FlywheelBooks, NEW M, NEW m, NEW who
  PROVE  SettleSuppliers(F, M, m, who).balance = F.balance
  BY DEF FlywheelBooks, SettleSuppliers

\* Nor does settling a borrower pay anything.
LEMMA BorrowerIsPaidLater ==
  ASSUME NEW F \in FlywheelBooks, NEW M, NEW m, NEW u
  PROVE  SettleBorrower(F, M, m, u).balance = F.balance
  BY DEF FlywheelBooks, SettleBorrower

LEMMA SettlingActionPaysNothing ==
  ASSUME IInv, RewardInv(flywheel, Now), NEW m \in Markets, SettlingAction(m)
  PROVE  flywheel'.balance = flywheel.balance
<1>1. flywheel \in FlywheelBooks
  BY DEF RewardInv
<1>2. ASSUME NEW u \in Accounts, BorrowerSettled(m, u)
      PROVE  flywheel'.balance = flywheel.balance
  BY <1>1, <1>2, BorrowerIsPaidLater DEF BorrowerSettled
<1>3. ASSUME NEW a, NEW b, SuppliersSettled(m, a, b)
      PROVE  flywheel'.balance = flywheel.balance
  BY <1>1, <1>3, SuppliersArePaidLater DEF SuppliersSettled
<1>4. ASSUME NEW a \in Accounts, NEW u \in Accounts, NEW c \in Markets, NEW n \in Amounts,
             LiquidateAndSettle(a, u, m, c, n)
      PROVE  flywheel'.balance = flywheel.balance
  <2> DEFINE fresh  == [market EXCEPT ![m] = Accrued(market[m])]
             repaid == SettleBorrower(flywheel, fresh, m, u)
  <2>1. CanAccrue(market[m]) /\ flywheel' = SettleSuppliers(repaid, market, c, {u, a})
    BY <1>4 DEF LiquidateAndSettle, LiquidateBorrow
  <2>2. /\ blockNumber \in Nat /\ market \in [Markets -> MarketBooks]
        /\ BooksInv(Accrued(market[m]), blockNumber)
    BY <2>1, WellFormedFacts DEF IInv, WellFormed, TypeOK
  <2>3. BooksInv(fresh[m], blockNumber)
    BY <2>2
  <2> HIDE DEF fresh
  <2>4. RewardInv(repaid, Now)
    BY <2>2, <2>3, SettleBorrowerInv
  <2>5. repaid.balance = flywheel.balance
    BY <1>1, BorrowerIsPaidLater
  <2> HIDE DEF repaid
  <2>6. repaid \in FlywheelBooks
    BY <2>4 DEF RewardInv
  <2> QED
    BY <2>1, <2>5, <2>6, SuppliersArePaidLater
<1> QED
  BY <1>2, <1>3, <1>4
  DEF SettlingAction, RepayAllAndSettle, RedeemAndSettle, RedeemRejected, BorrowAndSettle,
      BorrowRejectedLate, MintAndSettle, RepayAndSettle, TransferAndSettle, TransferRejected

\* What a claim has paid between its steps.  A bankrupt claimer's BRN goes into
\* the cash of the market that mints for it; anybody else's is paid at the end.
Accounted(s, u, bankrupt) ==
  /\ \A m \in Markets : Backed(market[m]) => Backed(s.M[m])
  /\ \A m \in Markets \ {BRNMarket} : s.M[m].cash = market[m].cash
  /\ IF bankrupt
     THEN BRNMarket \in Markets =>
            s.M[BRNMarket].cash + s.f.balance = market[BRNMarket].cash + flywheel.balance
     ELSE /\ s.M = market
          /\ s.f.balance + s.f.claimed[u] = flywheel.balance + flywheel.claimed[u]

LEMMA GrantedAccounts ==
  ASSUME WellFormed, RewardInv(flywheel, Now),
         NEW f, NEW M, NEW u \in Accounts, NEW bankrupt \in BOOLEAN, NEW collateral \in BOOLEAN,
         Working([f |-> f, M |-> M]), Accounted([f |-> f, M |-> M], u, bankrupt),
         CanGrant([f |-> f, M |-> M], u, bankrupt, collateral)
  PROVE  Accounted(Granted([f |-> f, M |-> M], u, bankrupt), u, bankrupt)
<1> DEFINE s == [f |-> f, M |-> M]
           n == f.accrued[u]
<1>1. /\ RewardInv(f, Now) /\ f \in FlywheelBooks
      /\ M \in [Markets -> MarketBooks]
      /\ \A m \in Markets : BooksInv(M[m], blockNumber) /\ M[m].cash \in Nat
      /\ blockNumber \in Nat
  BY WellFormedFacts DEF Working, RewardInv, MarketBooks
<1>2. /\ f.claimed \in [Accounts -> Nat] /\ f.accrued \in [Accounts -> Nat]
      /\ f.balance \in Nat /\ n \in Nat
  BY <1>1 DEF FlywheelBooks
<1>3. CASE ~GrantDue(s, u)
  BY <1>3 DEF Granted
<1>4. CASE GrantDue(s, u) /\ ~bankrupt
  <2> DEFINE F == PaidOut(f, u, n)
  <2>1. Granted(s, u, bankrupt) = [f |-> F, M |-> M]
    BY <1>4 DEF Granted
  <2>2. F.balance = f.balance - n /\ F.claimed[u] = f.claimed[u] + n
    BY <1>1, <1>2 DEF PaidOut, FlywheelBooks
  <2> HIDE DEF F, n
  <2>3. F.balance + F.claimed[u] = f.balance + f.claimed[u]
    BY <1>2, <2>2
  <2> QED
    BY <1>4, <2>1, <2>3 DEF Accounted
<1>5. CASE GrantDue(s, u) /\ bankrupt
  <2> DEFINE b == BRNMarket
             t == Accrued(M[b])
             settled == SettleSuppliers(f, M, b, {u})
             F == PaidOut(settled, u, n)
             minted == MintFresh(t, u, n)
  <2>1. /\ b \in Markets /\ CanAccrue(M[b])
        /\ ExchangeRateKnown(t) /\ ExchangeRate(t) > 0
        /\ CanSettleSuppliers(f, M, b, {u})
    BY <1>5 DEF CanGrant
  <2>2. Granted(s, u, bankrupt) = [f |-> F, M |-> [M EXCEPT ![b] = minted]]
    BY <1>5 DEF Granted
  <2>3. settled.balance = f.balance
    BY <1>1, SuppliersArePaidLater
  <2>10. RewardInv(settled, Now)
    BY <1>1, <2>1, SettleSuppliersInv
  <2> HIDE DEF settled
  <2>11. settled \in FlywheelBooks
    BY <2>10 DEF RewardInv
  <2>4. F.balance = f.balance - n
    BY <2>3, <2>11 DEF PaidOut, FlywheelBooks
  <2>5. /\ BooksInv(t, blockNumber) /\ t.cash = M[b].cash
        /\ t.tokens = M[b].tokens /\ t.totalSupply = M[b].totalSupply
    BY <1>1, <2>1, AccruedInv, AccruedKeeps
  <2> HIDE DEF t, F
  <2>6. /\ Backed(t) => Backed(minted)
        /\ minted.cash = t.cash + n
    BY <1>2, <2>1, <2>5, MintFreshKeeps
  <2>7. Backed(M[b]) => Backed(t)
    BY <2>5 DEF Backed
  <2> HIDE DEF minted, n
  <2>8. minted.cash + F.balance = M[b].cash + f.balance
    BY <1>1, <1>2, <2>1, <2>4, <2>5, <2>6
  <2>9. /\ [M EXCEPT ![b] = minted][b] = minted
        /\ \A m \in Markets \ {b} : [M EXCEPT ![b] = minted][m] = M[m]
    BY <1>1, <2>1
  <2> DEFINE M2 == [M EXCEPT ![b] = minted]
  <2>12. M2[b] = minted /\ \A m \in Markets \ {b} : M2[m] = M[m]
    BY <2>9
  <2> HIDE DEF M2, F
  <2>13. \A m \in Markets : Backed(market[m]) => Backed(M2[m])
    BY <2>6, <2>7, <2>12 DEF Accounted
  <2>14. \A m \in Markets \ {b} : M2[m].cash = market[m].cash
    BY <2>12 DEF Accounted
  <2>15. M2[b].cash + F.balance = market[b].cash + flywheel.balance
    BY <1>5, <2>1, <2>8, <2>12 DEF Accounted
  <2>16. Accounted([f |-> F, M |-> M2], u, bankrupt)
    BY <1>5, <2>13, <2>14, <2>15 DEF Accounted
  <2>17. Granted(s, u, bankrupt) = [f |-> F, M |-> M2]
    BY <2>2 DEF F, M2
  <2> QED
    BY <2>16, <2>17
<1> QED
  BY <1>3, <1>4, <1>5

\* The books, wallets and BRN a claim leaves are those it found, moved around.
LEMMA ClaimConserves ==
  ASSUME WellFormed, RewardInv(flywheel, Now), NEW u \in Accounts, NEW m \in Markets,
         NEW borrowers \in BOOLEAN, NEW suppliers \in BOOLEAN, NEW collateral \in BOOLEAN,
         ClaimBrainiac(u, m, borrowers, suppliers, collateral)
  PROVE  /\ \A x \in Markets : Backed(market[x]) => Backed(market'[x])
         /\ \A x \in Markets \ {BRNMarket} : Underlying(x)' = Underlying(x)
         /\ BRNMarket \in Markets =>
              Underlying(BRNMarket)' + flywheel'.balance
                = Underlying(BRNMarket) + flywheel.balance
<1> DEFINE bankrupt == Shortfall(market, u)
           start == [f |-> flywheel, M |-> market]
           debt  == IF borrowers THEN [start EXCEPT !.f = SettleBorrower(@, market, m, u)]
                    ELSE start
           paid  == IF borrowers THEN Granted(debt, u, bankrupt) ELSE start
           stake == IF suppliers THEN [paid EXCEPT !.f = SettleSuppliers(@, paid.M, m, {u})]
                    ELSE paid
           end   == IF suppliers THEN Granted(stake, u, bankrupt) ELSE paid
<1>1. /\ borrowers => CanGrant(debt, u, bankrupt, collateral)
      /\ suppliers => CanSettleSuppliers(paid.f, paid.M, m, {u})
      /\ suppliers => CanGrant(stake, u, bankrupt, collateral)
      /\ flywheel' = end.f /\ market' = end.M
      /\ wallet' = IF bankrupt \/ BRNMarket = NoMarket THEN wallet
                   ELSE [wallet EXCEPT ![BRNMarket] =
                           Receive(wallet[BRNMarket], u, end.f.claimed[u] - flywheel.claimed[u])]
  BY DEF ClaimBrainiac
<1>2. /\ blockNumber \in Nat /\ market \in [Markets -> MarketBooks]
      /\ \A x \in Markets : BooksInv(market[x], blockNumber)
      /\ wallet \in [Markets -> [Holders -> Nat]] /\ Accounts \subseteq Holders
  BY WellFormedFacts DEF WellFormed, TypeOK
<1>3. bankrupt \in BOOLEAN
  BY DEF Shortfall, LiquidityKnown
<1>4. flywheel \in FlywheelBooks /\ flywheel.claimed \in [Accounts -> Nat] /\ flywheel.balance \in Nat
  BY DEF RewardInv, FlywheelBooks
<1>5. Working(start) /\ Accounted(start, u, bankrupt)
  BY <1>2, <1>4 DEF Working, Accounted
<1> HIDE DEF bankrupt
<1>6. Working(paid) /\ Accounted(paid, u, bankrupt)
  <2>1. CASE borrowers
    <3> DEFINE f == SettleBorrower(flywheel, market, m, u)
    <3>1. debt = [f |-> f, M |-> market]
      BY <2>1
    <3>6. RewardInv(f, Now) /\ f.claimed = flywheel.claimed
      BY <1>2, <1>4, SettleBorrowerInv
    <3>7. f.balance = flywheel.balance
      BY <1>4, BorrowerIsPaidLater
    <3>2. RewardInv(f, Now) /\ f.claimed = flywheel.claimed /\ f.balance = flywheel.balance
      BY <3>6, <3>7
    <3> HIDE DEF f
    <3>3. Working([f |-> f, M |-> market]) /\ Accounted([f |-> f, M |-> market], u, bankrupt)
      BY <1>2, <1>4, <3>2 DEF Working, Accounted
    <3>4. CanGrant([f |-> f, M |-> market], u, bankrupt, collateral)
      BY <1>1, <2>1, <3>1
    <3>5. /\ Working(Granted([f |-> f, M |-> market], u, bankrupt))
          /\ Accounted(Granted([f |-> f, M |-> market], u, bankrupt), u, bankrupt)
      BY <1>2, <1>3, <3>3, <3>4, GrantedWorks, GrantedAccounts
    <3> QED
      BY <2>1, <3>1, <3>5
  <2> QED
    BY <1>5, <2>1
<1>7. paid = [f |-> paid.f, M |-> paid.M]
  BY DEF Granted
<1> HIDE DEF paid, debt
<1>8. Working(end) /\ Accounted(end, u, bankrupt)
  <2>1. CASE suppliers
    <3> DEFINE f == SettleSuppliers(paid.f, paid.M, m, {u})
               M == paid.M
    <3>1. stake = [f |-> f, M |-> M]
      BY <1>7, <2>1
    <3>2. /\ RewardInv(paid.f, Now) /\ paid.f \in FlywheelBooks /\ BooksInv(M[m], blockNumber)
          /\ CanSettleSuppliers(paid.f, M, m, {u})
      BY <1>1, <1>6, <2>1 DEF Working, RewardInv
    <3>7. RewardInv(f, Now) /\ f.claimed = paid.f.claimed
      BY <1>2, <3>2, SettleSuppliersInv
    <3>8. f.balance = paid.f.balance
      BY <3>2, SuppliersArePaidLater
    <3>3. RewardInv(f, Now) /\ f.claimed = paid.f.claimed /\ f.balance = paid.f.balance
      BY <3>7, <3>8
    <3> HIDE DEF f
    <3>4. Working([f |-> f, M |-> M]) /\ Accounted([f |-> f, M |-> M], u, bankrupt)
      BY <1>6, <3>3 DEF Working, Accounted
    <3> HIDE DEF M
    <3>5. CanGrant([f |-> f, M |-> M], u, bankrupt, collateral)
      BY <1>1, <2>1, <3>1
    <3>6. /\ Working(Granted([f |-> f, M |-> M], u, bankrupt))
          /\ Accounted(Granted([f |-> f, M |-> M], u, bankrupt), u, bankrupt)
      BY <1>2, <1>3, <3>4, <3>5, GrantedWorks, GrantedAccounts
    <3> QED
      BY <2>1, <3>1, <3>6
  <2> QED
    BY <1>6, <2>1
<1> HIDE DEF stake, end
<1> DEFINE n == flywheel'.claimed[u] - flywheel.claimed[u]
<1>9. /\ flywheel'.balance \in Nat /\ flywheel'.claimed[u] \in Nat /\ n \in Nat
      /\ \A x \in Markets : market'[x].cash \in Nat
  <2>1. /\ end.f \in FlywheelBooks /\ end.f.claimed[u] >= flywheel.claimed[u]
        /\ end.M \in [Markets -> MarketBooks]
    BY <1>8 DEF Working, RewardInv
  <2> QED
    BY <1>1, <1>4, <2>1 DEF FlywheelBooks, MarketBooks
<1>10. /\ \A x \in Markets : SumFunction(wallet[x]) \in Int /\ market[x].cash \in Nat
       /\ flywheel.claimed[u] \in Nat
  BY <1>2, <1>4, WalletSum DEF MarketBooks
<1>11. \A x \in Markets : Backed(market[x]) => Backed(market'[x])
  BY <1>1, <1>8 DEF Accounted
<1>12. \A x \in Markets \ {BRNMarket} : Underlying(x)' = Underlying(x)
  <2> TAKE x \in Markets \ {BRNMarket}
  <2>1. wallet'[x] = wallet[x]
    BY <1>1, <1>2
  <2>2. market'[x].cash = market[x].cash
    BY <1>1, <1>8 DEF Accounted
  <2> QED
    BY <2>1, <2>2 DEF Underlying
<1>13. ASSUME BRNMarket \in Markets
       PROVE  Underlying(BRNMarket)' + flywheel'.balance = Underlying(BRNMarket) + flywheel.balance
  <2>0. BRNMarket # NoMarket
    BY <1>13, ComptrollerAssumption
  <2>1. CASE bankrupt
    <3>1. wallet' = wallet
      BY <1>1, <2>1
    <3>2. market'[BRNMarket].cash + flywheel'.balance = market[BRNMarket].cash + flywheel.balance
      BY <1>1, <1>8, <1>13, <2>1 DEF Accounted
    <3> QED
      BY <1>4, <1>9, <1>10, <1>13, <3>1, <3>2 DEF Underlying
  <2>2. CASE ~bankrupt
    <3>1. wallet'[BRNMarket] = Receive(wallet[BRNMarket], u, n)
      BY <1>1, <1>2, <1>13, <2>0, <2>2
    <3>2. SumFunction(wallet'[BRNMarket]) = SumFunction(wallet[BRNMarket]) + n
      BY <1>2, <1>9, <1>13, <3>1, ReceiveSum
    <3>3. /\ market' = market
          /\ flywheel'.balance + flywheel'.claimed[u] = flywheel.balance + flywheel.claimed[u]
      BY <1>1, <1>8, <2>2 DEF Accounted
    <3> QED
      BY <1>4, <1>9, <1>10, <1>13, <3>2, <3>3 DEF Underlying
  <2> QED
    BY <2>1, <2>2
<1> QED
  BY <1>11, <1>12, <1>13

LEMMA GrantConserves ==
  ASSUME WellFormed, RewardInv(flywheel, Now), NEW u \in Accounts, NEW n \in Nat,
         GrantBRN(u, n)
  PROVE  /\ market' = market
         /\ \A x \in Markets \ {BRNMarket} : Underlying(x)' = Underlying(x)
         /\ BRNMarket \in Markets =>
              Underlying(BRNMarket)' + flywheel'.balance
                = Underlying(BRNMarket) + flywheel.balance
<1>1. /\ flywheel' = [flywheel EXCEPT !.balance = flywheel.balance - n]
      /\ wallet' = IF BRNMarket = NoMarket THEN wallet
                   ELSE [wallet EXCEPT ![BRNMarket] = Receive(wallet[BRNMarket], u, n)]
      /\ market' = market
  BY DEF GrantBRN
<1>2. flywheel'.balance = flywheel.balance - n /\ flywheel.balance \in Nat
  BY <1>1 DEF RewardInv, FlywheelBooks
<1>3. /\ wallet \in [Markets -> [Holders -> Nat]] /\ market \in [Markets -> MarketBooks]
      /\ u \in Holders
  BY DEF WellFormed, TypeOK, Holders
<1>4. \A x \in Markets \ {BRNMarket} : Underlying(x)' = Underlying(x)
  BY <1>1, <1>3 DEF Underlying
<1>5. ASSUME BRNMarket \in Markets
      PROVE  Underlying(BRNMarket)' + flywheel'.balance = Underlying(BRNMarket) + flywheel.balance
  <2>1. BRNMarket # NoMarket
    BY <1>5, ComptrollerAssumption
  <2>2. wallet'[BRNMarket] = Receive(wallet[BRNMarket], u, n)
    BY <1>1, <1>3, <1>5, <2>1
  <2>3. /\ SumFunction(wallet'[BRNMarket]) = SumFunction(wallet[BRNMarket]) + n
        /\ SumFunction(wallet[BRNMarket]) \in Int
    BY <1>3, <1>5, <2>2, ReceiveSum, WalletSum
  <2>4. market[BRNMarket].cash \in Nat
    BY <1>3, <1>5 DEF MarketBooks
  <2> QED
    BY <1>1, <1>2, <2>3, <2>4 DEF Underlying
<1> QED
  BY <1>1, <1>4, <1>5

\* Any step of the flywheel.
FConserves ==
  /\ \A x \in Markets : Backed(market[x]) => Backed(market'[x])
  /\ \A x \in Markets \ {BRNMarket} : Underlying(x)' = Underlying(x)
  /\ BRNMarket \in Markets =>
       Underlying(BRNMarket)' + flywheel'.balance = Underlying(BRNMarket) + flywheel.balance

LEMMA NextFConserves == FInv /\ [FNext]_flywheelVars => FConserves
<1> SUFFICES ASSUME FInv, [FNext]_flywheelVars
             PROVE  FConserves
  OBVIOUS
<1>0. IInv /\ WellFormed /\ RewardInv(flywheel, Now)
  BY DEF FInv, IInv
<1>1. ASSUME [Next]_vars, flywheel'.balance = flywheel.balance
      PROVE  FConserves
  <2>1. Conserves
    BY <1>0, <1>1, NextConserves
  <2> QED
    BY <1>1, <2>1 DEF Conserves, FConserves
<1>2. CASE PlainAction /\ UNCHANGED flywheel
  <2>1. Next
    BY <1>2 DEF PlainAction, Next, UserAction
  <2> QED
    BY <1>1, <1>2, <2>1
<1>3. ASSUME NEW m \in Markets, SettlingAction(m)
      PROVE  FConserves
  BY <1>0, <1>1, <1>3, SettlingIsLending, SettlingActionPaysNothing
<1>4. ASSUME NEW m \in Markets, NEW u \in Accounts, NEW borrowers \in BOOLEAN,
             NEW suppliers \in BOOLEAN, NEW collateral \in BOOLEAN,
             ClaimBrainiac(u, m, borrowers, suppliers, collateral)
      PROVE  FConserves
  BY <1>0, <1>4, ClaimConserves DEF FConserves
<1>5. ASSUME NEW m \in Markets, NEW s \in Speeds, ChangeSpeed(m, s) \/ StartSpeed(m, s)
      PROVE  FConserves
  <2>1. UNCHANGED vars
    BY <1>5 DEF ChangeSpeed, StartSpeed
  <2>2. flywheel'.balance = flywheel.balance
    BY <1>0, <1>5 DEF ChangeSpeed, StartSpeed, RewardInv, FlywheelBooks
  <2> QED
    BY <1>1, <2>1, <2>2
<1>6. ASSUME NEW u \in Accounts, NEW n \in Grants, GrantBRN(u, n)
      PROVE  FConserves
  <2>1. n \in Nat
    BY FlywheelAssumption
  <2> QED
    BY <1>0, <1>6, <2>1, GrantConserves DEF FConserves
<1>7. CASE UNCHANGED flywheelVars
  BY <1>1, <1>7 DEF flywheelVars
<1> QED
  BY <1>2, <1>3, <1>4, <1>5, <1>6, <1>7 DEF FNext

\* BRN is only moved: the comptroller's reserve, the cash of brBrnToken and what
\* everybody holds add up to what there was, whether a claim pays out, mints brBRN
\* for a bankrupt claimer or finds too little, and whatever is granted or lent.
THEOREM BRNIsConserved == FSpec => []BRNConserved
<1>1. FInit => BRNConserved
  <2> SUFFICES ASSUME FInit, BRNMarket \in Markets
               PROVE  BRNConserved
    BY DEF BRNConserved
  <2>1. UnderlyingConserved /\ flywheel.balance = InitialBRN
    BY InitConserves DEF FInit, FlywheelInit
  <2> QED
    BY <2>1 DEF UnderlyingConserved, BRNConserved
<1>2. FInv /\ BRNConserved /\ [FNext]_flywheelVars => BRNConserved'
  BY NextFConserves DEF FConserves, BRNConserved, Underlying
<1> QED
  BY <1>1, <1>2, FlywheelInvariance, PTL DEF FSpec

\* brBRN minted in the middle of a claim is somebody's like any other.
THEOREM FlywheelSupplyIsBalances == FSpec => []SupplyMatchesBalances
<1>1. FInit => SupplyMatchesBalances
  BY InitConserves DEF FInit
<1>2. FInv /\ SupplyMatchesBalances /\ [FNext]_flywheelVars => SupplyMatchesBalances'
  BY NextFConserves DEF FConserves, SupplyMatchesBalances, Backed
<1> QED
  BY <1>1, <1>2, FlywheelInvariance, PTL DEF FSpec

-----------------------------------------------------------------------------
(* What is earned.  Both sides of a market work alike: an account holds brTokens *)
(* or debt, was last settled at an index, and leads by what the market's index  *)
(* has grown since.                                                             *)

Sides == {"supply", "borrow"}

Holding(M, m, side) == IF side = "supply" THEN M[m].tokens ELSE M[m].principal
SideState(F, m, side) == IF side = "supply" THEN F.supply[m] ELSE F.borrow[m]
SettledAt(F, m, side) == IF side = "supply" THEN F.supplierIndex[m] ELSE F.borrowerIndex[m]

\* A supplier never settled starts at the initial index, a borrower at none.
LeadOf(side, x, index) ==
  IF side = "supply"
  THEN IF x = 0 /\ index > 0
       THEN IF BrainiacInitialIndex > index THEN 0 ELSE index - BrainiacInitialIndex
       ELSE IF x > index THEN 0 ELSE index - x
  ELSE IF x = 0 THEN 0 ELSE index - x

\* An index that moves on by g moves everybody's lead by at most g.
LEMMA LeadGrows ==
  ASSUME NEW side \in Sides, NEW x \in Nat, NEW index \in Nat, x <= index, NEW g \in Nat
  PROVE  /\ LeadOf(side, x, index) \in Nat
         /\ LeadOf(side, x, index + g) \in Nat
         /\ LeadOf(side, x, index + g) <= LeadOf(side, x, index) + g
<1>1. BrainiacInitialIndex \in Nat
  BY FlywheelAssumption DEF BrainiacInitialIndex
<1> QED
  BY <1>1 DEF LeadOf, Sides

\* Nobody leads when just settled, or when the index has just been started.
LEMMA NoLead ==
  ASSUME NEW side \in Sides, NEW index \in Nat
  PROVE  /\ LeadOf(side, index, index) = 0
         /\ LeadOf(side, 0, BrainiacInitialIndex) = 0
         /\ LeadOf(side, 0, 0) = 0
<1>1. BrainiacInitialIndex \in Nat
  BY FlywheelAssumption DEF BrainiacInitialIndex
<1> QED
  BY <1>1 DEF LeadOf, Sides

\* The blocks whose rewards a state has been credited with.
Credited(state) == IF state.block = 0 THEN 0 ELSE state.block - 1

\* A finite set of naturals has its maximum: HighestSpeed is one.
LEMMA HighestSpeedIsHighest ==
  /\ HighestSpeed \in Nat
  /\ \A s \in Speeds : s <= HighestSpeed
  /\ \A m \in Markets : InitialSpeed[m] <= HighestSpeed
<1> DEFINE S == {0} \cup Speeds \cup {InitialSpeed[m] : m \in Markets}
           T == {{y \in S : y > x} : x \in S}
<1>1. S \in SUBSET Nat /\ 0 \in S
  <2>1. \A m \in Markets : InitialSpeed[m] \in Nat
    BY FlywheelAssumption
  <2>2. Speeds \subseteq Nat
    BY FlywheelAssumption
  <2>3. \A x \in S : x \in Nat
    <3> TAKE x \in S
    <3>1. CASE x \in Speeds
      BY <2>2, <3>1
    <3>2. CASE x \in {InitialSpeed[m] : m \in Markets}
      BY <2>1, <3>2
    <3>3. CASE x = 0
      BY <3>3
    <3> QED
      BY <3>1, <3>2, <3>3
  <2> HIDE DEF S
  <2>4. S \subseteq Nat
    BY <2>3
  <2>5. 0 \in S
    BY DEF S
  <2> QED
    BY <2>4, <2>5
<1>2. IsFiniteSet(S)
  <2>1. IsFiniteSet({InitialSpeed[m] : m \in Markets})
    <3> DEFINE R == {InitialSpeed[m] : m \in Markets}
    <3>1. InitialSpeed \in Surjection(Markets, R)
      BY FlywheelAssumption DEF Surjection
    <3> HIDE DEF R
    <3>2. IsFiniteSet(R)
      BY <3>1, FlywheelFinite, FS_Surjection
    <3> QED
      BY <3>2 DEF R
  <2>2. IsFiniteSet({0} \cup Speeds)
    BY FlywheelFinite, FS_Singleton, FS_Union
  <2> QED
    BY <2>1, <2>2, FS_Union
<1> HIDE DEF S
<1>3. T \in SUBSET (SUBSET S) /\ T # {}
  BY <1>1
<1> HIDE DEF T
<1>4. PICK t \in T : \A u \in T : ~ (u \subseteq t /\ u # t)
  BY <1>2, <1>3, SmallestSubset
<1>5. PICK x \in S : t = {y \in S : y > x}
  BY <1>4 DEF T
<1>6. ASSUME NEW y \in S, y > x
      PROVE  FALSE
  <2> DEFINE u == {z \in S : z > y}
  <2>1. u \in T
    BY DEF T
  <2>2. u \subseteq t
    <3>1. \A z \in S : z > y => z > x
      BY <1>1, <1>6
    <3> QED
      BY <1>5, <3>1
  <2>3. y \in t /\ y \notin u
    BY <1>1, <1>5, <1>6
  <2> QED
    BY <1>4, <2>1, <2>2, <2>3
<1>7. \A y \in S : x >= y
  BY <1>1, <1>6
<1>8. Max(S) \in S /\ \A y \in S : Max(S) >= y
  BY <1>7 DEF Max
<1>9. HighestSpeed = Max(S)
  BY DEF HighestSpeed, S
<1>10. \A s \in Speeds : s \in S
  BY DEF S
<1>11. \A m \in Markets : InitialSpeed[m] \in S
  BY DEF S
<1>12. HighestSpeed \in Nat
  BY <1>1, <1>8, <1>9
<1> QED
  BY <1>1, <1>8, <1>9, <1>10, <1>11, <1>12

\* What an index grows by is covered by the blocks it is credited with.
LEMMA GrowthCovered ==
  ASSUME NEW state \in MarketState, NEW speed \in Nat, NEW volume \in Nat,
         blockNumber \in Nat, state.block <= Now, speed <= HighestSpeed,
         state.block = 0 => speed = 0
  PROVE  \E g \in Nat :
           /\ Grown(state, speed, volume) = [index |-> state.index + g, block |-> Now]
           /\ g * volume <= DoubleScale * HighestSpeed * (Credited(Grown(state, speed, volume)) - Credited(state))
           /\ Credited(state) \in Nat /\ Credited(Grown(state, speed, volume)) \in Nat
           /\ state.block = Now => g = 0
<1> DEFINE since == Now - state.block
           paid == since * speed * DoubleScale
           g == IF speed = 0 \/ volume = 0 THEN 0 ELSE paid \div volume
           H == HighestSpeed
           D == DoubleScale
           more == Credited(Grown(state, speed, volume)) - Credited(state)
<1>1. /\ Now \in Nat /\ Now >= 1 /\ state.index \in Nat /\ state.block \in Nat
      /\ since \in Nat /\ H \in Nat /\ D \in Nat /\ D > 0
  BY HighestSpeedIsHighest, FlywheelAssumption DEF Now, MarketState
<1>2. Grown(state, speed, volume) = [index |-> state.index + g, block |-> Now]
  BY DEF Grown
<1>3. /\ Credited(state) \in Nat /\ Credited(Grown(state, speed, volume)) \in Nat
      /\ more \in Nat
      /\ state.block # 0 => more = since
  BY <1>1, <1>2 DEF Credited
<1>4. CASE speed = 0 \/ volume = 0
  <2>1. g = 0 /\ g * volume = 0
    BY <1>4
  <2>2. D * H * more \in Nat
    BY <1>1, <1>3, TimesNat
  <2>3. g * volume <= D * H * more /\ g \in Nat
    BY <2>1, <2>2
  <2> HIDE DEF g, more, D, H
  <2> QED
    BY <1>2, <1>3, <2>1, <2>3 DEF more, D, H
<1>5. CASE speed # 0 /\ volume # 0
  <2>1. more = since
    BY <1>3, <1>5
  <2>2. since * speed \in Nat /\ paid \in Nat
    BY <1>1, TimesNat
  <2>3. g = paid \div volume
    BY <1>5
  <2> HIDE DEF paid
  <2>4. g \in Nat /\ volume * g <= paid
    BY <1>5, <2>2, <2>3, DivBounds
  <2>5. speed * since <= H * since
    BY <1>1, TimesMonotone
  <2>6. speed * since * D <= H * since * D
    BY <1>1, <2>2, <2>5, TimesInt, TimesMonotone
  <2>7. paid <= D * H * since
    <3>1. paid = speed * since * D
      BY <1>1 DEF paid
    <3>2. H * since * D = D * H * since
      BY <1>1, SMT
    <3> QED
      BY <2>6, <3>1, <3>2
  <2>8. g * volume <= D * H * since
    <3> DEFINE w == D * H * since
               v == volume * g
    <3>1. v \in Nat /\ w \in Nat /\ v <= paid /\ paid <= w /\ g * volume = v
      BY <1>1, <2>4, <2>7, TimesNat
    <3> HIDE DEF v, w
    <3>2. g * volume <= w
      BY <2>2, <3>1
    <3> QED
      BY <3>2 DEF w
  <2>9. state.block = Now => g = 0
    <3> SUFFICES ASSUME state.block = Now
                 PROVE  g = 0
      OBVIOUS
    <3>1. since = 0
      BY <1>1
    <3>2. paid = 0
      BY <1>1, <3>1 DEF paid
    <3>3. 0 \div volume = 0
      BY <1>5, SMT
    <3> QED
      BY <2>3, <3>2, <3>3
  <2> HIDE DEF g, more, since, D, H
  <2>10. g * volume <= D * H * more
    BY <2>1, <2>8
  <2> QED
    BY <1>2, <1>3, <2>4, <2>9, <2>10 DEF more, D, H
<1> QED
  BY <1>4, <1>5
-----------------------------------------------------------------------------
(* One settlement of one side of one market, and the change of position after it *)

Held(M) == \A m \in Markets, side \in Sides : Holding(M, m, side) \in [Accounts -> Nat]

\* Where an update now would bring a side of a market.
Ahead(F, M, m, side) ==
  Grown(SideState(F, m, side), F.speed[m], SumFunction(Holding(M, m, side)))

\* What settling u now would add to its rewards.
OwedTo(F, M, m, side, u) ==
  (Holding(M, m, side)[u] * LeadOf(side, SettledAt(F, m, side)[u], Ahead(F, M, m, side).index))
    \div DoubleScale

Owed(F, M, u) ==
  [m \in Markets |-> OwedTo(F, M, m, "supply", u) + OwedTo(F, M, m, "borrow", u)]

EarnedBy(F) == [u \in Accounts |-> F.accrued[u] + F.claimed[u]]

Earnings(F, M, u) == F.claimed[u] + F.accrued[u] + SumFunction(Owed(F, M, u))

\* What the holders of a side have earned up to its index and not settled.
Leads(F, M, m, side) ==
  [u \in Accounts |-> Holding(M, m, side)[u]
                        * LeadOf(side, SettledAt(F, m, side)[u], SideState(F, m, side).index)]

\* The most a side may have paid for the blocks it is credited with, less that.
Unspent(F, M, m, side) ==
  DoubleScale * HighestSpeed * Credited(SideState(F, m, side)) - SumFunction(Leads(F, M, m, side))

AllUnspent(F, M) ==
  [m \in Markets |-> Unspent(F, M, m, "supply") + Unspent(F, M, m, "borrow")]

\* The rewards paid and accrued come out of the blocks the sides were credited with.
WithinBudget(F, M) ==
  DoubleScale * SumFunction(EarnedBy(F)) <= SumFunction(AllUnspent(F, M))

\* No side has a speed it was never updated with, and nobody is ahead of the index.
Paced(F) ==
  \A m \in Markets :
    /\ F.speed[m] <= HighestSpeed
    /\ \A side \in Sides :
         /\ SideState(F, m, side).block = 0 =>
              SideState(F, m, side).index = 0 /\ F.speed[m] = 0
         /\ \A u \in Accounts : SettledAt(F, m, side)[u] <= SideState(F, m, side).index

\* The accounts who are settled on one side of m, and only they change position there.
Moves(F, G, M, N, m, side, who) ==
  /\ SideState(G, m, side) = Ahead(F, M, m, side)
  /\ \A u \in Accounts :
       /\ SettledAt(G, m, side)[u] = IF u \in who THEN SideState(G, m, side).index
                                     ELSE SettledAt(F, m, side)[u]
       /\ G.claimed[u] + G.accrued[u]
            = F.claimed[u] + F.accrued[u] + (IF u \in who THEN OwedTo(F, M, m, side, u) ELSE 0)
       /\ u \notin who => Holding(N, m, side)[u] = Holding(M, m, side)[u]
  /\ \A x \in Markets, s \in Sides :
       x # m \/ s # side => /\ SideState(G, x, s) = SideState(F, x, s)
                            /\ SettledAt(G, x, s) = SettledAt(F, x, s)
                            /\ Holding(N, x, s) = Holding(M, x, s)
  /\ G.speed = F.speed

\* The types of both sides of the reward books.
LEMMA SideTypes ==
  ASSUME NEW F, RewardInv(F, Now), NEW m \in Markets
  PROVE  /\ F.speed[m] \in Nat
         /\ \A side \in Sides :
              /\ SideState(F, m, side) \in MarketState
              /\ SideState(F, m, side).index \in Nat
              /\ SideState(F, m, side).block \in Nat
              /\ SideState(F, m, side).block <= Now
              /\ SettledAt(F, m, side) \in [Accounts -> Nat]
         /\ F.accrued \in [Accounts -> Nat] /\ F.claimed \in [Accounts -> Nat]
<1>1. /\ F.speed \in [Markets -> Nat]
      /\ F.supply \in [Markets -> MarketState] /\ F.borrow \in [Markets -> MarketState]
      /\ F.supplierIndex \in [Markets -> [Accounts -> Nat]]
      /\ F.borrowerIndex \in [Markets -> [Accounts -> Nat]]
      /\ F.accrued \in [Accounts -> Nat] /\ F.claimed \in [Accounts -> Nat]
  BY DEF RewardInv, FlywheelBooks
<1>2. F.supply[m].block <= Now /\ F.borrow[m].block <= Now
  BY DEF RewardInv
<1>3. \A state \in MarketState : state.index \in Nat /\ state.block \in Nat
  BY DEF MarketState
<1> QED
  BY <1>1, <1>2, <1>3 DEF SideState, SettledAt

\* An update of a side: how far its index goes, and that this is paid for.
LEMMA AheadBy ==
  ASSUME NEW F, RewardInv(F, Now), Paced(F), blockNumber \in Nat, NEW M, Held(M),
         NEW m \in Markets, NEW side \in Sides
  PROVE  \E g \in Nat :
           /\ Ahead(F, M, m, side) = [index |-> SideState(F, m, side).index + g, block |-> Now]
           /\ g * SumFunction(Holding(M, m, side))
                <= DoubleScale * HighestSpeed
                     * (Credited(Ahead(F, M, m, side)) - Credited(SideState(F, m, side)))
           /\ Credited(SideState(F, m, side)) \in Nat
           /\ Credited(Ahead(F, M, m, side)) \in Nat
           /\ SideState(F, m, side).block = Now => g = 0
<1>1. SumFunction(Holding(M, m, side)) \in Nat
  BY AccountsFinite, SumFunctionNat DEF Held
<1>2. /\ SideState(F, m, side) \in MarketState /\ F.speed[m] \in Nat
      /\ SideState(F, m, side).block <= Now
  BY SideTypes
<1>3. F.speed[m] <= HighestSpeed /\ (SideState(F, m, side).block = 0 => F.speed[m] = 0)
  BY DEF Paced
<1> QED
  BY <1>1, <1>2, <1>3, GrowthCovered DEF Ahead

\* What settling an account would add is a natural.
LEMMA OwedType ==
  ASSUME NEW F, RewardInv(F, Now), Paced(F), blockNumber \in Nat, NEW M, Held(M),
         NEW m \in Markets, NEW side \in Sides, NEW u \in Accounts
  PROVE  OwedTo(F, M, m, side, u) \in Nat
<1> DEFINE x == SettledAt(F, m, side)[u]
           i == SideState(F, m, side).index
<1>1. PICK g \in Nat : Ahead(F, M, m, side) = [index |-> i + g, block |-> Now]
  BY AheadBy
<1>2. x \in Nat /\ i \in Nat /\ x <= i
  BY SideTypes DEF Paced
<1>3. LeadOf(side, x, i + g) \in Nat
  BY <1>2, LeadGrows
<1>4. Holding(M, m, side)[u] \in Nat
  BY DEF Held
<1>5. Ahead(F, M, m, side).index = i + g
  BY <1>1
<1>6. Holding(M, m, side)[u] * LeadOf(side, x, i + g) \in Nat
  BY <1>3, <1>4, TimesNat
<1> QED
  BY <1>5, <1>6, DivNat, FlywheelAssumption DEF OwedTo

\* A settled side is as far as it can be until the next block, at any volume and speed.
LEMMA AheadAlready ==
  ASSUME NEW state \in MarketState, state.block = Now, NEW speed, NEW volume \in Nat,
         speed \in Nat, blockNumber \in Nat
  PROVE  Grown(state, speed, volume) = state
<1>1. Now \in Nat
  BY DEF Now
<1>2. (Now - state.block) * speed * DoubleScale = 0
  BY <1>1, FlywheelAssumption
<1>3. volume # 0 => 0 \div volume = 0
  BY SMT
<1>4. Grown(state, speed, volume) = [index |-> state.index + 0, block |-> Now]
  BY <1>2, <1>3 DEF Grown
<1> QED
  BY <1>4 DEF MarketState

\* A settlement leaves nobody ahead of the index.
LEMMA MovesPaced ==
  ASSUME NEW F, RewardInv(F, Now), Paced(F), blockNumber \in Nat, NEW M, Held(M),
         NEW G, NEW N, NEW m \in Markets, NEW side \in Sides, NEW who,
         Moves(F, G, M, N, m, side, who)
  PROVE  Paced(G)
<1> SUFFICES ASSUME NEW x \in Markets
             PROVE  /\ G.speed[x] <= HighestSpeed
                    /\ \A s \in Sides :
                         /\ SideState(G, x, s).block = 0 =>
                              SideState(G, x, s).index = 0 /\ G.speed[x] = 0
                         /\ \A u \in Accounts : SettledAt(G, x, s)[u] <= SideState(G, x, s).index
  BY DEF Paced
<1>1. G.speed[x] <= HighestSpeed
  BY DEF Moves, Paced
<1> SUFFICES ASSUME NEW s \in Sides
             PROVE  /\ SideState(G, x, s).block = 0 =>
                         SideState(G, x, s).index = 0 /\ G.speed[x] = 0
                    /\ \A u \in Accounts : SettledAt(G, x, s)[u] <= SideState(G, x, s).index
  BY <1>1
<1>2. CASE x # m \/ s # side
  BY <1>2 DEF Moves, Paced
<1>3. CASE x = m /\ s = side
  <2>1. PICK g \in Nat :
          SideState(G, m, side) = [index |-> SideState(F, m, side).index + g, block |-> Now]
    BY AheadBy DEF Moves
  <2>2. Now # 0
    BY DEF Now
  <2>3. /\ SideState(F, m, side).index \in Nat
        /\ SettledAt(F, m, side) \in [Accounts -> Nat]
    BY SideTypes
  <2>4. \A u \in Accounts : SettledAt(F, m, side)[u] <= SideState(F, m, side).index
    BY DEF Paced
  <2>5. \A u \in Accounts : SettledAt(G, m, side)[u] \in {SideState(G, m, side).index, SettledAt(F, m, side)[u]}
    BY DEF Moves
  <2> QED
    BY <1>3, <2>1, <2>2, <2>3, <2>4, <2>5
<1> QED
  BY <1>2, <1>3

\* Settling pays nobody more or less than it would have at any other moment.
LEMMA MovesEarnings ==
  ASSUME NEW F, RewardInv(F, Now), Paced(F), blockNumber \in Nat, NEW M, Held(M),
         NEW G, RewardInv(G, Now), NEW N, Held(N), NEW m \in Markets, NEW side \in Sides,
         NEW who, Moves(F, G, M, N, m, side, who), NEW u \in Accounts
  PROVE  Earnings(G, N, u) = Earnings(F, M, u)
<1> DEFINE before == Owed(F, M, u)
           after  == Owed(G, N, u)
           due    == OwedTo(F, M, m, side, u)
<1>1. Paced(G)
  BY MovesPaced
<1>2. ASSUME NEW E, RewardInv(E, Now), Paced(E), NEW L, Held(L), NEW x \in Markets, NEW s \in Sides
      PROVE  OwedTo(E, L, x, s, u) \in Nat
  BY <1>2, OwedType
<1>3. before \in [Markets -> Int] /\ after \in [Markets -> Int]
  <2>1. \A x \in Markets : /\ OwedTo(F, M, x, "supply", u) \in Nat
                           /\ OwedTo(F, M, x, "borrow", u) \in Nat
                           /\ OwedTo(G, N, x, "supply", u) \in Nat
                           /\ OwedTo(G, N, x, "borrow", u) \in Nat
    BY <1>1, <1>2 DEF Sides
  <2> QED
    BY <2>1 DEF Owed
<1>4. \A x \in Markets, s \in Sides :
        x # m \/ s # side => OwedTo(G, N, x, s, u) = OwedTo(F, M, x, s, u)
  BY DEF Moves, OwedTo, Ahead
<1>5. Ahead(G, N, m, side) = SideState(G, m, side)
  <2>1. SideState(G, m, side) \in MarketState /\ G.speed[m] \in Nat
    BY SideTypes
  <2>2. PICK g \in Nat :
          SideState(G, m, side) = [index |-> SideState(F, m, side).index + g, block |-> Now]
    BY AheadBy DEF Moves
  <2>3. SumFunction(Holding(N, m, side)) \in Nat
    BY AccountsFinite, SumFunctionNat DEF Held
  <2> QED
    BY <2>1, <2>2, <2>3, AheadAlready DEF Ahead
<1>6. OwedTo(G, N, m, side, u) = IF u \in who THEN 0 ELSE due
  <2>1. CASE u \in who
    <3>1. SettledAt(G, m, side)[u] = SideState(G, m, side).index
      BY <2>1 DEF Moves
    <3>2. SideState(G, m, side).index \in Nat
      BY SideTypes
    <3>3. LeadOf(side, SettledAt(G, m, side)[u], Ahead(G, N, m, side).index) = 0
      BY <1>5, <3>1, <3>2, NoLead
    <3>4. Holding(N, m, side)[u] * 0 = 0 /\ 0 \div DoubleScale = 0
      <4>1. Holding(N, m, side)[u] \in Nat
        BY DEF Held
      <4>2. Holding(N, m, side)[u] * 0 = 0
        BY <4>1
      <4>3. 0 \div DoubleScale = 0
        BY FlywheelAssumption, SMT
      <4> QED
        BY <4>2, <4>3
    <3> QED
      BY <2>1, <3>3, <3>4 DEF OwedTo
  <2>2. CASE u \notin who
    <3>1. /\ Holding(N, m, side)[u] = Holding(M, m, side)[u]
          /\ SettledAt(G, m, side)[u] = SettledAt(F, m, side)[u]
          /\ Ahead(G, N, m, side) = Ahead(F, M, m, side)
      BY <1>5, <2>2 DEF Moves
    <3>2. OwedTo(G, N, m, side, u) = OwedTo(F, M, m, side, u)
      BY <3>1 DEF OwedTo
    <3> QED
      BY <2>2, <3>2
  <2> QED
    BY <2>1, <2>2
<1>7. due \in Nat /\ OwedTo(G, N, m, side, u) \in Nat
  BY <1>1, <1>2
<1>8. after[m] = before[m] - due + OwedTo(G, N, m, side, u)
  <2>1. /\ before[m] = OwedTo(F, M, m, "supply", u) + OwedTo(F, M, m, "borrow", u)
        /\ after[m] = OwedTo(G, N, m, "supply", u) + OwedTo(G, N, m, "borrow", u)
    BY DEF Owed
  <2>2. /\ OwedTo(F, M, m, "supply", u) \in Nat /\ OwedTo(F, M, m, "borrow", u) \in Nat
        /\ OwedTo(G, N, m, "supply", u) \in Nat /\ OwedTo(G, N, m, "borrow", u) \in Nat
    BY <1>1, <1>2 DEF Sides
  <2>3. CASE side = "supply"
    <3>1. OwedTo(G, N, m, "borrow", u) = OwedTo(F, M, m, "borrow", u)
      BY <1>4, <2>3 DEF Sides
    <3> QED
      BY <2>1, <2>2, <2>3, <3>1
  <2>4. CASE side = "borrow"
    <3>1. OwedTo(G, N, m, "supply", u) = OwedTo(F, M, m, "supply", u)
      BY <1>4, <2>4 DEF Sides
    <3> QED
      BY <2>1, <2>2, <2>4, <3>1
  <2> QED
    BY <2>3, <2>4 DEF Sides
<1>9. \A x \in Markets \ {m} : after[x] = before[x]
  <2> TAKE x \in Markets \ {m}
  <2>1. /\ OwedTo(G, N, x, "supply", u) = OwedTo(F, M, x, "supply", u)
        /\ OwedTo(G, N, x, "borrow", u) = OwedTo(F, M, x, "borrow", u)
    BY <1>4 DEF Sides
  <2> QED
    BY <2>1 DEF Owed
<1> HIDE DEF before, after, due
<1>10. SumFunction(after) = SumFunction(before) - before[m] + after[m]
  BY <1>3, <1>9, FlywheelFinite, SumFunctionUpdate
<1>11. SumFunction(before) \in Int
  BY <1>3, FlywheelFinite, SumFunctionInt
<1>12. /\ F.claimed[u] \in Nat /\ F.accrued[u] \in Nat
       /\ G.claimed[u] \in Nat /\ G.accrued[u] \in Nat
  BY SideTypes
<1>13. G.claimed[u] + G.accrued[u]
         = F.claimed[u] + F.accrued[u] + (IF u \in who THEN due ELSE 0)
  BY DEF Moves, due
<1>14. G.claimed[u] + G.accrued[u] + SumFunction(after)
         = F.claimed[u] + F.accrued[u] + SumFunction(before)
  BY <1>3, <1>6, <1>7, <1>8, <1>10, <1>11, <1>12, <1>13
<1> QED
  BY <1>14 DEF Earnings, before, after

\* The leads of a side are naturals, at its index and wherever an update brings it.
LEMMA LeadsType ==
  ASSUME NEW F, RewardInv(F, Now), Paced(F), NEW M, Held(M),
         NEW m \in Markets, NEW side \in Sides
  PROVE  /\ Leads(F, M, m, side) \in [Accounts -> Nat]
         /\ SumFunction(Leads(F, M, m, side)) \in Nat
         /\ Unspent(F, M, m, side) \in Int
<1>1. /\ SideState(F, m, side).index \in Nat /\ SideState(F, m, side).block \in Nat
      /\ SettledAt(F, m, side) \in [Accounts -> Nat]
  BY SideTypes
<1>2. Holding(M, m, side) \in [Accounts -> Nat]
  BY DEF Held
<1>3. ASSUME NEW u \in Accounts
      PROVE  Holding(M, m, side)[u]
               * LeadOf(side, SettledAt(F, m, side)[u], SideState(F, m, side).index) \in Nat
  <2>1. SettledAt(F, m, side)[u] <= SideState(F, m, side).index
    BY DEF Paced
  <2>2. LeadOf(side, SettledAt(F, m, side)[u], SideState(F, m, side).index) \in Nat
    BY <1>1, <2>1, LeadGrows
  <2> QED
    BY <1>2, <2>2, TimesNat
<1>4. Leads(F, M, m, side) \in [Accounts -> Nat]
  BY <1>3 DEF Leads
<1>5. SumFunction(Leads(F, M, m, side)) \in Nat
  BY <1>4, AccountsFinite, SumFunctionNat
<1>6. Credited(SideState(F, m, side)) \in Nat
  BY <1>1 DEF Credited
<1>7. DoubleScale * HighestSpeed * Credited(SideState(F, m, side)) \in Int
  BY <1>6, HighestSpeedIsHighest, FlywheelAssumption, TimesNat
<1> QED
  BY <1>4, <1>5, <1>7 DEF Unspent

\* What everybody was paid or may claim is a natural.
LEMMA EarnedType ==
  ASSUME NEW F, RewardInv(F, Now)
  PROVE  /\ EarnedBy(F) \in [Accounts -> Nat]
         /\ SumFunction(EarnedBy(F)) \in Nat
<1>1. F.accrued \in [Accounts -> Nat] /\ F.claimed \in [Accounts -> Nat]
  BY DEF RewardInv, FlywheelBooks
<1>2. EarnedBy(F) \in [Accounts -> Nat]
  BY <1>1 DEF EarnedBy
<1> QED
  BY <1>2, AccountsFinite, SumFunctionNat

\* The sum of pointwise bounds: what the holders of a side gain and still lead by
\* is what they led by and what the index grew, for everything held.
LEMMA SumsOfShares ==
  ASSUME NEW held \in [Accounts -> Nat], NEW leads \in [Accounts -> Nat],
         NEW left \in [Accounts -> Nat], NEW earned \in [Accounts -> Nat],
         NEW gained \in [Accounts -> Nat], NEW g \in Nat, NEW d \in Nat,
         \A u \in Accounts :
           left[u] + d * gained[u] <= leads[u] + g * held[u] + d * earned[u]
  PROVE  SumFunction(left) + d * SumFunction(gained)
           <= SumFunction(leads) + g * SumFunction(held) + d * SumFunction(earned)
<1> DEFINE P == [u \in Accounts |-> left[u] + d * gained[u]]
           R == [u \in Accounts |-> leads[u] + g * held[u]]
           Q == [u \in Accounts |-> R[u] + d * earned[u]]
<1>1. \A u \in Accounts : /\ left[u] \in Int /\ gained[u] \in Int /\ leads[u] \in Int
                          /\ held[u] \in Int /\ earned[u] \in Int
                          /\ d * gained[u] \in Int /\ g * held[u] \in Int
                          /\ d * earned[u] \in Int
  <2> TAKE u \in Accounts
  <2>1. /\ left[u] \in Nat /\ gained[u] \in Nat /\ leads[u] \in Nat
        /\ held[u] \in Nat /\ earned[u] \in Nat
    OBVIOUS
  <2> QED
    BY <2>1, TimesNat
<1>2. /\ P \in [Accounts -> Int] /\ R \in [Accounts -> Int] /\ Q \in [Accounts -> Int]
      /\ \A u \in Accounts : /\ P[u] = left[u] + d * gained[u]
                             /\ R[u] = leads[u] + g * held[u]
                             /\ Q[u] = R[u] + d * earned[u]
                             /\ P[u] <= Q[u]
  BY <1>1
<1> HIDE DEF P, R, Q
<1>3. SumFunction(P) = SumFunction(left) + d * SumFunction(gained)
  <2>1. SumFunctionOnSet(P, Accounts)
          = SumFunctionOnSet(left, Accounts) + d * SumFunctionOnSet(gained, Accounts)
    BY <1>1, <1>2, AccountsFinite, SumTimes
  <2> QED
    BY <1>2, <2>1 DEF SumFunction
<1>4. SumFunction(R) = SumFunction(leads) + g * SumFunction(held)
  <2>1. SumFunctionOnSet(R, Accounts)
          = SumFunctionOnSet(leads, Accounts) + g * SumFunctionOnSet(held, Accounts)
    BY <1>1, <1>2, AccountsFinite, SumTimes
  <2> QED
    BY <1>2, <2>1 DEF SumFunction
<1>5. SumFunction(Q) = SumFunction(R) + d * SumFunction(earned)
  <2>1. SumFunctionOnSet(Q, Accounts)
          = SumFunctionOnSet(R, Accounts) + d * SumFunctionOnSet(earned, Accounts)
    BY <1>1, <1>2, AccountsFinite, SumTimes
  <2> QED
    BY <1>2, <2>1 DEF SumFunction
<1>6. SumFunction(P) <= SumFunction(Q)
  BY <1>2, AccountsFinite, SumFunctionLeq
<1> QED
  BY <1>3, <1>4, <1>5, <1>6

\* Settling keeps to the budget: what it pays was led by, and what the holders
\* lead by is covered by the blocks that have passed.
LEMMA MovesBudget ==
  ASSUME NEW F, RewardInv(F, Now), Paced(F), blockNumber \in Nat, NEW M, Held(M),
         NEW G, RewardInv(G, Now), NEW N, Held(N), NEW m \in Markets, NEW side \in Sides,
         NEW who, Moves(F, G, M, N, m, side, who), WithinBudget(F, M)
  PROVE  WithinBudget(G, N)
<1> DEFINE held   == Holding(M, m, side)
           leads  == Leads(F, M, m, side)
           left   == Leads(G, N, m, side)
           earned == EarnedBy(F)
           gained == EarnedBy(G)
           D == DoubleScale
           K == DoubleScale * HighestSpeed
           old == Credited(SideState(F, m, side))
           new == Credited(SideState(G, m, side))
<1>1. Paced(G)
  BY MovesPaced
<1>2. PICK g \in Nat :
        /\ SideState(G, m, side) = [index |-> SideState(F, m, side).index + g, block |-> Now]
        /\ g * SumFunction(held) <= K * (new - old)
        /\ old \in Nat /\ new \in Nat
  BY AheadBy DEF Moves
<1>3. /\ held \in [Accounts -> Nat] /\ leads \in [Accounts -> Nat]
      /\ left \in [Accounts -> Nat] /\ earned \in [Accounts -> Nat]
      /\ gained \in [Accounts -> Nat]
  BY <1>1, LeadsType, EarnedType DEF Held
<1>4. D \in Nat /\ D > 0 /\ K \in Nat
  BY FlywheelAssumption, HighestSpeedIsHighest, TimesNat
<1>5. ASSUME NEW u \in Accounts
      PROVE  left[u] + D * gained[u] <= leads[u] + g * held[u] + D * earned[u]
  <2> DEFINE x   == SettledAt(F, m, side)[u]
             i   == SideState(F, m, side).index
             far == LeadOf(side, x, i + g)
             due == OwedTo(F, M, m, side, u)
  <2>1. x \in Nat /\ i \in Nat /\ x <= i /\ held[u] \in Nat
    BY <1>3, SideTypes DEF Paced
  <2>2. /\ LeadOf(side, x, i) \in Nat /\ far \in Nat /\ far <= LeadOf(side, x, i) + g
    BY <2>1, LeadGrows
  <2>3. Ahead(F, M, m, side).index = i + g
    BY <1>2 DEF Moves
  <2>4. due = (held[u] * far) \div D
    BY <2>3 DEF OwedTo
  <2>5. held[u] * far \in Nat /\ D * due <= held[u] * far /\ due \in Nat
    <3>1. held[u] * far \in Nat
      BY <2>1, <2>2, TimesNat
    <3> HIDE DEF held, far, D, due
    <3> QED
      BY <1>4, <2>4, <3>1, DivBounds
  <2>6. leads[u] = held[u] * LeadOf(side, x, i)
    BY DEF Leads
  <2>7. left[u] = Holding(N, m, side)[u] * LeadOf(side, SettledAt(G, m, side)[u], i + g)
    BY <1>2 DEF Leads
  <2>8. gained[u] = earned[u] + (IF u \in who THEN due ELSE 0)
    <3>1. /\ G.claimed[u] \in Nat /\ G.accrued[u] \in Nat
          /\ F.claimed[u] \in Nat /\ F.accrued[u] \in Nat
      BY SideTypes
    <3>2. G.claimed[u] + G.accrued[u]
            = F.claimed[u] + F.accrued[u] + (IF u \in who THEN due ELSE 0)
      BY DEF Moves
    <3>3. gained[u] = G.accrued[u] + G.claimed[u] /\ earned[u] = F.accrued[u] + F.claimed[u]
      BY DEF EarnedBy
    <3> HIDE DEF due, gained, earned
    <3> QED
      BY <2>5, <3>1, <3>2, <3>3
  <2>9. held[u] * far <= held[u] * LeadOf(side, x, i) + g * held[u]
    <3> DEFINE l == LeadOf(side, x, i)
               h == held[u]
    <3>1. h \in Nat /\ l \in Nat /\ far \in Nat /\ far <= l + g
      BY <2>1, <2>2
    <3> HIDE DEF l, h, far
    <3>2. far * h <= (l + g) * h
      BY <3>1, TimesMonotone
    <3>3. (l + g) * h = h * l + g * h /\ far * h = h * far
      BY <3>1, SMT
    <3>4. h * far <= h * l + g * h
      BY <3>2, <3>3
    <3> QED
      BY <3>4 DEF l, h
  <2>10. CASE u \in who
    <3>1. SettledAt(G, m, side)[u] = i + g
      BY <1>2, <2>10 DEF Moves
    <3>2. LeadOf(side, i + g, i + g) = 0
      BY <2>1, NoLead
    <3>3. Holding(N, m, side)[u] \in Nat
      BY DEF Held
    <3>4. left[u] = 0
      BY <2>7, <3>1, <3>2, <3>3
    <3>5. gained[u] = earned[u] + due
      BY <2>8, <2>10
    <3>6. earned[u] \in Nat /\ leads[u] \in Nat /\ gained[u] \in Nat
      BY <1>3
    <3>7. D * due + D * earned[u] <= leads[u] + g * held[u] + D * earned[u]
      <4> DEFINE e == D * earned[u]
                 p == D * due
                 q == g * held[u]
                 r == held[u] * far
      <4>1. e \in Nat /\ p \in Nat /\ q \in Nat
        BY <1>4, <2>1, <2>5, <3>6, TimesNat
      <4>2. p <= r /\ r <= leads[u] + q /\ r \in Nat
        BY <2>5, <2>6, <2>9
      <4> HIDE DEF e, p, q, r, leads
      <4>3. p + e <= leads[u] + q + e
        BY <3>6, <4>1, <4>2
      <4> QED
        BY <4>3 DEF e, p, q
    <3>8. D * (earned[u] + due) = D * earned[u] + D * due
      BY <1>4, <2>5, <3>6, Distribute
    <3> HIDE DEF D, due, left, leads, earned, gained, held
    <3>9. D * due \in Nat /\ D * earned[u] \in Nat
      BY <1>4, <2>5, <3>6, TimesNat
    <3> QED
      BY <3>4, <3>5, <3>7, <3>8, <3>9
  <2>11. CASE u \notin who
    <3>1. /\ SettledAt(G, m, side)[u] = x
          /\ Holding(N, m, side)[u] = held[u]
          /\ gained[u] = earned[u]
      BY <1>3, <2>8, <2>11 DEF Moves
    <3>2. left[u] = held[u] * far
      BY <2>7, <3>1
    <3>3. earned[u] \in Nat /\ leads[u] \in Nat
      BY <1>3
    <3> DEFINE e == D * earned[u]
               q == g * held[u]
               r == held[u] * far
    <3>4. e \in Nat /\ q \in Nat /\ r \in Nat /\ r <= leads[u] + q /\ left[u] = r
      BY <1>4, <2>1, <2>5, <2>6, <2>9, <3>2, <3>3, TimesNat
    <3> HIDE DEF e, q, r, leads, left
    <3>5. left[u] + e <= leads[u] + q + e
      BY <3>3, <3>4
    <3> QED
      BY <3>1, <3>5 DEF e, q
  <2> QED
    BY <2>10, <2>11
<1> HIDE DEF left, leads, earned, gained
<1>6. SumFunction(left) + D * SumFunction(gained)
        <= SumFunction(leads) + g * SumFunction(held) + D * SumFunction(earned)
  BY <1>3, <1>4, <1>5, SumsOfShares
<1>7. Unspent(F, M, m, side) = K * old - SumFunction(leads)
  BY DEF Unspent, leads
<1>8. Unspent(G, N, m, side) = K * new - SumFunction(left)
  BY DEF Unspent, left
<1>9. /\ SumFunction(left) \in Nat /\ SumFunction(leads) \in Nat
      /\ SumFunction(gained) \in Nat /\ SumFunction(earned) \in Nat
      /\ SumFunction(held) \in Nat
  BY <1>3, AccountsFinite, SumFunctionNat
<1>10. D * SumFunction(gained) - D * SumFunction(earned)
         <= Unspent(G, N, m, side) - Unspent(F, M, m, side)
  <2> DEFINE kn == K * new
             ko == K * old
             dg == D * SumFunction(gained)
             de == D * SumFunction(earned)
             gh == g * SumFunction(held)
  <2>1. /\ kn \in Nat /\ ko \in Nat /\ dg \in Nat /\ de \in Nat /\ gh \in Nat
    BY <1>2, <1>4, <1>9, TimesNat
  <2>2. K * (new - old) = kn - ko
    <3> HIDE DEF K, new, old
    <3>1. K * (new - old) = K * new - K * old
      BY <1>2, <1>4, SMT
    <3> QED
      BY <3>1
  <2>3. gh <= kn - ko
    BY <1>2, <2>2
  <2>4. SumFunction(left) + dg <= SumFunction(leads) + gh + de
    BY <1>6
  <2>5. /\ Unspent(F, M, m, side) = ko - SumFunction(leads)
        /\ Unspent(G, N, m, side) = kn - SumFunction(left)
    BY <1>7, <1>8
  <2> HIDE DEF kn, ko, dg, de, gh
  <2>6. dg - de <= Unspent(G, N, m, side) - Unspent(F, M, m, side)
    BY <1>9, <2>1, <2>3, <2>4, <2>5
  <2> QED
    BY <2>6 DEF dg, de
<1> DEFINE before == AllUnspent(F, M)
           after  == AllUnspent(G, N)
<1>11. ASSUME NEW x \in Markets, NEW s \in Sides, x # m \/ s # side
       PROVE  Unspent(G, N, x, s) = Unspent(F, M, x, s)
  <2>1. Leads(G, N, x, s) = Leads(F, M, x, s) /\ SideState(G, x, s) = SideState(F, x, s)
    BY <1>11 DEF Moves, Leads
  <2> QED
    BY <2>1 DEF Unspent
<1>12. \A x \in Markets : /\ Unspent(F, M, x, "supply") \in Int /\ Unspent(F, M, x, "borrow") \in Int
                          /\ Unspent(G, N, x, "supply") \in Int /\ Unspent(G, N, x, "borrow") \in Int
  BY <1>1, LeadsType DEF Sides
<1>13. before \in [Markets -> Int] /\ after \in [Markets -> Int]
  BY <1>12 DEF AllUnspent
<1>14. \A x \in Markets \ {m} : after[x] = before[x]
  <2> TAKE x \in Markets \ {m}
  <2>1. /\ Unspent(G, N, x, "supply") = Unspent(F, M, x, "supply")
        /\ Unspent(G, N, x, "borrow") = Unspent(F, M, x, "borrow")
    BY <1>11 DEF Sides
  <2> QED
    BY <2>1 DEF AllUnspent
<1>15. after[m] - before[m] = Unspent(G, N, m, side) - Unspent(F, M, m, side)
  <2>1. /\ before[m] = Unspent(F, M, m, "supply") + Unspent(F, M, m, "borrow")
        /\ after[m] = Unspent(G, N, m, "supply") + Unspent(G, N, m, "borrow")
    BY DEF AllUnspent
  <2>2. CASE side = "supply"
    <3>1. Unspent(G, N, m, "borrow") = Unspent(F, M, m, "borrow")
      BY <1>11, <2>2 DEF Sides
    <3> QED
      BY <1>12, <2>1, <2>2, <3>1
  <2>3. CASE side = "borrow"
    <3>1. Unspent(G, N, m, "supply") = Unspent(F, M, m, "supply")
      BY <1>11, <2>3 DEF Sides
    <3> QED
      BY <1>12, <2>1, <2>3, <3>1
  <2> QED
    BY <2>2, <2>3 DEF Sides
<1>16. D * SumFunction(earned) <= SumFunction(before)
  BY DEF WithinBudget, earned
<1> HIDE DEF before, after
<1>17. /\ SumFunction(after) = SumFunction(before) - before[m] + after[m]
       /\ SumFunction(before) \in Int
  BY <1>13, <1>14, FlywheelFinite, SumFunctionUpdate, SumFunctionInt
<1>18. D * SumFunction(gained) <= SumFunction(after)
  <2> DEFINE dg == D * SumFunction(gained)
             de == D * SumFunction(earned)
             un == Unspent(G, N, m, side)
             uo == Unspent(F, M, m, side)
  <2>1. dg \in Nat /\ de \in Nat /\ un \in Int /\ uo \in Int
    BY <1>1, <1>4, <1>9, LeadsType, TimesNat
  <2>2. /\ dg - de <= un - uo /\ de <= SumFunction(before)
        /\ after[m] - before[m] = un - uo
        /\ before[m] \in Int /\ after[m] \in Int
    BY <1>10, <1>13, <1>15, <1>16
  <2> HIDE DEF dg, de, un, uo
  <2>3. dg <= SumFunction(after)
    BY <1>17, <2>1, <2>2
  <2> QED
    BY <2>3 DEF dg
<1> QED
  BY <1>18 DEF WithinBudget, gained, after

-----------------------------------------------------------------------------
(* The hooks settle in this sense, at books without interest *)

\* No interest: the debts are what was borrowed, and add up to the market's.
Even(t) ==
  /\ Backed(t)
  /\ t.borrowIndex = ExpScale
  /\ \A u \in Accounts : t.principal[u] > 0 => t.interestIndex[u] = ExpScale
  /\ t.totalBorrows = SumFunction(t.principal)

EvenBooks(M) ==
  \A m \in Markets : BooksInv(M[m], blockNumber) /\ Even(M[m])

\* Only these accounts' positions on one side of m differ.
OnlyChanges(M, N, m, side, who) ==
  /\ \A u \in Accounts \ who : Holding(N, m, side)[u] = Holding(M, m, side)[u]
  /\ \A x \in Markets, s \in Sides :
       x # m \/ s # side => Holding(N, x, s) = Holding(M, x, s)

\* Books that no settlement tells apart.
SameHoldings(M, N) == \A m \in Markets, side \in Sides : Holding(N, m, side) = Holding(M, m, side)

\* Even books hold naturals.
LEMMA EvenHeld == ASSUME NEW M, EvenBooks(M) PROVE Held(M)
<1>1. \A m \in Markets : M[m].tokens \in [Accounts -> Nat] /\ M[m].principal \in [Accounts -> Nat]
  BY DEF EvenBooks, BooksInv, MarketBooks
<1> QED
  BY <1>1 DEF Held, Holding

\* In even books a debt is its principal, in units of the index or not.
LEMMA EvenDebts ==
  ASSUME NEW M, EvenBooks(M), NEW m \in Markets
  PROVE  /\ \A d \in Nat : PerIndex(M, m, d) = d
         /\ \A u \in Accounts : BorrowBalanceStored(M[m], u) = M[m].principal[u]
         /\ M[m].totalBorrows \in Nat
         /\ M[m].totalBorrows = SumFunction(M[m].principal)
<1>1. /\ M[m].principal \in [Accounts -> Nat] /\ M[m].totalBorrows \in Nat
      /\ M[m].borrowIndex = ExpScale
      /\ M[m].totalBorrows = SumFunction(M[m].principal)
      /\ \A u \in Accounts : M[m].principal[u] > 0 => M[m].interestIndex[u] = ExpScale
  BY DEF EvenBooks, Even, BooksInv, MarketBooks
<1>2. \A d \in Nat : (d * ExpScale) \div ExpScale = d
  <2> TAKE d \in Nat
  <2>1. ExpScale \in Nat /\ ExpScale > 0
    BY ExpScaleAssumption
  <2> QED
    BY <2>1, SMT
<1>3. \A d \in Nat : PerIndex(M, m, d) = d
  BY <1>1, <1>2 DEF PerIndex
<1>4. \A u \in Accounts : BorrowBalanceStored(M[m], u) = M[m].principal[u]
  <2> TAKE u \in Accounts
  <2>1. M[m].principal[u] \in Nat
    BY <1>1
  <2>2. CASE M[m].principal[u] = 0
    BY <2>2 DEF BorrowBalanceStored
  <2>3. CASE M[m].principal[u] > 0
    <3>1. M[m].interestIndex[u] = ExpScale
      BY <1>1, <2>3
    <3> QED
      BY <1>1, <1>2, <2>1, <2>3, <3>1 DEF BorrowBalanceStored
  <2> QED
    BY <2>1, <2>2, <2>3
<1> QED
  BY <1>1, <1>3, <1>4

\* The code's indices and deltas in the common form.
LEMMA SupplyAhead ==
  ASSUME NEW F, NEW M, EvenBooks(M), NEW m \in Markets
  PROVE  SupplyNow(F, M, m) = Ahead(F, M, m, "supply")
  BY DEF EvenBooks, Even, Backed, SupplyNow, Ahead, SideState, Holding

\* The code's update of the borrow side is an update of a side.
LEMMA BorrowAhead ==
  ASSUME NEW F, NEW M, EvenBooks(M), NEW m \in Markets
  PROVE  BorrowNow(F, M, m) = Ahead(F, M, m, "borrow")
<1>1. PerIndex(M, m, M[m].totalBorrows) = SumFunction(M[m].principal)
  BY EvenDebts
<1> QED
  BY <1>1 DEF BorrowNow, Ahead, SideState, Holding

\* An update does not move an index back.
LEMMA AheadType ==
  ASSUME NEW F, RewardInv(F, Now), Paced(F), blockNumber \in Nat, NEW M, Held(M),
         NEW m \in Markets, NEW side \in Sides
  PROVE  /\ Ahead(F, M, m, side).index \in Nat
         /\ SideState(F, m, side).index <= Ahead(F, M, m, side).index
<1>1. PICK g \in Nat : Ahead(F, M, m, side) = [index |-> SideState(F, m, side).index + g, block |-> Now]
  BY AheadBy
<1>2. SideState(F, m, side).index \in Nat
  BY SideTypes
<1>3. Ahead(F, M, m, side).index = SideState(F, m, side).index + g
  BY <1>1
<1> QED
  BY <1>2, <1>3

\* What settling a supplier would add, also while it cannot be settled.
LEMMA SupplierOwed ==
  ASSUME NEW F, RewardInv(F, Now), Paced(F), blockNumber \in Nat, NEW M, EvenBooks(M),
         NEW m \in Markets, NEW u \in Accounts
  PROVE  LET index == SupplyNow(F, M, m).index
         IN  OwedTo(F, M, m, "supply", u)
               = IF PaidFrom(F, m, u, index) > index THEN 0
                 ELSE SupplierDelta(F, M, m, u, index)
<1> DEFINE index == SupplyNow(F, M, m).index
           x == F.supplierIndex[m][u]
           from == PaidFrom(F, m, u, index)
           lead == LeadOf("supply", x, index)
<1>1. Held(M) /\ "supply" \in Sides
  BY EvenHeld DEF Sides
<1>2. index = Ahead(F, M, m, "supply").index
  BY SupplyAhead
<1>3. index \in Nat
  BY <1>1, <1>2, AheadType
<1>4. x \in Nat
  BY DEF RewardInv, FlywheelBooks
<1>5. M[m].tokens[u] \in Nat
  BY DEF EvenBooks, BooksInv, MarketBooks
<1>6. OwedTo(F, M, m, "supply", u) = (M[m].tokens[u] * lead) \div DoubleScale
  BY <1>2 DEF OwedTo, Holding, SettledAt
<1> HIDE DEF index
<1>7. BrainiacInitialIndex \in Nat
  BY FlywheelAssumption DEF BrainiacInitialIndex
<1>8. /\ from > index => lead = 0
      /\ ~ (from > index) => lead = index - from
  BY <1>3, <1>4, <1>7 DEF LeadOf, PaidFrom
<1> HIDE DEF lead, from
<1>9. (M[m].tokens[u] * 0) \div DoubleScale = 0
  <2>1. M[m].tokens[u] * 0 = 0
    BY <1>5
  <2>2. 0 \div DoubleScale = 0
    BY FlywheelAssumption, SMT
  <2> QED
    BY <2>1, <2>2
<1>10. ~ (from > index) => OwedTo(F, M, m, "supply", u) = SupplierDelta(F, M, m, u, index)
  BY <1>6, <1>8 DEF SupplierDelta, from
<1>11. from > index => OwedTo(F, M, m, "supply", u) = 0
  BY <1>6, <1>8, <1>9
<1> QED
  BY <1>10, <1>11 DEF index, from

\* The code's delta of a borrower is what settling the side would add.
LEMMA BorrowerOwed ==
  ASSUME NEW F, RewardInv(F, Now), Paced(F), blockNumber \in Nat, NEW M, EvenBooks(M),
         NEW m \in Markets, NEW u \in Accounts
  PROVE  OwedTo(F, M, m, "borrow", u) = BorrowerDelta(F, M, m, u, BorrowNow(F, M, m).index)
<1> DEFINE index == BorrowNow(F, M, m).index
           x == F.borrowerIndex[m][u]
           lead == LeadOf("borrow", x, index)
           p == M[m].principal[u]
<1>1. p \in Nat /\ x \in Nat
  BY DEF EvenBooks, BooksInv, MarketBooks, RewardInv, FlywheelBooks
<1>2. index = Ahead(F, M, m, "borrow").index
  BY BorrowAhead
<1>3. OwedTo(F, M, m, "borrow", u) = (p * lead) \div DoubleScale
  BY <1>2 DEF OwedTo, Holding, SettledAt
<1>4. PerIndex(M, m, BorrowBalanceStored(M[m], u)) = p
  BY <1>1, EvenDebts
<1> HIDE DEF index
<1>5. CASE x = 0
  <2>1. lead = 0
    BY <1>5 DEF LeadOf
  <2> HIDE DEF lead, p
  <2>2. p * lead = 0
    BY <1>1, <2>1
  <2>3. 0 \div DoubleScale = 0
    BY FlywheelAssumption, SMT
  <2>4. OwedTo(F, M, m, "borrow", u) = 0
    BY <1>3, <2>2, <2>3
  <2> QED
    BY <1>5, <2>4 DEF BorrowerDelta, index
<1>6. CASE x # 0
  <2>1. lead = index - x
    BY <1>6 DEF LeadOf
  <2> QED
    BY <1>3, <1>4, <1>6, <2>1 DEF BorrowerDelta, index
<1> QED
  BY <1>5, <1>6

\* The settlement of suppliers moves the supply side of its market.
LEMMA SettleSuppliersMoves ==
  ASSUME NEW F, RewardInv(F, Now), Paced(F), blockNumber \in Nat, NEW M, EvenBooks(M), NEW N,
         NEW m \in Markets, NEW who, CanSettleSuppliers(F, M, m, who),
         OnlyChanges(M, N, m, "supply", who)
  PROVE  Moves(F, SettleSuppliers(F, M, m, who), M, N, m, "supply", who)
<1> DEFINE G == SettleSuppliers(F, M, m, who)
           state == SupplyNow(F, M, m)
           delta(u) == IF u \in who THEN SupplierDelta(F, M, m, u, state.index) ELSE 0
           reached == [u \in Accounts |-> IF u \in who THEN state.index
                                          ELSE F.supplierIndex[m][u]]
<1>1. F \in FlywheelBooks
  BY DEF RewardInv
<1>2. /\ F.supply \in [Markets -> MarketState]
      /\ F.supplierIndex \in [Markets -> [Accounts -> Nat]]
      /\ F.accrued \in [Accounts -> Nat] /\ F.claimed \in [Accounts -> Nat]
  BY <1>1 DEF FlywheelBooks
<1>3. /\ G.supply = [F.supply EXCEPT ![m] = state]
      /\ G.supplierIndex = [F.supplierIndex EXCEPT ![m] = reached]
      /\ G.accrued = [u \in Accounts |-> F.accrued[u] + delta(u)]
      /\ G.speed = F.speed /\ G.borrow = F.borrow
      /\ G.borrowerIndex = F.borrowerIndex /\ G.claimed = F.claimed
  BY <1>1, <1>2 DEF SettleSuppliers, FlywheelBooks
<1>4. state = Ahead(F, M, m, "supply")
  BY SupplyAhead
<1>5. \A u \in Accounts : delta(u) = IF u \in who THEN OwedTo(F, M, m, "supply", u) ELSE 0
  <2> SUFFICES ASSUME NEW u \in Accounts, u \in who
               PROVE  SupplierDelta(F, M, m, u, state.index) = OwedTo(F, M, m, "supply", u)
    OBVIOUS
  <2>1. PaidFrom(F, m, u, state.index) <= state.index
    BY DEF CanSettleSuppliers
  <2>2. state.index \in Nat
    BY <1>4, EvenHeld, AheadType DEF Sides
  <2>3. PaidFrom(F, m, u, state.index) \in Nat
    BY <1>2, FlywheelAssumption DEF PaidFrom, BrainiacInitialIndex
  <2>4. ~ (PaidFrom(F, m, u, state.index) > state.index)
    BY <2>1, <2>2, <2>3
  <2> QED
    BY <2>4, SupplierOwed
<1> HIDE DEF G, state, delta
<1>6. /\ G.supply[m] = state /\ G.supplierIndex[m] = reached
      /\ \A x \in Markets \ {m} : /\ G.supply[x] = F.supply[x]
                                  /\ G.supplierIndex[x] = F.supplierIndex[x]
  BY <1>2, <1>3
<1>7. SideState(G, m, "supply") = Ahead(F, M, m, "supply")
  BY <1>4, <1>6 DEF SideState
<1>8. \A u \in Accounts :
        /\ SettledAt(G, m, "supply")[u] = IF u \in who THEN SideState(G, m, "supply").index
                                          ELSE SettledAt(F, m, "supply")[u]
        /\ u \notin who => Holding(N, m, "supply")[u] = Holding(M, m, "supply")[u]
  BY <1>4, <1>6, <1>7 DEF SettledAt, OnlyChanges
<1>9. \A u \in Accounts :
        G.claimed[u] + G.accrued[u]
          = F.claimed[u] + F.accrued[u]
              + (IF u \in who THEN OwedTo(F, M, m, "supply", u) ELSE 0)
  <2> TAKE u \in Accounts
  <2> DEFINE d == IF u \in who THEN OwedTo(F, M, m, "supply", u) ELSE 0
  <2>1. G.accrued[u] = F.accrued[u] + d /\ G.claimed[u] = F.claimed[u]
    BY <1>3, <1>5
  <2>2. F.accrued[u] \in Nat /\ F.claimed[u] \in Nat
    BY <1>2
  <2>3. d \in Int
    <3>1. RewardInv(G, Now)
      BY SettleSuppliersInv DEF EvenBooks, G
    <3>2. G.accrued[u] \in Nat
      BY <3>1 DEF RewardInv, FlywheelBooks
    <3>3. OwedTo(F, M, m, "supply", u) \in Nat
      BY EvenHeld, OwedType DEF Sides
    <3> QED
      BY <3>3
  <2> HIDE DEF d
  <2>4. G.claimed[u] + G.accrued[u] = F.claimed[u] + F.accrued[u] + d
    BY <2>1, <2>2, <2>3
  <2> QED
    BY <2>4 DEF d
<1>10. \A x \in Markets, s \in Sides :
         x # m \/ s # "supply" => /\ SideState(G, x, s) = SideState(F, x, s)
                                  /\ SettledAt(G, x, s) = SettledAt(F, x, s)
                                  /\ Holding(N, x, s) = Holding(M, x, s)
  BY <1>3, <1>6 DEF SideState, SettledAt, OnlyChanges, Sides
<1>11. Moves(F, G, M, N, m, "supply", who)
  BY <1>3, <1>7, <1>8, <1>9, <1>10 DEF Moves
<1> QED
  BY <1>11 DEF G

\* The settlement of a borrower moves the borrow side of its market.
LEMMA SettleBorrowerMoves ==
  ASSUME NEW F, RewardInv(F, Now), Paced(F), blockNumber \in Nat, NEW M, EvenBooks(M), NEW N,
         NEW m \in Markets, NEW v \in Accounts, OnlyChanges(M, N, m, "borrow", {v})
  PROVE  Moves(F, SettleBorrower(F, M, m, v), M, N, m, "borrow", {v})
<1> DEFINE G == SettleBorrower(F, M, m, v)
           state == BorrowNow(F, M, m)
           delta == BorrowerDelta(F, M, m, v, state.index)
<1>1. F \in FlywheelBooks
  BY DEF RewardInv
<1>2. /\ F.borrow \in [Markets -> MarketState]
      /\ F.borrowerIndex \in [Markets -> [Accounts -> Nat]]
      /\ F.accrued \in [Accounts -> Nat] /\ F.claimed \in [Accounts -> Nat]
  BY <1>1 DEF FlywheelBooks
<1>3. /\ G.borrow = [F.borrow EXCEPT ![m] = state]
      /\ G.borrowerIndex = [F.borrowerIndex EXCEPT ![m] = [@ EXCEPT ![v] = state.index]]
      /\ G.accrued = [F.accrued EXCEPT ![v] = F.accrued[v] + delta]
      /\ G.speed = F.speed /\ G.supply = F.supply
      /\ G.supplierIndex = F.supplierIndex /\ G.claimed = F.claimed
  BY <1>1, <1>2 DEF SettleBorrower, FlywheelBooks
<1>4. state = Ahead(F, M, m, "borrow")
  BY BorrowAhead
<1>5. delta = OwedTo(F, M, m, "borrow", v)
  BY BorrowerOwed
<1> HIDE DEF G, state, delta
<1>6. /\ G.borrow[m] = state
      /\ G.borrowerIndex[m] = [F.borrowerIndex[m] EXCEPT ![v] = state.index]
      /\ \A x \in Markets \ {m} : /\ G.borrow[x] = F.borrow[x]
                                  /\ G.borrowerIndex[x] = F.borrowerIndex[x]
  BY <1>2, <1>3
<1>7. SideState(G, m, "borrow") = Ahead(F, M, m, "borrow")
  BY <1>4, <1>6 DEF SideState
<1>8. \A u \in Accounts :
        /\ SettledAt(G, m, "borrow")[u] = IF u \in {v} THEN SideState(G, m, "borrow").index
                                          ELSE SettledAt(F, m, "borrow")[u]
        /\ u \notin {v} => Holding(N, m, "borrow")[u] = Holding(M, m, "borrow")[u]
  <2>1. F.borrowerIndex[m] \in [Accounts -> Nat]
    BY <1>2
  <2>2. SettledAt(G, m, "borrow") = [F.borrowerIndex[m] EXCEPT ![v] = state.index]
    BY <1>6 DEF SettledAt
  <2>3. SettledAt(F, m, "borrow") = F.borrowerIndex[m]
    BY DEF SettledAt
  <2>4. SideState(G, m, "borrow").index = state.index
    BY <1>4, <1>7
  <2> QED
    BY <2>1, <2>2, <2>3, <2>4 DEF OnlyChanges
<1>9. \A u \in Accounts :
        G.claimed[u] + G.accrued[u]
          = F.claimed[u] + F.accrued[u]
              + (IF u \in {v} THEN OwedTo(F, M, m, "borrow", u) ELSE 0)
  <2> TAKE u \in Accounts
  <2>1. F.accrued[u] \in Nat /\ F.claimed[u] \in Nat /\ G.claimed[u] = F.claimed[u]
    BY <1>2, <1>3
  <2>2. OwedTo(F, M, m, "borrow", u) \in Nat
    BY EvenHeld, OwedType DEF Sides
  <2>3. CASE u = v
    BY <1>2, <1>3, <1>5, <2>1, <2>2, <2>3
  <2>4. CASE u # v
    BY <1>2, <1>3, <2>1, <2>4
  <2> QED
    BY <2>3, <2>4
<1>10. \A x \in Markets, s \in Sides :
         x # m \/ s # "borrow" => /\ SideState(G, x, s) = SideState(F, x, s)
                                  /\ SettledAt(G, x, s) = SettledAt(F, x, s)
                                  /\ Holding(N, x, s) = Holding(M, x, s)
  BY <1>3, <1>6 DEF SideState, SettledAt, OnlyChanges, Sides
<1>11. Moves(F, G, M, N, m, "borrow", {v})
  BY <1>3, <1>7, <1>8, <1>9, <1>10 DEF Moves
<1> QED
  BY <1>11 DEF G

-----------------------------------------------------------------------------
(* What a settlement, a payment and a change of the books nobody earns by keep *)

Steady(F, M) == RewardInv(F, Now) /\ Paced(F) /\ WithinBudget(F, M)

\* Suppliers settled before their tokens change: nobody gains or loses.
LEMMA SuppliersSteady ==
  ASSUME NEW F, NEW M, Steady(F, M), blockNumber \in Nat, EvenBooks(M), NEW N, EvenBooks(N),
         NEW m \in Markets, NEW who, CanSettleSuppliers(F, M, m, who),
         OnlyChanges(M, N, m, "supply", who)
  PROVE  /\ Steady(SettleSuppliers(F, M, m, who), N)
         /\ \A u \in Accounts :
              Earnings(SettleSuppliers(F, M, m, who), N, u) = Earnings(F, M, u)
<1> DEFINE G == SettleSuppliers(F, M, m, who)
<1>1. RewardInv(F, Now) /\ Paced(F) /\ WithinBudget(F, M) /\ Held(M) /\ Held(N)
  BY EvenHeld DEF Steady
<1>2. RewardInv(G, Now)
  BY <1>1, SettleSuppliersInv DEF EvenBooks
<1>3. Moves(F, G, M, N, m, "supply", who)
  BY <1>1, SettleSuppliersMoves
<1> HIDE DEF G
<1>4. "supply" \in Sides
  BY DEF Sides
<1>5. Paced(G) /\ WithinBudget(G, N)
  BY <1>1, <1>2, <1>3, <1>4, MovesPaced, MovesBudget
<1>6. \A u \in Accounts : Earnings(G, N, u) = Earnings(F, M, u)
  BY <1>1, <1>2, <1>3, <1>4, MovesEarnings
<1> QED
  BY <1>2, <1>5, <1>6 DEF Steady, G

\* A borrower settled before its debt changes: nobody gains or loses.
LEMMA BorrowerSteady ==
  ASSUME NEW F, NEW M, Steady(F, M), blockNumber \in Nat, EvenBooks(M), NEW N, EvenBooks(N),
         NEW m \in Markets, NEW v \in Accounts, OnlyChanges(M, N, m, "borrow", {v})
  PROVE  /\ Steady(SettleBorrower(F, M, m, v), N)
         /\ \A u \in Accounts : Earnings(SettleBorrower(F, M, m, v), N, u) = Earnings(F, M, u)
<1> DEFINE G == SettleBorrower(F, M, m, v)
<1>1. RewardInv(F, Now) /\ Paced(F) /\ WithinBudget(F, M) /\ Held(M) /\ Held(N)
  BY EvenHeld DEF Steady
<1>2. RewardInv(G, Now)
  BY <1>1, SettleBorrowerInv DEF EvenBooks
<1>3. Moves(F, G, M, N, m, "borrow", {v})
  BY <1>1, SettleBorrowerMoves
<1> HIDE DEF G
<1>4. "borrow" \in Sides
  BY DEF Sides
<1>5. Paced(G) /\ WithinBudget(G, N)
  BY <1>1, <1>2, <1>3, <1>4, MovesPaced, MovesBudget
<1>6. \A u \in Accounts : Earnings(G, N, u) = Earnings(F, M, u)
  BY <1>1, <1>2, <1>3, <1>4, MovesEarnings
<1> QED
  BY <1>2, <1>5, <1>6 DEF Steady, G

\* Books with the same positions are the same to the flywheel.
LEMMA SameHoldingsSteady ==
  ASSUME NEW F, NEW M, Steady(F, M), NEW N, SameHoldings(M, N)
  PROVE  /\ Steady(F, N)
         /\ \A u \in Accounts : Earnings(F, N, u) = Earnings(F, M, u)
<1>1. \A m \in Markets : /\ Holding(N, m, "supply") = Holding(M, m, "supply")
                         /\ Holding(N, m, "borrow") = Holding(M, m, "borrow")
  BY DEF SameHoldings, Sides
<1>2. AllUnspent(F, N) = AllUnspent(F, M)
  <2>1. \A m \in Markets : /\ Unspent(F, N, m, "supply") = Unspent(F, M, m, "supply")
                           /\ Unspent(F, N, m, "borrow") = Unspent(F, M, m, "borrow")
    BY <1>1 DEF Unspent, Leads
  <2> QED
    BY <2>1 DEF AllUnspent
<1>3. \A u \in Accounts : Owed(F, N, u) = Owed(F, M, u)
  <2> TAKE u \in Accounts
  <2>1. \A m \in Markets : /\ OwedTo(F, N, m, "supply", u) = OwedTo(F, M, m, "supply", u)
                           /\ OwedTo(F, N, m, "borrow", u) = OwedTo(F, M, m, "borrow", u)
    BY <1>1 DEF OwedTo, Ahead
  <2> QED
    BY <2>1 DEF Owed
<1> QED
  BY <1>2, <1>3 DEF Steady, WithinBudget, Earnings

\* Where a settlement leaves the indices does not depend on who else it pays.
LEMMA SameIndices ==
  ASSUME NEW F, NEW G, G.speed = F.speed, G.supply = F.supply, G.borrow = F.borrow,
         G.supplierIndex = F.supplierIndex, G.borrowerIndex = F.borrowerIndex, NEW M
  PROVE  /\ Paced(F) => Paced(G)
         /\ AllUnspent(G, M) = AllUnspent(F, M)
         /\ \A u \in Accounts : Owed(G, M, u) = Owed(F, M, u)
<1>1. \A m \in Markets, side \in Sides : /\ SideState(G, m, side) = SideState(F, m, side)
                                         /\ SettledAt(G, m, side) = SettledAt(F, m, side)
  BY DEF SideState, SettledAt
<1>2. "supply" \in Sides /\ "borrow" \in Sides
  BY DEF Sides
<1>3. Paced(F) => Paced(G)
  BY <1>1 DEF Paced
<1>4. \A m \in Markets, side \in Sides : Unspent(G, M, m, side) = Unspent(F, M, m, side)
  BY <1>1 DEF Unspent, Leads
<1>5. \A m \in Markets, side \in Sides, u \in Accounts :
        OwedTo(G, M, m, side, u) = OwedTo(F, M, m, side, u)
  BY <1>1 DEF OwedTo, Ahead
<1> QED
  BY <1>2, <1>3, <1>4, <1>5 DEF AllUnspent, Owed

\* A payment of no more than was accrued only takes; one of all of it takes nothing.
LEMMA PaidOutSteady ==
  ASSUME NEW F, NEW M, Steady(F, M), Held(M), NEW v \in Accounts, NEW n \in 0..F.balance,
         n <= F.accrued[v]
  PROVE  /\ Steady(PaidOut(F, v, n), M)
         /\ PaidOut(F, v, n).claimed[v] = F.claimed[v] + n
         /\ \A u \in Accounts :
              u # v \/ n = F.accrued[v] => Earnings(PaidOut(F, v, n), M, u) = Earnings(F, M, u)
<1> DEFINE G == PaidOut(F, v, n)
<1>1. RewardInv(F, Now) /\ Paced(F) /\ WithinBudget(F, M) /\ F \in FlywheelBooks
  BY DEF Steady, RewardInv
<1>2. F.accrued \in [Accounts -> Nat] /\ F.claimed \in [Accounts -> Nat] /\ F.balance \in Nat
  BY <1>1 DEF FlywheelBooks
<1>3. /\ G.speed = F.speed /\ G.supply = F.supply /\ G.borrow = F.borrow
      /\ G.supplierIndex = F.supplierIndex /\ G.borrowerIndex = F.borrowerIndex
      /\ G.accrued = [F.accrued EXCEPT ![v] = 0]
      /\ G.claimed = [F.claimed EXCEPT ![v] = F.claimed[v] + n]
  BY <1>1, <1>2 DEF PaidOut, FlywheelBooks
<1>4. RewardInv(G, Now)
  BY <1>1, PaidOutInv
<1> HIDE DEF G
<1>5. /\ Paced(G) /\ AllUnspent(G, M) = AllUnspent(F, M)
      /\ \A u \in Accounts : Owed(G, M, u) = Owed(F, M, u)
  BY <1>1, <1>3, SameIndices
<1>6. n \in Nat
  BY <1>2
<1>7. SumFunction(EarnedBy(G)) <= SumFunction(EarnedBy(F))
  <2>1. \A u \in Accounts : EarnedBy(G)[u] <= EarnedBy(F)[u]
    BY <1>2, <1>3, <1>6 DEF EarnedBy
  <2>2. EarnedBy(G) \in [Accounts -> Int] /\ EarnedBy(F) \in [Accounts -> Int]
    BY <1>1, <1>4, EarnedType
  <2> QED
    BY <2>1, <2>2, AccountsFinite, SumFunctionLeq
<1>8. WithinBudget(G, M)
  <2>1. SumFunction(EarnedBy(G)) \in Nat /\ SumFunction(EarnedBy(F)) \in Nat
    BY <1>1, <1>4, EarnedType
  <2>2. DoubleScale * SumFunction(EarnedBy(G)) <= DoubleScale * SumFunction(EarnedBy(F))
    <3>1. SumFunction(EarnedBy(G)) * DoubleScale <= SumFunction(EarnedBy(F)) * DoubleScale
      BY <1>7, <2>1, TimesMonotone, FlywheelAssumption
    <3> QED
      BY <2>1, <3>1, FlywheelAssumption
  <2>3. DoubleScale * SumFunction(EarnedBy(F)) <= SumFunction(AllUnspent(F, M))
    BY <1>1 DEF WithinBudget
  <2>4. SumFunction(AllUnspent(G, M)) = SumFunction(AllUnspent(F, M))
    BY <1>5
  <2>5. DoubleScale * SumFunction(EarnedBy(G)) \in Nat /\ DoubleScale * SumFunction(EarnedBy(F)) \in Nat
    BY <2>1, TimesNat, FlywheelAssumption
  <2>6. SumFunction(AllUnspent(F, M)) \in Int
    <3>1. \A m \in Markets : Unspent(F, M, m, "supply") \in Int /\ Unspent(F, M, m, "borrow") \in Int
      BY <1>1, LeadsType DEF Sides
    <3>2. AllUnspent(F, M) \in [Markets -> Int]
      BY <3>1 DEF AllUnspent
    <3> QED
      BY <3>2, FlywheelFinite, SumFunctionInt
  <2> QED
    BY <2>2, <2>3, <2>4, <2>5, <2>6 DEF WithinBudget
<1>9. ASSUME NEW u \in Accounts, u # v \/ n = F.accrued[v]
      PROVE  Earnings(G, M, u) = Earnings(F, M, u)
  <2>1. G.claimed[u] + G.accrued[u] = F.claimed[u] + F.accrued[u]
    BY <1>2, <1>3, <1>6, <1>9
  <2> QED
    BY <1>5, <2>1 DEF Earnings
<1>10. G.claimed[v] = F.claimed[v] + n
  BY <1>2, <1>3
<1> QED
  BY <1>4, <1>5, <1>8, <1>9, <1>10 DEF Steady, G

-----------------------------------------------------------------------------
(* Without interest, the books of the lending market stay even *)

\* Every model the admin may install lends for nothing.
NoInterest ==
  \A model \in RateModels : model.base = 0 /\ model.multiplier = 0 /\ model.jump = 0

\* A model without interest has the borrow rate 0.
LEMMA NoRate ==
  ASSUME NoInterest, NEW t \in MarketBooks, RateKnown(t)
  PROVE  BorrowRate(t) = 0
<1>1. /\ t.cash \in Nat /\ t.totalBorrows \in Nat /\ t.totalReserves \in Nat
      /\ t.rateModel \in RateModels
      /\ t.rateModel \in [base : Nat, multiplier : Nat, jump : Nat, kink : Nat]
  BY BRTokenAssumption DEF MarketBooks
<1>2. t.rateModel.base = 0 /\ t.rateModel.multiplier = 0 /\ t.rateModel.jump = 0
  BY <1>1 DEF NoInterest
<1>3. UtilizationRate(t) \in Nat /\ t.rateModel.kink \in Nat
  <2>1. CASE t.totalBorrows = 0
    BY <1>1, <2>1 DEF UtilizationRate
  <2>2. CASE t.totalBorrows > 0
    <3>1. /\ t.cash + t.totalBorrows - t.totalReserves \in Nat
          /\ t.cash + t.totalBorrows - t.totalReserves > 0
      BY <1>1, <2>2 DEF RateKnown
    <3> QED
      BY <1>1, <2>2, <3>1, GetExpNat DEF UtilizationRate
  <2> QED
    BY <1>1, <2>1, <2>2
<1>4. \A x \in Int : MulTruncate(x, 0) = 0
  <2> TAKE x \in Int
  <2>1. x * 0 = 0
    OBVIOUS
  <2>2. 0 \div ExpScale = 0
    BY ExpScaleAssumption, SMT
  <2> QED
    BY <2>1, <2>2 DEF MulTruncate
<1>5. UtilizationRate(t) - t.rateModel.kink \in Int /\ t.rateModel.kink \in Int /\ UtilizationRate(t) \in Int
  BY <1>3
<1> QED
  BY <1>2, <1>4, <1>5 DEF BorrowRate

\* Accruing at the rate 0 changes no debt and no index.
LEMMA AccruedEven ==
  ASSUME NoInterest, blockNumber \in Nat, NEW t, BooksInv(t, blockNumber), CanAccrue(t)
  PROVE  /\ Even(t) => Even(Accrued(t))
         /\ BooksInv(Accrued(t), blockNumber)
         /\ Accrued(t).tokens = t.tokens
         /\ Accrued(t).principal = t.principal
<1>1. /\ BooksInv(Accrued(t), blockNumber) /\ Accrued(t).tokens = t.tokens
      /\ Accrued(t).principal = t.principal
      /\ Accrued(t).totalSupply = t.totalSupply
      /\ t \in MarketBooks
  BY AccruedInv, AccruedKeeps DEF BooksInv
<1>2. /\ Accrued(t).totalBorrows = t.totalBorrows
      /\ Accrued(t).borrowIndex = t.borrowIndex
      /\ Accrued(t).interestIndex = t.interestIndex
  <2>1. CASE t.accrualBlock = blockNumber
    BY <2>1 DEF Accrued
  <2>2. CASE t.accrualBlock # blockNumber
    <3> DEFINE factor   == BorrowRate(t) * (blockNumber - t.accrualBlock)
               interest == MulTruncate(factor, t.totalBorrows)
    <3>1. BorrowRate(t) = 0
      BY <1>1, <2>2, NoRate DEF CanAccrue
    <3>2. t.accrualBlock \in Nat /\ t.totalBorrows \in Nat /\ t.borrowIndex \in Nat
      BY <1>1 DEF MarketBooks
    <3>3. factor = 0
      BY <3>1, <3>2
    <3> HIDE DEF factor
    <3>4. MulTruncate(factor, t.totalBorrows) = 0 /\ MulTruncate(factor, t.borrowIndex) = 0
      <4>1. 0 \div ExpScale = 0
        BY ExpScaleAssumption, SMT
      <4>2. 0 * t.totalBorrows = 0 /\ 0 * t.borrowIndex = 0
        BY <3>2
      <4> QED
        BY <3>3, <4>1, <4>2 DEF MulTruncate
    <3> HIDE DEF interest
    <3>5. /\ Accrued(t).totalBorrows = t.totalBorrows + interest
          /\ Accrued(t).borrowIndex = t.borrowIndex + MulTruncate(factor, t.borrowIndex)
          /\ Accrued(t).interestIndex = t.interestIndex
      BY <1>1, <2>2 DEF Accrued, MarketBooks, factor, interest
    <3> QED
      BY <3>2, <3>4, <3>5 DEF interest
  <2> QED
    BY <2>1, <2>2
<1> QED
  BY <1>1, <1>2 DEF Even, Backed

\* Operations on the brTokens leave the debts alone.
LEMMA MintFreshEven ==
  ASSUME NEW t, BooksInv(t, blockNumber), Even(t), NEW u \in Accounts, NEW n \in Nat,
         ExchangeRateKnown(t), ExchangeRate(t) > 0
  PROVE  /\ Even(MintFresh(t, u, n))
         /\ MintFresh(t, u, n).principal = t.principal
         /\ \A v \in Accounts \ {u} : MintFresh(t, u, n).tokens[v] = t.tokens[v]
<1>1. t \in MarketBooks
  BY DEF BooksInv
<1>2. Backed(MintFresh(t, u, n))
  BY MintFreshKeeps DEF Even
<1>3. /\ MintFresh(t, u, n).principal = t.principal
      /\ MintFresh(t, u, n).interestIndex = t.interestIndex
      /\ MintFresh(t, u, n).borrowIndex = t.borrowIndex
      /\ MintFresh(t, u, n).totalBorrows = t.totalBorrows
      /\ \A v \in Accounts \ {u} : MintFresh(t, u, n).tokens[v] = t.tokens[v]
  BY <1>1 DEF MintFresh, MarketBooks
<1> QED
  BY <1>2, <1>3 DEF Even

\* Redeeming leaves the debts alone.
LEMMA RedeemFreshEven ==
  ASSUME NEW t, BooksInv(t, blockNumber), Even(t), NEW u \in Accounts, NEW n \in Nat,
         NEW amount \in Nat
  PROVE  /\ Even(RedeemFresh(t, u, n, amount))
         /\ RedeemFresh(t, u, n, amount).principal = t.principal
         /\ \A v \in Accounts \ {u} : RedeemFresh(t, u, n, amount).tokens[v] = t.tokens[v]
<1>1. t \in MarketBooks
  BY DEF BooksInv
<1>2. Backed(RedeemFresh(t, u, n, amount))
  BY RedeemFreshKeeps DEF Even
<1>3. /\ RedeemFresh(t, u, n, amount).principal = t.principal
      /\ RedeemFresh(t, u, n, amount).interestIndex = t.interestIndex
      /\ RedeemFresh(t, u, n, amount).borrowIndex = t.borrowIndex
      /\ RedeemFresh(t, u, n, amount).totalBorrows = t.totalBorrows
      /\ \A v \in Accounts \ {u} : RedeemFresh(t, u, n, amount).tokens[v] = t.tokens[v]
  BY <1>1 DEF RedeemFresh, MarketBooks
<1> QED
  BY <1>2, <1>3 DEF Even

\* Moving brTokens leaves the debts alone.
LEMMA MoveTokensEven ==
  ASSUME NEW t, BooksInv(t, blockNumber), Even(t), NEW src \in Accounts, NEW dst \in Accounts,
         NEW n \in Nat, CanMove(t, src, dst, n)
  PROVE  /\ Even(MoveTokens(t, src, dst, n))
         /\ MoveTokens(t, src, dst, n).principal = t.principal
         /\ \A v \in Accounts \ {src, dst} : MoveTokens(t, src, dst, n).tokens[v] = t.tokens[v]
<1>1. t \in MarketBooks
  BY DEF BooksInv
<1>2. Backed(MoveTokens(t, src, dst, n))
  BY MoveTokensKeeps DEF Even
<1>3. /\ MoveTokens(t, src, dst, n).principal = t.principal
      /\ MoveTokens(t, src, dst, n).interestIndex = t.interestIndex
      /\ MoveTokens(t, src, dst, n).borrowIndex = t.borrowIndex
      /\ MoveTokens(t, src, dst, n).totalBorrows = t.totalBorrows
      /\ \A v \in Accounts \ {src, dst} : MoveTokens(t, src, dst, n).tokens[v] = t.tokens[v]
  BY <1>1 DEF MoveTokens, MarketBooks
<1> QED
  BY <1>2, <1>3 DEF Even

\* Borrowing and repaying change the debt and the total together.
LEMMA DebtEven ==
  ASSUME NEW t, BooksInv(t, blockNumber), Even(t), NEW u \in Accounts, NEW n \in Nat
  PROVE  /\ Even(BorrowFresh(t, u, n))
         /\ BorrowFresh(t, u, n).tokens = t.tokens
         /\ \A v \in Accounts \ {u} : BorrowFresh(t, u, n).principal[v] = t.principal[v]
         /\ Even(RepayBorrowFresh(t, u, n))
         /\ RepayBorrowFresh(t, u, n).tokens = t.tokens
         /\ \A v \in Accounts \ {u} : RepayBorrowFresh(t, u, n).principal[v] = t.principal[v]
<1> DEFINE up   == [t.principal EXCEPT ![u] = t.principal[u] + n]
           down == [t.principal EXCEPT ![u] = t.principal[u] - n]
           fresh == [t.interestIndex EXCEPT ![u] = t.borrowIndex]
<1>1. t \in MarketBooks
  BY DEF BooksInv
<1>2. /\ t.principal \in [Accounts -> Nat] /\ t.totalBorrows \in Nat
      /\ t.interestIndex \in [Accounts -> Nat]
      /\ t.borrowIndex = ExpScale /\ t.totalBorrows = SumFunction(t.principal)
      /\ \A v \in Accounts : t.principal[v] > 0 => t.interestIndex[v] = ExpScale
  BY <1>1 DEF MarketBooks, Even
<1>3. BorrowBalanceStored(t, u) = t.principal[u]
  <2>1. t.principal[u] \in Nat /\ ExpScale \in Nat /\ ExpScale > 0
    BY <1>2, ExpScaleAssumption
  <2>2. (t.principal[u] * ExpScale) \div ExpScale = t.principal[u]
    BY <2>1, SMT
  <2> QED
    BY <1>2, <2>1, <2>2 DEF BorrowBalanceStored
<1>4. /\ BorrowFresh(t, u, n).principal = up
      /\ BorrowFresh(t, u, n).interestIndex = fresh
      /\ BorrowFresh(t, u, n).borrowIndex = t.borrowIndex
      /\ BorrowFresh(t, u, n).totalBorrows = t.totalBorrows + n
      /\ BorrowFresh(t, u, n).tokens = t.tokens
      /\ BorrowFresh(t, u, n).totalSupply = t.totalSupply
  BY <1>1, <1>3 DEF BorrowFresh, MarketBooks
<1>5. /\ RepayBorrowFresh(t, u, n).principal = down
      /\ RepayBorrowFresh(t, u, n).interestIndex = fresh
      /\ RepayBorrowFresh(t, u, n).borrowIndex = t.borrowIndex
      /\ RepayBorrowFresh(t, u, n).totalBorrows = t.totalBorrows - n
      /\ RepayBorrowFresh(t, u, n).tokens = t.tokens
      /\ RepayBorrowFresh(t, u, n).totalSupply = t.totalSupply
  BY <1>1, <1>3 DEF RepayBorrowFresh, MarketBooks
<1>6. /\ up \in [Accounts -> Int] /\ down \in [Accounts -> Int]
      /\ t.principal \in [Accounts -> Int]
      /\ \A v \in Accounts \ {u} : up[v] = t.principal[v] /\ down[v] = t.principal[v]
      /\ up[u] = t.principal[u] + n /\ down[u] = t.principal[u] - n
      /\ \A v \in Accounts : t.principal[v] > 0 \/ v = u => fresh[v] = ExpScale
  BY <1>2
<1> HIDE DEF up, down, fresh
<1>7. /\ SumFunction(up) = SumFunction(t.principal) - t.principal[u] + up[u]
      /\ SumFunction(down) = SumFunction(t.principal) - t.principal[u] + down[u]
  BY <1>6, AccountsFinite, SumFunctionUpdate
<1>8. t.totalBorrows + n = SumFunction(up) /\ t.totalBorrows - n = SumFunction(down)
  BY <1>2, <1>6, <1>7
<1>9. \A v \in Accounts : /\ up[v] > 0 => fresh[v] = ExpScale
                          /\ down[v] > 0 => fresh[v] = ExpScale
  BY <1>6
<1>10. Even(BorrowFresh(t, u, n))
  BY <1>2, <1>4, <1>8, <1>9 DEF Even, Backed
<1>11. Even(RepayBorrowFresh(t, u, n))
  BY <1>2, <1>5, <1>8, <1>9 DEF Even, Backed
<1> QED
  BY <1>4, <1>5, <1>6, <1>10, <1>11

-----------------------------------------------------------------------------
(* What every transaction does to books without interest *)

\* Writing one market's books, one side of them or neither.
LEMMA SupplyWritten ==
  ASSUME NEW M \in [Markets -> MarketBooks], NEW m \in Markets, NEW t, NEW who,
         t.principal = M[m].principal,
         \A v \in Accounts \ who : t.tokens[v] = M[m].tokens[v]
  PROVE  OnlyChanges(M, [M EXCEPT ![m] = t], m, "supply", who)
<1> DEFINE N == [M EXCEPT ![m] = t]
<1>1. N[m] = t /\ \A x \in Markets \ {m} : N[x] = M[x]
  OBVIOUS
<1> HIDE DEF N
<1>2. OnlyChanges(M, N, m, "supply", who)
  BY <1>1 DEF OnlyChanges, Holding, Sides
<1> QED
  BY <1>2 DEF N

\* The same of the borrow side.
LEMMA BorrowWritten ==
  ASSUME NEW M \in [Markets -> MarketBooks], NEW m \in Markets, NEW t, NEW who,
         t.tokens = M[m].tokens,
         \A v \in Accounts \ who : t.principal[v] = M[m].principal[v]
  PROVE  OnlyChanges(M, [M EXCEPT ![m] = t], m, "borrow", who)
<1> DEFINE N == [M EXCEPT ![m] = t]
<1>1. N[m] = t /\ \A x \in Markets \ {m} : N[x] = M[x]
  OBVIOUS
<1> HIDE DEF N
<1>2. OnlyChanges(M, N, m, "borrow", who)
  BY <1>1 DEF OnlyChanges, Holding, Sides
<1> QED
  BY <1>2 DEF N

\* Books written with the same positions.
LEMMA NeitherWritten ==
  ASSUME NEW M \in [Markets -> MarketBooks], NEW m \in Markets, NEW t,
         t.tokens = M[m].tokens, t.principal = M[m].principal
  PROVE  SameHoldings(M, [M EXCEPT ![m] = t])
<1> DEFINE N == [M EXCEPT ![m] = t]
<1>1. N[m] = t /\ \A x \in Markets \ {m} : N[x] = M[x]
  OBVIOUS
<1> HIDE DEF N
<1>2. SameHoldings(M, N)
  BY <1>1 DEF SameHoldings, Holding, Sides
<1> QED
  BY <1>2 DEF N

\* Writing even books keeps all books even.
LEMMA EvenWritten ==
  ASSUME NEW M \in [Markets -> MarketBooks], EvenBooks(M), NEW m \in Markets, NEW t,
         BooksInv(t, blockNumber), Even(t)
  PROVE  EvenBooks([M EXCEPT ![m] = t])
  BY DEF EvenBooks

\* The invariant: without interest, the books stay even and the rewards steady.
EvenInv ==
  /\ FInv
  /\ \A m \in Markets : Even(market[m])
  /\ Paced(flywheel)
  /\ WithinBudget(flywheel, market)

\* What the proofs of the steps take from the invariant.
LEMMA EvenInvFacts ==
  ASSUME EvenInv
  PROVE  /\ IInv /\ WellFormed /\ RewardInv(flywheel, Now)
         /\ blockNumber \in Nat /\ market \in [Markets -> MarketBooks]
         /\ EvenBooks(market) /\ Held(market) /\ Steady(flywheel, market)
<1>1. IInv /\ WellFormed /\ RewardInv(flywheel, Now)
  BY DEF EvenInv, FInv, IInv
<1>2. /\ blockNumber \in Nat /\ market \in [Markets -> MarketBooks]
      /\ \A m \in Markets : BooksInv(market[m], blockNumber)
  BY <1>1 DEF WellFormed, TypeOK
<1>3. EvenBooks(market)
  BY <1>2 DEF EvenInv, EvenBooks
<1>4. Steady(flywheel, market)
  BY <1>1 DEF EvenInv, Steady
<1> QED
  BY <1>1, <1>2, <1>3, <1>4, EvenHeld

\* A market that has accrued.
LEMMA FreshEven ==
  ASSUME NoInterest, EvenInv, NEW m \in Markets, CanAccrue(market[m])
  PROVE  /\ BooksInv(Accrued(market[m]), blockNumber)
         /\ Even(Accrued(market[m]))
         /\ Accrued(market[m]).tokens = market[m].tokens
         /\ Accrued(market[m]).principal = market[m].principal
         /\ EvenBooks(Books(m))
         /\ SameHoldings(market, Books(m))
<1> DEFINE t == Accrued(market[m])
<1>1. /\ BooksInv(t, blockNumber) /\ Even(t)
      /\ t.tokens = market[m].tokens /\ t.principal = market[m].principal
  BY EvenInvFacts, AccruedEven DEF EvenBooks
<1>2. Books(m) = [market EXCEPT ![m] = t]
  BY DEF Books
<1> HIDE DEF t
<1>3. market \in [Markets -> MarketBooks] /\ EvenBooks(market)
  BY EvenInvFacts
<1>4. EvenBooks([market EXCEPT ![m] = t]) /\ SameHoldings(market, [market EXCEPT ![m] = t])
  BY <1>1, <1>3, EvenWritten, NeitherWritten
<1>5. EvenBooks(Books(m)) /\ SameHoldings(market, Books(m))
  BY <1>2, <1>4
<1> QED
  BY <1>1, <1>5 DEF t

\* A mint changes the receiver's brTokens only.
LEMMA MintChanges ==
  ASSUME NoInterest, EvenInv, NEW m \in Markets, NEW a \in Accounts, NEW u \in Accounts,
         NEW n \in Nat, Mint(a, u, m, n)
  PROVE  EvenBooks(market') /\ OnlyChanges(market, market', m, "supply", {u})
<1> DEFINE t == Accrued(market[m])
           new == MintFresh(t, u, n)
<1>1. /\ CanAccrue(market[m]) /\ ExchangeRateKnown(t) /\ ExchangeRate(t) > 0
      /\ market' = [market EXCEPT ![m] = new]
  BY DEF Mint
<1>2. /\ BooksInv(t, blockNumber) /\ Even(t)
      /\ t.tokens = market[m].tokens /\ t.principal = market[m].principal
  BY <1>1, FreshEven
<1> HIDE DEF t
<1>3. /\ BooksInv(new, blockNumber) /\ Even(new) /\ new.principal = t.principal
      /\ \A v \in Accounts \ {u} : new.tokens[v] = t.tokens[v]
  BY <1>1, <1>2, MintFreshInv, MintFreshEven
<1> HIDE DEF new
<1> QED
  BY <1>1, <1>2, <1>3, EvenInvFacts, EvenWritten, SupplyWritten

\* A redemption changes the redeemer's brTokens only.
LEMMA RedeemBothChanges ==
  ASSUME NoInterest, EvenInv, NEW m \in Markets, NEW a \in Accounts, NEW n \in Nat,
         NEW amount \in Nat, CanAccrue(market[m]), RedeemBoth(a, m, n, amount)
  PROVE  EvenBooks(market') /\ OnlyChanges(market, market', m, "supply", {a})
<1> DEFINE t == Accrued(market[m])
           new == RedeemFresh(t, a, n, amount)
<1>1. market' = [market EXCEPT ![m] = new] /\ CanRedeem(t, a, n, amount)
  BY DEF RedeemBoth
<1>2. /\ BooksInv(t, blockNumber) /\ Even(t)
      /\ t.tokens = market[m].tokens /\ t.principal = market[m].principal
  BY FreshEven
<1> HIDE DEF t
<1>3. /\ BooksInv(new, blockNumber) /\ Even(new) /\ new.principal = t.principal
      /\ \A v \in Accounts \ {a} : new.tokens[v] = t.tokens[v]
  BY <1>1, <1>2, RedeemFreshInv, RedeemFreshEven
<1> HIDE DEF new
<1> QED
  BY <1>1, <1>2, <1>3, EvenInvFacts, EvenWritten, SupplyWritten

\* Both forms of redeeming.
LEMMA RedeemChanges ==
  ASSUME NoInterest, EvenInv, NEW m \in Markets, NEW a \in Accounts, NEW n \in Nat,
         Redeem(a, m, n) \/ RedeemUnderlying(a, m, n)
  PROVE  EvenBooks(market') /\ OnlyChanges(market, market', m, "supply", {a})
<1> DEFINE r == ExchangeRate(Accrued(market[m]))
<1>1. CanAccrue(market[m]) /\ ExchangeRateKnown(Accrued(market[m]))
  BY DEF Redeem, RedeemUnderlying
<1>2. r \in Nat
  BY <1>1, FreshEven, ExchangeRateType DEF BooksInv
<1>3. CASE Redeem(a, m, n)
  <2>1. MulTruncate(r, n) \in Nat /\ RedeemBoth(a, m, n, MulTruncate(r, n))
    BY <1>2, <1>3, MulTruncateNat DEF Redeem
  <2> QED
    BY <1>1, <2>1, RedeemBothChanges
<1>4. CASE RedeemUnderlying(a, m, n)
  <2>1. r > 0 /\ RedeemBoth(a, m, DivScalarByExp(n, r), n)
    BY <1>4 DEF RedeemUnderlying
  <2>2. DivScalarByExp(n, r) \in Nat
    BY <1>2, <2>1, DivScalarNat
  <2> QED
    BY <1>1, <2>1, <2>2, RedeemBothChanges
<1> QED
  BY <1>3, <1>4

\* A borrow changes the borrower's debt only.
LEMMA BorrowChanges ==
  ASSUME NoInterest, EvenInv, NEW m \in Markets, NEW a \in Accounts, NEW n \in Nat,
         Borrow(a, m, n)
  PROVE  EvenBooks(market') /\ OnlyChanges(market, market', m, "borrow", {a})
<1> DEFINE t == Accrued(market[m])
           new == BorrowFresh(t, a, n)
<1>1. CanAccrue(market[m]) /\ n <= t.cash /\ market' = [market EXCEPT ![m] = new]
  BY DEF Borrow
<1>2. /\ BooksInv(t, blockNumber) /\ Even(t)
      /\ t.tokens = market[m].tokens /\ t.principal = market[m].principal
  BY <1>1, FreshEven
<1> HIDE DEF t
<1>3. /\ BooksInv(new, blockNumber) /\ Even(new) /\ new.tokens = t.tokens
      /\ \A v \in Accounts \ {a} : new.principal[v] = t.principal[v]
  BY <1>1, <1>2, BorrowFreshInv, DebtEven
<1> HIDE DEF new
<1> QED
  BY <1>1, <1>2, <1>3, EvenInvFacts, EvenWritten, BorrowWritten

\* A repayment changes the borrower's debt only, whoever pays.
LEMMA RepayChanges ==
  ASSUME NoInterest, EvenInv, NEW m \in Markets, NEW a \in Accounts, NEW u \in Accounts,
         NEW n \in Nat, Repay(a, u, m, n)
  PROVE  EvenBooks(market') /\ OnlyChanges(market, market', m, "borrow", {u})
<1> DEFINE t == Accrued(market[m])
           new == RepayBorrowFresh(t, u, n)
<1>1. CanAccrue(market[m]) /\ CanRepay(t, u, n) /\ market' = [market EXCEPT ![m] = new]
  BY DEF Repay
<1>2. /\ BooksInv(t, blockNumber) /\ Even(t)
      /\ t.tokens = market[m].tokens /\ t.principal = market[m].principal
  BY <1>1, FreshEven
<1> HIDE DEF t
<1>3. /\ BooksInv(new, blockNumber) /\ Even(new) /\ new.tokens = t.tokens
      /\ \A v \in Accounts \ {u} : new.principal[v] = t.principal[v]
  BY <1>1, <1>2, RepayFreshInv, DebtEven
<1> HIDE DEF new
<1> QED
  BY <1>1, <1>2, <1>3, EvenInvFacts, EvenWritten, BorrowWritten

\* The repayment of all of a debt is a repayment.
LEMMA RepayAllChanges ==
  ASSUME NoInterest, EvenInv, NEW m \in Markets, NEW a \in Accounts, NEW u \in Accounts,
         RepayAll(a, u, m)
  PROVE  EvenBooks(market') /\ OnlyChanges(market, market', m, "borrow", {u})
<1>1. CanAccrue(market[m])
  BY DEF RepayAll, Repay
<1>2. BorrowBalanceStored(Accrued(market[m]), u) \in Nat
  BY <1>1, FreshEven, BorrowBalanceType
<1> QED
  BY <1>2, RepayChanges DEF RepayAll

\* A transfer changes the brTokens of the two only.
LEMMA TransferChanges ==
  ASSUME EvenInv, NEW m \in Markets, NEW a \in Accounts, NEW u \in Accounts,
         NEW n \in Nat, Transfer(a, u, m, n)
  PROVE  EvenBooks(market') /\ OnlyChanges(market, market', m, "supply", {a, u})
<1> DEFINE new == MoveTokens(market[m], a, u, n)
<1>1. CanMove(market[m], a, u, n) /\ market' = [market EXCEPT ![m] = new]
  BY DEF Transfer
<1>2. BooksInv(market[m], blockNumber) /\ Even(market[m])
  BY EvenInvFacts DEF EvenBooks
<1>3. /\ BooksInv(new, blockNumber) /\ Even(new) /\ new.principal = market[m].principal
      /\ \A v \in Accounts \ {a, u} : new.tokens[v] = market[m].tokens[v]
  BY <1>1, <1>2, MoveTokensInv, MoveTokensEven
<1> HIDE DEF new
<1> QED
  BY <1>1, <1>3, EvenInvFacts, EvenWritten, SupplyWritten
-----------------------------------------------------------------------------
(* The hooks, at the books they are called with *)

\* What a step between two blocks may not do to the rewards.
FairStep ==
  /\ EvenBooks(market')
  /\ Steady(flywheel', market')
  /\ \A u \in Accounts : Earnings(flywheel', market', u) = Earnings(flywheel, market, u)

\* Books that differ from the same ones.
LEMMA SameThenChanges ==
  ASSUME NEW L, NEW M, NEW N, NEW m \in Markets, NEW side \in Sides, NEW who,
         SameHoldings(L, M), OnlyChanges(M, N, m, side, who)
  PROVE  OnlyChanges(L, N, m, side, who)
  BY DEF SameHoldings, OnlyChanges

\* Two books with the positions of a third have the same.
LEMMA SameTransitive ==
  ASSUME NEW L, NEW M, NEW N, SameHoldings(L, M), SameHoldings(L, N)
  PROVE  SameHoldings(M, N)
  BY DEF SameHoldings

\* Suppliers are settled at books with the same tokens.
LEMMA SuppliersReadTokens ==
  ASSUME NEW F, NEW M, NEW N, NEW m \in Markets, NEW who, EvenBooks(M), EvenBooks(N),
         N[m].tokens = M[m].tokens
  PROVE  /\ SettleSuppliers(F, N, m, who) = SettleSuppliers(F, M, m, who)
         /\ CanSettleSuppliers(F, N, m, who) <=> CanSettleSuppliers(F, M, m, who)
<1>1. N[m].totalSupply = M[m].totalSupply
  BY DEF EvenBooks, Even, Backed
<1>2. SupplyNow(F, N, m) = SupplyNow(F, M, m)
  BY <1>1 DEF SupplyNow
<1>3. \A a, index : SupplierDelta(F, N, m, a, index) = SupplierDelta(F, M, m, a, index)
  BY DEF SupplierDelta
<1> QED
  BY <1>2, <1>3 DEF SettleSuppliers, CanSettleSuppliers

\* A hook that settles suppliers, and the change after it.
LEMMA SuppliersSettledFair ==
  ASSUME EvenInv, EvenBooks(market'), NEW m \in Markets, NEW a, NEW b,
         SuppliersSettled(m, a, b), OnlyChanges(market, market', m, "supply", {a, b})
  PROVE  FairStep
<1>1. /\ CanSettleSuppliers(flywheel, market, m, {a, b})
      /\ flywheel' = SettleSuppliers(flywheel, market, m, {a, b})
  BY DEF SuppliersSettled
<1> QED
  BY <1>1, EvenInvFacts, SuppliersSteady DEF FairStep

\* A hook that settles a borrower, and the change after it.
LEMMA BorrowerSettledFair ==
  ASSUME NoInterest, EvenInv, EvenBooks(market'), NEW m \in Markets, NEW u \in Accounts,
         CanAccrue(market[m]), BorrowerSettled(m, u),
         OnlyChanges(market, market', m, "borrow", {u})
  PROVE  FairStep
<1> DEFINE M == Books(m)
<1>1. flywheel' = SettleBorrower(flywheel, M, m, u)
  BY DEF BorrowerSettled
<1>2. EvenBooks(M) /\ SameHoldings(market, M)
  BY FreshEven
<1>3. blockNumber \in Nat /\ Steady(flywheel, market)
  BY EvenInvFacts
<1> HIDE DEF M
<1>4. SameHoldings(M, market)
  BY <1>2 DEF SameHoldings
<1>5. OnlyChanges(M, market', m, "borrow", {u})
  BY <1>4, SameThenChanges DEF Sides
<1>6. /\ Steady(flywheel, M)
      /\ \A x \in Accounts : Earnings(flywheel, M, x) = Earnings(flywheel, market, x)
  BY <1>2, <1>3, SameHoldingsSteady
<1>7. /\ Steady(flywheel', market')
      /\ \A x \in Accounts : Earnings(flywheel', market', x) = Earnings(flywheel, M, x)
  BY <1>1, <1>2, <1>3, <1>5, <1>6, BorrowerSteady
<1> QED
  BY <1>6, <1>7 DEF FairStep

\* A liquidation settles the borrower at the books that have accrued, then the two
\* suppliers, whose brTokens the repayment has left alone.
LEMMA LiquidateFair ==
  ASSUME NoInterest, EvenInv, NEW m \in Markets, NEW c \in Markets, NEW a \in Accounts,
         NEW u \in Accounts, NEW n \in Nat, LiquidateAndSettle(a, u, m, c, n)
  PROVE  FairStep
<1> DEFINE fresh  == [market EXCEPT ![m] = Accrued(market[m]), ![c] = Accrued(market[c])]
           repaid == [fresh EXCEPT ![m] = RepayBorrowFresh(fresh[m], u, n)]
           seized == SeizeTokens(repaid, m, c, n)
           after  == MoveTokens(repaid[c], u, a, seized)
           M == Books(m)
           F == SettleBorrower(flywheel, M, m, u)
           both == {u, a}
<1>1. /\ CanAccrue(market[m]) /\ CanAccrue(market[c])
      /\ CanRepay(fresh[m], u, n)
      /\ SeizeKnown(repaid, m, c) /\ CanMove(repaid[c], u, a, seized)
      /\ market' = [repaid EXCEPT ![c] = after]
  BY DEF LiquidateAndSettle, LiquidateBorrow
<1>2. /\ CanSettleSuppliers(F, market, c, both)
      /\ flywheel' = SettleSuppliers(F, market, c, both)
  BY DEF LiquidateAndSettle, Books
<1>3. /\ blockNumber \in Nat /\ market \in [Markets -> MarketBooks]
      /\ EvenBooks(market) /\ Steady(flywheel, market)
  BY EvenInvFacts
<1>4. \A x \in {m, c} : /\ BooksInv(Accrued(market[x]), blockNumber)
                        /\ Even(Accrued(market[x]))
                        /\ Accrued(market[x]).tokens = market[x].tokens
                        /\ Accrued(market[x]).principal = market[x].principal
  BY <1>1, FreshEven
<1>5. /\ fresh \in [Markets -> MarketBooks] /\ EvenBooks(fresh)
      /\ SameHoldings(market, fresh)
  <2> DEFINE first == [market EXCEPT ![m] = Accrued(market[m])]
  <2>1. fresh = [first EXCEPT ![c] = Accrued(market[c])]
    BY <1>3
  <2>2. EvenBooks(first)
    BY <1>3, <1>4, EvenWritten
  <2>3. first \in [Markets -> MarketBooks]
    BY <1>3, <1>4 DEF BooksInv
  <2> HIDE DEF first
  <2>4. EvenBooks(fresh)
    BY <1>4, <2>1, <2>2, <2>3, EvenWritten
  <2>5. fresh \in [Markets -> MarketBooks]
    BY <1>4, <2>1, <2>3 DEF BooksInv
  <2>6. \A x \in Markets : /\ fresh[x].tokens = market[x].tokens
                           /\ fresh[x].principal = market[x].principal
    BY <1>3, <1>4
  <2> HIDE DEF fresh
  <2>7. SameHoldings(market, fresh)
    BY <2>6 DEF SameHoldings, Holding
  <2> QED
    BY <2>4, <2>5, <2>7
<1>6. EvenBooks(M) /\ SameHoldings(market, M)
  BY <1>1, FreshEven
<1> HIDE DEF fresh, M
<1>7. /\ BooksInv(RepayBorrowFresh(fresh[m], u, n), blockNumber)
      /\ Even(RepayBorrowFresh(fresh[m], u, n))
      /\ RepayBorrowFresh(fresh[m], u, n).tokens = fresh[m].tokens
      /\ \A v \in Accounts \ {u} :
           RepayBorrowFresh(fresh[m], u, n).principal[v] = fresh[m].principal[v]
  BY <1>1, <1>5, RepayFreshInv, DebtEven DEF EvenBooks
<1>8. /\ repaid \in [Markets -> MarketBooks] /\ EvenBooks(repaid)
      /\ OnlyChanges(fresh, repaid, m, "borrow", {u})
      /\ \A x \in Markets : repaid[x].tokens = fresh[x].tokens
  <2>1. EvenBooks(repaid)
    BY <1>5, <1>7, EvenWritten
  <2>2. OnlyChanges(fresh, repaid, m, "borrow", {u})
    BY <1>5, <1>7, BorrowWritten
  <2>3. /\ repaid \in [Markets -> MarketBooks]
        /\ \A x \in Markets : repaid[x].tokens = fresh[x].tokens
    BY <1>5, <1>7 DEF BooksInv
  <2> QED
    BY <2>1, <2>2, <2>3
<1> HIDE DEF repaid
<1>9. seized \in Nat
  BY <1>1, <1>8, EvenInvFacts, SeizeTokensNat DEF EvenBooks
<1> HIDE DEF seized
<1>10. /\ BooksInv(after, blockNumber) /\ Even(after) /\ after.principal = repaid[c].principal
       /\ \A v \in Accounts \ both : after.tokens[v] = repaid[c].tokens[v]
  BY <1>1, <1>8, <1>9, MoveTokensInv, MoveTokensEven DEF EvenBooks
<1> HIDE DEF after
<1>11. EvenBooks(market') /\ OnlyChanges(repaid, market', c, "supply", both)
  BY <1>1, <1>8, <1>10, EvenWritten, SupplyWritten
<1>12. OnlyChanges(M, repaid, m, "borrow", {u})
  BY <1>5, <1>6, <1>8, SameTransitive, SameThenChanges DEF Sides
<1>13. repaid[c].tokens = market[c].tokens
  BY <1>5, <1>8 DEF SameHoldings, Holding, Sides
<1> HIDE DEF both
<1>14. /\ Steady(flywheel, M)
       /\ \A x \in Accounts : Earnings(flywheel, M, x) = Earnings(flywheel, market, x)
  BY <1>3, <1>6, SameHoldingsSteady
<1>15. /\ Steady(F, repaid)
       /\ \A x \in Accounts : Earnings(F, repaid, x) = Earnings(flywheel, M, x)
  BY <1>3, <1>6, <1>8, <1>12, <1>14, BorrowerSteady
<1> HIDE DEF F
<1>16. /\ CanSettleSuppliers(F, repaid, c, both)
       /\ flywheel' = SettleSuppliers(F, repaid, c, both)
  BY <1>2, <1>3, <1>8, <1>13, SuppliersReadTokens
<1>17. /\ Steady(flywheel', market')
       /\ \A x \in Accounts : Earnings(flywheel', market', x) = Earnings(F, repaid, x)
  BY <1>3, <1>8, <1>11, <1>15, <1>16, SuppliersSteady
<1> QED
  BY <1>11, <1>14, <1>15, <1>17 DEF FairStep

\* Every transaction with a hook leaves everybody what it had earned.
LEMMA SettlingFair ==
  ASSUME NoInterest, EvenInv, NEW m \in Markets, SettlingAction(m)
  PROVE  FairStep
<1> USE InputsNat
<1>1. ASSUME NEW a \in Accounts, NEW b \in Accounts, RepayAllAndSettle(a, b, m)
      PROVE  FairStep
  <2>1. RepayAll(a, b, m) /\ BorrowerSettled(m, b) /\ CanAccrue(market[m])
    BY <1>1 DEF RepayAllAndSettle, RepayAll, Repay
  <2> QED
    BY <2>1, RepayAllChanges, BorrowerSettledFair
<1>2. ASSUME NEW a \in Accounts, NEW n \in Amounts, RedeemAndSettle(a, m, n)
      PROVE  FairStep
  <2>1. (Redeem(a, m, n) \/ RedeemUnderlying(a, m, n)) /\ SuppliersSettled(m, a, a)
    BY <1>2 DEF RedeemAndSettle
  <2>2. EvenBooks(market') /\ OnlyChanges(market, market', m, "supply", {a, a})
    BY <2>1, RedeemChanges
  <2> QED
    BY <2>1, <2>2, SuppliersSettledFair
<1>3. ASSUME NEW a \in Accounts, NEW n \in Amounts, RedeemRejected(a, m, n)
      PROVE  FairStep
  <2>1. AccrueInterest(m) /\ SuppliersSettled(m, a, a)
    BY <1>3 DEF RedeemRejected
  <2>2. EvenBooks(market') /\ SameHoldings(market, market')
    BY <2>1, FreshEven DEF AccrueInterest
  <2>3. OnlyChanges(market, market', m, "supply", {a, a})
    BY <2>2 DEF SameHoldings, OnlyChanges, Sides
  <2> QED
    BY <2>1, <2>2, <2>3, SuppliersSettledFair
<1>4. ASSUME NEW a \in Accounts, NEW n \in Amounts, BorrowAndSettle(a, m, n)
      PROVE  FairStep
  <2>1. Borrow(a, m, n) /\ BorrowerSettled(m, a) /\ CanAccrue(market[m])
    BY <1>4 DEF BorrowAndSettle, Borrow
  <2> QED
    BY <2>1, BorrowChanges, BorrowerSettledFair
<1>5. ASSUME NEW a \in Accounts, NEW n \in Amounts, BorrowRejectedLate(a, m, n)
      PROVE  FairStep
  <2>1. /\ CanAccrue(market[m]) /\ market' = Books(m)
        /\ BorrowerSettled(m, a) \/ UNCHANGED flywheel
    BY <1>5 DEF BorrowRejectedLate, BorrowRejected
  <2>2. EvenBooks(market') /\ SameHoldings(market, market')
    BY <2>1, FreshEven
  <2>3. OnlyChanges(market, market', m, "borrow", {a})
    BY <2>2 DEF SameHoldings, OnlyChanges, Sides
  <2>4. CASE BorrowerSettled(m, a)
    BY <2>1, <2>2, <2>3, <2>4, BorrowerSettledFair
  <2>5. CASE UNCHANGED flywheel
    BY <2>2, <2>5, EvenInvFacts, SameHoldingsSteady DEF FairStep
  <2> QED
    BY <2>1, <2>4, <2>5
<1>6. ASSUME NEW a \in Accounts, NEW b \in Accounts, NEW n \in Amounts, MintAndSettle(a, b, m, n)
      PROVE  FairStep
  <2>1. Mint(a, b, m, n) /\ SuppliersSettled(m, b, b)
    BY <1>6 DEF MintAndSettle
  <2>2. EvenBooks(market') /\ OnlyChanges(market, market', m, "supply", {b, b})
    BY <2>1, MintChanges
  <2> QED
    BY <2>1, <2>2, SuppliersSettledFair
<1>7. ASSUME NEW a \in Accounts, NEW b \in Accounts, NEW n \in Amounts, RepayAndSettle(a, b, m, n)
      PROVE  FairStep
  <2>1. Repay(a, b, m, n) /\ BorrowerSettled(m, b) /\ CanAccrue(market[m])
    BY <1>7 DEF RepayAndSettle, Repay
  <2> QED
    BY <2>1, RepayChanges, BorrowerSettledFair
<1>8. ASSUME NEW a \in Accounts, NEW b \in Accounts, NEW n \in Amounts,
             TransferAndSettle(a, b, m, n)
      PROVE  FairStep
  BY <1>8, TransferChanges, SuppliersSettledFair DEF TransferAndSettle
<1>9. ASSUME NEW a \in Accounts, NEW b \in Accounts, NEW n \in Amounts,
              TransferRejected(a, b, m, n)
       PROVE  FairStep
  <2>1. SuppliersSettled(m, a, b) /\ market' = market
    BY <1>9 DEF TransferRejected, vars, tokenVars
  <2>2. EvenBooks(market') /\ OnlyChanges(market, market', m, "supply", {a, b})
    BY <2>1, EvenInvFacts DEF OnlyChanges
  <2> QED
    BY <2>1, <2>2, SuppliersSettledFair
<1>10. ASSUME NEW a \in Accounts, NEW b \in Accounts, NEW c \in Markets, NEW n \in Amounts,
              LiquidateAndSettle(a, b, m, c, n)
       PROVE  FairStep
  BY <1>10, LiquidateFair
<1> QED
  BY <1>1, <1>2, <1>3, <1>4, <1>5, <1>6, <1>7, <1>8, <1>9, <1>10 DEF SettlingAction
-----------------------------------------------------------------------------
(* Claims *)

\* Between the steps of u's claim: nobody has earned more or less than at its
\* start, but u if it was paid by minting brBRN for it.
Claimed(s, u) ==
  /\ s.M \in [Markets -> MarketBooks]
  /\ EvenBooks(s.M)
  /\ Steady(s.f, s.M)
  /\ BRNMarket \in Markets => s.M[BRNMarket].cash >= market[BRNMarket].cash
  /\ \A x \in Accounts :
       \/ Earnings(s.f, s.M, x) = Earnings(flywheel, market, x)
       \/ /\ x = u
          /\ s.f.claimed[u] > flywheel.claimed[u]
          /\ BRNMarket \in Markets
          /\ s.M[BRNMarket].cash > market[BRNMarket].cash

\* A settlement in the claim: no position changes after it.
LEMMA ClaimedOnSettling ==
  ASSUME NEW f, NEW M, NEW u \in Accounts, NEW g, Claimed([f |-> f, M |-> M], u),
         Steady(g, M), g.claimed = f.claimed,
         \A x \in Accounts : Earnings(g, M, x) = Earnings(f, M, x)
  PROVE  Claimed([f |-> g, M |-> M], u)
  BY DEF Claimed

\* The borrower's settlement in a claim.
LEMMA ClaimedBorrower ==
  ASSUME blockNumber \in Nat, NEW f, NEW M, NEW u \in Accounts,
         Claimed([f |-> f, M |-> M], u), NEW m \in Markets
  PROVE  Claimed([f |-> SettleBorrower(f, M, m, u), M |-> M], u)
<1> DEFINE g == SettleBorrower(f, M, m, u)
<1>1. EvenBooks(M) /\ Steady(f, M)
  BY DEF Claimed
<1>2. OnlyChanges(M, M, m, "borrow", {u})
  BY DEF OnlyChanges
<1>3. /\ Steady(g, M)
      /\ \A x \in Accounts : Earnings(g, M, x) = Earnings(f, M, x)
  BY <1>1, <1>2, BorrowerSteady
<1>4. g.claimed = f.claimed
  BY <1>1, SettleBorrowerInv DEF Steady, EvenBooks
<1> HIDE DEF g
<1>5. Claimed([f |-> g, M |-> M], u)
  BY <1>3, <1>4, ClaimedOnSettling
<1> QED
  BY <1>5 DEF g

\* The supplier's settlement in a claim.
LEMMA ClaimedSupplier ==
  ASSUME blockNumber \in Nat, NEW f, NEW M, NEW u \in Accounts,
         Claimed([f |-> f, M |-> M], u), NEW m \in Markets,
         CanSettleSuppliers(f, M, m, {u})
  PROVE  Claimed([f |-> SettleSuppliers(f, M, m, {u}), M |-> M], u)
<1> DEFINE g == SettleSuppliers(f, M, m, {u})
<1>1. EvenBooks(M) /\ Steady(f, M)
  BY DEF Claimed
<1>2. OnlyChanges(M, M, m, "supply", {u})
  BY DEF OnlyChanges
<1>3. /\ Steady(g, M)
      /\ \A x \in Accounts : Earnings(g, M, x) = Earnings(f, M, x)
  BY <1>1, <1>2, SuppliersSteady
<1>4. g.claimed = f.claimed
  BY <1>1, SettleSuppliersInv DEF Steady, EvenBooks
<1> HIDE DEF g
<1>5. Claimed([f |-> g, M |-> M], u)
  BY <1>3, <1>4, ClaimedOnSettling
<1> QED
  BY <1>5 DEF g

\* What a settlement adds is no less than nothing.
LEMMA SettledAccrues ==
  ASSUME blockNumber \in Nat, NEW f, NEW M, EvenBooks(M), Steady(f, M), NEW m \in Markets,
         NEW u \in Accounts, CanSettleSuppliers(f, M, m, {u})
  PROVE  f.accrued[u] <= SettleSuppliers(f, M, m, {u}).accrued[u]
<1> DEFINE g == SettleSuppliers(f, M, m, {u})
<1>1. RewardInv(f, Now) /\ Paced(f) /\ Held(M)
  BY EvenHeld DEF Steady
<1>2. RewardInv(g, Now) /\ g.claimed = f.claimed
  BY <1>1, SettleSuppliersInv DEF EvenBooks
<1>3. OnlyChanges(M, M, m, "supply", {u})
  BY DEF OnlyChanges
<1>4. Moves(f, g, M, M, m, "supply", {u})
  BY <1>1, <1>3, SettleSuppliersMoves
<1> HIDE DEF g
<1>5. OwedTo(f, M, m, "supply", u) \in Nat
  BY <1>1, OwedType DEF Sides
<1>6. g.claimed[u] + g.accrued[u] = f.claimed[u] + f.accrued[u] + OwedTo(f, M, m, "supply", u)
  BY <1>4 DEF Moves
<1>7. f.claimed[u] \in Nat /\ f.accrued[u] \in Nat /\ g.accrued[u] \in Nat
  BY <1>1, <1>2 DEF RewardInv, FlywheelBooks
<1>8. f.accrued[u] <= g.accrued[u]
  BY <1>2, <1>5, <1>6, <1>7
<1> QED
  BY <1>8 DEF g

\* A grant pays what was accrued, or mints brBRN for it after settling again.
LEMMA GrantedClaims ==
  ASSUME NoInterest, EvenInv, NEW f, NEW M, NEW u \in Accounts, NEW bankrupt \in BOOLEAN,
         NEW collateral \in BOOLEAN, Working([f |-> f, M |-> M]),
         Claimed([f |-> f, M |-> M], u),
         CanGrant([f |-> f, M |-> M], u, bankrupt, collateral)
  PROVE  Claimed(Granted([f |-> f, M |-> M], u, bankrupt), u)
<1> DEFINE s == [f |-> f, M |-> M]
           n == f.accrued[u]
<1>1. /\ RewardInv(f, Now) /\ f \in FlywheelBooks
      /\ \A x \in Accounts : f.claimed[x] >= flywheel.claimed[x]
      /\ blockNumber \in Nat /\ RewardInv(flywheel, Now)
  BY EvenInvFacts DEF Working, RewardInv
<1>2. /\ f.claimed \in [Accounts -> Nat] /\ f.accrued \in [Accounts -> Nat]
      /\ f.balance \in Nat /\ n \in Nat /\ flywheel.claimed \in [Accounts -> Nat]
  BY <1>1 DEF RewardInv, FlywheelBooks
<1>3. /\ M \in [Markets -> MarketBooks] /\ EvenBooks(M) /\ Steady(f, M) /\ Held(M)
      /\ BRNMarket \in Markets => M[BRNMarket].cash >= market[BRNMarket].cash
      /\ \A x \in Accounts :
           \/ Earnings(f, M, x) = Earnings(flywheel, market, x)
           \/ /\ x = u
              /\ f.claimed[u] > flywheel.claimed[u]
              /\ BRNMarket \in Markets
              /\ M[BRNMarket].cash > market[BRNMarket].cash
  BY EvenHeld DEF Claimed
<1>4. CASE ~GrantDue(s, u)
  BY <1>4 DEF Granted
<1>5. CASE GrantDue(s, u) /\ ~bankrupt
  <2> DEFINE g == PaidOut(f, u, n)
  <2>1. n \in 0..f.balance /\ n <= f.accrued[u]
    BY <1>2, <1>5 DEF GrantDue
  <2>2. Granted(s, u, bankrupt) = [f |-> g, M |-> M]
    BY <1>5 DEF Granted
  <2>3. /\ Steady(g, M) /\ g.claimed[u] = f.claimed[u] + n
        /\ \A x \in Accounts : Earnings(g, M, x) = Earnings(f, M, x)
    BY <1>1, <1>3, <2>1, PaidOutSteady
  <2> HIDE DEF g, n
  <2>4. f.claimed[u] > flywheel.claimed[u] => g.claimed[u] > flywheel.claimed[u]
    BY <1>2, <2>3
  <2>5. Claimed([f |-> g, M |-> M], u)
    BY <1>3, <2>3, <2>4 DEF Claimed
  <2> QED
    BY <2>2, <2>5
<1>6. CASE GrantDue(s, u) /\ bankrupt
  <2> DEFINE b == BRNMarket
             t == Accrued(M[b])
             minted == MintFresh(t, u, n)
             N == [M EXCEPT ![b] = minted]
             F == SettleSuppliers(f, M, b, {u})
             g == PaidOut(F, u, n)
  <2>1. /\ b \in Markets /\ CanAccrue(M[b])
        /\ ExchangeRateKnown(t) /\ ExchangeRate(t) > 0
        /\ CanSettleSuppliers(f, M, b, {u})
    BY <1>6 DEF CanGrant
  <2>2. Granted(s, u, bankrupt) = [f |-> g, M |-> N]
    BY <1>6 DEF Granted
  <2>3. n \in 1..f.balance
    BY <1>2, <1>6 DEF GrantDue
  <2>4. /\ BooksInv(t, blockNumber) /\ Even(t) /\ t.cash = M[b].cash
        /\ t.tokens = M[b].tokens /\ t.principal = M[b].principal
    BY <1>1, <1>3, <2>1, AccruedEven, AccruedKeeps DEF EvenBooks
  <2> HIDE DEF t
  <2>5. /\ BooksInv(minted, blockNumber) /\ Even(minted) /\ minted.principal = t.principal
        /\ \A v \in Accounts \ {u} : minted.tokens[v] = t.tokens[v]
        /\ minted.cash = t.cash + n
    BY <1>2, <2>1, <2>4, MintFreshInv, MintFreshEven, MintFreshKeeps
  <2> HIDE DEF minted
  <2>6. EvenBooks(N) /\ OnlyChanges(M, N, b, "supply", {u})
    BY <1>3, <2>1, <2>4, <2>5, EvenWritten, SupplyWritten
  <2>7. N \in [Markets -> MarketBooks] /\ N[b].cash = M[b].cash + n
    BY <1>3, <2>1, <2>4, <2>5 DEF BooksInv
  <2> HIDE DEF N
  <2>8. /\ Steady(F, N)
        /\ \A x \in Accounts : Earnings(F, N, x) = Earnings(f, M, x)
    <3>1. /\ Steady(f, M) /\ blockNumber \in Nat /\ EvenBooks(M) /\ EvenBooks(N)
          /\ BRNMarket \in Markets /\ CanSettleSuppliers(f, M, BRNMarket, {u})
          /\ OnlyChanges(M, N, BRNMarket, "supply", {u})
      BY <1>1, <1>3, <2>1, <2>6
    <3> QED
      BY ONLY <3>1, SuppliersSteady DEF F, b
  <2>9. F.claimed = f.claimed /\ F.balance = f.balance
    <3>1. F.claimed = f.claimed
      BY <1>1, <1>3, <2>1, SettleSuppliersInv DEF EvenBooks
    <3>2. F.balance = f.balance
      BY <1>1, SuppliersArePaidLater
    <3> QED
      BY <3>1, <3>2
  <2>10. n <= F.accrued[u]
    BY <1>1, <1>3, <2>1, SettledAccrues
  <2> HIDE DEF F, n
  <2>11. n \in 0..F.balance /\ Held(N)
    BY <1>2, <2>3, <2>6, <2>9, EvenHeld
  <2>12. /\ Steady(g, N) /\ g.claimed[u] = F.claimed[u] + n
         /\ \A x \in Accounts : x # u => Earnings(g, N, x) = Earnings(F, N, x)
    BY <1>1, <2>8, <2>10, <2>11, PaidOutSteady
  <2> HIDE DEF g
  <2>13. g.claimed[u] > flywheel.claimed[u]
    BY <1>1, <1>2, <2>3, <2>9, <2>12
  <2>14. N[b].cash > market[b].cash
    <3>1. M[b].cash \in Nat /\ market[b].cash \in Nat
      BY <1>3, <2>1, EvenInvFacts DEF MarketBooks
    <3> QED
      BY <1>2, <1>3, <2>1, <2>3, <2>7, <3>1
  <2>15. N[b].cash >= market[b].cash
    <3>1. N[b].cash \in Nat /\ market[b].cash \in Nat
      BY <2>1, <2>7, EvenInvFacts DEF MarketBooks
    <3> QED
      BY <2>14, <3>1
  <2>16. \A x \in Accounts : x # u => Earnings(g, N, x) = Earnings(flywheel, market, x)
    BY <1>3, <2>8, <2>12
  <2>17. Claimed([f |-> g, M |-> N], u)
    BY <2>1, <2>6, <2>7, <2>12, <2>13, <2>14, <2>15, <2>16 DEF Claimed
  <2> QED
    BY <2>2, <2>17
<1> QED
  BY <1>4, <1>5, <1>6

\* A claim: what it pays is what it takes, unless it is paid in brBRN.
LEMMA ClaimFair ==
  ASSUME NoInterest, EvenInv, NEW u \in Accounts, NEW m \in Markets,
         NEW borrowers \in BOOLEAN, NEW suppliers \in BOOLEAN, NEW collateral \in BOOLEAN,
         ClaimBrainiac(u, m, borrowers, suppliers, collateral)
  PROVE  Claimed([f |-> flywheel', M |-> market'], u)
<1> DEFINE bankrupt == Shortfall(market, u)
           start == [f |-> flywheel, M |-> market]
           debt  == IF borrowers THEN [start EXCEPT !.f = SettleBorrower(@, market, m, u)]
                    ELSE start
           paid  == IF borrowers THEN Granted(debt, u, bankrupt) ELSE start
           stake == IF suppliers THEN [paid EXCEPT !.f = SettleSuppliers(@, paid.M, m, {u})]
                    ELSE paid
           end   == IF suppliers THEN Granted(stake, u, bankrupt) ELSE paid
<1>1. /\ borrowers => CanGrant(debt, u, bankrupt, collateral)
      /\ suppliers => CanSettleSuppliers(paid.f, paid.M, m, {u})
      /\ suppliers => CanGrant(stake, u, bankrupt, collateral)
      /\ flywheel' = end.f /\ market' = end.M
  BY DEF ClaimBrainiac
<1>2. /\ blockNumber \in Nat /\ market \in [Markets -> MarketBooks]
      /\ \A x \in Markets : BooksInv(market[x], blockNumber)
      /\ EvenBooks(market) /\ Steady(flywheel, market) /\ RewardInv(flywheel, Now)
  BY EvenInvFacts DEF EvenBooks
<1>3. bankrupt \in BOOLEAN
  BY DEF Shortfall, LiquidityKnown
<1>4. flywheel.claimed \in [Accounts -> Nat]
  BY <1>2 DEF RewardInv, FlywheelBooks
<1>5. Working(start) /\ Claimed(start, u)
  <2>1. Working(start)
    BY <1>2, <1>4 DEF Working
  <2>2. BRNMarket \in Markets => market[BRNMarket].cash \in Nat
    BY <1>2 DEF MarketBooks
  <2>3. Claimed(start, u)
    BY <1>2, <2>2 DEF Claimed
  <2> QED
    BY <2>1, <2>3
<1> HIDE DEF bankrupt
<1>6. Working(paid) /\ Claimed(paid, u)
  <2>1. CASE borrowers
    <3> DEFINE f == SettleBorrower(flywheel, market, m, u)
    <3>1. debt = [f |-> f, M |-> market]
      BY <2>1
    <3>2. RewardInv(f, Now) /\ f.claimed = flywheel.claimed
      BY <1>2, SettleBorrowerInv
    <3>3. Claimed([f |-> f, M |-> market], u)
      BY <1>2, <1>5, ClaimedBorrower
    <3> HIDE DEF f
    <3>4. Working([f |-> f, M |-> market])
      BY <1>2, <1>4, <3>2 DEF Working
    <3>5. CanGrant([f |-> f, M |-> market], u, bankrupt, collateral)
      BY <1>1, <2>1, <3>1
    <3>6. /\ Working(Granted([f |-> f, M |-> market], u, bankrupt))
          /\ Claimed(Granted([f |-> f, M |-> market], u, bankrupt), u)
      BY <1>2, <1>3, <3>3, <3>4, <3>5, GrantedWorks, GrantedClaims
    <3> QED
      BY <2>1, <3>1, <3>6
  <2> QED
    BY <1>5, <2>1
<1>7. paid = [f |-> paid.f, M |-> paid.M]
  BY DEF Granted
<1> HIDE DEF paid, debt
<1>8. Claimed(end, u)
  <2>1. CASE suppliers
    <3> DEFINE f == SettleSuppliers(paid.f, paid.M, m, {u})
               M == paid.M
    <3>1. stake = [f |-> f, M |-> M]
      BY <1>7, <2>1
    <3>2. /\ RewardInv(paid.f, Now) /\ BooksInv(M[m], blockNumber)
          /\ CanSettleSuppliers(paid.f, M, m, {u})
      BY <1>1, <1>6, <2>1 DEF Working
    <3>3. RewardInv(f, Now) /\ f.claimed = paid.f.claimed
      BY <1>2, <3>2, SettleSuppliersInv
    <3>4. Claimed([f |-> f, M |-> M], u)
      BY <1>2, <1>6, <1>7, <3>2, ClaimedSupplier
    <3> HIDE DEF f
    <3>5. Working([f |-> f, M |-> M])
      BY <1>6, <3>3 DEF Working
    <3> HIDE DEF M
    <3>6. CanGrant([f |-> f, M |-> M], u, bankrupt, collateral)
      BY <1>1, <2>1, <3>1
    <3>7. Claimed(Granted([f |-> f, M |-> M], u, bankrupt), u)
      BY <1>3, <3>4, <3>5, <3>6, GrantedClaims
    <3> QED
      BY <2>1, <3>1, <3>7
  <2> QED
    BY <1>6, <2>1
<1>9. end = [f |-> end.f, M |-> end.M]
  BY <1>7 DEF Granted
<1> HIDE DEF stake, end
<1> QED
  BY <1>1, <1>8, <1>9

-----------------------------------------------------------------------------
(* The other actions: what calls no hook changes no position, or no books at all *)

\* Books that differ in what neither a settlement nor the debts read stay even.
SameClaims(s, t) ==
  /\ t.tokens = s.tokens /\ t.totalSupply = s.totalSupply
  /\ t.principal = s.principal /\ t.interestIndex = s.interestIndex
  /\ t.borrowIndex = s.borrowIndex /\ t.totalBorrows = s.totalBorrows

\* Such books stay even.
LEMMA EvenOtherwise ==
  ASSUME NEW s, Even(s), NEW t, SameClaims(s, t)
  PROVE  Even(t) /\ t.tokens = s.tokens /\ t.principal = s.principal
  BY DEF Even, Backed, SameClaims

\* The same positions, held in books that stay even.
SamePositions == SameHoldings(market, market') /\ \A x \in Markets : Even(market'[x])

\* Books that were not written.
LEMMA SameBooks ==
  ASSUME EvenInv, market' = market
  PROVE  SamePositions
  BY DEF SamePositions, SameHoldings, EvenInv

\* Books of one market written with the same positions.
LEMMA OneWritten ==
  ASSUME EvenInv, NEW m \in Markets, NEW t, market' = [market EXCEPT ![m] = t],
         Even(t), t.tokens = market[m].tokens, t.principal = market[m].principal
  PROVE  SamePositions
<1>1. market \in [Markets -> MarketBooks]
  BY EvenInvFacts
<1>2. SameHoldings(market, market')
  BY <1>1, NeitherWritten
<1>3. \A x \in Markets : Even(market'[x])
  BY <1>1 DEF EvenInv
<1> QED
  BY <1>2, <1>3 DEF SamePositions

\* A gift of the underlying is nobody's position.
LEMMA GiftSame ==
  ASSUME EvenInv, NEW m \in Markets, NEW a \in Accounts, NEW n, Donate(a, m, n)
  PROVE  SamePositions
<1> DEFINE t == [market[m] EXCEPT !.cash = @ + n]
<1>1. market[m] \in MarketBooks /\ Even(market[m])
  BY EvenInvFacts DEF EvenInv
<1>2. Even(t) /\ t.tokens = market[m].tokens /\ t.principal = market[m].principal
  BY <1>1, EvenOtherwise DEF SameClaims, MarketBooks
<1>3. market' = [market EXCEPT ![m] = t]
  BY DEF Donate
<1> HIDE DEF t
<1> QED
  BY <1>2, <1>3, OneWritten

\* Accruing leaves the books even; what the admin changes then is read by nobody.
LEMMA AccruedSame ==
  ASSUME NoInterest, EvenInv, NEW m \in Markets, CanAccrue(market[m]), NEW t,
         market' = [market EXCEPT ![m] = t], SameClaims(Accrued(market[m]), t)
  PROVE  SamePositions
<1> DEFINE s == Accrued(market[m])
<1>1. Even(s) /\ s.tokens = market[m].tokens /\ s.principal = market[m].principal
  BY FreshEven
<1>2. SameClaims(s, t)
  OBVIOUS
<1> HIDE DEF s
<1>3. Even(t) /\ t.tokens = s.tokens /\ t.principal = s.principal
  BY <1>1, <1>2, EvenOtherwise
<1> QED
  BY <1>1, <1>3, OneWritten

\* No action without a hook changes a position.
LEMMA PlainSame ==
  ASSUME NoInterest, EvenInv, PlainAction
  PROVE  SamePositions
<1>1. CASE AdvanceBlock
  BY <1>1, SameBooks DEF AdvanceBlock
<1>2. CASE \E c \in PriceChanges : SetUnderlyingPrice(c[1], c[2])
  BY <1>2, SameBooks DEF SetUnderlyingPrice, tokenVars
<1>3. ASSUME NEW m \in Markets, AccrueInterest(m)
      PROVE  SamePositions
  <2>1. CanAccrue(market[m]) /\ market' = [market EXCEPT ![m] = Accrued(market[m])]
    BY <1>3 DEF AccrueInterest, Books
  <2> QED
    BY <2>1, AccruedSame DEF SameClaims
<1>4. ASSUME NEW m \in Markets, NEW a \in Accounts, EnterMarket(a, m) \/ ExitMarket(a, m)
      PROVE  SamePositions
  BY <1>4, SameBooks DEF EnterMarket, ExitMarket, tokenVars
<1>5. ASSUME NEW m \in Markets, NEW a \in Accounts, NEW n \in GiftAmounts, Donate(a, m, n)
      PROVE  SamePositions
  BY <1>5, GiftSame
<1>6. ASSUME NEW m \in Markets, NEW a \in Accounts, NEW n \in GiftAmounts,
             AddReserves(a, m, n)
      PROVE  SamePositions
  <2> DEFINE t == [Accrued(market[m]) EXCEPT !.cash = @ + n, !.totalReserves = @ + n]
  <2>1. CanAccrue(market[m]) /\ market' = [market EXCEPT ![m] = t]
    BY <1>6 DEF AddReserves
  <2>2. Accrued(market[m]) \in MarketBooks
    BY <2>1, FreshEven DEF BooksInv
  <2>3. SameClaims(Accrued(market[m]), t)
    BY <2>2 DEF SameClaims, MarketBooks
  <2> HIDE DEF t
  <2> QED
    BY <2>1, <2>3, AccruedSame
<1>7. CASE AdminAction
  <2>1. ASSUME NEW m \in Markets, NEW f, SetReserveFactor(m, f)
        PROVE  SamePositions
    <3> DEFINE t == [Accrued(market[m]) EXCEPT !.reserveFactor = f]
    <3>1. CanAccrue(market[m]) /\ market' = [market EXCEPT ![m] = t]
      BY <2>1 DEF SetReserveFactor
    <3>2. Accrued(market[m]) \in MarketBooks
      BY <3>1, FreshEven DEF BooksInv
    <3>3. SameClaims(Accrued(market[m]), t)
      BY <3>2 DEF SameClaims, MarketBooks
    <3> HIDE DEF t
    <3> QED
      BY <3>1, <3>3, AccruedSame
  <2>2. ASSUME NEW m \in Markets, NEW model, SetInterestRateModel(m, model)
        PROVE  SamePositions
    <3> DEFINE t == [Accrued(market[m]) EXCEPT !.rateModel = model]
    <3>1. CanAccrue(market[m]) /\ market' = [market EXCEPT ![m] = t]
      BY <2>2 DEF SetInterestRateModel
    <3>2. Accrued(market[m]) \in MarketBooks
      BY <3>1, FreshEven DEF BooksInv
    <3>3. SameClaims(Accrued(market[m]), t)
      BY <3>2 DEF SameClaims, MarketBooks
    <3> HIDE DEF t
    <3> QED
      BY <3>1, <3>3, AccruedSame
  <2>3. ASSUME NEW m \in Markets, NEW n, ReduceReserves(m, n)
        PROVE  SamePositions
    <3> DEFINE t == [Accrued(market[m]) EXCEPT !.cash = @ - n, !.totalReserves = @ - n]
    <3>1. CanAccrue(market[m]) /\ market' = [market EXCEPT ![m] = t]
      BY <2>3 DEF ReduceReserves
    <3>2. Accrued(market[m]) \in MarketBooks
      BY <3>1, FreshEven DEF BooksInv
    <3>3. SameClaims(Accrued(market[m]), t)
      BY <3>2 DEF SameClaims, MarketBooks
    <3> HIDE DEF t
    <3> QED
      BY <3>1, <3>3, AccruedSame
  <2>4. \/ market' = market
        \/ \E m \in Markets : \/ \E f \in ReserveFactors : SetReserveFactor(m, f)
                              \/ \E model \in RateModels : SetInterestRateModel(m, model)
                              \/ \E n \in GiftAmounts : ReduceReserves(m, n)
    BY <1>7, Zenon DEF AdminAction, SetCloseFactor, SetLiquidationIncentive,
                       SetTreasuryPercent, SetPaused, SupportMarket, SetCollateralFactor,
                       SetMarketBorrowCap, tokenVars
  <2> QED
    BY <2>1, <2>2, <2>3, <2>4, SameBooks
<1> QED
  BY <1>1, <1>2, <1>3, <1>4, <1>5, <1>6, <1>7 DEF PlainAction

-----------------------------------------------------------------------------
(* The admin's speeds and grants *)

\* Both sides of a market are brought up to date with nobody settled.
LEMMA SuppliersTouched ==
  ASSUME NEW F, NEW M, Steady(F, M), blockNumber \in Nat, EvenBooks(M), NEW m \in Markets,
         NEW G, G = [F EXCEPT !.supply[m] = SupplyNow(F, M, m)]
  PROVE  /\ Steady(G, M)
         /\ \A u \in Accounts : Earnings(G, M, u) = Earnings(F, M, u)
<1>1. F \in FlywheelBooks
  BY DEF Steady, RewardInv
<1>2. /\ F.supplierIndex \in [Markets -> [Accounts -> Nat]]
      /\ F.accrued \in [Accounts -> Nat]
  BY <1>1 DEF FlywheelBooks
<1>3. /\ [F.supplierIndex EXCEPT ![m] = [a \in Accounts |-> F.supplierIndex[m][a]]] = F.supplierIndex
      /\ [a \in Accounts |-> F.accrued[a] + 0] = F.accrued
  BY <1>2
<1>4. SettleSuppliers(F, M, m, {}) = G
  <2> DEFINE state == SupplyNow(F, M, m)
  <2>1. SettleSuppliers(F, M, m, {})
          = [F EXCEPT !.supply = [F.supply EXCEPT ![m] = state],
                      !.supplierIndex = [F.supplierIndex EXCEPT ![m] = [a \in Accounts |-> F.supplierIndex[m][a]]],
                      !.accrued = [a \in Accounts |-> F.accrued[a] + 0]]
    BY <1>1, <1>2 DEF SettleSuppliers, FlywheelBooks
  <2>2. SettleSuppliers(F, M, m, {})
          = [F EXCEPT !.supply = [F.supply EXCEPT ![m] = state],
                      !.supplierIndex = F.supplierIndex, !.accrued = F.accrued]
    BY <1>3, <2>1
  <2> HIDE DEF state
  <2>3. [F EXCEPT !.supply = [F.supply EXCEPT ![m] = state],
                  !.supplierIndex = F.supplierIndex, !.accrued = F.accrued]
          = [F EXCEPT !.supply[m] = state]
    BY <1>1 DEF FlywheelBooks
  <2> QED
    BY <2>2, <2>3 DEF state
<1>5. CanSettleSuppliers(F, M, m, {}) /\ OnlyChanges(M, M, m, "supply", {})
  BY DEF CanSettleSuppliers, OnlyChanges
<1> QED
  BY <1>4, <1>5, SuppliersSteady

\* The same of the borrow side.
LEMMA BorrowersTouched ==
  ASSUME NEW F, NEW M, Steady(F, M), blockNumber \in Nat, EvenBooks(M), NEW m \in Markets,
         NEW G, G = [F EXCEPT !.borrow[m] = BorrowNow(F, M, m)]
  PROVE  /\ Steady(G, M)
         /\ \A u \in Accounts : Earnings(G, M, u) = Earnings(F, M, u)
<1> DEFINE state == BorrowNow(F, M, m)
<1>1. /\ RewardInv(F, Now) /\ Paced(F) /\ WithinBudget(F, M) /\ F \in FlywheelBooks
      /\ Held(M)
  BY EvenHeld DEF Steady, RewardInv
<1>2. /\ F.borrow \in [Markets -> MarketState]
      /\ F.borrowerIndex \in [Markets -> [Accounts -> Nat]]
      /\ F.accrued \in [Accounts -> Nat] /\ F.claimed \in [Accounts -> Nat]
  BY <1>1 DEF FlywheelBooks
<1>3. /\ state \in MarketState /\ state.block = Now
      /\ state.index >= F.borrow[m].index
      /\ state = Ahead(F, M, m, "borrow")
  BY <1>1, IndicesType, BorrowAhead DEF EvenBooks
<1> HIDE DEF state
<1>4. /\ G.borrow = [F.borrow EXCEPT ![m] = state]
      /\ G.speed = F.speed /\ G.supply = F.supply
      /\ G.supplierIndex = F.supplierIndex /\ G.borrowerIndex = F.borrowerIndex
      /\ G.accrued = F.accrued /\ G.claimed = F.claimed
      /\ G \in FlywheelBooks
  <2>1. G = [F EXCEPT !.borrow = [F.borrow EXCEPT ![m] = state]]
    BY <1>1 DEF FlywheelBooks, state
  <2>2. [F.borrow EXCEPT ![m] = state] \in [Markets -> MarketState]
    BY <1>2, <1>3
  <2> QED
    BY <1>1, <2>1, <2>2 DEF FlywheelBooks
<1>5. /\ G.borrow[m] = state
      /\ \A x \in Markets \ {m} : G.borrow[x] = F.borrow[x]
  BY <1>2, <1>4
<1>6. RewardInv(G, Now)
  <2> SUFFICES ASSUME NEW x \in Markets
               PROVE  /\ G.supply[x].block <= Now /\ G.borrow[x].block <= Now
                      /\ \A u \in Accounts : G.borrowerIndex[x][u] <= G.borrow[x].index
    BY <1>4 DEF RewardInv
  <2>1. /\ F.supply[x].block <= Now /\ F.borrow[x].block <= Now
        /\ \A u \in Accounts : F.borrowerIndex[x][u] <= F.borrow[x].index
    BY <1>1 DEF RewardInv
  <2>2. CASE x # m
    BY <1>4, <1>5, <2>1, <2>2
  <2>3. CASE x = m
    <3>1. Now \in Nat /\ state.index \in Nat /\ F.borrow[m].index \in Nat
      BY <1>2, <1>3 DEF MarketState, Now
    <3>2. \A u \in Accounts : F.borrowerIndex[m][u] \in Nat
      BY <1>2
    <3>3. \A u \in Accounts : F.borrowerIndex[m][u] <= state.index
      BY <1>3, <2>1, <2>3, <3>1, <3>2
    <3> QED
      BY <1>3, <1>4, <1>5, <2>1, <2>3, <3>1, <3>3
  <2> QED
    BY <2>2, <2>3
<1>7. Moves(F, G, M, M, m, "borrow", {})
  <2>1. SideState(G, m, "borrow") = Ahead(F, M, m, "borrow")
    BY <1>3, <1>5 DEF SideState
  <2>2. \A u \in Accounts :
          /\ SettledAt(G, m, "borrow")[u] = SettledAt(F, m, "borrow")[u]
          /\ G.claimed[u] + G.accrued[u] = F.claimed[u] + F.accrued[u] + 0
    BY <1>2, <1>4 DEF SettledAt
  <2>3. \A x \in Markets, s \in Sides :
          x # m \/ s # "borrow" => /\ SideState(G, x, s) = SideState(F, x, s)
                                   /\ SettledAt(G, x, s) = SettledAt(F, x, s)
    BY <1>4, <1>5 DEF SideState, SettledAt, Sides
  <2> QED
    BY <1>4, <2>1, <2>2, <2>3 DEF Moves
<1>8. "borrow" \in Sides
  BY DEF Sides
<1>9. Paced(G) /\ WithinBudget(G, M)
  BY <1>1, <1>6, <1>7, <1>8, MovesPaced, MovesBudget
<1>10. \A u \in Accounts : Earnings(G, M, u) = Earnings(F, M, u)
  BY <1>1, <1>6, <1>7, <1>8, MovesEarnings
<1> QED
  BY <1>6, <1>9, <1>10 DEF Steady

\* A new speed of a market that is up to date: it has earned nobody anything yet.
LEMMA SpeedWritten ==
  ASSUME NEW F, NEW M, Steady(F, M), blockNumber \in Nat, Held(M), NEW m \in Markets,
         F.supply[m].block = Now, F.borrow[m].block = Now,
         NEW s \in Nat, s <= HighestSpeed, NEW G, G = [F EXCEPT !.speed[m] = s]
  PROVE  /\ Steady(G, M)
         /\ \A u \in Accounts : Earnings(G, M, u) = Earnings(F, M, u)
<1>1. /\ RewardInv(F, Now) /\ Paced(F) /\ WithinBudget(F, M) /\ F \in FlywheelBooks
  BY DEF Steady, RewardInv
<1>2. F.speed \in [Markets -> Nat]
  BY <1>1 DEF FlywheelBooks
<1>3. /\ G.speed = [F.speed EXCEPT ![m] = s]
      /\ G.supply = F.supply /\ G.borrow = F.borrow
      /\ G.supplierIndex = F.supplierIndex /\ G.borrowerIndex = F.borrowerIndex
      /\ G.accrued = F.accrued /\ G.claimed = F.claimed
      /\ G \in FlywheelBooks
  <2>1. G = [F EXCEPT !.speed = [F.speed EXCEPT ![m] = s]]
    BY <1>1 DEF FlywheelBooks
  <2>2. [F.speed EXCEPT ![m] = s] \in [Markets -> Nat]
    BY <1>2
  <2> QED
    BY <1>1, <2>1, <2>2 DEF FlywheelBooks
<1>4. RewardInv(G, Now)
  BY <1>1, <1>3 DEF RewardInv
<1>5. \A x \in Markets, side \in Sides : /\ SideState(G, x, side) = SideState(F, x, side)
                                         /\ SettledAt(G, x, side) = SettledAt(F, x, side)
  BY <1>3 DEF SideState, SettledAt
<1>6. \A x \in Markets : G.speed[x] = IF x = m THEN s ELSE F.speed[x]
  BY <1>2, <1>3
<1>7. Now # 0 /\ \A side \in Sides : SideState(F, m, side).block = Now
  BY DEF Now, SideState
<1>8. Paced(G)
  BY <1>1, <1>5, <1>6, <1>7 DEF Paced
<1>9. WithinBudget(G, M)
  <2>1. \A x \in Markets : /\ Unspent(G, M, x, "supply") = Unspent(F, M, x, "supply")
                           /\ Unspent(G, M, x, "borrow") = Unspent(F, M, x, "borrow")
    BY <1>5 DEF Unspent, Leads, Sides
  <2>2. AllUnspent(G, M) = AllUnspent(F, M)
    BY <2>1 DEF AllUnspent
  <2>3. EarnedBy(G) = EarnedBy(F)
    BY <1>3 DEF EarnedBy
  <2> QED
    BY <1>1, <2>2, <2>3 DEF WithinBudget
<1>10. \A x \in Markets, side \in Sides : Ahead(G, M, x, side) = Ahead(F, M, x, side)
  <2> TAKE x \in Markets, side \in Sides
  <2>1. CASE x # m
    BY <1>5, <1>6, <2>1 DEF Ahead
  <2>2. CASE x = m
    <3>1. /\ SideState(F, m, side) \in MarketState /\ F.speed[m] \in Nat
          /\ SumFunction(Holding(M, m, side)) \in Nat
      BY <1>1, SideTypes, AccountsFinite, SumFunctionNat DEF Held
    <3>2. /\ Ahead(F, M, m, side) = SideState(F, m, side)
          /\ Ahead(G, M, m, side) = SideState(F, m, side)
      BY <1>5, <1>6, <1>7, <3>1, AheadAlready DEF Ahead
    <3> QED
      BY <2>2, <3>2
  <2> QED
    BY <2>1, <2>2
<1>11. ASSUME NEW u \in Accounts
       PROVE  Earnings(G, M, u) = Earnings(F, M, u)
  <2>1. \A x \in Markets, side \in Sides : OwedTo(G, M, x, side, u) = OwedTo(F, M, x, side, u)
    BY <1>5, <1>10 DEF OwedTo
  <2>2. Owed(G, M, u) = Owed(F, M, u)
    BY <2>1 DEF Owed, Sides
  <2> QED
    BY <1>3, <2>2 DEF Earnings
<1> QED
  BY <1>4, <1>8, <1>9, <1>11 DEF Steady

\* setBrainiacSpeedInternal settles at the old speed before it writes the new one.
LEMMA ChangeSpeedFair ==
  ASSUME EvenInv, NEW m \in Markets, NEW s \in Speeds, ChangeSpeed(m, s)
  PROVE  FairStep
<1> DEFINE F == [flywheel EXCEPT !.supply[m] = SupplyNow(flywheel, market, m)]
           G == [F EXCEPT !.borrow[m] = BorrowNow(F, market, m)]
           H == [G EXCEPT !.speed[m] = s]
<1>1. /\ EvenBooks(market) /\ Held(market) /\ Steady(flywheel, market) /\ blockNumber \in Nat
      /\ flywheel \in FlywheelBooks /\ RewardInv(flywheel, Now)
  BY EvenInvFacts DEF RewardInv
<1>2. market' = market /\ EvenBooks(market')
  BY <1>1 DEF ChangeSpeed, vars, tokenVars
<1>3. s \in Nat /\ s <= HighestSpeed
  BY HighestSpeedIsHighest, FlywheelAssumption
<1>4. /\ Steady(F, market)
      /\ \A u \in Accounts : Earnings(F, market, u) = Earnings(flywheel, market, u)
  BY <1>1, SuppliersTouched
<1>5. /\ F \in FlywheelBooks /\ F.borrow = flywheel.borrow /\ F.speed = flywheel.speed
      /\ F.supply[m] = SupplyNow(flywheel, market, m)
  <2>1. F \in FlywheelBooks
    BY <1>4 DEF Steady, RewardInv
  <2>2. flywheel.supply \in [Markets -> MarketState]
    BY <1>1 DEF FlywheelBooks
  <2> QED
    BY <1>1, <2>1, <2>2 DEF FlywheelBooks
<1>6. BorrowNow(F, market, m) = BorrowNow(flywheel, market, m)
  BY <1>5 DEF BorrowNow
<1>7. flywheel' = H
  <2> DEFINE a == SupplyNow(flywheel, market, m)
             b == BorrowNow(flywheel, market, m)
  <2>1. flywheel' = [flywheel EXCEPT !.speed[m] = s, !.supply[m] = a, !.borrow[m] = b]
    BY DEF ChangeSpeed
  <2>2. H = [[[flywheel EXCEPT !.supply[m] = a] EXCEPT !.borrow[m] = b] EXCEPT !.speed[m] = s]
    BY <1>6
  <2> HIDE DEF a, b, H
  <2>3. [[[flywheel EXCEPT !.supply[m] = a] EXCEPT !.borrow[m] = b] EXCEPT !.speed[m] = s]
          = [flywheel EXCEPT !.speed[m] = s, !.supply[m] = a, !.borrow[m] = b]
    BY <1>1 DEF FlywheelBooks
  <2> QED
    BY <2>1, <2>2, <2>3
<1>8. F.supply[m].block = Now
  BY <1>1, <1>5, IndicesType DEF EvenBooks
<1> HIDE DEF F
<1>9. /\ Steady(G, market)
      /\ \A u \in Accounts : Earnings(G, market, u) = Earnings(F, market, u)
  BY <1>1, <1>4, BorrowersTouched
<1>10. G.supply[m].block = Now /\ G.borrow[m].block = Now
  <2>1. BorrowNow(F, market, m).block = Now
    BY <1>1, <1>4, IndicesType DEF EvenBooks, Steady
  <2>2. F.borrow \in [Markets -> MarketState]
    BY <1>5 DEF FlywheelBooks
  <2>3. G.supply = F.supply /\ G.borrow[m] = BorrowNow(F, market, m)
    BY <1>5, <2>2 DEF FlywheelBooks
  <2> QED
    BY <1>8, <2>1, <2>3
<1> HIDE DEF G
<1>11. /\ Steady(H, market)
       /\ \A u \in Accounts : Earnings(H, market, u) = Earnings(G, market, u)
  BY <1>1, <1>3, <1>9, <1>10, SpeedWritten
<1> HIDE DEF H
<1> QED
  BY <1>2, <1>4, <1>7, <1>9, <1>11 DEF FairStep

\* A side that is started was never touched: nobody holds what it has not paid.
LEMMA StartSpeedSteady ==
  ASSUME EvenInv, NEW m \in Markets, NEW s \in Speeds, StartSpeed(m, s)
  PROVE  Steady(flywheel', market') /\ EvenBooks(market')
<1> DEFINE F == flywheel
           G == flywheel'
           M == market
           Started(state) ==
             IF state.index = 0 /\ state.block = 0
             THEN [index |-> BrainiacInitialIndex, block |-> Now] ELSE state
           supply == [F.supply EXCEPT ![m] = Started(F.supply[m])]
           borrow == [F.borrow EXCEPT ![m] = Started(F.borrow[m])]
           speed  == [F.speed EXCEPT ![m] = s]
<1>1. /\ EvenBooks(M) /\ Held(M) /\ Steady(F, M) /\ blockNumber \in Nat
      /\ RewardInv(F, Now) /\ Paced(F) /\ WithinBudget(F, M)
      /\ F \in FlywheelBooks /\ IInv
  BY EvenInvFacts DEF RewardInv, Steady
<1>2. s \in Nat /\ s <= HighestSpeed
  BY HighestSpeedIsHighest, FlywheelAssumption
<1>3. RewardInv(G, Now) /\ market' = market
  BY <1>1, <1>2, SpeedRewards DEF vars, tokenVars
<1>4. /\ F.speed \in [Markets -> Nat]
      /\ F.supply \in [Markets -> MarketState] /\ F.borrow \in [Markets -> MarketState]
  BY <1>1 DEF FlywheelBooks
<1>5. /\ G.speed = speed /\ G.supply = supply /\ G.borrow = borrow
      /\ G.supplierIndex = F.supplierIndex /\ G.borrowerIndex = F.borrowerIndex
      /\ G.accrued = F.accrued /\ G.claimed = F.claimed
  <2>1. G = [F EXCEPT !.speed = speed, !.supply = supply, !.borrow = borrow]
    BY <1>1 DEF StartSpeed, FlywheelBooks
  <2> HIDE DEF speed, supply, borrow, G
  <2> QED
    BY <1>1, <2>1 DEF FlywheelBooks
<1>6. \A x \in Markets, side \in Sides :
        /\ SettledAt(G, x, side) = SettledAt(F, x, side)
        /\ SideState(G, x, side) = IF x = m THEN Started(SideState(F, x, side))
                                   ELSE SideState(F, x, side)
  BY <1>4, <1>5 DEF SideState, SettledAt, Sides
<1>7. \A x \in Markets : G.speed[x] = IF x = m THEN s ELSE F.speed[x]
  BY <1>4, <1>5
<1>8. /\ Now \in Nat /\ Now # 0 /\ Now - 1 \in Nat
      /\ BrainiacInitialIndex \in Nat
  BY <1>1, FlywheelAssumption DEF Now, BrainiacInitialIndex
<1> DEFINE Fresh(side) == SideState(F, m, side).index = 0 /\ SideState(F, m, side).block = 0
<1>9. ASSUME NEW side \in Sides, Fresh(side)
      PROVE  /\ SideState(G, m, side) = [index |-> BrainiacInitialIndex, block |-> Now]
             /\ \A u \in Accounts : SettledAt(F, m, side)[u] = 0
  <2>1. \A u \in Accounts : /\ SettledAt(F, m, side)[u] \in Nat
                            /\ SettledAt(F, m, side)[u] <= 0
    BY <1>1, <1>9, SideTypes DEF Paced
  <2>2. \A u \in Accounts : SettledAt(F, m, side)[u] = 0
    BY <2>1
  <2>3. SideState(G, m, side) = [index |-> BrainiacInitialIndex, block |-> Now]
    BY <1>6, <1>9
  <2> QED
    BY <2>2, <2>3
<1>10. ASSUME NEW side \in Sides, ~ Fresh(side)
       PROVE  SideState(G, m, side) = SideState(F, m, side) /\ SideState(F, m, side).block # 0
  BY <1>1, <1>6, <1>10 DEF Paced
<1> HIDE DEF G, F
<1>11. Paced(G)
  <2> SUFFICES ASSUME NEW x \in Markets
               PROVE  /\ G.speed[x] <= HighestSpeed
                      /\ \A side \in Sides :
                           /\ SideState(G, x, side).block = 0 =>
                                SideState(G, x, side).index = 0 /\ G.speed[x] = 0
                           /\ \A u \in Accounts :
                                SettledAt(G, x, side)[u] <= SideState(G, x, side).index
    BY DEF Paced
  <2>1. CASE x # m
    BY <1>1, <1>6, <1>7, <2>1 DEF Paced
  <2>2. CASE x = m
    <3>1. G.speed[m] <= HighestSpeed
      BY <1>2, <1>7
    <3>2. ASSUME NEW side \in Sides
          PROVE  /\ SideState(G, m, side).block # 0
                 /\ \A u \in Accounts :
                      SettledAt(G, m, side)[u] <= SideState(G, m, side).index
      <4>1. CASE Fresh(side)
        BY <1>6, <1>8, <1>9, <4>1
      <4>2. CASE ~ Fresh(side)
        BY <1>1, <1>6, <1>10, <4>2 DEF Paced
      <4> QED
        BY <4>1, <4>2
    <3> QED
      BY <2>2, <3>1, <3>2
  <2> QED
    BY <2>1, <2>2
<1>12. \A x \in Markets, side \in Sides :
         /\ Unspent(F, M, x, side) \in Int /\ Unspent(G, M, x, side) \in Int
         /\ Unspent(F, M, x, side) <= Unspent(G, M, x, side)
  <2> TAKE x \in Markets, side \in Sides
  <2>1. Unspent(F, M, x, side) \in Int /\ Unspent(G, M, x, side) \in Int
    BY <1>1, <1>3, <1>11, LeadsType
  <2>2. CASE x # m \/ ~ Fresh(side)
    <3>1. /\ SideState(G, x, side) = SideState(F, x, side)
          /\ SettledAt(G, x, side) = SettledAt(F, x, side)
      BY <1>6, <1>10, <2>2
    <3>2. Unspent(G, M, x, side) = Unspent(F, M, x, side)
      BY <3>1 DEF Unspent, Leads
    <3> QED
      BY <2>1, <3>2
  <2>3. CASE x = m /\ Fresh(side)
    <3>1. \A u \in Accounts :
            /\ LeadOf(side, SettledAt(F, m, side)[u], SideState(F, m, side).index) = 0
            /\ LeadOf(side, SettledAt(G, m, side)[u], SideState(G, m, side).index) = 0
      BY <1>6, <1>9, <2>3, NoLead
    <3>2. \A u \in Accounts : Holding(M, m, side)[u] \in Nat
      BY <1>1 DEF Held
    <3>3. /\ Leads(F, M, m, side) = [u \in Accounts |-> 0]
          /\ Leads(G, M, m, side) = [u \in Accounts |-> 0]
      BY <3>1, <3>2 DEF Leads
    <3>4. Credited(SideState(F, m, side)) = 0 /\ Credited(SideState(G, m, side)) = Now - 1
      BY <1>8, <1>9, <2>3 DEF Credited
    <3> DEFINE most == DoubleScale * HighestSpeed
    <3>5. most \in Nat
      BY HighestSpeedIsHighest, FlywheelAssumption, TimesNat
    <3>6. /\ Unspent(F, M, m, side) = most * 0 - 0
          /\ Unspent(G, M, m, side) = most * (Now - 1) - 0
      BY <3>3, <3>4, AccountsFinite, SumFunctionZero DEF Unspent
    <3>7. most * (Now - 1) \in Nat
      BY <1>8, <3>5, TimesNat
    <3> HIDE DEF most
    <3> QED
      BY <2>3, <3>5, <3>6, <3>7
  <2> QED
    BY <2>2, <2>3
<1>13. WithinBudget(G, M)
  <2>1. /\ AllUnspent(F, M) \in [Markets -> Int] /\ AllUnspent(G, M) \in [Markets -> Int]
        /\ \A x \in Markets : AllUnspent(F, M)[x] <= AllUnspent(G, M)[x]
    BY <1>12 DEF AllUnspent, Sides
  <2>2. SumFunction(AllUnspent(F, M)) <= SumFunction(AllUnspent(G, M))
    BY <2>1, FlywheelFinite, SumFunctionLeq
  <2>3. EarnedBy(G) = EarnedBy(F)
    BY <1>5 DEF EarnedBy
  <2>4. /\ SumFunction(AllUnspent(F, M)) \in Int /\ SumFunction(AllUnspent(G, M)) \in Int
    BY <2>1, FlywheelFinite, SumFunctionInt
  <2>5. DoubleScale * SumFunction(EarnedBy(F)) \in Nat
    BY <1>1, EarnedType, TimesNat, FlywheelAssumption
  <2>6. DoubleScale * SumFunction(EarnedBy(F)) <= SumFunction(AllUnspent(F, M))
    BY <1>1 DEF WithinBudget
  <2>7. DoubleScale * SumFunction(EarnedBy(F)) <= SumFunction(AllUnspent(G, M))
    BY <2>2, <2>4, <2>5, <2>6
  <2> QED
    BY <2>3, <2>7 DEF WithinBudget
<1>14. Steady(G, M)
  BY <1>3, <1>11, <1>13 DEF Steady
<1>15. EvenBooks(market')
  <2>1. blockNumber' = blockNumber
    BY DEF StartSpeed, vars, tokenVars
  <2> QED
    BY <1>1, <1>3
<1> QED
  BY <1>3, <1>14, <1>15 DEF G

\* A grant is paid out of the comptroller's BRN, not out of anybody's rewards.
LEMMA GrantFair ==
  ASSUME EvenInv, NEW u \in Accounts, NEW n \in Grants, GrantBRN(u, n)
  PROVE  FairStep
<1>1. /\ EvenBooks(market) /\ RewardInv(flywheel, Now) /\ Paced(flywheel)
      /\ WithinBudget(flywheel, market) /\ flywheel \in FlywheelBooks /\ IInv
  BY EvenInvFacts DEF RewardInv, Steady
<1>2. market' = market /\ n \in Nat
  BY FlywheelAssumption DEF GrantBRN
<1>3. RewardInv(flywheel', Now)
  BY <1>1, <1>2, GrantIInv
<1>4. /\ flywheel'.speed = flywheel.speed /\ flywheel'.supply = flywheel.supply
      /\ flywheel'.borrow = flywheel.borrow
      /\ flywheel'.supplierIndex = flywheel.supplierIndex
      /\ flywheel'.borrowerIndex = flywheel.borrowerIndex
      /\ flywheel'.accrued = flywheel.accrued /\ flywheel'.claimed = flywheel.claimed
  BY <1>1 DEF GrantBRN, FlywheelBooks
<1>5. /\ Paced(flywheel')
      /\ AllUnspent(flywheel', market) = AllUnspent(flywheel, market)
      /\ \A x \in Accounts : Owed(flywheel', market, x) = Owed(flywheel, market, x)
  BY <1>1, <1>4, SameIndices
<1>6. EarnedBy(flywheel') = EarnedBy(flywheel)
  BY <1>4 DEF EarnedBy
<1>7. WithinBudget(flywheel', market)
  BY <1>1, <1>5, <1>6 DEF WithinBudget
<1>8. \A x \in Accounts : Earnings(flywheel', market, x) = Earnings(flywheel, market, x)
  BY <1>4, <1>5 DEF Earnings
<1> QED
  BY <1>1, <1>2, <1>3, <1>5, <1>7, <1>8 DEF FairStep, Steady

\* The invariant at the start: nobody has earned anything.
LEMMA InitEvenInv == FInit => EvenInv
<1> SUFFICES ASSUME FInit
             PROVE  EvenInv
  OBVIOUS
<1> DEFINE F == flywheel
           M == market
<1>1. FInv /\ FlywheelInit /\ blockNumber = 0 /\ Init
  BY InitFInv DEF FInit, Init, TokenInit
<1>2. RewardInv(F, Now) /\ Now = 1
  BY <1>1 DEF FInv, Now
<1>3. \A m \in Markets : Even(M[m])
  <2> TAKE m \in Markets
  <2>1. PICK model : M[m] = NewMarket(model)
    BY <1>1 DEF Init, TokenInit
  <2>2. SumFunction([a \in Accounts |-> 0]) = 0
    BY AccountsFinite, SumFunctionZero
  <2> QED
    BY <2>1, <2>2 DEF NewMarket, Even, Backed
<1>4. /\ F.speed = InitialSpeed
      /\ \A m \in Markets :
           /\ F.supply[m] = F.borrow[m]
           /\ F.supply[m] = IF InitialSpeed[m] = 0 THEN [index |-> 0, block |-> 0]
                            ELSE [index |-> BrainiacInitialIndex, block |-> 1]
           /\ F.supplierIndex[m] = [a \in Accounts |-> 0]
           /\ F.borrowerIndex[m] = [a \in Accounts |-> 0]
      /\ F.accrued = [a \in Accounts |-> 0] /\ F.claimed = [a \in Accounts |-> 0]
  BY <1>1, <1>2 DEF FlywheelInit
<1>5. BrainiacInitialIndex \in Nat
  BY FlywheelAssumption DEF BrainiacInitialIndex
<1> HIDE DEF F, M
<1>6. \A m \in Markets, side \in Sides :
        /\ SideState(F, m, side) = F.supply[m]
        /\ SettledAt(F, m, side) = [a \in Accounts |-> 0]
  BY <1>4 DEF SideState, SettledAt
<1>7. \A m \in Markets : F.supply[m].index \in {0, BrainiacInitialIndex}
  BY <1>4
<1>8. Paced(F)
  <2>1. \A m \in Markets : F.speed[m] <= HighestSpeed
    BY <1>4, HighestSpeedIsHighest
  <2>2. \A m \in Markets : F.supply[m].block = 0 => F.supply[m].index = 0 /\ F.speed[m] = 0
    BY <1>4
  <2>3. \A m \in Markets : 0 <= F.supply[m].index
    BY <1>5, <1>7
  <2> QED
    BY <1>6, <2>1, <2>2, <2>3 DEF Paced
<1>9. ASSUME NEW m \in Markets, NEW side \in Sides
      PROVE  Unspent(F, M, m, side) = 0
  <2>1. LeadOf(side, 0, F.supply[m].index) = 0
    BY <1>7, NoLead
  <2>2. Holding(M, m, side) \in [Accounts -> Nat]
    <3>1. Held(M)
      <4>1. IInv
        BY <1>1 DEF FInv
      <4>2. EvenBooks(M)
        BY <1>3, <4>1, WellFormedFacts DEF EvenBooks, IInv, M
      <4> QED
        BY <4>2, EvenHeld
    <3> QED
      BY <3>1 DEF Held
  <2>3. Leads(F, M, m, side) = [u \in Accounts |-> 0]
    BY <1>6, <2>1, <2>2 DEF Leads
  <2>4. SumFunction(Leads(F, M, m, side)) = 0
    BY <2>3, AccountsFinite, SumFunctionZero
  <2>5. Credited(SideState(F, m, side)) = 0
    BY <1>4, <1>6 DEF Credited
  <2>6. DoubleScale * HighestSpeed \in Nat
    BY HighestSpeedIsHighest, FlywheelAssumption, TimesNat
  <2> QED
    BY <2>4, <2>5, <2>6 DEF Unspent
<1>10. WithinBudget(F, M)
  <2>1. AllUnspent(F, M) = [m \in Markets |-> 0]
    BY <1>9 DEF AllUnspent, Sides
  <2>2. SumFunction(AllUnspent(F, M)) = 0
    BY <2>1, FlywheelFinite, SumFunctionZero
  <2>3. EarnedBy(F) = [u \in Accounts |-> 0]
    BY <1>4 DEF EarnedBy
  <2>4. SumFunction(EarnedBy(F)) = 0
    BY <2>3, AccountsFinite, SumFunctionZero
  <2> QED
    BY <2>2, <2>4, FlywheelAssumption DEF WithinBudget
<1> QED
  BY <1>1, <1>3, <1>8, <1>10 DEF EvenInv, F, M

-----------------------------------------------------------------------------
(* Every step *)

\* What a step keeps: the invariant's parts, and, until the next block or the start
\* of a speed, what everybody has earned.
EvenStep ==
  /\ \A m \in Markets : Even(market'[m])
  /\ Paced(flywheel') /\ WithinBudget(flywheel', market')
  /\ blockNumber' = blockNumber /\ ~SpeedStarts =>
       \A a \in Accounts :
         \/ PaidInBRTokens(a)
         \/ Earnings(flywheel', market', a) = Earnings(flywheel, market, a)

\* A fair step is an even one.
LEMMA FairIsEven ==
  ASSUME FairStep
  PROVE  EvenStep
<1>1. \A m \in Markets : Even(market'[m])
  BY DEF FairStep, EvenBooks
<1> QED
  BY <1>1 DEF FairStep, EvenStep, Steady

\* So is one that changes no position.
LEMMA PlainEven ==
  ASSUME EvenInv, SamePositions, UNCHANGED flywheel
  PROVE  EvenStep
<1>1. /\ Steady(flywheel, market')
      /\ \A a \in Accounts : Earnings(flywheel, market', a) = Earnings(flywheel, market, a)
  BY EvenInvFacts, SameHoldingsSteady DEF SamePositions
<1> QED
  BY <1>1 DEF EvenStep, SamePositions, Steady

\* Every step of the flywheel is even, its stuttering steps too.
LEMMA NextEvenStep ==
  ASSUME NoInterest, EvenInv, [FNext]_flywheelVars
  PROVE  EvenStep
<1>1. CASE PlainAction /\ UNCHANGED flywheel
  BY <1>1, PlainSame, PlainEven
<1>2. ASSUME NEW m \in Markets, SettlingAction(m)
      PROVE  EvenStep
  BY <1>2, SettlingFair, FairIsEven
<1>3. ASSUME NEW m \in Markets, NEW u \in Accounts, NEW borrowers \in BOOLEAN,
             NEW suppliers \in BOOLEAN, NEW collateral \in BOOLEAN,
             ClaimBrainiac(u, m, borrowers, suppliers, collateral)
      PROVE  EvenStep
  <2>1. Claimed([f |-> flywheel', M |-> market'], u)
    BY <1>3, ClaimFair
  <2>2. EvenBooks(market') /\ Steady(flywheel', market')
    BY <2>1 DEF Claimed
  <2>3. \A x \in Markets : Even(market'[x])
    BY <2>2 DEF EvenBooks
  <2>4. \A a \in Accounts :
          \/ PaidInBRTokens(a)
          \/ Earnings(flywheel', market', a) = Earnings(flywheel, market, a)
    BY <2>1 DEF Claimed, PaidInBRTokens
  <2> QED
    BY <2>2, <2>3, <2>4 DEF EvenStep, Steady
<1>4. ASSUME NEW m \in Markets, NEW s \in Speeds, ChangeSpeed(m, s)
      PROVE  EvenStep
  BY <1>4, ChangeSpeedFair, FairIsEven
<1>5. ASSUME NEW m \in Markets, NEW s \in Speeds, StartSpeed(m, s)
      PROVE  EvenStep
  <2>1. Steady(flywheel', market') /\ EvenBooks(market')
    BY <1>5, StartSpeedSteady
  <2>2. \A x \in Markets : Even(market'[x])
    BY <2>1 DEF EvenBooks
  <2>3. SpeedStarts
    <3>1. flywheel \in FlywheelBooks
      BY EvenInvFacts DEF RewardInv
    <3>2. flywheel'.speed[m] = s /\ s # 0 /\ flywheel.speed[m] = 0
      BY <1>5, <3>1 DEF StartSpeed, FlywheelBooks
    <3> QED
      BY <3>2 DEF SpeedStarts
  <2> QED
    BY <2>1, <2>2, <2>3 DEF EvenStep, Steady
<1>6. ASSUME NEW u \in Accounts, NEW n \in Grants, GrantBRN(u, n)
      PROVE  EvenStep
  BY <1>6, GrantFair, FairIsEven
<1>7. CASE UNCHANGED flywheelVars
  <2>1. market' = market /\ UNCHANGED flywheel
    BY <1>7 DEF flywheelVars, vars, tokenVars
  <2> QED
    BY <2>1, SameBooks, PlainEven
<1> QED
  BY <1>1, <1>2, <1>3, <1>4, <1>5, <1>6, <1>7 DEF FNext

\* Without interest the books stay even and the rewards within what passed.
LEMMA EvenInvariance ==
  ASSUME NoInterest
  PROVE  FSpec => []EvenInv
<1>1. EvenInv /\ [FNext]_flywheelVars => EvenInv'
  <2> SUFFICES ASSUME EvenInv, [FNext]_flywheelVars
               PROVE  EvenInv'
    OBVIOUS
  <2>1. FInv'
    BY NextFInv DEF EvenInv
  <2>2. EvenStep
    BY NextEvenStep
  <2>3. Paced(flywheel)' /\ WithinBudget(flywheel, market)' /\ (\A m \in Markets : Even(market[m]))'
    BY <2>2 DEF EvenStep
  <2> QED
    BY <2>1, <2>3 DEF EvenInv
<1> QED
  BY <1>1, InitEvenInv, PTL DEF FSpec

-----------------------------------------------------------------------------
(* The two theorems *)

\* What an account is entitled to, as the claims of the flywheel compute it, is
\* what it has earned.
LEMMA EntitlementIsEarned ==
  EvenInv => \A u \in Accounts : Entitlement(u) = Earnings(flywheel, market, u)
<1> SUFFICES ASSUME EvenInv, NEW u \in Accounts
             PROVE  Entitlement(u) = Earnings(flywheel, market, u)
  OBVIOUS
<1>1. /\ RewardInv(flywheel, Now) /\ Paced(flywheel) /\ blockNumber \in Nat
      /\ EvenBooks(market)
  BY EvenInvFacts DEF Steady
<1>2. \A m \in Markets :
        Unsettled(flywheel, market, m, u)
          = OwedTo(flywheel, market, m, "supply", u) + OwedTo(flywheel, market, m, "borrow", u)
  BY <1>1, SupplierOwed, BorrowerOwed DEF Unsettled
<1>3. [m \in Markets |-> Unsettled(flywheel, market, m, u)] = Owed(flywheel, market, u)
  BY <1>2 DEF Owed
<1> QED
  BY <1>3 DEF Entitlement, Earnings

\* No transaction between two blocks, in whichever order the hooks settle, the
\* accounts claim and the admin changes speeds, adds to or takes from what anybody
\* has earned: every hook settles the right accounts on the right books before the
\* position changes.  Only a claim paid in brBRN (ClaimKeepsTheRest) and the start
\* of a market that had no speed differ.
THEOREM EntitlementsKept == NoInterest => (FSpec => EntitlementKept)
<1> SUFFICES ASSUME NoInterest
             PROVE  FSpec => EntitlementKept
  OBVIOUS
<1> DEFINE Kept == (blockNumber' = blockNumber /\ ~SpeedStarts) =>
                     \A a \in Accounts : PaidInBRTokens(a) \/ Entitlement(a)' = Entitlement(a)
<1>1. (EvenInv => \A u \in Accounts : Entitlement(u) = Earnings(flywheel, market, u))'
  BY EntitlementIsEarned, PTL
<1>2. EvenInv /\ EvenInv' /\ [FNext]_flywheelVars => Kept
  <2> SUFFICES ASSUME EvenInv, EvenInv', [FNext]_flywheelVars,
                      blockNumber' = blockNumber, ~SpeedStarts, NEW a \in Accounts
               PROVE  PaidInBRTokens(a) \/ Entitlement(a)' = Entitlement(a)
    OBVIOUS
  <2>1. \/ PaidInBRTokens(a)
        \/ Earnings(flywheel', market', a) = Earnings(flywheel, market, a)
    BY NextEvenStep DEF EvenStep
  <2>2. Entitlement(a) = Earnings(flywheel, market, a)
    BY EntitlementIsEarned
  <2>3. Entitlement(a)' = Earnings(flywheel, market, a)'
    BY <1>1
  <2>4. Earnings(flywheel, market, a)' = Earnings(flywheel', market', a)
    BY DEF Earnings, Owed, OwedTo, Ahead, Grown, Now
  <2> QED
    BY <2>1, <2>2, <2>3, <2>4
<1>3. FSpec => []EvenInv
  BY EvenInvariance
<1>4. FSpec => [][Kept]_flywheelVars
  BY <1>2, <1>3, PTL DEF FSpec
<1> QED
  BY <1>4 DEF EntitlementKept

\* A positive factor cancels.
LEMMA CancelFactor ==
  ASSUME NEW x \in Int, NEW y \in Int, NEW d \in Nat, d > 0, d * x <= d * y
  PROVE  x <= y
<1> SUFFICES ASSUME x > y
             PROVE  FALSE
  OBVIOUS
<1>1. x - y \in Nat /\ x - y >= 1
  OBVIOUS
<1>2. d * (x - y) >= d
  <2>1. 1 * d <= (x - y) * d
    BY <1>1, TimesMonotone
  <2> QED
    BY <1>1, <2>1
<1>3. d * x = d * y + d * (x - y)
  <2>1. d * (y + (x - y)) = d * y + d * (x - y)
    BY Distribute
  <2> QED
    BY <2>1
<1>4. d * x \in Int /\ d * y \in Int /\ d * (x - y) \in Int
  BY TimesInt
<1> QED
  BY <1>2, <1>3, <1>4

\* The most one side has paid: its highest speed for every block it was credited with.
LEMMA UnspentBounded ==
  ASSUME EvenInv, NEW m \in Markets, NEW side \in Sides
  PROVE  /\ Unspent(flywheel, market, m, side) \in Int
         /\ Unspent(flywheel, market, m, side) <= DoubleScale * HighestSpeed * blockNumber
<1> DEFINE state == SideState(flywheel, m, side)
           most  == DoubleScale * HighestSpeed
           owed  == SumFunction(Leads(flywheel, market, m, side))
<1>1. /\ RewardInv(flywheel, Now) /\ Paced(flywheel) /\ blockNumber \in Nat /\ Held(market)
  BY EvenInvFacts DEF Steady
<1>2. owed \in Nat /\ Unspent(flywheel, market, m, side) \in Int
  BY <1>1, LeadsType
<1>3. Credited(state) \in Nat /\ Credited(state) <= blockNumber
  <2>1. state.block \in Nat /\ state.block <= Now
    BY <1>1, SideTypes
  <2> QED
    BY <1>1, <2>1 DEF Credited, Now
<1>4. most \in Nat
  BY HighestSpeedIsHighest, FlywheelAssumption, TimesNat
<1>5. Unspent(flywheel, market, m, side) = most * Credited(state) - owed
  BY DEF Unspent
<1> HIDE DEF state, most, owed
<1>6. Credited(state) * most <= blockNumber * most
  BY <1>1, <1>3, <1>4, TimesMonotone
<1>7. most * Credited(state) <= most * blockNumber
  BY <1>1, <1>3, <1>4, <1>6
<1>8. most * Credited(state) \in Nat /\ most * blockNumber \in Nat
  BY <1>1, <1>3, <1>4, TimesNat
<1>9. Unspent(flywheel, market, m, side) <= most * blockNumber
  BY <1>2, <1>5, <1>7, <1>8
<1> QED
  BY <1>2, <1>9 DEF most

\* What was paid and accrued, without what is still to settle, within the blocks.
LEMMA BudgetIsBounded == EvenInv => EmissionBounded
<1> SUFFICES ASSUME EvenInv
             PROVE  EmissionBounded
  OBVIOUS
<1> DEFINE paid  == SumFunction(EarnedBy(flywheel))
           all   == AllUnspent(flywheel, market)
           side  == HighestSpeed * blockNumber
           share == DoubleScale * (2 * side)
           count == Cardinality(Markets)
<1>1. RewardInv(flywheel, Now) /\ WithinBudget(flywheel, market) /\ blockNumber \in Nat
  BY EvenInvFacts DEF Steady
<1>2. paid \in Nat /\ side \in Nat /\ count \in Nat /\ HighestSpeed \in Nat
  BY <1>1, EarnedType, HighestSpeedIsHighest, TimesNat, FlywheelFinite, FS_CardinalityType
<1>3. 2 * side \in Nat /\ share \in Nat /\ DoubleScale \in Nat /\ DoubleScale > 0
  BY <1>2, TimesNat, FlywheelAssumption
<1>4. \A m \in Markets : all[m] \in Int /\ all[m] <= share
  <2> TAKE m \in Markets
  <2> DEFINE a == Unspent(flywheel, market, m, "supply")
             b == Unspent(flywheel, market, m, "borrow")
             c == DoubleScale * HighestSpeed * blockNumber
  <2>1. a \in Int /\ b \in Int /\ a <= c /\ b <= c
    BY UnspentBounded DEF Sides
  <2>2. c = DoubleScale * side
    BY <1>1, <1>2, <1>3, SMT
  <2>3. c \in Int /\ share = c + c
    <3>1. DoubleScale * (side + side) = DoubleScale * side + DoubleScale * side
      BY <1>2, <1>3, Distribute
    <3>2. 2 * side = side + side
      BY <1>2
    <3>3. DoubleScale * side \in Nat
      BY <1>2, <1>3, TimesNat
    <3> QED
      BY <2>2, <3>1, <3>2, <3>3
  <2>4. all[m] = a + b
    BY DEF AllUnspent
  <2> HIDE DEF a, b, c, share, all
  <2> QED
    BY <2>1, <2>3, <2>4
<1>5. SumFunction(all) <= share * count
  <2>1. all \in [Markets -> Int] /\ [m \in Markets |-> share] \in [Markets -> Int]
    <3> HIDE DEF share
    <3>1. all = [m \in Markets |-> all[m]]
      BY DEF AllUnspent
    <3> HIDE DEF all
    <3> QED
      BY <1>3, <1>4, <3>1
  <2> HIDE DEF share, all
  <2>2. SumFunction(all) <= SumFunction([m \in Markets |-> share])
    BY <1>3, <1>4, <2>1, FlywheelFinite, SumFunctionLeq
  <2>3. SumFunction([m \in Markets |-> share]) = share * count
    <3>1. \A c \in Int : SumFunction([m \in Markets |-> c]) = c * Cardinality(Markets)
      BY FlywheelFinite, SumFunctionConstant
    <3>2. share \in Int
      BY <1>3
    <3> QED
      BY ONLY <3>1, <3>2, Zenon
  <2> QED
    BY <2>2, <2>3
<1>6. SumFunction(all) \in Int
  <2>1. all \in [Markets -> Int]
    <3> HIDE DEF share
    <3>1. all = [m \in Markets |-> all[m]]
      BY DEF AllUnspent
    <3> HIDE DEF all
    <3> QED
      BY <1>4, <3>1
  <2> QED
    BY <2>1, FlywheelFinite, SumFunctionInt
<1>7. DoubleScale * paid <= SumFunction(all)
  BY <1>1 DEF WithinBudget
<1> DEFINE bound == 2 * count * HighestSpeed * blockNumber
<1>8. share * count = DoubleScale * bound /\ bound \in Nat
  <2>1. 2 * count * HighestSpeed * blockNumber = (2 * side) * count
    BY <1>1, <1>2, SMT
  <2>2. share * count = DoubleScale * ((2 * side) * count)
    <3> DEFINE z == 2 * side
    <3>1. z \in Nat
      BY <1>3
    <3> HIDE DEF z
    <3>2. (DoubleScale * z) * count = DoubleScale * (z * count)
      BY <1>2, <1>3, <3>1, SMT
    <3> QED
      BY <3>2 DEF z
  <2>3. (2 * side) * count \in Nat
    BY <1>2, <1>3, TimesNat
  <2> QED
    BY <2>1, <2>2, <2>3
<1> HIDE DEF share, side, bound, all
<1>9. DoubleScale * paid <= DoubleScale * bound
  <2>1. DoubleScale * paid \in Nat /\ DoubleScale * bound \in Nat
    BY <1>2, <1>3, <1>8, TimesNat
  <2> QED
    BY <1>5, <1>6, <1>7, <1>8, <2>1
<1>10. paid <= bound
  BY <1>2, <1>3, <1>8, <1>9, CancelFactor
<1> QED
  BY <1>10 DEF EmissionBounded, EarnedBy, bound

\* However often the accounts are settled, positions move from hand to hand and
\* speeds change, no block of a market is paid for twice.
THEOREM EmissionIsBounded == NoInterest => (FSpec => []EmissionBounded)
<1> SUFFICES ASSUME NoInterest
             PROVE  FSpec => []EmissionBounded
  OBVIOUS
<1>1. FSpec => []EvenInv
  BY EvenInvariance
<1> QED
  BY <1>1, BudgetIsBounded, PTL
=============================================================================
