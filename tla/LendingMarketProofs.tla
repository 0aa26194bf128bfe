------------------------ MODULE LendingMarketProofs ------------------------
(***************************************************************************)
(* What is proved of LendingMarket for every set of accounts and markets,  *)
(* every scale, rate model and price: the books never leave their types    *)
(* (no subtraction underflows, no division is by zero), the asset lists    *)
(* and the membership flags agree, and whoever owes a market is in it.     *)
(***************************************************************************)
EXTENDS LendingMarket, SequenceTheorems, TLAPS

-----------------------------------------------------------------------------
(* Arithmetic *)

\* A truncated division of a natural by a positive number is a natural: the
\* quotients of Exponential.sol.
LEMMA DivNat ==
  ASSUME NEW n \in Nat, NEW d \in Nat, d > 0
  PROVE  n \div d \in Nat
  BY SMT

LEMMA TimesNat ==
  ASSUME NEW x \in Nat, NEW y \in Nat
  PROVE  x * y \in Nat
  BY SMT

LEMMA MulTruncateNat ==
  ASSUME NEW x \in Nat, NEW y \in Nat
  PROVE  MulTruncate(x, y) \in Nat
  BY DivNat, TimesNat, ExpScaleAssumption DEF MulTruncate

LEMMA GetExpNat ==
  ASSUME NEW x \in Nat, NEW y \in Nat, y > 0
  PROVE  GetExp(x, y) \in Nat
  BY DivNat, TimesNat, ExpScaleAssumption DEF GetExp

LEMMA DivScalarNat ==
  ASSUME NEW x \in Nat, NEW y \in Nat, y > 0
  PROVE  DivScalarByExp(x, y) \in Nat
  BY DivNat, TimesNat, ExpScaleAssumption DEF DivScalarByExp

\* A fee of less than all of the amount: treasuryPercent is below 1.0.
LEMMA FeeWithinAmount ==
  ASSUME NEW x \in Nat, NEW y \in Nat, y <= ExpScale
  PROVE  MulTruncate(x, y) <= x
<1>1. x * y <= x * ExpScale
  BY ExpScaleAssumption, SMT
<1>2. (x * y) \div ExpScale <= x
  BY <1>1, TimesNat, ExpScaleAssumption, SMT
<1> QED
  BY <1>2 DEF MulTruncate

\* A debt never shrinks below its principal as the index grows: it is zero only
\* if the principal is (borrowBalanceStoredInternal).
LEMMA DebtKeepsPrincipal ==
  ASSUME NEW p \in Nat, NEW old \in Nat, NEW new \in Nat, 0 < old, old <= new
  PROVE  (p * new) \div old >= p
<1>1. p * new >= p * old
  BY SMT
<1>2. p * new \in Nat /\ p * old \in Nat
  BY TimesNat
<1>3. (p * new) \div old >= (p * old) \div old
  BY <1>1, <1>2, SMT
<1>4. (p * old) \div old = p
  BY SMT
<1> QED
  BY <1>3, <1>4, <1>2, DivNat, SMT

-----------------------------------------------------------------------------
(* The books of one market *)

\* What a market's books keep besides their types: a debt was taken at an index
\* the market has reached, and interest was accrued no later than block n.
BooksInv(t, n) ==
  /\ t \in MarketBooks
  /\ t.accrualBlock <= n
  /\ t.borrowIndex > 0
  /\ \A u \in Accounts :
       t.principal[u] > 0 => /\ 0 < t.interestIndex[u]
                             /\ t.interestIndex[u] <= t.borrowIndex

LEMMA NewMarketInv ==
  ASSUME NEW model \in RateModels, blockNumber = 0
  PROVE  BooksInv(NewMarket(model), blockNumber)
  BY ExpScaleAssumption DEF BooksInv, NewMarket, MarketBooks

\* borrowBalanceStored is a natural, zero exactly when nothing was borrowed.
LEMMA BorrowBalanceType ==
  ASSUME NEW t, BooksInv(t, blockNumber), NEW u \in Accounts
  PROVE  /\ BorrowBalanceStored(t, u) \in Nat
         /\ BorrowBalanceStored(t, u) = 0 <=> t.principal[u] = 0
<1>1. /\ t.principal[u] \in Nat
      /\ t.interestIndex[u] \in Nat
      /\ t.borrowIndex \in Nat
  BY DEF BooksInv, MarketBooks
<1>2. CASE t.principal[u] = 0
  BY <1>2 DEF BorrowBalanceStored
<1>3. CASE t.principal[u] > 0
  <2>1. 0 < t.interestIndex[u] /\ t.interestIndex[u] <= t.borrowIndex
    BY <1>3 DEF BooksInv
  <2>2. (t.principal[u] * t.borrowIndex) \div t.interestIndex[u] >= t.principal[u]
    BY <1>1, <2>1, DebtKeepsPrincipal
  <2>3. (t.principal[u] * t.borrowIndex) \div t.interestIndex[u] \in Nat
    BY <1>1, <2>1, TimesNat, DivNat
  <2> QED
    BY <1>1, <1>3, <2>2, <2>3 DEF BorrowBalanceStored
<1> QED
  BY <1>1, <1>2, <1>3

\* A readable exchange rate is a natural.
LEMMA ExchangeRateType ==
  ASSUME NEW t \in MarketBooks, ExchangeRateKnown(t)
  PROVE  ExchangeRate(t) \in Nat
<1>1. /\ t.cash \in Nat /\ t.totalBorrows \in Nat /\ t.totalReserves \in Nat
      /\ t.totalSupply \in Nat
  BY DEF MarketBooks
<1>2. CASE t.totalSupply = 0
  BY <1>2, BRTokenAssumption DEF ExchangeRate
<1>3. CASE t.totalSupply > 0
  <2>1. t.cash + t.totalBorrows - t.totalReserves \in Nat
    BY <1>1, <1>3 DEF ExchangeRateKnown
  <2> QED
    BY <1>1, <1>3, <2>1, GetExpNat DEF ExchangeRate
<1> QED
  BY <1>1, <1>2, <1>3

\* A borrow rate that does not revert is a natural.
LEMMA BorrowRateType ==
  ASSUME NEW t \in MarketBooks, RateKnown(t)
  PROVE  BorrowRate(t) \in Nat
<1>1. /\ t.cash \in Nat /\ t.totalBorrows \in Nat /\ t.totalReserves \in Nat
      /\ t.rateModel \in [base : Nat, multiplier : Nat, jump : Nat, kink : Nat]
  BY BRTokenAssumption DEF MarketBooks
<1>2. UtilizationRate(t) \in Nat
  <2>1. CASE t.totalBorrows = 0
    BY <2>1 DEF UtilizationRate
  <2>2. CASE t.totalBorrows > 0
    <3>1. /\ t.cash + t.totalBorrows - t.totalReserves \in Nat
          /\ t.cash + t.totalBorrows - t.totalReserves > 0
      BY <1>1, <2>2 DEF RateKnown
    <3> QED
      BY <1>1, <2>2, <3>1, GetExpNat DEF UtilizationRate
  <2> QED
    BY <1>1, <2>1, <2>2
<1>3. /\ t.rateModel.base \in Nat /\ t.rateModel.multiplier \in Nat
      /\ t.rateModel.jump \in Nat /\ t.rateModel.kink \in Nat
  BY <1>1
<1>4. CASE UtilizationRate(t) <= t.rateModel.kink
  <2>1. MulTruncate(UtilizationRate(t), t.rateModel.multiplier) \in Nat
    BY <1>2, <1>3, MulTruncateNat
  <2> QED
    BY <1>2, <1>3, <1>4, <2>1 DEF BorrowRate
<1>5. CASE UtilizationRate(t) > t.rateModel.kink
  <2>1. UtilizationRate(t) - t.rateModel.kink \in Nat
    BY <1>2, <1>3, <1>5
  <2>2. /\ MulTruncate(UtilizationRate(t) - t.rateModel.kink, t.rateModel.jump) \in Nat
        /\ MulTruncate(t.rateModel.kink, t.rateModel.multiplier) \in Nat
    BY <2>1, <1>3, MulTruncateNat
  <2> QED
    BY <1>2, <1>3, <1>5, <2>2 DEF BorrowRate
<1> QED
  BY <1>2, <1>3, <1>4, <1>5

\* accrueInterest keeps the books in order, and touches nobody's tokens or
\* principal.
LEMMA AccruedInv ==
  ASSUME NEW t, BooksInv(t, blockNumber), CanAccrue(t), blockNumber \in Nat
  PROVE  /\ BooksInv(Accrued(t), blockNumber)
         /\ Accrued(t).principal = t.principal
         /\ Accrued(t).tokens = t.tokens
<1>1. CASE t.accrualBlock = blockNumber
  BY <1>1 DEF Accrued
<1>2. CASE t.accrualBlock # blockNumber
  <2> DEFINE factor   == BorrowRate(t) * (blockNumber - t.accrualBlock)
             interest == MulTruncate(factor, t.totalBorrows)
             borrows  == t.totalBorrows + interest
             reserves == t.totalReserves + MulTruncate(t.reserveFactor, interest)
             index    == t.borrowIndex + MulTruncate(factor, t.borrowIndex)
             after    == [t EXCEPT !.accrualBlock  = blockNumber,
                                   !.totalBorrows  = borrows,
                                   !.totalReserves = reserves,
                                   !.borrowIndex   = index]
  <2>1. Accrued(t) = after
    BY <1>2 DEF Accrued
  <2>2. t \in MarketBooks
    BY DEF BooksInv
  <2>3. /\ t.totalBorrows \in Nat /\ t.totalReserves \in Nat /\ t.borrowIndex \in Nat
        /\ t.reserveFactor \in Nat /\ t.accrualBlock \in Nat
    BY <2>2 DEF MarketBooks
  <2>4. BorrowRate(t) \in Nat
    BY <1>2, <2>2, BorrowRateType DEF CanAccrue
  <2>5. blockNumber - t.accrualBlock \in Nat
    BY <2>3 DEF BooksInv
  <2>6. factor \in Nat
    BY <2>4, <2>5, TimesNat
  <2>7. interest \in Nat /\ MulTruncate(factor, t.borrowIndex) \in Nat
    BY <2>3, <2>6, MulTruncateNat
  <2>8. borrows \in Nat /\ index \in Nat /\ index >= t.borrowIndex
    BY <2>3, <2>7
  <2> HIDE DEF factor, interest
  <2>9. reserves \in Nat
    <3>1. MulTruncate(t.reserveFactor, interest) \in Nat
      BY <2>3, <2>7, MulTruncateNat
    <3> QED
      BY <2>3, <3>1
  <2> HIDE DEF borrows, reserves, index
  <2>10. after \in MarketBooks
    BY <2>2, <2>8, <2>9 DEF MarketBooks
  <2>11. /\ after.principal = t.principal /\ after.tokens = t.tokens
         /\ after.interestIndex = t.interestIndex
         /\ after.borrowIndex = index
         /\ after.accrualBlock = blockNumber
    BY <2>2 DEF MarketBooks
  <2>12. BooksInv(after, blockNumber)
    <3>1. \A u \in Accounts : t.interestIndex[u] \in Nat
      BY <2>2 DEF MarketBooks
    <3> HIDE DEF after
    <3> QED
      BY <2>3, <2>8, <2>10, <2>11, <3>1 DEF BooksInv
  <2> QED
    BY <2>1, <2>11, <2>12
<1> QED
  BY <1>1, <1>2

\* The operations that touch the tokens of one account, the cash and the supply.
LEMMA MintFreshInv ==
  ASSUME NEW t, BooksInv(t, blockNumber), NEW u \in Accounts, NEW n \in Nat,
         ExchangeRateKnown(t), ExchangeRate(t) > 0
  PROVE  /\ BooksInv(MintFresh(t, u, n), blockNumber)
         /\ MintFresh(t, u, n).principal = t.principal
<1> DEFINE minted == DivScalarByExp(n, ExchangeRate(t))
           cash   == t.cash + n
           supply == t.totalSupply + minted
           tokens == [t.tokens EXCEPT ![u] = @ + minted]
           after  == [t EXCEPT !.cash = cash, !.totalSupply = supply, !.tokens = tokens]
<1>1. t \in MarketBooks
  BY DEF BooksInv
<1>2. /\ t.cash \in Nat /\ t.totalSupply \in Nat /\ t.tokens \in [Accounts -> Nat]
  BY <1>1 DEF MarketBooks
<1>3. minted \in Nat
  BY <1>1, ExchangeRateType, DivScalarNat
<1>4. MintFresh(t, u, n) = after
  BY <1>1 DEF MintFresh, MarketBooks
<1> HIDE DEF minted
<1>5. cash \in Nat /\ supply \in Nat /\ tokens \in [Accounts -> Nat]
  BY <1>2, <1>3
<1> HIDE DEF cash, supply, tokens
<1>6. after \in MarketBooks
  BY <1>1, <1>5 DEF MarketBooks
<1>7. /\ after.principal = t.principal /\ after.interestIndex = t.interestIndex
      /\ after.borrowIndex = t.borrowIndex /\ after.accrualBlock = t.accrualBlock
  BY <1>1 DEF MarketBooks
<1> HIDE DEF after
<1> QED
  BY <1>4, <1>6, <1>7 DEF BooksInv

LEMMA RedeemFreshInv ==
  ASSUME NEW t, BooksInv(t, blockNumber), NEW u \in Accounts, NEW n \in Nat, NEW amount \in Nat,
         CanRedeem(t, u, n, amount)
  PROVE  /\ BooksInv(RedeemFresh(t, u, n, amount), blockNumber)
         /\ RedeemFresh(t, u, n, amount).principal = t.principal
<1> DEFINE cash   == t.cash - amount
           supply == t.totalSupply - n
           tokens == [t.tokens EXCEPT ![u] = @ - n]
           after  == [t EXCEPT !.cash = cash, !.totalSupply = supply, !.tokens = tokens]
<1>1. t \in MarketBooks
  BY DEF BooksInv
<1>2. /\ t.cash \in Nat /\ t.totalSupply \in Nat /\ t.tokens \in [Accounts -> Nat]
  BY <1>1 DEF MarketBooks
<1>3. RedeemFresh(t, u, n, amount) = after
  BY <1>1 DEF RedeemFresh, MarketBooks
<1>4. cash \in Nat /\ supply \in Nat /\ tokens \in [Accounts -> Nat]
  BY <1>2 DEF CanRedeem
<1> HIDE DEF cash, supply, tokens
<1>5. after \in MarketBooks
  BY <1>1, <1>4 DEF MarketBooks
<1>6. /\ after.principal = t.principal /\ after.interestIndex = t.interestIndex
      /\ after.borrowIndex = t.borrowIndex /\ after.accrualBlock = t.accrualBlock
  BY <1>1 DEF MarketBooks
<1> HIDE DEF after
<1> QED
  BY <1>3, <1>5, <1>6 DEF BooksInv

\* Moving brTokens between two accounts, in a transfer or a seizure.
LEMMA MoveTokensInv ==
  ASSUME NEW t, BooksInv(t, blockNumber), NEW src \in Accounts, NEW dst \in Accounts,
         NEW n \in Nat, CanMove(t, src, dst, n)
  PROVE  /\ BooksInv(MoveTokens(t, src, dst, n), blockNumber)
         /\ MoveTokens(t, src, dst, n).principal = t.principal
<1> DEFINE tokens == [t.tokens EXCEPT ![src] = t.tokens[src] - n,
                                      ![dst] = t.tokens[dst] + n]
           after  == [t EXCEPT !.tokens = tokens]
<1>1. t \in MarketBooks
  BY DEF BooksInv
<1>2. t.tokens \in [Accounts -> Nat]
  BY <1>1 DEF MarketBooks
<1>3. MoveTokens(t, src, dst, n) = after
  BY <1>1 DEF MoveTokens, MarketBooks
<1>4. tokens \in [Accounts -> Nat]
  BY <1>2 DEF CanMove
<1> HIDE DEF tokens
<1>5. after \in MarketBooks
  BY <1>1, <1>4 DEF MarketBooks
<1>6. /\ after.principal = t.principal /\ after.interestIndex = t.interestIndex
      /\ after.borrowIndex = t.borrowIndex /\ after.accrualBlock = t.accrualBlock
  BY <1>1 DEF MarketBooks
<1> HIDE DEF after
<1> QED
  BY <1>3, <1>5, <1>6 DEF BooksInv

\* A borrow and a repayment write one account's debt at the current index.
DebtWritten(t, u, cash, borrows, debt) ==
  [t EXCEPT !.cash = cash, !.totalBorrows = borrows,
            !.principal = [@ EXCEPT ![u] = debt],
            !.interestIndex = [@ EXCEPT ![u] = t.borrowIndex]]

LEMMA DebtWrittenInv ==
  ASSUME NEW t, BooksInv(t, blockNumber), NEW u \in Accounts,
         NEW cash \in Nat, NEW borrows \in Nat, NEW debt \in Nat
  PROVE  /\ BooksInv(DebtWritten(t, u, cash, borrows, debt), blockNumber)
         /\ DebtWritten(t, u, cash, borrows, debt).principal
              = [t.principal EXCEPT ![u] = debt]
<1> DEFINE principal == [t.principal EXCEPT ![u] = debt]
           indexes   == [t.interestIndex EXCEPT ![u] = t.borrowIndex]
           after     == [t EXCEPT !.cash = cash, !.totalBorrows = borrows,
                                  !.principal = principal, !.interestIndex = indexes]
<1>1. t \in MarketBooks
  BY DEF BooksInv
<1>2. /\ t.borrowIndex \in Nat /\ t.principal \in [Accounts -> Nat]
      /\ t.interestIndex \in [Accounts -> Nat]
  BY <1>1 DEF MarketBooks
<1>3. principal \in [Accounts -> Nat] /\ indexes \in [Accounts -> Nat]
  BY <1>2
<1>4. \A v \in Accounts :
        principal[v] > 0 => 0 < indexes[v] /\ indexes[v] <= t.borrowIndex
  BY <1>2 DEF BooksInv
<1> HIDE DEF principal, indexes
<1>5. after \in MarketBooks
  BY <1>1, <1>3 DEF MarketBooks
<1>6. /\ after.principal = principal /\ after.interestIndex = indexes
      /\ after.borrowIndex = t.borrowIndex /\ after.accrualBlock = t.accrualBlock
  BY <1>1 DEF MarketBooks
<1> HIDE DEF after
<1>7. BooksInv(after, blockNumber)
  BY <1>4, <1>5, <1>6 DEF BooksInv
<1>8. after = DebtWritten(t, u, cash, borrows, debt)
  BY <1>1 DEF after, principal, indexes, DebtWritten, MarketBooks
<1> QED
  BY <1>6, <1>7, <1>8 DEF principal

LEMMA BorrowFreshInv ==
  ASSUME NEW t, BooksInv(t, blockNumber), NEW u \in Accounts, NEW n \in Nat, n <= t.cash
  PROVE  /\ BooksInv(BorrowFresh(t, u, n), blockNumber)
         /\ \A v \in Accounts \ {u} : BorrowFresh(t, u, n).principal[v] = t.principal[v]
<1> DEFINE cash    == t.cash - n
           borrows == t.totalBorrows + n
           debt    == BorrowBalanceStored(t, u) + n
           after   == DebtWritten(t, u, cash, borrows, debt)
<1>1. t.cash \in Nat /\ t.totalBorrows \in Nat /\ t.principal \in [Accounts -> Nat]
  BY DEF BooksInv, MarketBooks
<1>2. cash \in Nat /\ borrows \in Nat /\ debt \in Nat
  BY <1>1, BorrowBalanceType
<1>3. BorrowFresh(t, u, n) = after
  BY DEF BorrowFresh, DebtWritten, BooksInv, MarketBooks
<1> HIDE DEF cash, borrows, debt
<1>4. BooksInv(after, blockNumber) /\ after.principal = [t.principal EXCEPT ![u] = debt]
  BY <1>2, DebtWrittenInv
<1> HIDE DEF after
<1> QED
  BY <1>1, <1>3, <1>4

LEMMA RepayFreshInv ==
  ASSUME NEW t, BooksInv(t, blockNumber), NEW u \in Accounts, NEW n \in Nat, CanRepay(t, u, n)
  PROVE  /\ BooksInv(RepayBorrowFresh(t, u, n), blockNumber)
         /\ \A v \in Accounts : RepayBorrowFresh(t, u, n).principal[v] > 0 => t.principal[v] > 0
<1> DEFINE cash    == t.cash + n
           borrows == t.totalBorrows - n
           debt    == BorrowBalanceStored(t, u) - n
           after   == DebtWritten(t, u, cash, borrows, debt)
<1>1. t.cash \in Nat /\ t.totalBorrows \in Nat /\ t.principal \in [Accounts -> Nat]
  BY DEF BooksInv, MarketBooks
<1>2. /\ BorrowBalanceStored(t, u) \in Nat
      /\ BorrowBalanceStored(t, u) = 0 <=> t.principal[u] = 0
  BY BorrowBalanceType
<1>3. /\ cash \in Nat /\ borrows \in Nat /\ debt \in Nat
      /\ debt > 0 => t.principal[u] > 0
  BY <1>1, <1>2 DEF CanRepay
<1>4. RepayBorrowFresh(t, u, n) = after
  BY DEF RepayBorrowFresh, DebtWritten, BooksInv, MarketBooks
<1> HIDE DEF cash, borrows, debt
<1>5. BooksInv(after, blockNumber) /\ after.principal = [t.principal EXCEPT ![u] = debt]
  BY <1>3, DebtWrittenInv
<1> HIDE DEF after
<1> QED
  BY <1>1, <1>3, <1>4, <1>5

\* The admin's writes, and cash or reserves that come or go.
BooksWritten(t, cash, reserves, factor, model) ==
  [t EXCEPT !.cash = cash, !.totalReserves = reserves,
            !.reserveFactor = factor, !.rateModel = model]

LEMMA BooksWrittenInv ==
  ASSUME NEW t, BooksInv(t, blockNumber), NEW cash \in Nat, NEW reserves \in Nat,
         NEW factor \in Nat, NEW model \in RateModels
  PROVE  BooksInv(BooksWritten(t, cash, reserves, factor, model), blockNumber)
<1> DEFINE after == BooksWritten(t, cash, reserves, factor, model)
<1>1. t \in MarketBooks
  BY DEF BooksInv
<1>2. after \in MarketBooks
  BY <1>1 DEF MarketBooks, BooksWritten
<1>3. /\ after.principal = t.principal /\ after.interestIndex = t.interestIndex
      /\ after.borrowIndex = t.borrowIndex /\ after.accrualBlock = t.accrualBlock
  BY <1>1 DEF MarketBooks, BooksWritten
<1> HIDE DEF after
<1>4. BooksInv(after, blockNumber)
  BY <1>2, <1>3 DEF BooksInv
<1> QED
  BY <1>4 DEF after

-----------------------------------------------------------------------------
(* Wallets and asset lists *)

LEMMA PayType ==
  ASSUME NEW w \in [Holders -> Nat], NEW h \in Holders, NEW n \in Nat, n <= w[h]
  PROVE  Pay(w, h, n) \in [Holders -> Nat]
  BY DEF Pay

LEMMA ReceiveType ==
  ASSUME NEW w \in [Holders -> Nat], NEW h \in Holders, NEW n \in Nat
  PROVE  Receive(w, h, n) \in [Holders -> Nat]
  BY DEF Receive

LEMMA PayOutType ==
  ASSUME NEW w \in [Holders -> Nat], NEW h \in Holders, NEW n \in Nat,
         NEW fee \in Nat, fee <= n
  PROVE  PayOut(w, h, n, fee) \in [Holders -> Nat]
<1>1. n - fee \in Nat
  OBVIOUS
<1>2. TreasuryAddress \in Holders
  BY DEF Holders
<1> QED
  BY <1>1, <1>2, ReceiveType DEF PayOut

MembershipType ==
  /\ accountMembership \in [Markets -> SUBSET Accounts]
  /\ accountAssets \in [Accounts -> Seq(Markets)]

LEMMA AddToMarketType ==
  ASSUME MembershipType, NEW m \in Markets, NEW u \in Accounts, AddToMarket(m, u)
  PROVE  MembershipType'
<1>1. AssetsWith(m, u) \in Seq(Markets)
  BY DEF AssetsWith, MembershipType
<1> QED
  BY <1>1 DEF AddToMarket, MembershipType

NoRepeats(s) == \A i, j \in DOMAIN s : s[i] = s[j] => i = j

\* The index exitMarket's loop stops at.
LEMMA IndexOfSpec ==
  ASSUME NEW s \in Seq(Markets), NoRepeats(s), NEW i \in DOMAIN s
  PROVE  IndexOf(s[i], s) = i
<1>1. \E k \in DOMAIN s : s[k] = s[i] /\ \A j \in DOMAIN s : s[j] = s[i] => k <= j
  BY DEF NoRepeats
<1> QED
  BY <1>1 DEF IndexOf, NoRepeats

\* Copying the last entry over entry i and dropping the last removes exactly
\* entry i: the others stay, once each.
LEMMA SwapRemoveSpec ==
  ASSUME NEW s \in Seq(Markets), NoRepeats(s), NEW i \in DOMAIN s
  PROVE  /\ SwapRemove(s, i) \in Seq(Markets)
         /\ NoRepeats(SwapRemove(s, i))
         /\ \A m : (\E k \in DOMAIN SwapRemove(s, i) : SwapRemove(s, i)[k] = m)
                  <=> m # s[i] /\ \E k \in DOMAIN s : s[k] = m
<1> DEFINE n == Len(s)
           r == SwapRemove(s, i)
<1>1. n \in Nat /\ DOMAIN s = 1..n /\ i \in 1..n /\ n > 0
  OBVIOUS
<1>2. \A k \in 1..n : s[k] \in Markets
  BY <1>1
<1>3. /\ DOMAIN r = 1..(n - 1)
      /\ \A k \in 1..(n - 1) : r[k] = IF k = i THEN s[n] ELSE s[k]
  BY <1>1 DEF SwapRemove
<1>4. r \in Seq(Markets)
  <2>1. r \in [1..(n - 1) -> Markets]
    BY <1>1, <1>2 DEF SwapRemove
  <2>2. n - 1 \in Nat
    BY <1>1
  <2> QED
    BY <2>1, <2>2, IsASeq
<1>5. NoRepeats(r)
  BY <1>1, <1>3 DEF NoRepeats
<1>6. ASSUME NEW m, NEW k \in DOMAIN r, r[k] = m
      PROVE  m # s[i] /\ \E j \in DOMAIN s : s[j] = m
  BY <1>1, <1>3, <1>6 DEF NoRepeats
<1>7. ASSUME NEW k \in DOMAIN s, s[k] # s[i]
      PROVE  \E j \in DOMAIN r : r[j] = s[k]
  <2>1. CASE k = n
    BY <1>1, <1>3, <1>7, <2>1
  <2>2. CASE k # n
    BY <1>1, <1>3, <1>7, <2>2
  <2> QED
    BY <2>1, <2>2
<1> QED
  BY <1>4, <1>5, <1>6, <1>7

\* Entering appends, once.
LEMMA AppendOnce ==
  ASSUME NEW s \in Seq(Markets), NoRepeats(s), NEW m \in Markets,
         \A i \in DOMAIN s : s[i] # m
  PROVE  /\ NoRepeats(Append(s, m))
         /\ \A x : (\E k \in DOMAIN Append(s, m) : Append(s, m)[k] = x)
                  <=> x = m \/ \E k \in DOMAIN s : s[k] = x
<1> DEFINE n == Len(s)
           r == Append(s, m)
<1>1. /\ n \in Nat /\ DOMAIN s = 1..n /\ DOMAIN r = 1..(n + 1)
      /\ r[n + 1] = m /\ \A k \in 1..n : r[k] = s[k]
  BY AppendProperties
<1>2. NoRepeats(r)
  BY <1>1 DEF NoRepeats
<1>3. ASSUME NEW k \in DOMAIN s
      PROVE  \E j \in DOMAIN r : r[j] = s[k]
  BY <1>1
<1>4. ASSUME NEW j \in DOMAIN r
      PROVE  r[j] = m \/ \E k \in DOMAIN s : s[k] = r[j]
  <2>1. CASE j = n + 1
    BY <1>1, <2>1
  <2>2. CASE j # n + 1
    BY <1>1, <2>2
  <2> QED
    BY <2>1, <2>2
<1>5. n + 1 \in DOMAIN r
  BY <1>1
<1> HIDE DEF r, n
<1>6. \A x : (\E k \in DOMAIN r : r[k] = x) <=> x = m \/ \E k \in DOMAIN s : s[k] = x
  BY <1>1, <1>3, <1>4, <1>5
<1> QED
  BY <1>2, <1>6 DEF r

-----------------------------------------------------------------------------
(* The inductive invariant of the state.  TypeOK alone is not inductive: a     *)
(* repayment's type needs the debt to be a natural, which needs the index it   *)
(* was taken at to be positive, and a fee's needs the treasury's share to be   *)
(* below 1.0.                                                                  *)

WellFormed ==
  /\ TypeOK
  /\ \A m \in Markets : BooksInv(market[m], blockNumber)
  /\ treasuryPercent < ExpScale

\* A deployment starts well-formed: no supply, no debt, nothing accrued.
THEOREM InitWellFormed == Init => WellFormed
<1> SUFFICES ASSUME Init PROVE WellFormed
  OBVIOUS
<1>1. \A m \in Markets : BooksInv(market[m], blockNumber)
  <2> TAKE m \in Markets
  <2>1. PICK model \in RateModels : market[m] = NewMarket(model)
    BY DEF Init, TokenInit
  <2>2. blockNumber = 0
    BY DEF Init, TokenInit
  <2> QED
    BY <2>1, <2>2, NewMarketInv
<1>2. market \in [Markets -> MarketBooks]
  <2>1. PICK S : market \in [Markets -> S]
    BY DEF Init, TokenInit
  <2> QED
    BY <1>1, <2>1 DEF BooksInv
<1>3. wallet \in [Markets -> [Holders -> Nat]]
  BY BRTokenAssumption DEF Init, TokenInit
<1>4. /\ accountAssets \in [Accounts -> Seq(Markets)]
      /\ accountMembership \in [Markets -> SUBSET Accounts]
  BY DEF Init, ComptrollerInit
<1>5. /\ listed \subseteq Markets /\ paused \in PauseFlags
      /\ collateralFactor \in [Markets -> Nat] /\ borrowCap \in [Markets -> Nat]
      /\ price \in [Markets -> Nat] /\ closeFactor \in Nat
      /\ liquidationIncentive \in Nat /\ treasuryPercent \in Nat
  BY ComptrollerAssumption, ExpScaleAssumption DEF Init, ComptrollerInit
<1>6. blockNumber \in Nat /\ treasuryPercent < ExpScale
  BY ExpScaleAssumption DEF Init, TokenInit, ComptrollerInit
<1> QED
  BY <1>1, <1>2, <1>3, <1>4, <1>5, <1>6 DEF WellFormed, TypeOK

\* Whoever owes a market after a step owed it before, or is in it now.
NewDebtorsEnter ==
  \A m \in Markets, u \in Accounts :
    market'[m].principal[u] > 0 =>
      market[m].principal[u] > 0 \/ u \in accountMembership'[m]

\* A transaction that writes the books of one market keeps the state well formed
\* if it keeps those books in order and the wallets and lists in their types.
LEMMA OneMarketStep ==
  ASSUME WellFormed, NEW m \in Markets, NEW t, BooksInv(t, blockNumber),
         market' = [market EXCEPT ![m] = t],
         \A u \in Accounts : t.principal[u] > 0 =>
           market[m].principal[u] > 0 \/ u \in accountMembership'[m],
         wallet' \in [Markets -> [Holders -> Nat]],
         MembershipType', UNCHANGED <<blockNumber, riskVars>>
  PROVE  WellFormed' /\ NewDebtorsEnter
<1>1. t \in MarketBooks
  BY DEF BooksInv
<1>2. market' \in [Markets -> MarketBooks]
  BY <1>1 DEF WellFormed, TypeOK
<1>3. \A x \in Markets : BooksInv(market'[x], blockNumber')
  BY DEF WellFormed, TypeOK
<1>4. TypeOK'
  BY <1>2 DEF WellFormed, TypeOK, MembershipType, riskVars
<1>5. NewDebtorsEnter
  BY DEF WellFormed, TypeOK, NewDebtorsEnter
<1> QED
  BY <1>3, <1>4, <1>5 DEF WellFormed, riskVars

\* One that leaves the books and the wallets alone.
LEMMA SettingStep ==
  ASSUME WellFormed, MembershipType', UNCHANGED tokenVars,
         listed' \subseteq Markets, collateralFactor' \in [Markets -> Nat],
         borrowCap' \in [Markets -> Nat], price' \in [Markets -> Nat],
         closeFactor' \in Nat, liquidationIncentive' \in Nat,
         treasuryPercent' \in Nat, treasuryPercent' < ExpScale,
         paused' \in PauseFlags
  PROVE  WellFormed' /\ NewDebtorsEnter
  BY DEF WellFormed, TypeOK, MembershipType, tokenVars, NewDebtorsEnter

\* What every transaction starts from.
LEMMA WellFormedFacts ==
  ASSUME WellFormed
  PROVE  /\ blockNumber \in Nat
         /\ MembershipType
         /\ wallet \in [Markets -> [Holders -> Nat]]
         /\ treasuryPercent \in Nat /\ treasuryPercent <= ExpScale
         /\ Accounts \subseteq Holders /\ Admin \in Holders
         /\ \A m \in Markets : BooksInv(market[m], blockNumber)
         /\ \A m \in Markets : CanAccrue(market[m]) =>
              /\ BooksInv(Accrued(market[m]), blockNumber)
              /\ Accrued(market[m]).principal = market[m].principal
<1>1. blockNumber \in Nat /\ \A m \in Markets : BooksInv(market[m], blockNumber)
  BY DEF WellFormed, TypeOK
<1>2. \A m \in Markets : CanAccrue(market[m]) =>
        /\ BooksInv(Accrued(market[m]), blockNumber)
        /\ Accrued(market[m]).principal = market[m].principal
  BY <1>1, AccruedInv
<1>3. treasuryPercent \in Nat /\ treasuryPercent <= ExpScale
  BY ExpScaleAssumption DEF WellFormed, TypeOK
<1>4. MembershipType /\ wallet \in [Markets -> [Holders -> Nat]]
  BY DEF WellFormed, TypeOK, MembershipType
<1>5. Accounts \subseteq Holders /\ Admin \in Holders
  BY DEF Holders
<1> QED
  BY <1>1, <1>2, <1>3, <1>4, <1>5

LEMMA WalletStep ==
  ASSUME NEW f \in [Markets -> [Holders -> Nat]], NEW m \in Markets,
         NEW w \in [Holders -> Nat]
  PROVE  [f EXCEPT ![m] = w] \in [Markets -> [Holders -> Nat]]
  OBVIOUS

\* The inputs TLC tries are naturals.
LEMMA InputsNat ==
  /\ Amounts \subseteq Nat /\ GiftAmounts \subseteq Nat
  /\ CollateralFactors \subseteq Nat /\ CloseFactors \subseteq Nat
  /\ Incentives \subseteq Nat /\ BorrowCaps \subseteq Nat
  /\ TreasuryPercents \subseteq Nat /\ ReserveFactors \subseteq Nat
  BY InputsAssumption

LEMMA AccrueInterestWF ==
  ASSUME WellFormed, NEW m \in Markets, AccrueInterest(m)
  PROVE  WellFormed' /\ NewDebtorsEnter
<1>1. market' = [market EXCEPT ![m] = Accrued(market[m])]
  BY DEF AccrueInterest, Books
<1>2. /\ BooksInv(Accrued(market[m]), blockNumber)
      /\ Accrued(market[m]).principal = market[m].principal
  BY WellFormedFacts DEF AccrueInterest
<1>3. MembershipType'
  BY WellFormedFacts DEF AccrueInterest, MembershipType, membershipVars
<1> QED
  BY <1>1, <1>2, <1>3, WellFormedFacts, OneMarketStep DEF AccrueInterest

LEMMA MintWF ==
  ASSUME WellFormed, NEW m \in Markets, NEW a \in Accounts, NEW u \in Accounts,
         NEW n \in Nat, Mint(a, u, m, n)
  PROVE  WellFormed' /\ NewDebtorsEnter
<1> DEFINE t == Accrued(market[m])
<1>1. /\ CanAccrue(market[m]) /\ ExchangeRateKnown(t) /\ ExchangeRate(t) > 0
      /\ n <= wallet[m][a]
      /\ market' = [market EXCEPT ![m] = MintFresh(t, u, n)]
      /\ wallet' = [wallet EXCEPT ![m] = Pay(wallet[m], a, n)]
      /\ UNCHANGED <<blockNumber, membershipVars, riskVars>>
  BY DEF Mint
<1>2. BooksInv(t, blockNumber) /\ t.principal = market[m].principal
  BY <1>1, WellFormedFacts
<1> HIDE DEF t
<1>3. /\ BooksInv(MintFresh(t, u, n), blockNumber)
      /\ MintFresh(t, u, n).principal = market[m].principal
  BY <1>1, <1>2, MintFreshInv
<1>4. wallet[m] \in [Holders -> Nat] /\ a \in Holders
  BY WellFormedFacts
<1>5. wallet' \in [Markets -> [Holders -> Nat]]
  BY <1>1, <1>4, PayType, WalletStep, WellFormedFacts
<1>6. MembershipType'
  BY <1>1, WellFormedFacts DEF MembershipType, membershipVars
<1> QED
  BY <1>1, <1>3, <1>5, <1>6, OneMarketStep

LEMMA RedeemBothWF ==
  ASSUME WellFormed, NEW m \in Markets, NEW a \in Accounts, NEW n \in Nat,
         NEW amount \in Nat, CanAccrue(market[m]), RedeemBoth(a, m, n, amount)
  PROVE  WellFormed' /\ NewDebtorsEnter
<1> DEFINE t   == Accrued(market[m])
           fee == MulTruncate(amount, treasuryPercent)
<1>1. /\ CanRedeem(t, a, n, amount)
      /\ market' = [market EXCEPT ![m] = RedeemFresh(t, a, n, amount)]
      /\ wallet' = [wallet EXCEPT ![m] = PayOut(wallet[m], a, amount, fee)]
      /\ UNCHANGED <<blockNumber, membershipVars, riskVars>>
  BY DEF RedeemBoth
<1>2. BooksInv(t, blockNumber) /\ t.principal = market[m].principal
  BY WellFormedFacts
<1>3. fee \in Nat /\ fee <= amount
  BY WellFormedFacts, MulTruncateNat, FeeWithinAmount
<1> HIDE DEF t, fee
<1>4. /\ BooksInv(RedeemFresh(t, a, n, amount), blockNumber)
      /\ RedeemFresh(t, a, n, amount).principal = market[m].principal
  BY <1>1, <1>2, RedeemFreshInv
<1>5. wallet[m] \in [Holders -> Nat] /\ a \in Holders
  BY WellFormedFacts
<1>6. wallet' \in [Markets -> [Holders -> Nat]]
  BY <1>1, <1>3, <1>5, PayOutType, WalletStep, WellFormedFacts
<1>7. MembershipType'
  BY <1>1, WellFormedFacts DEF MembershipType, membershipVars
<1> QED
  BY <1>1, <1>4, <1>6, <1>7, OneMarketStep

LEMMA RedeemWF ==
  ASSUME WellFormed, NEW m \in Markets, NEW a \in Accounts, NEW n \in Nat,
         Redeem(a, m, n) \/ RedeemUnderlying(a, m, n)
  PROVE  WellFormed' /\ NewDebtorsEnter
<1> DEFINE t == Accrued(market[m])
<1>1. CanAccrue(market[m]) /\ ExchangeRateKnown(t)
  BY DEF Redeem, RedeemUnderlying
<1>2. t \in MarketBooks
  BY <1>1, WellFormedFacts DEF BooksInv
<1>3. ExchangeRate(t) \in Nat
  BY <1>1, <1>2, ExchangeRateType
<1>4. CASE Redeem(a, m, n)
  <2>1. MulTruncate(ExchangeRate(t), n) \in Nat
    BY <1>3, MulTruncateNat
  <2>2. RedeemBoth(a, m, n, MulTruncate(ExchangeRate(t), n))
    BY <1>4 DEF Redeem
  <2> QED
    BY <1>1, <2>1, <2>2, RedeemBothWF
<1>5. CASE RedeemUnderlying(a, m, n)
  <2>1. DivScalarByExp(n, ExchangeRate(t)) \in Nat
    BY <1>3, <1>5, DivScalarNat DEF RedeemUnderlying
  <2>2. RedeemBoth(a, m, DivScalarByExp(n, ExchangeRate(t)), n)
    BY <1>5 DEF RedeemUnderlying
  <2> QED
    BY <1>1, <2>1, <2>2, RedeemBothWF
<1> QED
  BY <1>4, <1>5

LEMMA BorrowWF ==
  ASSUME WellFormed, NEW m \in Markets, NEW a \in Accounts, NEW n \in Nat, Borrow(a, m, n)
  PROVE  WellFormed' /\ NewDebtorsEnter
<1> DEFINE t == Accrued(market[m])
<1>1. /\ CanAccrue(market[m]) /\ n <= t.cash
      /\ market' = [market EXCEPT ![m] = BorrowFresh(t, a, n)]
      /\ wallet' = [wallet EXCEPT ![m] = Receive(wallet[m], a, n)]
      /\ AddToMarket(m, a)
      /\ UNCHANGED <<blockNumber, riskVars>>
  BY DEF Borrow
<1>2. BooksInv(t, blockNumber) /\ t.principal = market[m].principal
  BY <1>1, WellFormedFacts
<1> HIDE DEF t
<1>3. /\ BooksInv(BorrowFresh(t, a, n), blockNumber)
      /\ \A v \in Accounts \ {a} : BorrowFresh(t, a, n).principal[v] = market[m].principal[v]
  BY <1>1, <1>2, BorrowFreshInv
<1>4. wallet[m] \in [Holders -> Nat] /\ a \in Holders
  BY WellFormedFacts
<1>5. wallet' \in [Markets -> [Holders -> Nat]]
  BY <1>1, <1>4, ReceiveType, WalletStep, WellFormedFacts
<1>6. MembershipType' /\ a \in accountMembership'[m]
  BY <1>1, WellFormedFacts, AddToMarketType DEF AddToMarket, MembershipType
<1>7. \A v \in Accounts : BorrowFresh(t, a, n).principal[v] > 0 =>
        market[m].principal[v] > 0 \/ v \in accountMembership'[m]
  BY <1>3, <1>6
<1> QED
  BY <1>1, <1>3, <1>5, <1>6, <1>7, OneMarketStep

LEMMA BorrowRejectedWF ==
  ASSUME WellFormed, NEW m \in Markets, NEW a \in Accounts, NEW n \in Nat,
         BorrowRejected(a, m, n)
  PROVE  WellFormed' /\ NewDebtorsEnter
<1>1. /\ CanAccrue(market[m])
      /\ market' = [market EXCEPT ![m] = Accrued(market[m])]
      /\ AddToMarket(m, a)
      /\ UNCHANGED <<blockNumber, wallet, riskVars>>
  BY DEF BorrowRejected, Books
<1>2. /\ BooksInv(Accrued(market[m]), blockNumber)
      /\ Accrued(market[m]).principal = market[m].principal
  BY <1>1, WellFormedFacts
<1>3. MembershipType'
  BY <1>1, WellFormedFacts, AddToMarketType
<1> QED
  BY <1>1, <1>2, <1>3, WellFormedFacts, OneMarketStep

LEMMA RepayWF ==
  ASSUME WellFormed, NEW m \in Markets, NEW a \in Accounts, NEW u \in Accounts,
         NEW n \in Nat, Repay(a, u, m, n)
  PROVE  WellFormed' /\ NewDebtorsEnter
<1> DEFINE t == Accrued(market[m])
<1>1. /\ CanAccrue(market[m]) /\ CanRepay(t, u, n) /\ n <= wallet[m][a]
      /\ market' = [market EXCEPT ![m] = RepayBorrowFresh(t, u, n)]
      /\ wallet' = [wallet EXCEPT ![m] = Pay(wallet[m], a, n)]
      /\ UNCHANGED <<blockNumber, membershipVars, riskVars>>
  BY DEF Repay
<1>2. BooksInv(t, blockNumber) /\ t.principal = market[m].principal
  BY <1>1, WellFormedFacts
<1> HIDE DEF t
<1>3. /\ BooksInv(RepayBorrowFresh(t, u, n), blockNumber)
      /\ \A v \in Accounts : RepayBorrowFresh(t, u, n).principal[v] > 0 =>
           market[m].principal[v] > 0
  BY <1>1, <1>2, RepayFreshInv
<1>4. wallet[m] \in [Holders -> Nat] /\ a \in Holders
  BY WellFormedFacts
<1>5. wallet' \in [Markets -> [Holders -> Nat]]
  BY <1>1, <1>4, PayType, WalletStep, WellFormedFacts
<1>6. MembershipType'
  BY <1>1, WellFormedFacts DEF MembershipType, membershipVars
<1> QED
  BY <1>1, <1>3, <1>5, <1>6, OneMarketStep

LEMMA RepayAllWF ==
  ASSUME WellFormed, NEW m \in Markets, NEW a \in Accounts, NEW u \in Accounts,
         RepayAll(a, u, m)
  PROVE  WellFormed' /\ NewDebtorsEnter
<1>1. CanAccrue(market[m])
  BY DEF RepayAll, Repay
<1>2. BorrowBalanceStored(Accrued(market[m]), u) \in Nat
  BY <1>1, WellFormedFacts, BorrowBalanceType
<1> QED
  BY <1>2, RepayWF DEF RepayAll

LEMMA TransferWF ==
  ASSUME WellFormed, NEW m \in Markets, NEW a \in Accounts, NEW u \in Accounts,
         NEW n \in Nat, Transfer(a, u, m, n)
  PROVE  WellFormed' /\ NewDebtorsEnter
<1>1. /\ CanMove(market[m], a, u, n)
      /\ market' = [market EXCEPT ![m] = MoveTokens(market[m], a, u, n)]
      /\ UNCHANGED <<blockNumber, wallet, membershipVars, riskVars>>
  BY DEF Transfer
<1>2. /\ BooksInv(MoveTokens(market[m], a, u, n), blockNumber)
      /\ MoveTokens(market[m], a, u, n).principal = market[m].principal
  BY <1>1, WellFormedFacts, MoveTokensInv
<1>3. MembershipType'
  BY <1>1, WellFormedFacts DEF MembershipType, membershipVars
<1> QED
  BY <1>1, <1>2, <1>3, WellFormedFacts, OneMarketStep

\* A gift, and reserves added or taken: cash and reserves move, nothing else.
LEMMA CashWF ==
  ASSUME WellFormed, NEW m \in Markets, NEW a \in Accounts, NEW n \in Nat,
         Donate(a, m, n) \/ AddReserves(a, m, n)
  PROVE  WellFormed' /\ NewDebtorsEnter
<1>1. /\ wallet[m] \in [Holders -> Nat] /\ a \in Holders /\ Admin \in Holders
      /\ blockNumber \in Nat
  BY WellFormedFacts
<1>2. MembershipType'
  BY WellFormedFacts DEF Donate, AddReserves, MembershipType, membershipVars
<1>3. CASE Donate(a, m, n)
  <2> DEFINE t        == market[m]
             cash     == t.cash + n
             reserves == t.totalReserves
             after    == BooksWritten(t, cash, reserves, t.reserveFactor, t.rateModel)
  <2>1. BooksInv(t, blockNumber) /\ t.principal = market[m].principal
    BY <1>3, WellFormedFacts DEF Donate
  <2>2. /\ t \in MarketBooks /\ cash \in Nat /\ reserves \in Nat
        /\ t.reserveFactor \in Nat /\ t.rateModel \in RateModels
    BY <1>3, <2>1 DEF BooksInv, MarketBooks, Donate
  <2>3. market' = [market EXCEPT ![m] = [t EXCEPT !.cash = @ + n]]
    BY <1>3 DEF Donate
  <2>4. [t EXCEPT !.cash = @ + n] = after
    BY <2>2 DEF BooksWritten, MarketBooks
  <2>5. wallet' \in [Markets -> [Holders -> Nat]]
    BY <1>1, <1>3, PayType, WalletStep, WellFormedFacts DEF Donate
  <2>6. UNCHANGED <<blockNumber, riskVars>>
    BY <1>3 DEF Donate
  <2> HIDE DEF t, cash, reserves
  <2>7. BooksInv(after, blockNumber)
    BY <2>1, <2>2, BooksWrittenInv
  <2>8. after.principal = t.principal
    BY <2>2 DEF BooksWritten, MarketBooks
  <2> HIDE DEF after
  <2>9. market' = [market EXCEPT ![m] = after]
    BY <2>3, <2>4 DEF t
  <2> QED
    BY <1>2, <2>1, <2>5, <2>6, <2>7, <2>8, <2>9, OneMarketStep
<1>4. CASE AddReserves(a, m, n)
  <2> DEFINE t        == Accrued(market[m])
             cash     == t.cash + n
             reserves == t.totalReserves + n
             after    == BooksWritten(t, cash, reserves, t.reserveFactor, t.rateModel)
  <2>1. BooksInv(t, blockNumber) /\ t.principal = market[m].principal
    BY <1>4, WellFormedFacts DEF AddReserves
  <2>2. /\ t \in MarketBooks /\ cash \in Nat /\ reserves \in Nat
        /\ t.reserveFactor \in Nat /\ t.rateModel \in RateModels
    BY <1>4, <2>1 DEF BooksInv, MarketBooks, AddReserves
  <2>3. market' = [market EXCEPT ![m] = [t EXCEPT !.cash = @ + n, !.totalReserves = @ + n]]
    BY <1>4 DEF AddReserves
  <2>4. [t EXCEPT !.cash = @ + n, !.totalReserves = @ + n] = after
    BY <2>2 DEF BooksWritten, MarketBooks
  <2>5. wallet' \in [Markets -> [Holders -> Nat]]
    BY <1>1, <1>4, PayType, WalletStep, WellFormedFacts DEF AddReserves
  <2>6. UNCHANGED <<blockNumber, riskVars>>
    BY <1>4 DEF AddReserves
  <2> HIDE DEF t, cash, reserves
  <2>7. BooksInv(after, blockNumber)
    BY <2>1, <2>2, BooksWrittenInv
  <2>8. after.principal = t.principal
    BY <2>2 DEF BooksWritten, MarketBooks
  <2> HIDE DEF after
  <2>9. market' = [market EXCEPT ![m] = after]
    BY <2>3, <2>4 DEF t
  <2> QED
    BY <1>2, <2>1, <2>5, <2>6, <2>7, <2>8, <2>9, OneMarketStep
<1> QED
  BY <1>3, <1>4

LEMMA ReduceReservesWF ==
  ASSUME WellFormed, NEW m \in Markets, NEW n \in Nat, ReduceReserves(m, n)
  PROVE  WellFormed' /\ NewDebtorsEnter
<1> DEFINE t        == Accrued(market[m])
           cash     == t.cash - n
           reserves == t.totalReserves - n
           after    == BooksWritten(t, cash, reserves, t.reserveFactor, t.rateModel)
<1>1. BooksInv(t, blockNumber) /\ t.principal = market[m].principal
  BY WellFormedFacts DEF ReduceReserves
<1>2. /\ t \in MarketBooks /\ cash \in Nat /\ reserves \in Nat
      /\ t.reserveFactor \in Nat /\ t.rateModel \in RateModels
  BY <1>1 DEF BooksInv, MarketBooks, ReduceReserves
<1>3. market' = [market EXCEPT ![m] = [t EXCEPT !.cash = @ - n, !.totalReserves = @ - n]]
  BY DEF ReduceReserves
<1>4. [t EXCEPT !.cash = @ - n, !.totalReserves = @ - n] = after
  BY <1>2 DEF BooksWritten, MarketBooks
<1>5. wallet' \in [Markets -> [Holders -> Nat]] /\ MembershipType'
  <2>1. wallet[m] \in [Holders -> Nat] /\ Admin \in Holders
    BY WellFormedFacts
  <2>2. wallet' \in [Markets -> [Holders -> Nat]]
    BY <2>1, ReceiveType, WalletStep, WellFormedFacts DEF ReduceReserves
  <2> QED
    BY <2>2, WellFormedFacts DEF ReduceReserves, MembershipType, membershipVars
<1>6. UNCHANGED <<blockNumber, riskVars>>
  BY DEF ReduceReserves
<1> HIDE DEF t, cash, reserves
<1>7. BooksInv(after, blockNumber)
  BY <1>1, <1>2, BooksWrittenInv
<1>8. after.principal = t.principal
  BY <1>2 DEF BooksWritten, MarketBooks
<1> HIDE DEF after
<1>9. market' = [market EXCEPT ![m] = after]
  BY <1>3, <1>4 DEF t
<1> QED
  BY <1>1, <1>5, <1>6, <1>7, <1>8, <1>9, OneMarketStep

LEMMA TermsWF ==
  ASSUME WellFormed, NEW m \in Markets, NEW f \in Nat, NEW model \in RateModels,
         SetReserveFactor(m, f) \/ SetInterestRateModel(m, model)
  PROVE  WellFormed' /\ NewDebtorsEnter
<1> DEFINE t == Accrued(market[m])
<1>1. BooksInv(t, blockNumber) /\ t.principal = market[m].principal
  BY WellFormedFacts DEF SetReserveFactor, SetInterestRateModel
<1>2. /\ t \in MarketBooks /\ t.cash \in Nat /\ t.totalReserves \in Nat
      /\ t.reserveFactor \in Nat /\ t.rateModel \in RateModels
  BY <1>1 DEF BooksInv, MarketBooks
<1>3. MembershipType'
  BY WellFormedFacts DEF SetReserveFactor, SetInterestRateModel, MembershipType, membershipVars
<1>4. CASE SetReserveFactor(m, f)
  <2> DEFINE after == BooksWritten(t, t.cash, t.totalReserves, f, t.rateModel)
  <2>1. market' = [market EXCEPT ![m] = [t EXCEPT !.reserveFactor = f]]
    BY <1>4 DEF SetReserveFactor
  <2>2. [t EXCEPT !.reserveFactor = f] = after
    BY <1>2 DEF BooksWritten, MarketBooks
  <2>3. UNCHANGED <<blockNumber, wallet, riskVars>>
    BY <1>4 DEF SetReserveFactor
  <2>4. BooksInv(after, blockNumber)
    BY <1>1, <1>2, BooksWrittenInv
  <2>5. after.principal = t.principal
    BY <1>2 DEF BooksWritten, MarketBooks
  <2> HIDE DEF after
  <2> QED
    BY <1>1, <1>3, <2>1, <2>2, <2>3, <2>4, <2>5, WellFormedFacts, OneMarketStep, ZenonT(40)
<1>5. CASE SetInterestRateModel(m, model)
  <2> DEFINE after == BooksWritten(t, t.cash, t.totalReserves, t.reserveFactor, model)
  <2>1. market' = [market EXCEPT ![m] = [t EXCEPT !.rateModel = model]]
    BY <1>5 DEF SetInterestRateModel
  <2>2. [t EXCEPT !.rateModel = model] = after
    BY <1>2 DEF BooksWritten, MarketBooks
  <2>3. UNCHANGED <<blockNumber, wallet, riskVars>>
    BY <1>5 DEF SetInterestRateModel
  <2>4. BooksInv(after, blockNumber)
    BY <1>1, <1>2, BooksWrittenInv
  <2>5. after.principal = t.principal
    BY <1>2 DEF BooksWritten, MarketBooks
  <2> HIDE DEF after
  <2> QED
    BY <1>1, <1>3, <2>1, <2>2, <2>3, <2>4, <2>5, WellFormedFacts, OneMarketStep, ZenonT(40)
<1> QED
  BY <1>4, <1>5

\* The number of brTokens a liquidation seizes is a natural
\* (liquidateCalculateSeizeTokens).
LEMMA SeizeTokensNat ==
  ASSUME WellFormed, NEW M, NEW m \in Markets, NEW c \in Markets, NEW n \in Nat,
         BooksInv(M[c], blockNumber), SeizeKnown(M, m, c)
  PROVE  SeizeTokens(M, m, c, n) \in Nat
<1>1. M[c] \in MarketBooks
  BY DEF BooksInv
<1>2. ExchangeRate(M[c]) \in Nat
  BY <1>1, ExchangeRateType DEF SeizeKnown
<1>3. /\ price[m] \in Nat /\ price[c] \in Nat /\ liquidationIncentive \in Nat
  BY DEF WellFormed, TypeOK
<1>4. MulTruncate(liquidationIncentive, price[m]) \in Nat
  BY <1>3, MulTruncateNat
<1>5. /\ MulTruncate(price[c], ExchangeRate(M[c])) \in Nat
      /\ MulTruncate(price[c], ExchangeRate(M[c])) > 0
  <2>1. MulTruncate(price[c], ExchangeRate(M[c])) \in Nat
    BY <1>2, <1>3, MulTruncateNat
  <2> QED
    BY <2>1 DEF SeizeKnown
<1>6. GetExp(MulTruncate(liquidationIncentive, price[m]),
             MulTruncate(price[c], ExchangeRate(M[c]))) \in Nat
  BY <1>4, <1>5, GetExpNat
<1> QED
  BY <1>6, MulTruncateNat DEF SeizeTokens

\* Repay the borrowed market, then move the collateral's tokens: the second
\* market may be the first, so its books are the ones the repayment left.
LEMMA LiquidateBorrowWF ==
  ASSUME WellFormed, NEW m \in Markets, NEW c \in Markets, NEW a \in Accounts,
         NEW u \in Accounts, NEW n \in Nat, LiquidateBorrow(a, u, m, c, n)
  PROVE  WellFormed' /\ NewDebtorsEnter
<1> DEFINE fresh  == [market EXCEPT ![m] = Accrued(market[m]), ![c] = Accrued(market[c])]
           repaid == [fresh EXCEPT ![m] = RepayBorrowFresh(fresh[m], u, n)]
           seized == SeizeTokens(repaid, m, c, n)
           after  == MoveTokens(repaid[c], u, a, seized)
<1>1. /\ CanAccrue(market[m]) /\ CanAccrue(market[c])
      /\ CanRepay(fresh[m], u, n) /\ n <= wallet[m][a]
      /\ SeizeKnown(repaid, m, c) /\ CanMove(repaid[c], u, a, seized)
      /\ market' = [repaid EXCEPT ![c] = after]
      /\ wallet' = [wallet EXCEPT ![m] = Pay(wallet[m], a, n)]
      /\ UNCHANGED <<blockNumber, membershipVars, riskVars>>
  BY DEF LiquidateBorrow
<1>2. market \in [Markets -> MarketBooks]
  BY DEF WellFormed, TypeOK
<1>3. /\ BooksInv(Accrued(market[m]), blockNumber)
      /\ BooksInv(Accrued(market[c]), blockNumber)
      /\ Accrued(market[m]).principal = market[m].principal
      /\ Accrued(market[c]).principal = market[c].principal
      /\ \A x \in Markets : BooksInv(market[x], blockNumber)
  BY <1>1, WellFormedFacts
<1>4. /\ DOMAIN fresh = Markets
      /\ \A x \in Markets : /\ BooksInv(fresh[x], blockNumber)
                            /\ fresh[x].principal = market[x].principal
  BY <1>2, <1>3
<1> HIDE DEF fresh
<1>5. /\ BooksInv(RepayBorrowFresh(fresh[m], u, n), blockNumber)
      /\ \A v \in Accounts : RepayBorrowFresh(fresh[m], u, n).principal[v] > 0 =>
           market[m].principal[v] > 0
  BY <1>1, <1>4, RepayFreshInv
<1>6. /\ DOMAIN repaid = Markets
      /\ \A x \in Markets :
           /\ BooksInv(repaid[x], blockNumber)
           /\ \A v \in Accounts : repaid[x].principal[v] > 0 => market[x].principal[v] > 0
  BY <1>4, <1>5
<1> HIDE DEF repaid
<1>7. seized \in Nat
  BY <1>1, <1>6, SeizeTokensNat
<1> HIDE DEF seized
<1>8. BooksInv(after, blockNumber) /\ after.principal = repaid[c].principal
  BY <1>1, <1>6, <1>7, MoveTokensInv
<1> HIDE DEF after
<1>9. /\ market' \in [Markets -> MarketBooks]
      /\ \A x \in Markets : BooksInv(market'[x], blockNumber')
  <2>1. /\ DOMAIN market' = Markets
        /\ \A x \in Markets : BooksInv(market'[x], blockNumber)
    BY <1>1, <1>6, <1>8
  <2>2. \A x \in Markets : market'[x] \in MarketBooks
    BY <2>1 DEF BooksInv
  <2>3. market' = [x \in Markets |-> market'[x]]
    BY <1>1, <1>6, <2>1
  <2> QED
    BY <1>1, <2>1, <2>2, <2>3
<1>10. wallet' \in [Markets -> [Holders -> Nat]]
  <2>1. wallet[m] \in [Holders -> Nat] /\ a \in Holders
    BY WellFormedFacts
  <2> QED
    BY <1>1, <2>1, PayType, WalletStep, WellFormedFacts
<1>11. NewDebtorsEnter
  BY <1>1, <1>6, <1>8 DEF NewDebtorsEnter
<1> QED
  BY <1>1, <1>9, <1>10, <1>11 DEF WellFormed, TypeOK, membershipVars, riskVars

-----------------------------------------------------------------------------
(* Steps that do not touch the books *)

LEMMA AddToMarketMatches ==
  ASSUME MembershipType, AssetsMatchMembership,
         NEW m \in Markets, NEW u \in Accounts, AddToMarket(m, u)
  PROVE  /\ AssetsMatchMembership'
         /\ \A x \in Markets : accountMembership[x] \subseteq accountMembership'[x]
<1>1. /\ accountMembership' = [accountMembership EXCEPT ![m] = @ \cup {u}]
      /\ accountAssets' = [accountAssets EXCEPT ![u] = AssetsWith(m, u)]
  BY DEF AddToMarket
<1>2. CASE u \in accountMembership[m]
  <2>1. accountMembership' = accountMembership /\ accountAssets' = accountAssets
    BY <1>1, <1>2 DEF MembershipType, AssetsWith
  <2> QED
    BY <2>1 DEF AssetsMatchMembership
<1>3. CASE u \notin accountMembership[m]
  <2> DEFINE s == accountAssets[u]
  <2>1. s \in Seq(Markets) /\ NoRepeats(s) /\ \A i \in DOMAIN s : s[i] # m
    BY <1>3 DEF MembershipType, AssetsMatchMembership, NoRepeats
  <2>2. accountAssets' = [accountAssets EXCEPT ![u] = Append(s, m)]
    BY <1>1, <1>3 DEF AssetsWith
  <2>3. /\ NoRepeats(Append(s, m))
        /\ \A x : (\E k \in DOMAIN Append(s, m) : Append(s, m)[k] = x)
                 <=> x = m \/ \E k \in DOMAIN s : s[k] = x
    BY <2>1, AppendOnce
  <2>4. \A x \in Markets, v \in Accounts :
          v \in accountMembership'[x] <=> v \in accountMembership[x] \/ (x = m /\ v = u)
    BY <1>1 DEF MembershipType
  <2>5. \A v \in Accounts : NoRepeats(accountAssets'[v])
    BY <2>2, <2>3 DEF MembershipType, AssetsMatchMembership, NoRepeats
  <2>6. \A v \in Accounts, x \in Markets :
          v \in accountMembership'[x]
            <=> \E k \in DOMAIN accountAssets'[v] : accountAssets'[v][k] = x
    <3> TAKE v \in Accounts, x \in Markets
    <3>1. CASE v = u
      <4>1. accountAssets'[u] = Append(s, m)
        BY <2>2 DEF MembershipType
      <4>2. u \in accountMembership[x] <=> \E k \in DOMAIN s : s[k] = x
        BY DEF AssetsMatchMembership
      <4> HIDE DEF s
      <4> QED
        BY <2>3, <2>4, <3>1, <4>1, <4>2
    <3>2. CASE v # u
      BY <2>2, <2>4, <3>2 DEF MembershipType, AssetsMatchMembership
    <3> QED
      BY <3>1, <3>2
  <2>7. AssetsMatchMembership'
    BY <2>5, <2>6 DEF AssetsMatchMembership, NoRepeats
  <2> QED
    BY <1>1, <2>7 DEF MembershipType
<1> QED
  BY <1>2, <1>3

LEMMA RemoveFromMarketMatches ==
  ASSUME MembershipType, AssetsMatchMembership, NEW m \in Markets, NEW u \in Accounts,
         u \in accountMembership[m], RemoveFromMarket(m, u)
  PROVE  /\ MembershipType' /\ AssetsMatchMembership'
         /\ \A x \in Markets, v \in Accounts :
              v \in accountMembership[x] /\ ~(x = m /\ v = u) => v \in accountMembership'[x]
<1> DEFINE s == accountAssets[u]
<1>1. /\ accountMembership' = [accountMembership EXCEPT ![m] = @ \ {u}]
      /\ accountAssets' = [accountAssets EXCEPT ![u] = SwapRemove(s, IndexOf(m, s))]
  BY DEF RemoveFromMarket
<1>2. s \in Seq(Markets) /\ NoRepeats(s)
  BY DEF MembershipType, AssetsMatchMembership, NoRepeats
<1>3. PICK i \in DOMAIN s : s[i] = m
  BY DEF AssetsMatchMembership
<1>4. IndexOf(m, s) = i
  BY <1>2, <1>3, IndexOfSpec
<1> HIDE DEF s
<1> DEFINE r == SwapRemove(s, i)
<1>5. /\ r \in Seq(Markets) /\ NoRepeats(r)
      /\ \A x : (\E k \in DOMAIN r : r[k] = x) <=> x # m /\ \E k \in DOMAIN s : s[k] = x
  <2>1. /\ r \in Seq(Markets) /\ NoRepeats(r)
        /\ \A x : (\E k \in DOMAIN r : r[k] = x) <=> x # s[i] /\ \E k \in DOMAIN s : s[k] = x
    BY <1>2, SwapRemoveSpec, Zenon
  <2> HIDE DEF r
  <2> QED
    BY <1>3, <2>1
<1>6. accountAssets' = [accountAssets EXCEPT ![u] = r]
  BY <1>1, <1>4
<1> HIDE DEF r
<1>7. \A x \in Markets, v \in Accounts :
        v \in accountMembership'[x] <=> v \in accountMembership[x] /\ ~(x = m /\ v = u)
  BY <1>1 DEF MembershipType
<1>8. MembershipType'
  BY <1>1, <1>5, <1>6 DEF MembershipType
<1>9. \A v \in Accounts : NoRepeats(accountAssets'[v])
  BY <1>5, <1>6 DEF MembershipType, AssetsMatchMembership, NoRepeats
<1>10. \A v \in Accounts, x \in Markets :
         v \in accountMembership'[x]
           <=> \E k \in DOMAIN accountAssets'[v] : accountAssets'[v][k] = x
  <2> TAKE v \in Accounts, x \in Markets
  <2>1. CASE v = u
    <3>1. accountAssets'[u] = r
      BY <1>6 DEF MembershipType
    <3>2. u \in accountMembership[x] <=> \E k \in DOMAIN s : s[k] = x
      BY DEF s, AssetsMatchMembership
    <3> QED
      BY <1>5, <1>7, <2>1, <3>1, <3>2
  <2>2. CASE v # u
    BY <1>6, <1>7, <2>2 DEF MembershipType, AssetsMatchMembership
  <2> QED
    BY <2>1, <2>2
<1>11. AssetsMatchMembership'
  BY <1>9, <1>10 DEF AssetsMatchMembership, NoRepeats
<1> QED
  BY <1>7, <1>8, <1>11

-----------------------------------------------------------------------------
(* The whole invariant, action by action *)

IInv == WellFormed /\ AssetsMatchMembership /\ BorrowerIsMember

\* Membership only grows in a step that writes books, so a debtor stays in.
LEMMA MembersStay ==
  ASSUME BorrowerIsMember, NewDebtorsEnter,
         \A m \in Markets : accountMembership[m] \subseteq accountMembership'[m]
  PROVE  BorrowerIsMember'
  BY DEF BorrowerIsMember, NewDebtorsEnter

\* Steps that leave the lists and the flags as they are.
LEMMA SameMembership ==
  ASSUME IInv, WellFormed', NewDebtorsEnter, UNCHANGED membershipVars
  PROVE  IInv'
<1>1. AssetsMatchMembership'
  BY DEF IInv, AssetsMatchMembership, membershipVars
<1>2. BorrowerIsMember'
  BY MembersStay DEF IInv, membershipVars
<1> QED
  BY <1>1, <1>2 DEF IInv

\* Steps that enter an account in a market.
LEMMA EnteringStep ==
  ASSUME IInv, WellFormed', NewDebtorsEnter,
         NEW m \in Markets, NEW u \in Accounts, AddToMarket(m, u)
  PROVE  IInv'
<1>1. MembershipType
  BY WellFormedFacts DEF IInv
<1>2. /\ AssetsMatchMembership'
      /\ \A x \in Markets : accountMembership[x] \subseteq accountMembership'[x]
  BY <1>1, AddToMarketMatches DEF IInv
<1> QED
  BY <1>2, MembersStay DEF IInv

\* No operation of a user breaks the invariant.
LEMMA UserActionIInv ==
  ASSUME IInv, NEW m \in Markets, UserAction(m)
  PROVE  IInv'
<1> USE InputsNat
<1>0. WellFormed
  BY DEF IInv
<1>1. CASE AccrueInterest(m)
  BY <1>0, <1>1, AccrueInterestWF, SameMembership DEF AccrueInterest
<1>2. ASSUME NEW a \in Accounts, EnterMarket(a, m)
      PROVE  IInv'
  <2>1. AddToMarket(m, a) /\ UNCHANGED <<tokenVars, riskVars>>
    BY <1>2 DEF EnterMarket
  <2>2. MembershipType'
    BY <1>0, <2>1, WellFormedFacts, AddToMarketType
  <2>3. WellFormed' /\ NewDebtorsEnter
    BY <1>0, <2>1, <2>2, SettingStep DEF WellFormed, TypeOK, riskVars
  <2> QED
    BY <2>1, <2>3, EnteringStep
<1>3. ASSUME NEW a \in Accounts, ExitMarket(a, m)
      PROVE  IInv'
  <2>1. /\ BorrowBalanceStored(market[m], a) = 0
        /\ a \in accountMembership[m] /\ RemoveFromMarket(m, a)
        /\ UNCHANGED <<tokenVars, riskVars>>
    BY <1>3 DEF ExitMarket, CanExit
  <2>2. /\ MembershipType' /\ AssetsMatchMembership'
        /\ \A x \in Markets, v \in Accounts :
             v \in accountMembership[x] /\ ~(x = m /\ v = a) => v \in accountMembership'[x]
    BY <1>0, <2>1, WellFormedFacts, RemoveFromMarketMatches DEF IInv
  <2>3. WellFormed'
    BY <1>0, <2>1, <2>2, SettingStep DEF WellFormed, TypeOK, riskVars
  <2>4. market[m].principal[a] = 0
    BY <1>0, <2>1, WellFormedFacts, BorrowBalanceType
  <2>5. BorrowerIsMember'
    BY <2>1, <2>2, <2>4 DEF IInv, BorrowerIsMember, tokenVars
  <2> QED
    BY <2>2, <2>3, <2>5 DEF IInv
<1>4. ASSUME NEW a \in Accounts, NEW u \in Accounts, RepayAll(a, u, m)
      PROVE  IInv'
  BY <1>0, <1>4, RepayAllWF, SameMembership DEF RepayAll, Repay
<1>5. ASSUME NEW a \in Accounts, NEW n \in GiftAmounts, Donate(a, m, n) \/ AddReserves(a, m, n)
      PROVE  IInv'
  BY <1>0, <1>5, CashWF, SameMembership DEF Donate, AddReserves
<1>6. ASSUME NEW a \in Accounts, NEW n \in Amounts, Redeem(a, m, n) \/ RedeemUnderlying(a, m, n)
      PROVE  IInv'
  <2>1. UNCHANGED membershipVars
    BY <1>6 DEF Redeem, RedeemUnderlying, RedeemBoth
  <2> QED
    BY <1>0, <1>6, <2>1, RedeemWF, SameMembership
<1>7. ASSUME NEW a \in Accounts, NEW n \in Amounts, Borrow(a, m, n)
      PROVE  IInv'
  <2>1. AddToMarket(m, a)
    BY <1>7 DEF Borrow
  <2> QED
    BY <1>0, <1>7, <2>1, BorrowWF, EnteringStep
<1>8. ASSUME NEW a \in Accounts, NEW n \in Amounts, BorrowRejected(a, m, n)
      PROVE  IInv'
  <2>1. AddToMarket(m, a)
    BY <1>8 DEF BorrowRejected
  <2> QED
    BY <1>0, <1>8, <2>1, BorrowRejectedWF, EnteringStep
<1>9. ASSUME NEW a \in Accounts, NEW u \in Accounts, NEW n \in Amounts, Mint(a, u, m, n)
      PROVE  IInv'
  <2>1. UNCHANGED membershipVars
    BY <1>9 DEF Mint
  <2> QED
    BY <1>0, <1>9, <2>1, MintWF, SameMembership
<1>10. ASSUME NEW a \in Accounts, NEW u \in Accounts, NEW n \in Amounts, Repay(a, u, m, n)
       PROVE  IInv'
  <2>1. UNCHANGED membershipVars
    BY <1>10 DEF Repay
  <2> QED
    BY <1>0, <1>10, <2>1, RepayWF, SameMembership
<1>11. ASSUME NEW a \in Accounts, NEW u \in Accounts, NEW n \in Amounts, Transfer(a, u, m, n)
       PROVE  IInv'
  <2>1. UNCHANGED membershipVars
    BY <1>11 DEF Transfer
  <2> QED
    BY <1>0, <1>11, <2>1, TransferWF, SameMembership
<1>12. ASSUME NEW a \in Accounts, NEW u \in Accounts, NEW n \in Amounts, NEW c \in Markets,
              LiquidateBorrow(a, u, m, c, n)
       PROVE  IInv'
  <2>1. UNCHANGED membershipVars
    BY <1>12 DEF LiquidateBorrow
  <2> QED
    BY <1>0, <1>12, <2>1, LiquidateBorrowWF, SameMembership
<1> QED
  BY <1>1, <1>2, <1>3, <1>4, <1>5, <1>6, <1>7, <1>8, <1>9, <1>10, <1>11, <1>12
  DEF UserAction

\* No setting of the admin does.
LEMMA AdminActionIInv ==
  ASSUME IInv, AdminAction
  PROVE  IInv'
<1> USE InputsNat
<1>0. WellFormed /\ MembershipType
  BY WellFormedFacts DEF IInv
<1>1. ASSUME \/ \E f \in CloseFactors : SetCloseFactor(f)
             \/ \E i \in Incentives : SetLiquidationIncentive(i)
             \/ \E p \in TreasuryPercents : SetTreasuryPercent(p)
             \/ \E flags \in PauseStates : SetPaused(flags)
             \/ \E m \in Markets : SupportMarket(m)
             \/ \E m \in Markets, f \in CollateralFactors : SetCollateralFactor(m, f)
             \/ \E m \in Markets, c \in BorrowCaps : SetMarketBorrowCap(m, c)
      PROVE  IInv'
  <2>1. UNCHANGED <<tokenVars, membershipVars>>
    BY <1>1 DEF SetCloseFactor, SetLiquidationIncentive, SetTreasuryPercent, SetPaused,
                SupportMarket, SetCollateralFactor, SetMarketBorrowCap
  <2>2. MembershipType'
    BY <1>0, <2>1 DEF MembershipType, membershipVars
  <2>3. /\ listed \subseteq Markets /\ collateralFactor \in [Markets -> Nat]
        /\ borrowCap \in [Markets -> Nat] /\ price \in [Markets -> Nat]
        /\ closeFactor \in Nat /\ liquidationIncentive \in Nat
        /\ treasuryPercent \in Nat /\ treasuryPercent < ExpScale /\ paused \in PauseFlags
    BY <1>0 DEF WellFormed, TypeOK
  <2>4. /\ listed' \subseteq Markets /\ collateralFactor' \in [Markets -> Nat]
        /\ borrowCap' \in [Markets -> Nat] /\ price' \in [Markets -> Nat]
        /\ closeFactor' \in Nat /\ liquidationIncentive' \in Nat
        /\ treasuryPercent' \in Nat /\ treasuryPercent' < ExpScale /\ paused' \in PauseFlags
    <3>1. CASE \E f \in CloseFactors : SetCloseFactor(f)
      BY <2>3, <3>1 DEF SetCloseFactor
    <3>2. CASE \E i \in Incentives : SetLiquidationIncentive(i)
      BY <2>3, <3>2 DEF SetLiquidationIncentive
    <3>3. CASE \E p \in TreasuryPercents : SetTreasuryPercent(p)
      BY <2>3, <3>3 DEF SetTreasuryPercent
    <3>4. CASE \E flags \in PauseStates : SetPaused(flags)
      BY <2>3, <3>4, InputsAssumption DEF SetPaused
    <3>5. CASE \E m \in Markets : SupportMarket(m)
      BY <2>3, <3>5 DEF SupportMarket
    <3>6. CASE \E m \in Markets, f \in CollateralFactors : SetCollateralFactor(m, f)
      BY <2>3, <3>6 DEF SetCollateralFactor
    <3>7. CASE \E m \in Markets, c \in BorrowCaps : SetMarketBorrowCap(m, c)
      BY <2>3, <3>7 DEF SetMarketBorrowCap
    <3> QED
      BY <1>1, <3>1, <3>2, <3>3, <3>4, <3>5, <3>6, <3>7
  <2>5. WellFormed' /\ NewDebtorsEnter
    BY <1>0, <2>1, <2>2, <2>4, SettingStep
  <2> QED
    BY <2>1, <2>5, SameMembership
<1>2. ASSUME NEW m \in Markets,
             \/ \E f \in ReserveFactors : SetReserveFactor(m, f)
             \/ \E model \in RateModels : SetInterestRateModel(m, model)
      PROVE  IInv'
  <2>1. UNCHANGED membershipVars
    BY <1>2 DEF SetReserveFactor, SetInterestRateModel
  <2>2. market[m].rateModel \in RateModels /\ 0 \in Nat
    BY <1>0, WellFormedFacts DEF BooksInv, MarketBooks
  <2>3. WellFormed' /\ NewDebtorsEnter
    BY <1>0, <1>2, <2>2, TermsWF
  <2> QED
    BY <2>1, <2>3, SameMembership
<1>3. ASSUME NEW m \in Markets, NEW n \in GiftAmounts, ReduceReserves(m, n)
      PROVE  IInv'
  <2>1. UNCHANGED membershipVars
    BY <1>3 DEF ReduceReserves
  <2>2. WellFormed' /\ NewDebtorsEnter
    BY <1>0, <1>3, ReduceReservesWF
  <2> QED
    BY <2>1, <2>2, SameMembership
<1> QED
  BY <1>1, <1>2, <1>3 DEF AdminAction

\* Time and prices do not either: books stay in order as blocks pass.
LEMMA NextIInv == IInv /\ [Next]_vars => IInv'
<1> SUFFICES ASSUME IInv, [Next]_vars
             PROVE  IInv'
  OBVIOUS
<1>0. WellFormed /\ MembershipType
  BY WellFormedFacts DEF IInv
<1>1. CASE AdvanceBlock
  <2>1. /\ blockNumber' = blockNumber + 1 /\ market' = market
        /\ UNCHANGED <<wallet, membershipVars, riskVars>>
    BY <1>1 DEF AdvanceBlock
  <2>2. blockNumber \in Nat /\ \A m \in Markets : BooksInv(market[m], blockNumber)
    BY <1>0, WellFormedFacts
  <2>3. \A m \in Markets : BooksInv(market'[m], blockNumber')
    BY <2>1, <2>2 DEF BooksInv, MarketBooks
  <2>4. WellFormed'
    BY <1>0, <2>1, <2>2, <2>3 DEF WellFormed, TypeOK, membershipVars, riskVars
  <2> QED
    BY <2>1, <2>4, SameMembership DEF NewDebtorsEnter
<1>2. ASSUME NEW c \in PriceChanges, SetUnderlyingPrice(c[1], c[2])
      PROVE  IInv'
  <2>1. c[1] \in Markets /\ c[2] \in Nat
    BY InputsAssumption
  <2>2. /\ UNCHANGED <<tokenVars, membershipVars, listed, collateralFactor, borrowCap,
                       closeFactor, liquidationIncentive, treasuryPercent, paused>>
        /\ price' = [price EXCEPT ![c[1]] = c[2]]
    BY <1>2 DEF SetUnderlyingPrice
  <2>3. price' \in [Markets -> Nat]
    BY <1>0, <2>1, <2>2 DEF WellFormed, TypeOK
  <2>4. WellFormed' /\ NewDebtorsEnter
    BY <1>0, <2>2, <2>3, SettingStep DEF WellFormed, TypeOK, MembershipType, membershipVars
  <2> QED
    BY <2>2, <2>4, SameMembership
<1>3. ASSUME NEW m \in Markets, UserAction(m)
      PROVE  IInv'
  BY <1>3, UserActionIInv
<1>4. CASE AdminAction
  BY <1>4, AdminActionIInv
<1>5. CASE UNCHANGED vars
  BY <1>5 DEF vars, tokenVars, membershipVars, riskVars, IInv, WellFormed, TypeOK,
              AssetsMatchMembership, BorrowerIsMember
<1> QED
  BY <1>1, <1>2, <1>3, <1>4, <1>5 DEF Next

\* At the start nobody is in a market and nobody owes anything.
LEMMA InitIInv == Init => IInv
<1> SUFFICES ASSUME Init
             PROVE  IInv
  OBVIOUS
<1>1. WellFormed
  BY InitWellFormed
<1>2. AssetsMatchMembership
  BY DEF Init, ComptrollerInit, AssetsMatchMembership
<1>3. BorrowerIsMember
  BY DEF Init, TokenInit, NewMarket, BorrowerIsMember
<1> QED
  BY <1>1, <1>2, <1>3 DEF IInv

-----------------------------------------------------------------------------
(* The theorems *)

\* The invariant holds in every reachable state.
THEOREM Invariance == Spec => []IInv
  BY InitIInv, NextIInv, PTL DEF Spec

\* Every book of every market keeps its type: no operation of the token or the
\* comptroller drives a balance, a total, an index or a block below zero or an
\* account into a list of things that are no markets.
THEOREM TypeCorrect == Spec => []TypeOK
<1>1. IInv => TypeOK
  BY DEF IInv, WellFormed
<1> QED
  BY <1>1, Invariance, PTL

\* addToMarketInternal and exitMarket keep an account's list of assets and the
\* markets' membership flags two copies of one relation, without duplicates.
THEOREM ListsCorrect == Spec => []AssetsMatchMembership
<1>1. IInv => AssetsMatchMembership
  BY DEF IInv
<1> QED
  BY <1>1, Invariance, PTL

\* Nobody owes a market without being in it: borrowAllowed enters whoever comes
\* to owe something, and exitMarket lets nobody out who still does, because the
\* index never falls below the one a debt was written at.
THEOREM DebtorsAreMembers == Spec => []BorrowerIsMember
<1>1. IInv => BorrowerIsMember
  BY DEF IInv
<1> QED
  BY <1>1, Invariance, PTL
=============================================================================
