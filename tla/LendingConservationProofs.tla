--------------------- MODULE LendingConservationProofs ---------------------
(***************************************************************************)
(* What LendingMarket keeps in total, for every finite set of accounts and *)
(* every set of markets, scale, rate model and price: the brTokens of a    *)
(* market are exactly those in its accounts, its underlying is only moved, *)
(* the protocol's pause freezes every position, rounding takes nothing     *)
(* from the suppliers who stay, and no transaction makes a borrower        *)
(* liquidatable.  The first two are sums over accounts, so each operation  *)
(* of BRToken.sol is first described by what it adds to them; for the      *)
(* share by what it does to the exchange rate, and for the shortfall by    *)
(* what it does to the liquidity ComptrollerLens.sol adds up for one       *)
(* account over the markets it is in.                                      *)
(***************************************************************************)
EXTENDS LendingMarketProofs, Sums

-----------------------------------------------------------------------------
(* What the operations of BRToken.sol do to supply, balances and cash *)

\* totalSupply is the sum of accountTokens.
Backed(t) == t.totalSupply = SumFunction(t.tokens)

\* accrueInterest moves neither tokens nor cash.
LEMMA AccruedKeeps ==
  ASSUME NEW t, BooksInv(t, blockNumber)
  PROVE  /\ Accrued(t).tokens = t.tokens
         /\ Accrued(t).totalSupply = t.totalSupply
         /\ Accrued(t).cash = t.cash
         /\ Accrued(t).principal = t.principal
  BY DEF BooksInv, MarketBooks, Accrued

\* mintFresh credits what it adds to the supply.
LEMMA MintFreshKeeps ==
  ASSUME NEW t, BooksInv(t, blockNumber), NEW u \in Accounts, NEW n \in Nat,
         ExchangeRateKnown(t), ExchangeRate(t) > 0
  PROVE  /\ Backed(t) => Backed(MintFresh(t, u, n))
         /\ MintFresh(t, u, n).cash = t.cash + n
<1> DEFINE minted == DivScalarByExp(n, ExchangeRate(t))
           tokens == [t.tokens EXCEPT ![u] = @ + minted]
<1>1. t \in MarketBooks
  BY DEF BooksInv
<1>2. minted \in Nat
  BY <1>1, ExchangeRateType, DivScalarNat
<1>3. /\ MintFresh(t, u, n).cash = t.cash + n
      /\ MintFresh(t, u, n).totalSupply = t.totalSupply + minted
      /\ MintFresh(t, u, n).tokens = tokens
  BY <1>1 DEF MintFresh, MarketBooks
<1> HIDE DEF minted
<1>4. t.tokens \in [Accounts -> Int] /\ tokens \in [Accounts -> Int]
  BY <1>1, <1>2 DEF MarketBooks
<1>5. tokens[u] = t.tokens[u] + minted /\ \A v \in Accounts \ {u} : tokens[v] = t.tokens[v]
  BY <1>4
<1> HIDE DEF tokens
<1>6. SumFunction(tokens) = SumFunction(t.tokens) - t.tokens[u] + tokens[u]
  BY <1>4, <1>5, AccountsFinite, SumFunctionUpdate
<1>7. SumFunction(t.tokens) \in Int /\ t.tokens[u] \in Int
  BY <1>4, AccountsFinite, SumFunctionInt
<1> QED
  BY <1>2, <1>3, <1>5, <1>6, <1>7 DEF Backed

\* redeemFresh debits what it takes from the supply.
LEMMA RedeemFreshKeeps ==
  ASSUME NEW t, BooksInv(t, blockNumber), NEW u \in Accounts, NEW n \in Nat,
         NEW amount \in Nat
  PROVE  /\ Backed(t) => Backed(RedeemFresh(t, u, n, amount))
         /\ RedeemFresh(t, u, n, amount).cash = t.cash - amount
<1> DEFINE tokens == [t.tokens EXCEPT ![u] = @ - n]
<1>1. t \in MarketBooks
  BY DEF BooksInv
<1>2. /\ RedeemFresh(t, u, n, amount).cash = t.cash - amount
      /\ RedeemFresh(t, u, n, amount).totalSupply = t.totalSupply - n
      /\ RedeemFresh(t, u, n, amount).tokens = tokens
  BY <1>1 DEF RedeemFresh, MarketBooks
<1>3. t.tokens \in [Accounts -> Int] /\ tokens \in [Accounts -> Int]
  BY <1>1 DEF MarketBooks
<1>4. tokens[u] = t.tokens[u] - n /\ \A v \in Accounts \ {u} : tokens[v] = t.tokens[v]
  BY <1>3
<1> HIDE DEF tokens
<1>5. SumFunction(tokens) = SumFunction(t.tokens) - t.tokens[u] + tokens[u]
  BY <1>3, <1>4, AccountsFinite, SumFunctionUpdate
<1>6. SumFunction(t.tokens) \in Int /\ t.tokens[u] \in Int
  BY <1>3, AccountsFinite, SumFunctionInt
<1> QED
  BY <1>2, <1>4, <1>5, <1>6 DEF Backed

\* transferTokens and seizeInternal take from one account what they give to the
\* other: the two are different accounts, or the balance written last would win.
LEMMA MoveTokensKeeps ==
  ASSUME NEW t, BooksInv(t, blockNumber), NEW src \in Accounts, NEW dst \in Accounts,
         NEW n \in Nat, CanMove(t, src, dst, n)
  PROVE  /\ Backed(t) => Backed(MoveTokens(t, src, dst, n))
         /\ MoveTokens(t, src, dst, n).cash = t.cash
<1> DEFINE tokens == [t.tokens EXCEPT ![src] = t.tokens[src] - n,
                                      ![dst] = t.tokens[dst] + n]
<1>1. t \in MarketBooks /\ src # dst
  BY DEF BooksInv, CanMove
<1>2. /\ MoveTokens(t, src, dst, n).cash = t.cash
      /\ MoveTokens(t, src, dst, n).totalSupply = t.totalSupply
      /\ MoveTokens(t, src, dst, n).tokens = tokens
  BY <1>1 DEF MoveTokens, MarketBooks
<1>3. t.tokens \in [Accounts -> Int] /\ tokens \in [Accounts -> Int]
  BY <1>1 DEF MarketBooks
<1>4. /\ tokens[src] = t.tokens[src] - n /\ tokens[dst] = t.tokens[dst] + n
      /\ \A v \in Accounts \ {src, dst} : tokens[v] = t.tokens[v]
  BY <1>1, <1>3
<1> HIDE DEF tokens
<1>5. SumFunction(tokens)
        = SumFunction(t.tokens) - t.tokens[src] - t.tokens[dst] + tokens[src] + tokens[dst]
  BY <1>1, <1>3, <1>4, AccountsFinite, SumFunctionUpdateTwo
<1>6. SumFunction(t.tokens) \in Int /\ t.tokens[src] \in Int /\ t.tokens[dst] \in Int
  BY <1>3, AccountsFinite, SumFunctionInt
<1> QED
  BY <1>2, <1>4, <1>5, <1>6 DEF Backed

\* Borrows and repayments move cash and leave the tokens alone.
LEMMA DebtKeeps ==
  ASSUME NEW t, BooksInv(t, blockNumber), NEW u, NEW n
  PROVE  /\ BorrowFresh(t, u, n).tokens = t.tokens
         /\ BorrowFresh(t, u, n).totalSupply = t.totalSupply
         /\ BorrowFresh(t, u, n).cash = t.cash - n
         /\ RepayBorrowFresh(t, u, n).tokens = t.tokens
         /\ RepayBorrowFresh(t, u, n).totalSupply = t.totalSupply
         /\ RepayBorrowFresh(t, u, n).cash = t.cash + n
  BY DEF BooksInv, MarketBooks, BorrowFresh, RepayBorrowFresh

-----------------------------------------------------------------------------
(* Wallets *)

LEMMA HoldersFinite == IsFiniteSet(Holders)
<1>1. IsFiniteSet(Accounts \cup {Admin})
  BY AccountsFinite, FS_AddElement
<1>2. IsFiniteSet((Accounts \cup {Admin}) \cup {TreasuryAddress})
  BY <1>1, FS_AddElement
<1>3. Holders = (Accounts \cup {Admin}) \cup {TreasuryAddress}
  BY DEF Holders
<1> QED
  BY <1>2, <1>3

LEMMA WalletSum ==
  ASSUME NEW w \in [Holders -> Nat]
  PROVE  SumFunction(w) \in Int
<1>1. w \in [Holders -> Int]
  OBVIOUS
<1> QED
  BY <1>1, HoldersFinite, SumFunctionInt

LEMMA PaySum ==
  ASSUME NEW w \in [Holders -> Nat], NEW h \in Holders, NEW n \in Nat
  PROVE  SumFunction(Pay(w, h, n)) = SumFunction(w) - n
<1> DEFINE after == [w EXCEPT ![h] = @ - n]
<1>1. /\ w \in [Holders -> Int] /\ after \in [Holders -> Int]
      /\ after[h] = w[h] - n /\ \A x \in Holders \ {h} : after[x] = w[x]
  OBVIOUS
<1> HIDE DEF after
<1>2. SumFunction(after) = SumFunction(w) - w[h] + after[h]
  BY <1>1, HoldersFinite, SumFunctionUpdate
<1>3. SumFunction(after) = SumFunction(w) - n
  BY <1>1, <1>2, WalletSum
<1> QED
  BY <1>3 DEF Pay, after

LEMMA ReceiveSum ==
  ASSUME NEW w \in [Holders -> Nat], NEW h \in Holders, NEW n \in Nat
  PROVE  SumFunction(Receive(w, h, n)) = SumFunction(w) + n
<1> DEFINE after == [w EXCEPT ![h] = @ + n]
<1>1. /\ w \in [Holders -> Int] /\ after \in [Holders -> Int]
      /\ after[h] = w[h] + n /\ \A x \in Holders \ {h} : after[x] = w[x]
  OBVIOUS
<1> HIDE DEF after
<1>2. SumFunction(after) = SumFunction(w) - w[h] + after[h]
  BY <1>1, HoldersFinite, SumFunctionUpdate
<1>3. SumFunction(after) = SumFunction(w) + n
  BY <1>1, <1>2, WalletSum
<1> QED
  BY <1>3 DEF Receive, after

\* The treasury's fee and the redeemer's rest are together what was redeemed.
LEMMA PayOutSum ==
  ASSUME NEW w \in [Holders -> Nat], NEW h \in Holders, NEW n \in Nat,
         NEW fee \in Nat, fee <= n
  PROVE  SumFunction(PayOut(w, h, n, fee)) = SumFunction(w) + n
<1> DEFINE mid == Receive(w, TreasuryAddress, fee)
<1>1. TreasuryAddress \in Holders /\ n - fee \in Nat
  BY DEF Holders
<1>2. mid \in [Holders -> Nat] /\ SumFunction(mid) = SumFunction(w) + fee
  BY <1>1, ReceiveType, ReceiveSum
<1>3. PayOut(w, h, n, fee) = Receive(mid, h, n - fee)
  BY DEF PayOut
<1> HIDE DEF mid
<1>4. SumFunction(Receive(mid, h, n - fee)) = SumFunction(mid) + (n - fee)
  BY <1>1, <1>2, ReceiveSum
<1> QED
  BY <1>2, <1>3, <1>4, WalletSum

-----------------------------------------------------------------------------
(* Transactions *)

\* What a market and the holders of its underlying have of it.
Underlying(m) == market[m].cash + SumFunction(wallet[m])

\* A step that keeps both sums of every market.
Conserves ==
  \A x \in Markets : /\ Backed(market[x]) => Backed(market'[x])
                     /\ Underlying(x)' = Underlying(x)

\* A transaction that writes one market and the wallets of its underlying.
LEMMA OneMarketConserves ==
  ASSUME WellFormed, NEW m \in Markets, NEW t, NEW w,
         market' = [market EXCEPT ![m] = t],
         wallet' = [wallet EXCEPT ![m] = w],
         Backed(market[m]) => Backed(t),
         t.cash + SumFunction(w) = market[m].cash + SumFunction(wallet[m])
  PROVE  Conserves
<1>1. market \in [Markets -> MarketBooks] /\ wallet \in [Markets -> [Holders -> Nat]]
  BY DEF WellFormed, TypeOK
<1>2. market'[m] = t /\ wallet'[m] = w
  BY <1>1
<1>3. \A x \in Markets \ {m} : market'[x] = market[x] /\ wallet'[x] = wallet[x]
  BY <1>1
<1> QED
  BY <1>2, <1>3 DEF Conserves, Underlying

\* One that moves no underlying.
LEMMA SameWalletConserves ==
  ASSUME WellFormed, NEW m \in Markets, NEW t,
         market' = [market EXCEPT ![m] = t], wallet' = wallet,
         Backed(market[m]) => Backed(t), t.cash = market[m].cash
  PROVE  Conserves
<1>1. market \in [Markets -> MarketBooks]
  BY DEF WellFormed, TypeOK
<1>2. market'[m] = t /\ \A x \in Markets \ {m} : market'[x] = market[x]
  BY <1>1
<1> QED
  BY <1>2 DEF Conserves, Underlying

LEMMA NothingMovedConserves ==
  ASSUME market' = market, wallet' = wallet
  PROVE  Conserves
  BY DEF Conserves, Underlying

\* The books a transaction starts from, once interest is accrued.
LEMMA FreshBooks ==
  ASSUME WellFormed, NEW m \in Markets, CanAccrue(market[m])
  PROVE  /\ BooksInv(Accrued(market[m]), blockNumber)
         /\ Backed(market[m]) => Backed(Accrued(market[m]))
         /\ Accrued(market[m]).cash = market[m].cash
         /\ market[m].cash \in Int
         /\ wallet[m] \in [Holders -> Nat]
         /\ SumFunction(wallet[m]) \in Int
<1>1. BooksInv(market[m], blockNumber) /\ BooksInv(Accrued(market[m]), blockNumber)
  BY WellFormedFacts
<1>2. wallet[m] \in [Holders -> Nat] /\ market[m].cash \in Int
  BY <1>1, WellFormedFacts DEF BooksInv, MarketBooks
<1> QED
  BY <1>1, <1>2, AccruedKeeps, WalletSum DEF Backed

LEMMA AccrueConserves ==
  ASSUME WellFormed, NEW m \in Markets, CanAccrue(market[m]),
         market' = Books(m), wallet' = wallet
  PROVE  Conserves
<1>1. market' = [market EXCEPT ![m] = Accrued(market[m])]
  BY DEF Books
<1> QED
  BY <1>1, FreshBooks, SameWalletConserves

LEMMA MintConserves ==
  ASSUME WellFormed, NEW m \in Markets, NEW a \in Accounts, NEW u \in Accounts,
         NEW n \in Nat, Mint(a, u, m, n)
  PROVE  Conserves
<1> DEFINE t == Accrued(market[m])
           after == MintFresh(t, u, n)
           paid == Pay(wallet[m], a, n)
<1>1. /\ CanAccrue(market[m]) /\ ExchangeRateKnown(t) /\ ExchangeRate(t) > 0
      /\ market' = [market EXCEPT ![m] = after]
      /\ wallet' = [wallet EXCEPT ![m] = paid]
  BY DEF Mint
<1>2. /\ BooksInv(t, blockNumber)
      /\ Backed(market[m]) => Backed(t)
      /\ t.cash = market[m].cash
  BY <1>1, FreshBooks
<1> HIDE DEF t
<1>3. /\ Backed(market[m]) => Backed(after)
      /\ after.cash = t.cash + n
  BY <1>1, <1>2, MintFreshKeeps
<1>4. a \in Holders
  BY DEF Holders
<1>5. SumFunction(paid) = SumFunction(wallet[m]) - n
  BY <1>1, <1>4, FreshBooks, PaySum
<1> HIDE DEF after, paid
<1>6. after.cash + SumFunction(paid) = market[m].cash + SumFunction(wallet[m])
  BY <1>1, <1>2, <1>3, <1>5, FreshBooks
<1> QED
  BY <1>1, <1>3, <1>6, OneMarketConserves

LEMMA RedeemBothConserves ==
  ASSUME WellFormed, NEW m \in Markets, NEW a \in Accounts, NEW n \in Nat,
         NEW amount \in Nat, CanAccrue(market[m]), RedeemBoth(a, m, n, amount)
  PROVE  Conserves
<1> DEFINE t == Accrued(market[m])
           fee == MulTruncate(amount, treasuryPercent)
           after == RedeemFresh(t, a, n, amount)
           paid == PayOut(wallet[m], a, amount, fee)
<1>1. /\ market' = [market EXCEPT ![m] = after]
      /\ wallet' = [wallet EXCEPT ![m] = paid]
  BY DEF RedeemBoth
<1>2. /\ BooksInv(t, blockNumber)
      /\ Backed(market[m]) => Backed(t)
      /\ t.cash = market[m].cash
  BY FreshBooks
<1> HIDE DEF t
<1>3. /\ Backed(market[m]) => Backed(after)
      /\ after.cash = t.cash - amount
  BY <1>2, RedeemFreshKeeps
<1>4. a \in Holders /\ fee \in Nat /\ fee <= amount
  BY WellFormedFacts, MulTruncateNat, FeeWithinAmount
<1> HIDE DEF fee
<1>5. SumFunction(paid) = SumFunction(wallet[m]) + amount
  BY <1>4, FreshBooks, PayOutSum
<1> HIDE DEF after, paid
<1>6. after.cash + SumFunction(paid) = market[m].cash + SumFunction(wallet[m])
  BY <1>2, <1>3, <1>5, FreshBooks
<1> QED
  BY <1>1, <1>3, <1>6, OneMarketConserves

LEMMA RedeemConserves ==
  ASSUME WellFormed, NEW m \in Markets, NEW a \in Accounts, NEW n \in Nat,
         Redeem(a, m, n) \/ RedeemUnderlying(a, m, n)
  PROVE  Conserves
<1> DEFINE t == Accrued(market[m])
<1>1. CanAccrue(market[m]) /\ ExchangeRateKnown(t)
  BY DEF Redeem, RedeemUnderlying
<1>2. t \in MarketBooks
  BY <1>1, WellFormedFacts DEF BooksInv
<1>3. ExchangeRate(t) \in Nat
  BY <1>1, <1>2, ExchangeRateType
<1>4. CASE Redeem(a, m, n)
  <2>1. MulTruncate(ExchangeRate(t), n) \in Nat
    BY <1>3, MulTruncateNat
  <2>2. RedeemBoth(a, m, n, MulTruncate(ExchangeRate(t), n))
    BY <1>4 DEF Redeem
  <2> QED
    BY <1>1, <2>1, <2>2, RedeemBothConserves
<1>5. CASE RedeemUnderlying(a, m, n)
  <2>1. DivScalarByExp(n, ExchangeRate(t)) \in Nat
    BY <1>3, <1>5, DivScalarNat DEF RedeemUnderlying
  <2>2. RedeemBoth(a, m, DivScalarByExp(n, ExchangeRate(t)), n)
    BY <1>5 DEF RedeemUnderlying
  <2> QED
    BY <1>1, <2>1, <2>2, RedeemBothConserves
<1> QED
  BY <1>4, <1>5

LEMMA BorrowConserves ==
  ASSUME WellFormed, NEW m \in Markets, NEW a \in Accounts, NEW n \in Nat, Borrow(a, m, n)
  PROVE  Conserves
<1> DEFINE t == Accrued(market[m])
           after == BorrowFresh(t, a, n)
           paid == Receive(wallet[m], a, n)
<1>1. /\ CanAccrue(market[m])
      /\ market' = [market EXCEPT ![m] = after]
      /\ wallet' = [wallet EXCEPT ![m] = paid]
  BY DEF Borrow
<1>2. /\ BooksInv(t, blockNumber)
      /\ Backed(market[m]) => Backed(t)
      /\ t.cash = market[m].cash
  BY <1>1, FreshBooks
<1> HIDE DEF t
<1>3. /\ Backed(market[m]) => Backed(after)
      /\ after.cash = t.cash - n
  BY <1>2, DebtKeeps DEF Backed
<1>4. SumFunction(paid) = SumFunction(wallet[m]) + n
  BY <1>1, FreshBooks, ReceiveSum DEF Holders
<1> HIDE DEF after, paid
<1>5. after.cash + SumFunction(paid) = market[m].cash + SumFunction(wallet[m])
  BY <1>1, <1>2, <1>3, <1>4, FreshBooks
<1> QED
  BY <1>1, <1>3, <1>5, OneMarketConserves

LEMMA RepayConserves ==
  ASSUME WellFormed, NEW m \in Markets, NEW a \in Accounts, NEW u \in Accounts,
         NEW n \in Nat, Repay(a, u, m, n)
  PROVE  Conserves
<1> DEFINE t == Accrued(market[m])
           after == RepayBorrowFresh(t, u, n)
           paid == Pay(wallet[m], a, n)
<1>1. /\ CanAccrue(market[m])
      /\ market' = [market EXCEPT ![m] = after]
      /\ wallet' = [wallet EXCEPT ![m] = paid]
  BY DEF Repay
<1>2. /\ BooksInv(t, blockNumber)
      /\ Backed(market[m]) => Backed(t)
      /\ t.cash = market[m].cash
  BY <1>1, FreshBooks
<1> HIDE DEF t
<1>3. /\ Backed(market[m]) => Backed(after)
      /\ after.cash = t.cash + n
  BY <1>2, DebtKeeps DEF Backed
<1>4. SumFunction(paid) = SumFunction(wallet[m]) - n
  BY <1>1, FreshBooks, PaySum DEF Holders
<1> HIDE DEF after, paid
<1>5. after.cash + SumFunction(paid) = market[m].cash + SumFunction(wallet[m])
  BY <1>1, <1>2, <1>3, <1>4, FreshBooks
<1> QED
  BY <1>1, <1>3, <1>5, OneMarketConserves

LEMMA RepayAllConserves ==
  ASSUME WellFormed, NEW m \in Markets, NEW a \in Accounts, NEW u \in Accounts,
         RepayAll(a, u, m)
  PROVE  Conserves
<1>1. CanAccrue(market[m])
  BY DEF RepayAll, Repay
<1>2. BorrowBalanceStored(Accrued(market[m]), u) \in Nat
  BY <1>1, WellFormedFacts, BorrowBalanceType
<1> QED
  BY <1>2, RepayConserves DEF RepayAll

LEMMA TransferConserves ==
  ASSUME WellFormed, NEW m \in Markets, NEW a \in Accounts, NEW u \in Accounts,
         NEW n \in Nat, Transfer(a, u, m, n)
  PROVE  Conserves
<1> DEFINE after == MoveTokens(market[m], a, u, n)
<1>1. /\ CanMove(market[m], a, u, n)
      /\ market' = [market EXCEPT ![m] = after]
      /\ wallet' = wallet
  BY DEF Transfer
<1>2. /\ Backed(market[m]) => Backed(after)
      /\ after.cash = market[m].cash
  BY <1>1, WellFormedFacts, MoveTokensKeeps
<1> HIDE DEF after
<1> QED
  BY <1>1, <1>2, SameWalletConserves

\* Gifts and reserves: cash that comes was somebody's.
LEMMA CashConserves ==
  ASSUME WellFormed, NEW m \in Markets, NEW a \in Accounts, NEW n \in Nat,
         Donate(a, m, n) \/ AddReserves(a, m, n)
  PROVE  Conserves
<1>1. /\ BooksInv(market[m], blockNumber) /\ wallet[m] \in [Holders -> Nat]
      /\ a \in Holders
      /\ SumFunction(wallet[m]) \in Int
  BY WellFormedFacts, WalletSum
<1>2. CASE Donate(a, m, n)
  <2> DEFINE after == [market[m] EXCEPT !.cash = @ + n]
             paid == Pay(wallet[m], a, n)
  <2>1. /\ market' = [market EXCEPT ![m] = after]
        /\ wallet' = [wallet EXCEPT ![m] = paid]
    BY <1>2 DEF Donate
  <2>2. /\ Backed(market[m]) => Backed(after)
        /\ after.cash = market[m].cash + n /\ market[m].cash \in Int
    BY <1>1 DEF Backed, BooksInv, MarketBooks
  <2>3. SumFunction(paid) = SumFunction(wallet[m]) - n
    BY <1>1, PaySum
  <2> HIDE DEF after, paid
  <2>4. after.cash + SumFunction(paid) = market[m].cash + SumFunction(wallet[m])
    BY <1>1, <2>2, <2>3
  <2> QED
    BY <2>1, <2>2, <2>4, OneMarketConserves
<1>3. CASE AddReserves(a, m, n)
  <2> DEFINE t == Accrued(market[m])
             after == [t EXCEPT !.cash = @ + n, !.totalReserves = @ + n]
             paid == Pay(wallet[m], a, n)
  <2>1. /\ CanAccrue(market[m])
        /\ market' = [market EXCEPT ![m] = after]
        /\ wallet' = [wallet EXCEPT ![m] = paid]
    BY <1>3 DEF AddReserves
  <2>2. /\ BooksInv(t, blockNumber)
        /\ Backed(market[m]) => Backed(t)
        /\ t.cash = market[m].cash /\ market[m].cash \in Int
    BY <2>1, FreshBooks
  <2> HIDE DEF t
  <2>3. /\ Backed(market[m]) => Backed(after)
        /\ after.cash = t.cash + n
    BY <2>2 DEF Backed, BooksInv, MarketBooks
  <2>4. SumFunction(paid) = SumFunction(wallet[m]) - n
    BY <1>1, PaySum
  <2> HIDE DEF after, paid
  <2>5. after.cash + SumFunction(paid) = market[m].cash + SumFunction(wallet[m])
    BY <1>1, <2>2, <2>3, <2>4
  <2> QED
    BY <2>1, <2>3, <2>5, OneMarketConserves
<1> QED
  BY <1>2, <1>3

LEMMA ReduceConserves ==
  ASSUME WellFormed, NEW m \in Markets, NEW n \in Nat, ReduceReserves(m, n)
  PROVE  Conserves
<1> DEFINE t == Accrued(market[m])
           after == [t EXCEPT !.cash = @ - n, !.totalReserves = @ - n]
           paid == Receive(wallet[m], Admin, n)
<1>1. /\ CanAccrue(market[m])
      /\ market' = [market EXCEPT ![m] = after]
      /\ wallet' = [wallet EXCEPT ![m] = paid]
  BY DEF ReduceReserves
<1>2. /\ BooksInv(t, blockNumber)
      /\ Backed(market[m]) => Backed(t)
      /\ t.cash = market[m].cash /\ market[m].cash \in Int
  BY <1>1, FreshBooks
<1> HIDE DEF t
<1>3. /\ Backed(market[m]) => Backed(after)
      /\ after.cash = t.cash - n
  BY <1>2 DEF Backed, BooksInv, MarketBooks
<1>4. SumFunction(paid) = SumFunction(wallet[m]) + n
  BY <1>1, FreshBooks, ReceiveSum DEF Holders
<1> HIDE DEF after, paid
<1>5. after.cash + SumFunction(paid) = market[m].cash + SumFunction(wallet[m])
  BY <1>1, <1>2, <1>3, <1>4, FreshBooks
<1> QED
  BY <1>1, <1>3, <1>5, OneMarketConserves

LEMMA TermsConserves ==
  ASSUME WellFormed, NEW m \in Markets, NEW f, NEW model,
         SetReserveFactor(m, f) \/ SetInterestRateModel(m, model)
  PROVE  Conserves
<1> DEFINE t == Accrued(market[m])
<1>1. CanAccrue(market[m]) /\ wallet' = wallet
  BY DEF SetReserveFactor, SetInterestRateModel
<1>2. PICK after : /\ after \in {[t EXCEPT !.reserveFactor = f], [t EXCEPT !.rateModel = model]}
                   /\ market' = [market EXCEPT ![m] = after]
  BY DEF SetReserveFactor, SetInterestRateModel
<1>3. /\ BooksInv(t, blockNumber)
      /\ Backed(market[m]) => Backed(t)
      /\ t.cash = market[m].cash
  BY <1>1, FreshBooks
<1> HIDE DEF t
<1>4. /\ Backed(market[m]) => Backed(after)
      /\ after.cash = market[m].cash
  BY <1>2, <1>3 DEF Backed, BooksInv, MarketBooks
<1> QED
  BY <1>1, <1>2, <1>4, SameWalletConserves

\* A liquidation moves underlying in the borrowed market and brTokens in the
\* collateral's, which may be the same: then on the books the repayment left.
LEMMA LiquidateConserves ==
  ASSUME WellFormed, NEW m \in Markets, NEW c \in Markets, NEW a \in Accounts,
         NEW u \in Accounts, NEW n \in Nat, LiquidateBorrow(a, u, m, c, n)
  PROVE  Conserves
<1> DEFINE fresh  == [market EXCEPT ![m] = Accrued(market[m]), ![c] = Accrued(market[c])]
           repaid == [fresh EXCEPT ![m] = RepayBorrowFresh(fresh[m], u, n)]
           seized == SeizeTokens(repaid, m, c, n)
           after  == MoveTokens(repaid[c], u, a, seized)
           paid   == Pay(wallet[m], a, n)
           plus(x) == IF x = m THEN n ELSE 0
<1>1. /\ CanAccrue(market[m]) /\ CanAccrue(market[c])
      /\ CanRepay(fresh[m], u, n)
      /\ SeizeKnown(repaid, m, c) /\ CanMove(repaid[c], u, a, seized)
      /\ market' = [repaid EXCEPT ![c] = after]
      /\ wallet' = [wallet EXCEPT ![m] = paid]
  BY DEF LiquidateBorrow
<1>2. /\ market \in [Markets -> MarketBooks] /\ wallet \in [Markets -> [Holders -> Nat]]
      /\ \A x \in Markets : BooksInv(market[x], blockNumber) /\ market[x].cash \in Int
  <2>1. \A x \in Markets : BooksInv(market[x], blockNumber)
    BY WellFormedFacts
  <2>2. \A x \in Markets : market[x].cash \in Int
    BY <2>1 DEF BooksInv, MarketBooks
  <2> QED
    BY <2>1, <2>2 DEF WellFormed, TypeOK
<1>3. \A x \in {m, c} : /\ BooksInv(Accrued(market[x]), blockNumber)
                        /\ Backed(market[x]) => Backed(Accrued(market[x]))
                        /\ Accrued(market[x]).cash = market[x].cash
  BY <1>1, FreshBooks
<1>4. /\ DOMAIN fresh = Markets
      /\ \A x \in Markets : /\ BooksInv(fresh[x], blockNumber)
                            /\ Backed(market[x]) => Backed(fresh[x])
                            /\ fresh[x].cash = market[x].cash
  BY <1>2, <1>3
<1> HIDE DEF fresh
<1>5. /\ BooksInv(RepayBorrowFresh(fresh[m], u, n), blockNumber)
      /\ Backed(fresh[m]) => Backed(RepayBorrowFresh(fresh[m], u, n))
      /\ RepayBorrowFresh(fresh[m], u, n).cash = fresh[m].cash + n
  BY <1>1, <1>4, RepayFreshInv, DebtKeeps DEF Backed
<1>6. /\ DOMAIN repaid = Markets
      /\ \A x \in Markets : /\ BooksInv(repaid[x], blockNumber)
                            /\ Backed(market[x]) => Backed(repaid[x])
                            /\ repaid[x].cash = market[x].cash + plus(x)
  BY <1>2, <1>4, <1>5
<1> HIDE DEF repaid
<1>7. seized \in Nat
  BY <1>1, <1>6, SeizeTokensNat
<1> HIDE DEF seized
<1>8. /\ Backed(repaid[c]) => Backed(after)
      /\ after.cash = repaid[c].cash
  BY <1>1, <1>6, <1>7, MoveTokensKeeps
<1> HIDE DEF after
<1>9. \A x \in Markets : /\ Backed(market[x]) => Backed(market'[x])
                         /\ market'[x].cash = market[x].cash + plus(x)
  BY <1>1, <1>6, <1>8
<1>10. SumFunction(paid) = SumFunction(wallet[m]) - n
  BY <1>2, PaySum DEF Holders
<1>11. SumFunction(wallet[m]) \in Int
  BY <1>2, WalletSum
<1> HIDE DEF paid
<1>12. wallet'[m] = paid /\ \A x \in Markets \ {m} : wallet'[x] = wallet[x]
  BY <1>1, <1>2
<1>13. \A x \in Markets :
         market'[x].cash + SumFunction(wallet'[x]) = market[x].cash + SumFunction(wallet[x])
  <2> TAKE x \in Markets
  <2>1. CASE x = m
    BY <1>2, <1>9, <1>10, <1>11, <1>12, <2>1
  <2>2. CASE x # m
    BY <1>2, <1>9, <1>12, <2>2
  <2> QED
    BY <2>1, <2>2
<1> QED
  BY <1>9, <1>13 DEF Conserves, Underlying

\* No operation of a user loses a token or a unit of underlying.
LEMMA UserActionConserves ==
  ASSUME WellFormed, NEW m \in Markets, UserAction(m)
  PROVE  Conserves
<1> USE InputsNat
<1>1. CASE AccrueInterest(m)
  BY <1>1, AccrueConserves DEF AccrueInterest
<1>2. ASSUME NEW a \in Accounts, EnterMarket(a, m) \/ ExitMarket(a, m)
      PROVE  Conserves
  BY <1>2, NothingMovedConserves DEF EnterMarket, ExitMarket, tokenVars
<1>3. ASSUME NEW a \in Accounts, NEW u \in Accounts, RepayAll(a, u, m)
      PROVE  Conserves
  BY <1>3, RepayAllConserves
<1>4. ASSUME NEW a \in Accounts, NEW n \in GiftAmounts, Donate(a, m, n) \/ AddReserves(a, m, n)
      PROVE  Conserves
  BY <1>4, CashConserves
<1>5. ASSUME NEW a \in Accounts, NEW n \in Amounts, Redeem(a, m, n) \/ RedeemUnderlying(a, m, n)
      PROVE  Conserves
  BY <1>5, RedeemConserves
<1>6. ASSUME NEW a \in Accounts, NEW n \in Amounts, Borrow(a, m, n)
      PROVE  Conserves
  BY <1>6, BorrowConserves
<1>7. ASSUME NEW a \in Accounts, NEW n \in Amounts, BorrowRejected(a, m, n)
      PROVE  Conserves
  BY <1>7, AccrueConserves DEF BorrowRejected
<1>8. ASSUME NEW a \in Accounts, NEW u \in Accounts, NEW n \in Amounts, Mint(a, u, m, n)
      PROVE  Conserves
  BY <1>8, MintConserves
<1>9. ASSUME NEW a \in Accounts, NEW u \in Accounts, NEW n \in Amounts, Repay(a, u, m, n)
      PROVE  Conserves
  BY <1>9, RepayConserves
<1>10. ASSUME NEW a \in Accounts, NEW u \in Accounts, NEW n \in Amounts, Transfer(a, u, m, n)
       PROVE  Conserves
  BY <1>10, TransferConserves
<1>11. ASSUME NEW a \in Accounts, NEW u \in Accounts, NEW n \in Amounts, NEW c \in Markets,
              LiquidateBorrow(a, u, m, c, n)
       PROVE  Conserves
  BY <1>11, LiquidateConserves
<1> QED
  BY <1>1, <1>2, <1>3, <1>4, <1>5, <1>6, <1>7, <1>8, <1>9, <1>10, <1>11
  DEF UserAction

\* Nor does the admin, time or a price.
LEMMA AdminActionConserves ==
  ASSUME WellFormed, AdminAction
  PROVE  Conserves
<1> USE InputsNat
<1>1. ASSUME \/ \E f \in CloseFactors : SetCloseFactor(f)
             \/ \E i \in Incentives : SetLiquidationIncentive(i)
             \/ \E p \in TreasuryPercents : SetTreasuryPercent(p)
             \/ \E flags \in PauseStates : SetPaused(flags)
             \/ \E m \in Markets : SupportMarket(m)
             \/ \E m \in Markets, f \in CollateralFactors : SetCollateralFactor(m, f)
             \/ \E m \in Markets, c \in BorrowCaps : SetMarketBorrowCap(m, c)
      PROVE  Conserves
  <2>1. UNCHANGED tokenVars
    BY <1>1 DEF SetCloseFactor, SetLiquidationIncentive, SetTreasuryPercent, SetPaused,
                SupportMarket, SetCollateralFactor, SetMarketBorrowCap
  <2> QED
    BY <2>1, NothingMovedConserves DEF tokenVars
<1>2. ASSUME NEW m \in Markets,
             \/ \E f \in ReserveFactors : SetReserveFactor(m, f)
             \/ \E model \in RateModels : SetInterestRateModel(m, model)
      PROVE  Conserves
  BY <1>2, TermsConserves
<1>3. ASSUME NEW m \in Markets, NEW n \in GiftAmounts, ReduceReserves(m, n)
      PROVE  Conserves
  BY <1>3, ReduceConserves
<1> QED
  BY <1>1, <1>2, <1>3 DEF AdminAction

LEMMA NextConserves == WellFormed /\ [Next]_vars => Conserves
<1> SUFFICES ASSUME WellFormed, [Next]_vars
             PROVE  Conserves
  OBVIOUS
<1>1. ASSUME \/ AdvanceBlock
             \/ \E c \in PriceChanges : SetUnderlyingPrice(c[1], c[2])
             \/ UNCHANGED vars
      PROVE  Conserves
  BY <1>1, NothingMovedConserves DEF AdvanceBlock, SetUnderlyingPrice, vars, tokenVars
<1> QED
  BY <1>1, UserActionConserves, AdminActionConserves DEF Next

\* At the start no market has issued anything, and the users have all there is.
LEMMA InitConserves == Init => SupplyMatchesBalances /\ UnderlyingConserved
<1> SUFFICES ASSUME Init, NEW m \in Markets
             PROVE  Backed(market[m]) /\ Underlying(m) = SumFunction(InitialWallet[m])
  BY DEF SupplyMatchesBalances, UnderlyingConserved, Backed, Underlying
<1>1. PICK model \in RateModels : market[m] = NewMarket(model)
  BY DEF Init, TokenInit
<1>2. Backed(market[m])
  BY <1>1, AccountsFinite, SumFunctionZero DEF NewMarket, Backed
<1> DEFINE S1 == Accounts \cup {Admin}
           S2 == S1 \cup {TreasuryAddress}
           start == InitialWallet[m]
           w1 == [h \in S1 |-> IF h \in Accounts THEN start[h] ELSE 0]
           w2 == [h \in S2 |-> IF h \in Accounts THEN start[h] ELSE 0]
<1>3. wallet[m] = w2 /\ market[m].cash = 0
  <2>1. Holders = S2
    BY DEF Holders
  <2> QED
    BY <1>1, <2>1 DEF Init, TokenInit, NewMarket
<1>4. start \in [Accounts -> Nat]
  BY BRTokenAssumption
<1>5. /\ start \in [Accounts -> Int] /\ w1 \in [S1 -> Int]
      /\ w1[Admin] = 0 /\ \A h \in Accounts : w1[h] = start[h]
  BY <1>4, AddressesDistinct
<1>6. /\ w2 \in [S2 -> Int]
      /\ w2[TreasuryAddress] = 0 /\ \A h \in S1 : w2[h] = w1[h]
  BY <1>4, AddressesDistinct
<1>7. /\ IsFiniteSet(S1) /\ Admin \notin Accounts /\ TreasuryAddress \notin S1
  BY AccountsFinite, AddressesDistinct, FS_AddElement
<1>8. SumFunction(start) \in Int
  BY <1>5, AccountsFinite, SumFunctionInt
<1> HIDE DEF w1, w2, start
<1>9. SumFunction(w1) = 0 + SumFunction(start)
  <2>1. SumFunction(w1) = w1[Admin] + SumFunction(start)
    BY <1>5, <1>7, AccountsFinite, SumFunctionInsert
  <2> QED
    BY <1>5, <2>1
<1> HIDE DEF S1
<1>10. SumFunction(w2) = 0 + SumFunction(w1)
  <2>1. SumFunction(w2) = w2[TreasuryAddress] + SumFunction(w1)
    <3>1. /\ w1 \in [S1 -> Int] /\ w2 \in [S1 \cup {TreasuryAddress} -> Int]
          /\ \A h \in S1 : w2[h] = w1[h]
          /\ IsFiniteSet(S1) /\ TreasuryAddress \notin S1
      BY <1>5, <1>6, <1>7
    <3> HIDE DEF S2
    <3> QED
      BY <3>1, SumFunctionInsert
  <2> QED
    BY <1>6, <2>1
<1>11. Underlying(m) = SumFunction(start)
  BY <1>3, <1>8, <1>9, <1>10 DEF Underlying
<1> QED
  BY <1>2, <1>11 DEF start

LEMMA ConservesKeeps ==
  ASSUME Conserves, SupplyMatchesBalances, UnderlyingConserved
  PROVE  SupplyMatchesBalances' /\ UnderlyingConserved'
  BY DEF Conserves, SupplyMatchesBalances, UnderlyingConserved, Backed, Underlying

-----------------------------------------------------------------------------
(* The pause *)

\* Nobody's tokens or debt change.
Frozen ==
  \A m \in Markets : /\ market'[m].tokens = market[m].tokens
                     /\ market'[m].principal = market[m].principal

\* What writes one market's books once it has accrued, and neither side of it.
LEMMA OneMarketFrozen ==
  ASSUME WellFormed, NEW m \in Markets, NEW t,
         market' = [market EXCEPT ![m] = t],
         t.tokens = market[m].tokens, t.principal = market[m].principal
  PROVE  Frozen
  BY DEF WellFormed, TypeOK, Frozen

LEMMA BooksFrozen ==
  ASSUME WellFormed, NEW m \in Markets, market' = Books(m)
  PROVE  Frozen
<1>1. BooksInv(market[m], blockNumber)
  BY WellFormedFacts
<1> QED
  BY <1>1, AccruedKeeps, OneMarketFrozen DEF Books

\* The hook of every operation that writes tokens or debts reads the flag first.
LEMMA PausedStepsFreeze ==
  WellFormed /\ [Next]_vars => (paused.protocol => Frozen)
<1> SUFFICES ASSUME WellFormed, [Next]_vars, paused.protocol
             PROVE  Frozen
  OBVIOUS
<1>1. ASSUME market' = market
      PROVE  Frozen
  BY <1>1 DEF Frozen
<1>2. ASSUME NEW m \in Markets, UserAction(m)
      PROVE  Frozen
  <2>1. \/ AccrueInterest(m)
        \/ \E a \in Accounts : EnterMarket(a, m) \/ ExitMarket(a, m)
        \/ \E a \in Accounts, n \in GiftAmounts : Donate(a, m, n) \/ AddReserves(a, m, n)
    BY <1>2 DEF UserAction, Redeem, RedeemUnderlying, RedeemBoth, RedeemAllowed, Borrow,
                BorrowRejected, BorrowOpen, Mint, MintAllowed, RepayAll, Repay,
                RepayBorrowAllowed, Transfer, TransferAllowed, LiquidateBorrow,
                LiquidateBorrowAllowed
  <2>2. CASE AccrueInterest(m)
    BY <2>2, BooksFrozen DEF AccrueInterest
  <2>3. ASSUME NEW a \in Accounts, EnterMarket(a, m) \/ ExitMarket(a, m)
        PROVE  Frozen
    BY <1>1, <2>3 DEF EnterMarket, ExitMarket, tokenVars
  <2>4. ASSUME NEW a \in Accounts, NEW n \in GiftAmounts, Donate(a, m, n)
        PROVE  Frozen
    <3> DEFINE after == [market[m] EXCEPT !.cash = @ + n]
    <3>1. market' = [market EXCEPT ![m] = after]
      BY <2>4 DEF Donate
    <3>2. market[m] \in MarketBooks
      BY DEF WellFormed, TypeOK
    <3>3. after.tokens = market[m].tokens /\ after.principal = market[m].principal
      BY <3>2 DEF MarketBooks
    <3> HIDE DEF after
    <3> QED
      BY <3>1, <3>3, OneMarketFrozen
  <2>5. ASSUME NEW a \in Accounts, NEW n \in GiftAmounts, AddReserves(a, m, n)
        PROVE  Frozen
    <3> DEFINE t == Accrued(market[m])
               after == [t EXCEPT !.cash = @ + n, !.totalReserves = @ + n]
    <3>1. CanAccrue(market[m]) /\ market' = [market EXCEPT ![m] = after]
      BY <2>5 DEF AddReserves
    <3>2. BooksInv(market[m], blockNumber) /\ BooksInv(t, blockNumber)
      BY <3>1, WellFormedFacts
    <3>3. t.tokens = market[m].tokens /\ t.principal = market[m].principal
      BY <3>2, AccruedKeeps
    <3> HIDE DEF t
    <3>4. after.tokens = t.tokens /\ after.principal = t.principal
      BY <3>2 DEF BooksInv, MarketBooks
    <3> HIDE DEF after
    <3> QED
      BY <3>1, <3>3, <3>4, OneMarketFrozen
  <2> QED
    BY <2>1, <2>2, <2>3, <2>4, <2>5
<1>3. ASSUME NEW m \in Markets,
             \/ \E f \in ReserveFactors : SetReserveFactor(m, f)
             \/ \E model \in RateModels : SetInterestRateModel(m, model)
             \/ \E n \in GiftAmounts : ReduceReserves(m, n)
      PROVE  Frozen
  <2> DEFINE t == Accrued(market[m])
  <2>1. CanAccrue(market[m])
    BY <1>3 DEF SetReserveFactor, SetInterestRateModel, ReduceReserves
  <2>2. PICK f, model, n, after :
          /\ after \in {[t EXCEPT !.reserveFactor = f], [t EXCEPT !.rateModel = model],
                        [t EXCEPT !.cash = @ - n, !.totalReserves = @ - n]}
          /\ market' = [market EXCEPT ![m] = after]
    BY <1>3 DEF SetReserveFactor, SetInterestRateModel, ReduceReserves
  <2>3. BooksInv(market[m], blockNumber) /\ BooksInv(t, blockNumber)
    BY <2>1, WellFormedFacts
  <2>4. t.tokens = market[m].tokens /\ t.principal = market[m].principal
    BY <2>3, AccruedKeeps
  <2> HIDE DEF t
  <2>5. after.tokens = t.tokens /\ after.principal = t.principal
    BY <2>2, <2>3 DEF BooksInv, MarketBooks
  <2> QED
    BY <2>2, <2>4, <2>5, OneMarketFrozen
<1>4. CASE AdminAction
  <2>1. \/ market' = market
        \/ \E m \in Markets :
             \/ \E f \in ReserveFactors : SetReserveFactor(m, f)
             \/ \E model \in RateModels : SetInterestRateModel(m, model)
             \/ \E n \in GiftAmounts : ReduceReserves(m, n)
    BY <1>4 DEF AdminAction, SetCloseFactor, SetLiquidationIncentive, SetTreasuryPercent,
                SetPaused, SupportMarket, SetCollateralFactor, SetMarketBorrowCap, tokenVars
  <2> QED
    BY <1>1, <1>3, <2>1
<1>5. CASE \/ AdvanceBlock
           \/ \E c \in PriceChanges : SetUnderlyingPrice(c[1], c[2])
           \/ UNCHANGED vars
  BY <1>1, <1>5 DEF AdvanceBlock, SetUnderlyingPrice, vars, tokenVars
<1> QED
  BY <1>2, <1>4, <1>5 DEF Next

-----------------------------------------------------------------------------
(* The suppliers' share *)

\* What the brTokens of a market stand for.
Backing(t) == t.cash + t.totalBorrows - t.totalReserves

\* What a step may do to a market's exchange rate.
KeepsShare(old, new) ==
  old.totalSupply > 0 /\ ExchangeRateKnown(old) /\ new.totalSupply > 0 =>
    /\ new.totalSupply >= old.totalSupply => ExchangeRate(new) >= ExchangeRate(old)
    /\ Backing(new) * ExpScale >= ExchangeRate(old) * (new.totalSupply - 1)

\* Reserves of more than all of the interest would take from the suppliers:
\* _setReserveFactor refuses them.
ShareStep(old, new) ==
  old.reserveFactor <= ExpScale => new.reserveFactor <= ExpScale /\ KeepsShare(old, new)

\* What truncated division gives, and what it leaves.
LEMMA DivBounds ==
  ASSUME NEW x \in Nat, NEW d \in Nat, d > 0
  PROVE  /\ x \div d \in Nat
         /\ d * (x \div d) <= x
         /\ x < d * ((x \div d) + 1)
<1> DEFINE q == x \div d
<1>1. q \in Nat /\ x = d * q + (x % d) /\ 0 <= x % d /\ x % d < d
  BY SMT
<1> HIDE DEF q
<1>2. d * (q + 1) = d * q + d
  BY <1>1, SMT
<1> QED
  BY <1>1, <1>2, TimesNat DEF q

\* A number that holds q times d is q when divided by d, or more.
LEMMA DivAtLeast ==
  ASSUME NEW x \in Nat, NEW d \in Nat, d > 0, NEW q \in Nat, x >= q * d
  PROVE  x \div d >= q
<1> DEFINE p == x \div d
<1>1. p \in Nat /\ x < d * (p + 1)
  BY DivBounds
<1> HIDE DEF p
<1>2. ASSUME p < q
      PROVE  FALSE
  <2>1. p + 1 <= q /\ p + 1 \in Nat
    BY <1>1, <1>2
  <2>2. d * (p + 1) <= d * q
    BY <2>1, SMT
  <2>3. d * q = q * d
    BY SMT
  <2> QED
    BY <1>1, <2>1, <2>2, <2>3, TimesNat
<1> QED
  BY <1>1, <1>2 DEF p

LEMMA TimesMonotone ==
  ASSUME NEW x \in Int, NEW y \in Int, NEW k \in Nat, x <= y
  PROVE  x * k <= y * k
  BY SMT

\* The numbers of a market's books.
LEMMA BackingInt ==
  ASSUME NEW t \in MarketBooks
  PROVE  /\ Backing(t) \in Int
         /\ t.cash \in Nat /\ t.totalBorrows \in Nat /\ t.totalReserves \in Nat
         /\ t.totalSupply \in Nat /\ t.reserveFactor \in Nat
         /\ t.totalSupply > 0 /\ ExchangeRateKnown(t) => Backing(t) \in Nat
  BY DEF MarketBooks, Backing, ExchangeRateKnown

\* A rate is truncated: the brTokens at that rate are worth no more than what
\* they stand for.
LEMMA RateBacked ==
  ASSUME NEW t \in MarketBooks, t.totalSupply > 0, ExchangeRateKnown(t)
  PROVE  /\ ExchangeRate(t) \in Nat
         /\ ExchangeRate(t) * t.totalSupply <= Backing(t) * ExpScale
<1> DEFINE x == Backing(t) * ExpScale
           d == t.totalSupply
<1>1. x \in Nat /\ d \in Nat /\ d > 0
  BY BackingInt, TimesNat, ExpScaleAssumption
<1>2. ExchangeRate(t) = x \div d
  BY DEF ExchangeRate, GetExp, Backing
<1> HIDE DEF x, d
<1>3. x \div d \in Nat /\ d * (x \div d) <= x
  BY <1>1, DivBounds
<1>4. (x \div d) * d = d * (x \div d)
  BY <1>1, <1>3, SMT
<1> QED
  BY <1>2, <1>3, <1>4 DEF x, d

\* The books keep the suppliers' share if what stands behind the brTokens is
\* still worth the old rate for each of them.
LEMMA BackedAtRateKeeps ==
  ASSUME NEW old \in MarketBooks, NEW new \in MarketBooks,
         old.totalSupply > 0, ExchangeRateKnown(old), new.totalSupply > 0,
         ExchangeRate(old) * new.totalSupply <= Backing(new) * ExpScale
  PROVE  KeepsShare(old, new)
<1> DEFINE r == ExchangeRate(old)
           d == new.totalSupply
           b == Backing(new)
           x == b * ExpScale
<1>1. r \in Nat /\ d \in Nat /\ d > 0 /\ b \in Int /\ x \in Int /\ r * d <= x
  <2>1. r \in Nat /\ d \in Nat /\ d > 0 /\ b \in Int /\ r * d <= x
    BY RateBacked, BackingInt
  <2> HIDE DEF b
  <2>2. x \in Int
    BY <2>1, ExpScaleAssumption
  <2> QED
    BY <2>1, <2>2
<1>2. x \in Nat
  BY <1>1, TimesNat
<1>3. ExchangeRate(new) = x \div d
  BY DEF ExchangeRate, GetExp, Backing
<1>4. d - 1 \in Nat /\ r * (d - 1) <= r * d
  BY <1>1, SMT
<1> HIDE DEF r, d, x, b
<1>5. x \div d >= r
  BY <1>1, <1>2, DivAtLeast
<1>6. r * (d - 1) <= x
  BY <1>1, <1>2, <1>4, TimesNat
<1> QED
  BY <1>3, <1>5, <1>6 DEF KeepsShare, r, d, x, b

\* No operation that leaves the supply alone takes anything from behind it.
LEMMA SameSupplyKeeps ==
  ASSUME NEW old \in MarketBooks, NEW new \in MarketBooks,
         new.totalSupply = old.totalSupply, Backing(new) >= Backing(old)
  PROVE  KeepsShare(old, new)
<1> SUFFICES ASSUME old.totalSupply > 0, ExchangeRateKnown(old)
             PROVE  KeepsShare(old, new)
  BY DEF KeepsShare
<1>1. Backing(old) \in Int /\ Backing(new) \in Int /\ ExpScale \in Nat
  BY BackingInt, ExpScaleAssumption
<1>2. Backing(old) * ExpScale <= Backing(new) * ExpScale
  BY <1>1, TimesMonotone
<1>3. /\ ExchangeRate(old) \in Nat /\ old.totalSupply \in Nat
      /\ ExchangeRate(old) * old.totalSupply <= Backing(old) * ExpScale
  BY RateBacked, BackingInt
<1>4. Backing(old) * ExpScale \in Int /\ Backing(new) * ExpScale \in Int
  BY <1>1
<1>5. ExchangeRate(old) * old.totalSupply \in Int
  BY <1>3
<1>6. ExchangeRate(old) * new.totalSupply <= Backing(new) * ExpScale
  BY <1>2, <1>3, <1>4, <1>5
<1> QED
  BY <1>6, BackedAtRateKeeps

\* accrueInterest adds to the borrows at least what it adds to the reserves.
LEMMA AccruedBacking ==
  ASSUME NEW t, BooksInv(t, blockNumber), CanAccrue(t), blockNumber \in Nat,
         t.reserveFactor <= ExpScale
  PROVE  /\ Backing(Accrued(t)) >= Backing(t)
         /\ Accrued(t).totalSupply = t.totalSupply
         /\ Accrued(t).reserveFactor = t.reserveFactor
<1>1. CASE t.accrualBlock = blockNumber
  <2>1. Backing(t) \in Int
    BY BackingInt DEF BooksInv
  <2> QED
    BY <1>1, <2>1 DEF Accrued
<1>2. CASE t.accrualBlock # blockNumber
  <2> DEFINE factor   == BorrowRate(t) * (blockNumber - t.accrualBlock)
             interest == MulTruncate(factor, t.totalBorrows)
             kept     == MulTruncate(t.reserveFactor, interest)
  <2>1. t \in MarketBooks /\ t.accrualBlock \in Nat
    BY DEF BooksInv, MarketBooks
  <2>2. BorrowRate(t) \in Nat
    BY <1>2, <2>1, BorrowRateType DEF CanAccrue
  <2>3. blockNumber - t.accrualBlock \in Nat
    BY <2>1 DEF BooksInv
  <2>4. interest \in Nat /\ t.reserveFactor \in Nat
    BY <2>1, <2>2, <2>3, TimesNat, MulTruncateNat, BackingInt
  <2>5. /\ Accrued(t).cash = t.cash
        /\ Accrued(t).totalBorrows = t.totalBorrows + interest
        /\ Accrued(t).totalReserves = t.totalReserves + kept
        /\ Accrued(t).totalSupply = t.totalSupply
        /\ Accrued(t).reserveFactor = t.reserveFactor
    BY <1>2, <2>1 DEF Accrued, MarketBooks
  <2> HIDE DEF factor, interest
  <2>6. kept \in Nat
    BY <2>4, MulTruncateNat
  <2>7. kept <= interest
    <3>1. MulTruncate(interest, t.reserveFactor) <= interest
      BY <2>4, FeeWithinAmount
    <3>2. t.reserveFactor * interest = interest * t.reserveFactor
      BY <2>4, SMT
    <3> QED
      BY <3>1, <3>2 DEF MulTruncate
  <2> HIDE DEF kept
  <2> QED
    BY <2>1, <2>4, <2>5, <2>6, <2>7, BackingInt DEF Backing
<1> QED
  BY <1>1, <1>2

\* What an operation does to the books it has accrued, it does to the books the
\* transaction found.
LEMMA KeepsAfterAccrual ==
  ASSUME NEW old \in MarketBooks, NEW t \in MarketBooks, NEW new \in MarketBooks,
         t.totalSupply = old.totalSupply, Backing(t) >= Backing(old),
         KeepsShare(t, new)
  PROVE  KeepsShare(old, new)
<1> SUFFICES ASSUME old.totalSupply > 0, ExchangeRateKnown(old), new.totalSupply > 0
             PROVE  /\ new.totalSupply >= old.totalSupply => ExchangeRate(new) >= ExchangeRate(old)
                    /\ Backing(new) * ExpScale >= ExchangeRate(old) * (new.totalSupply - 1)
  BY DEF KeepsShare
<1>1. ExchangeRateKnown(t) /\ t.totalSupply > 0
  BY BackingInt DEF ExchangeRateKnown, Backing
<1>2. ExchangeRate(t) >= ExchangeRate(old)
  BY <1>1, SameSupplyKeeps, BackingInt DEF KeepsShare
<1>3. /\ ExchangeRate(t) \in Nat /\ ExchangeRate(old) \in Nat
      /\ new.totalSupply - 1 \in Nat
  BY <1>1, RateBacked, BackingInt
<1>4. /\ ExchangeRate(old) * (new.totalSupply - 1) <= ExchangeRate(t) * (new.totalSupply - 1)
      /\ ExchangeRate(old) * (new.totalSupply - 1) \in Int
      /\ ExchangeRate(t) * (new.totalSupply - 1) \in Int
  BY <1>2, <1>3, TimesMonotone, TimesNat
<1>5. Backing(new) * ExpScale \in Int
  BY BackingInt, ExpScaleAssumption
<1>6. Backing(new) * ExpScale >= ExchangeRate(t) * (new.totalSupply - 1)
  BY <1>1 DEF KeepsShare
<1>7. ASSUME new.totalSupply >= old.totalSupply
      PROVE  ExchangeRate(new) >= ExchangeRate(t) /\ ExchangeRate(new) \in Int
  <2>1. ExchangeRate(new) >= ExchangeRate(t)
    BY <1>1, <1>7 DEF KeepsShare
  <2>2. ExchangeRate(new) = (Backing(new) * ExpScale) \div new.totalSupply
    BY DEF ExchangeRate, GetExp, Backing
  <2>3. new.totalSupply \in Nat
    BY BackingInt
  <2>4. (Backing(new) * ExpScale) \div new.totalSupply \in Int
    BY <1>5, <2>3, SMT
  <2> QED
    BY <2>1, <2>2, <2>4
<1> QED
  BY <1>2, <1>3, <1>4, <1>5, <1>6, <1>7

\* mintFresh issues no more brTokens than the deposit is worth.
LEMMA MintShare ==
  ASSUME NEW t, BooksInv(t, blockNumber), NEW u \in Accounts, NEW n \in Nat,
         ExchangeRateKnown(t), ExchangeRate(t) > 0
  PROVE  /\ KeepsShare(t, MintFresh(t, u, n))
         /\ MintFresh(t, u, n).reserveFactor = t.reserveFactor
<1> DEFINE r == ExchangeRate(t)
           minted == DivScalarByExp(n, r)
           new == MintFresh(t, u, n)
<1>1. t \in MarketBooks /\ new \in MarketBooks
  BY MintFreshInv DEF BooksInv
<1>2. /\ new.totalSupply = t.totalSupply + minted
      /\ new.cash = t.cash + n
      /\ new.totalBorrows = t.totalBorrows /\ new.totalReserves = t.totalReserves
      /\ new.reserveFactor = t.reserveFactor
  BY <1>1 DEF MintFresh, MarketBooks
<1>3. /\ r \in Nat /\ r > 0
      /\ t.totalSupply \in Nat /\ Backing(t) \in Int /\ ExpScale \in Nat
  BY <1>1, ExchangeRateType, BackingInt, ExpScaleAssumption
<1>4. minted \in Nat /\ r * minted <= n * ExpScale
  BY <1>3, TimesNat, DivBounds DEF DivScalarByExp
<1>5. Backing(new) = Backing(t) + n
  BY <1>1, <1>2, BackingInt DEF Backing
<1>6. ASSUME t.totalSupply > 0
      PROVE  KeepsShare(t, new)
  <2>1. r * t.totalSupply <= Backing(t) * ExpScale
    BY <1>1, <1>6, RateBacked
  <2> HIDE DEF r, minted, new
  <2>2. r * (t.totalSupply + minted) = r * t.totalSupply + r * minted
    BY <1>3, <1>4, SMT
  <2>3. (Backing(t) + n) * ExpScale = Backing(t) * ExpScale + n * ExpScale
    BY <1>3, SMT
  <2>4. /\ r * t.totalSupply \in Int /\ r * minted \in Int
        /\ Backing(t) * ExpScale \in Int /\ n * ExpScale \in Int
    BY <1>3, <1>4
  <2>5. r * new.totalSupply <= Backing(new) * ExpScale
    BY <1>2, <1>4, <1>5, <2>1, <2>2, <2>3, <2>4
  <2>6. new.totalSupply > 0
    BY <1>2, <1>3, <1>4, <1>6
  <2> QED
    BY <1>1, <1>6, <2>5, <2>6, BackedAtRateKeeps DEF r
<1> QED
  BY <1>1, <1>2, <1>3, <1>6 DEF KeepsShare

\* redeemFresh pays out at most what one brToken more than it burns is worth,
\* and nothing if it burns none (redeemVerify).
LEMMA RedeemShare ==
  ASSUME NEW t, BooksInv(t, blockNumber), NEW u \in Accounts, NEW n \in Nat, NEW amount \in Nat,
         CanRedeem(t, u, n, amount), ExchangeRateKnown(t),
         amount * ExpScale <= ExchangeRate(t) * (n + 1), n # 0 \/ amount = 0
  PROVE  /\ KeepsShare(t, RedeemFresh(t, u, n, amount))
         /\ RedeemFresh(t, u, n, amount).reserveFactor = t.reserveFactor
<1> DEFINE r == ExchangeRate(t)
           new == RedeemFresh(t, u, n, amount)
<1>1. t \in MarketBooks /\ new \in MarketBooks
  BY RedeemFreshInv DEF BooksInv
<1>2. /\ new.totalSupply = t.totalSupply - n
      /\ new.cash = t.cash - amount
      /\ new.totalBorrows = t.totalBorrows /\ new.totalReserves = t.totalReserves
      /\ new.reserveFactor = t.reserveFactor
  BY <1>1 DEF RedeemFresh, MarketBooks
<1>3. /\ r \in Nat
      /\ t.totalSupply \in Nat /\ Backing(t) \in Int /\ ExpScale \in Nat
  BY <1>1, ExchangeRateType, BackingInt, ExpScaleAssumption
<1>4. Backing(new) = Backing(t) - amount
  BY <1>1, <1>2, BackingInt DEF Backing
<1>5. CASE n = 0
  <2>1. new.totalSupply = t.totalSupply /\ Backing(new) >= Backing(t)
    BY <1>2, <1>3, <1>4, <1>5
  <2> QED
    BY <1>1, <1>2, <2>1, SameSupplyKeeps
<1>6. CASE n > 0
  <2> SUFFICES ASSUME t.totalSupply > 0
               PROVE  Backing(new) * ExpScale >= r * (new.totalSupply - 1)
    BY <1>2, <1>3, <1>6 DEF KeepsShare
  <2>1. r * t.totalSupply <= Backing(t) * ExpScale
    BY <1>1, RateBacked
  <2>2. amount * ExpScale <= r * (n + 1)
    OBVIOUS
  <2> HIDE DEF r, new
  <2>3. (Backing(t) - amount) * ExpScale = Backing(t) * ExpScale - amount * ExpScale
    BY <1>3, SMT
  <2>4. r * (t.totalSupply - n - 1) = r * t.totalSupply - r * (n + 1)
    BY <1>3, SMT
  <2>5. /\ r * t.totalSupply \in Int /\ r * (n + 1) \in Int
        /\ Backing(t) * ExpScale \in Int /\ amount * ExpScale \in Int
    BY <1>3
  <2> QED
    BY <1>2, <1>4, <2>1, <2>2, <2>3, <2>4, <2>5
<1> QED
  BY <1>2, <1>5, <1>6

-----------------------------------------------------------------------------
(* The transactions and the share *)

Shares == \A x \in Markets : ShareStep(market[x], market'[x])

LEMMA SameBooksShare ==
  ASSUME NEW t \in MarketBooks
  PROVE  ShareStep(t, t)
  BY BackingInt, SameSupplyKeeps DEF ShareStep

LEMMA NothingMovedShares ==
  ASSUME WellFormed, market' = market
  PROVE  Shares
<1>1. \A x \in Markets : market[x] \in MarketBooks
  BY DEF WellFormed, TypeOK
<1> QED
  BY <1>1, SameBooksShare DEF Shares

LEMMA OneMarketShares ==
  ASSUME WellFormed, NEW m \in Markets, NEW t, market' = [market EXCEPT ![m] = t],
         ShareStep(market[m], t)
  PROVE  Shares
<1>1. market \in [Markets -> MarketBooks]
  BY DEF WellFormed, TypeOK
<1>2. market'[m] = t /\ \A x \in Markets \ {m} : market'[x] = market[x]
  BY <1>1
<1>3. \A x \in Markets : market[x] \in MarketBooks
  BY <1>1
<1> QED
  BY <1>2, <1>3, SameBooksShare DEF Shares

\* What a transaction makes of accrued books it makes of the books it found.
LEMMA FreshShareStep ==
  ASSUME WellFormed, NEW m \in Markets, CanAccrue(market[m]), NEW new,
         BooksInv(new, blockNumber), ShareStep(Accrued(market[m]), new)
  PROVE  ShareStep(market[m], new)
<1> DEFINE old == market[m]
           t == Accrued(old)
<1> SUFFICES ASSUME old.reserveFactor <= ExpScale
             PROVE  new.reserveFactor <= ExpScale /\ KeepsShare(old, new)
  BY DEF ShareStep
<1>1. /\ BooksInv(old, blockNumber) /\ blockNumber \in Nat
      /\ old \in MarketBooks /\ t \in MarketBooks /\ new \in MarketBooks
  BY WellFormedFacts DEF BooksInv
<1>2. /\ Backing(t) >= Backing(old) /\ t.totalSupply = old.totalSupply
      /\ t.reserveFactor = old.reserveFactor
  BY <1>1, AccruedBacking
<1>3. new.reserveFactor <= ExpScale /\ KeepsShare(t, new)
  BY <1>2 DEF ShareStep
<1> HIDE DEF t, old
<1> QED
  BY <1>1, <1>2, <1>3, KeepsAfterAccrual

\* Operations that write one market once it has accrued.
LEMMA FreshMarketShares ==
  ASSUME WellFormed, NEW m \in Markets, CanAccrue(market[m]), NEW new,
         BooksInv(new, blockNumber), ShareStep(Accrued(market[m]), new),
         market' = [market EXCEPT ![m] = new]
  PROVE  Shares
  BY FreshShareStep, OneMarketShares

\* Operations on books that leave the supply and what stands behind it.
LEMMA KeptBackingShare ==
  ASSUME NEW old \in MarketBooks, NEW new \in MarketBooks,
         new.totalSupply = old.totalSupply, Backing(new) >= Backing(old),
         old.reserveFactor <= ExpScale => new.reserveFactor <= ExpScale
  PROVE  ShareStep(old, new)
  BY SameSupplyKeeps DEF ShareStep

LEMMA AccrueShares ==
  ASSUME WellFormed, NEW m \in Markets, CanAccrue(market[m]), market' = Books(m)
  PROVE  Shares
<1>1. market' = [market EXCEPT ![m] = Accrued(market[m])]
  BY DEF Books
<1>2. BooksInv(Accrued(market[m]), blockNumber)
  BY WellFormedFacts
<1>3. ShareStep(Accrued(market[m]), Accrued(market[m]))
  BY <1>2, SameBooksShare DEF BooksInv
<1> QED
  BY <1>1, <1>2, <1>3, FreshMarketShares

LEMMA MintShares ==
  ASSUME WellFormed, NEW m \in Markets, NEW a \in Accounts, NEW u \in Accounts,
         NEW n \in Nat, Mint(a, u, m, n)
  PROVE  Shares
<1> DEFINE t == Accrued(market[m])
           new == MintFresh(t, u, n)
<1>1. /\ CanAccrue(market[m]) /\ ExchangeRateKnown(t) /\ ExchangeRate(t) > 0
      /\ market' = [market EXCEPT ![m] = new]
  BY DEF Mint
<1>2. BooksInv(t, blockNumber)
  BY <1>1, WellFormedFacts
<1> HIDE DEF t
<1>3. BooksInv(new, blockNumber) /\ KeepsShare(t, new) /\ new.reserveFactor = t.reserveFactor
  BY <1>1, <1>2, MintFreshInv, MintShare
<1> HIDE DEF new
<1>4. ShareStep(t, new)
  BY <1>3 DEF ShareStep
<1> QED
  BY <1>1, <1>3, <1>4, FreshMarketShares DEF t

LEMMA RedeemBothShares ==
  ASSUME WellFormed, NEW m \in Markets, NEW a \in Accounts, NEW n \in Nat,
         NEW amount \in Nat, CanAccrue(market[m]), RedeemBoth(a, m, n, amount),
         ExchangeRateKnown(Accrued(market[m])),
         amount * ExpScale <= ExchangeRate(Accrued(market[m])) * (n + 1)
  PROVE  Shares
<1> DEFINE t == Accrued(market[m])
           new == RedeemFresh(t, a, n, amount)
<1>1. market' = [market EXCEPT ![m] = new]
  BY DEF RedeemBoth
<1>2. /\ CanRedeem(t, a, n, amount) /\ (n # 0 \/ amount = 0)
      /\ ExchangeRateKnown(t) /\ amount * ExpScale <= ExchangeRate(t) * (n + 1)
  BY DEF RedeemBoth
<1>3. BooksInv(t, blockNumber)
  BY WellFormedFacts
<1> HIDE DEF t
<1>4. BooksInv(new, blockNumber) /\ KeepsShare(t, new) /\ new.reserveFactor = t.reserveFactor
  BY <1>2, <1>3, RedeemFreshInv, RedeemShare
<1> HIDE DEF new
<1>5. ShareStep(t, new)
  BY <1>4 DEF ShareStep
<1> QED
  BY <1>1, <1>4, <1>5, FreshMarketShares DEF t

\* redeem pays what its brTokens are worth, truncated; redeemUnderlying burns
\* what the amount costs, truncated.
LEMMA RedeemShares ==
  ASSUME WellFormed, NEW m \in Markets, NEW a \in Accounts, NEW n \in Nat,
         Redeem(a, m, n) \/ RedeemUnderlying(a, m, n)
  PROVE  Shares
<1> DEFINE t == Accrued(market[m])
           r == ExchangeRate(t)
<1>1. CanAccrue(market[m]) /\ ExchangeRateKnown(t)
  BY DEF Redeem, RedeemUnderlying
<1>2. r \in Nat /\ ExpScale \in Nat /\ ExpScale > 0
  BY <1>1, WellFormedFacts, ExchangeRateType, ExpScaleAssumption DEF BooksInv
<1>3. CASE Redeem(a, m, n)
  <2> DEFINE amount == MulTruncate(r, n)
  <2>1. RedeemBoth(a, m, n, amount)
    BY <1>3 DEF Redeem
  <2>2. amount \in Nat /\ amount * ExpScale <= r * n
    <3>1. r * n \in Nat
      BY <1>2, TimesNat
    <3>2. (r * n) \div ExpScale \in Nat /\ ExpScale * ((r * n) \div ExpScale) <= r * n
      BY <1>2, <3>1, DivBounds
    <3> HIDE DEF r
    <3>3. amount \in Nat /\ ExpScale * amount <= r * n
      BY <3>2 DEF MulTruncate
    <3> HIDE DEF amount
    <3>4. ExpScale * amount = amount * ExpScale
      BY <1>2, <3>3, SMT
    <3> QED
      BY <3>3, <3>4
  <2>3. r * n <= r * (n + 1) /\ r * n \in Int /\ r * (n + 1) \in Int
    <3> HIDE DEF r
    <3>1. r * (n + 1) = r * n + r
      BY <1>2, SMT
    <3> QED
      BY <1>2, <3>1, TimesNat
  <2> HIDE DEF amount
  <2>4. amount * ExpScale <= r * (n + 1)
    BY <1>2, <2>2, <2>3, TimesNat
  <2> QED
    BY <1>1, <2>1, <2>2, <2>4, RedeemBothShares
<1>4. CASE RedeemUnderlying(a, m, n)
  <2> DEFINE burnt == DivScalarByExp(n, r)
  <2>1. RedeemBoth(a, m, burnt, n) /\ r > 0
    BY <1>4 DEF RedeemUnderlying
  <2>2. burnt \in Nat /\ n * ExpScale < r * (burnt + 1)
    BY <1>2, <2>1, TimesNat, DivBounds DEF DivScalarByExp
  <2> HIDE DEF burnt
  <2>3. n * ExpScale \in Int /\ r * (burnt + 1) \in Int
    BY <1>2, <2>2
  <2>4. n * ExpScale <= r * (burnt + 1)
    BY <2>2, <2>3
  <2> QED
    BY <1>1, <2>1, <2>2, <2>4, RedeemBothShares
<1> QED
  BY <1>3, <1>4

\* Lending takes from the cash what it adds to the borrows, and back.
LEMMA DebtShare ==
  ASSUME NEW t, BooksInv(t, blockNumber), NEW u, NEW n \in Nat
  PROVE  /\ BooksInv(BorrowFresh(t, u, n), blockNumber) => ShareStep(t, BorrowFresh(t, u, n))
         /\ BooksInv(RepayBorrowFresh(t, u, n), blockNumber) =>
              ShareStep(t, RepayBorrowFresh(t, u, n))
<1>1. t \in MarketBooks
  BY DEF BooksInv
<1>2. ASSUME NEW new, new \in {BorrowFresh(t, u, n), RepayBorrowFresh(t, u, n)},
             BooksInv(new, blockNumber)
      PROVE  ShareStep(t, new)
  <2>1. /\ new.totalSupply = t.totalSupply /\ new.totalReserves = t.totalReserves
        /\ new.reserveFactor = t.reserveFactor
        /\ \/ new.cash = t.cash - n /\ new.totalBorrows = t.totalBorrows + n
           \/ new.cash = t.cash + n /\ new.totalBorrows = t.totalBorrows - n
    BY <1>1, <1>2 DEF BorrowFresh, RepayBorrowFresh, MarketBooks
  <2>2. new \in MarketBooks
    BY <1>2 DEF BooksInv
  <2>3. Backing(new) >= Backing(t)
    BY <1>1, <2>1, BackingInt DEF Backing
  <2> QED
    BY <1>1, <2>1, <2>2, <2>3, KeptBackingShare
<1> QED
  BY <1>2

LEMMA BorrowShares ==
  ASSUME WellFormed, NEW m \in Markets, NEW a \in Accounts, NEW n \in Nat, Borrow(a, m, n)
  PROVE  Shares
<1> DEFINE t == Accrued(market[m])
           new == BorrowFresh(t, a, n)
<1>1. /\ CanAccrue(market[m]) /\ n <= t.cash /\ market' = [market EXCEPT ![m] = new]
  BY DEF Borrow
<1>2. BooksInv(t, blockNumber)
  BY <1>1, WellFormedFacts
<1> HIDE DEF t
<1>3. BooksInv(new, blockNumber) /\ ShareStep(t, new)
  BY <1>1, <1>2, BorrowFreshInv, DebtShare
<1> HIDE DEF new
<1> QED
  BY <1>1, <1>3, FreshMarketShares DEF t

LEMMA RepayShares ==
  ASSUME WellFormed, NEW m \in Markets, NEW a \in Accounts, NEW u \in Accounts,
         NEW n \in Nat, Repay(a, u, m, n)
  PROVE  Shares
<1> DEFINE t == Accrued(market[m])
           new == RepayBorrowFresh(t, u, n)
<1>1. CanAccrue(market[m]) /\ CanRepay(t, u, n) /\ market' = [market EXCEPT ![m] = new]
  BY DEF Repay
<1>2. BooksInv(t, blockNumber)
  BY <1>1, WellFormedFacts
<1> HIDE DEF t
<1>3. BooksInv(new, blockNumber) /\ ShareStep(t, new)
  BY <1>1, <1>2, RepayFreshInv, DebtShare
<1> HIDE DEF new
<1> QED
  BY <1>1, <1>3, FreshMarketShares DEF t

LEMMA RepayAllShares ==
  ASSUME WellFormed, NEW m \in Markets, NEW a \in Accounts, NEW u \in Accounts,
         RepayAll(a, u, m)
  PROVE  Shares
<1>1. CanAccrue(market[m])
  BY DEF RepayAll, Repay
<1>2. BorrowBalanceStored(Accrued(market[m]), u) \in Nat
  BY <1>1, WellFormedFacts, BorrowBalanceType
<1> QED
  BY <1>2, RepayShares DEF RepayAll

LEMMA MoveTokensShare ==
  ASSUME NEW t, BooksInv(t, blockNumber), NEW src \in Accounts, NEW dst \in Accounts,
         NEW n \in Nat, CanMove(t, src, dst, n)
  PROVE  ShareStep(t, MoveTokens(t, src, dst, n))
<1> DEFINE new == MoveTokens(t, src, dst, n)
<1>1. t \in MarketBooks /\ new \in MarketBooks
  BY MoveTokensInv DEF BooksInv
<1>2. /\ new.totalSupply = t.totalSupply /\ new.reserveFactor = t.reserveFactor
      /\ new.cash = t.cash /\ new.totalBorrows = t.totalBorrows
      /\ new.totalReserves = t.totalReserves
  BY <1>1 DEF MoveTokens, MarketBooks
<1> HIDE DEF new
<1>3. Backing(new) >= Backing(t)
  BY <1>1, <1>2, BackingInt DEF Backing
<1>4. ShareStep(t, new)
  BY <1>1, <1>2, <1>3, KeptBackingShare
<1> QED
  BY <1>4 DEF new

LEMMA TransferShares ==
  ASSUME WellFormed, NEW m \in Markets, NEW a \in Accounts, NEW u \in Accounts,
         NEW n \in Nat, Transfer(a, u, m, n)
  PROVE  Shares
<1> DEFINE new == MoveTokens(market[m], a, u, n)
<1>1. CanMove(market[m], a, u, n) /\ market' = [market EXCEPT ![m] = new]
  BY DEF Transfer
<1>2. ShareStep(market[m], new)
  BY <1>1, WellFormedFacts, MoveTokensShare
<1> HIDE DEF new
<1> QED
  BY <1>1, <1>2, OneMarketShares

\* A gift raises the rate; reserves that come or go bring or take their cash.
LEMMA CashShares ==
  ASSUME WellFormed, NEW m \in Markets, NEW a, NEW n \in Nat,
         Donate(a, m, n) \/ AddReserves(a, m, n) \/ ReduceReserves(m, n)
  PROVE  Shares
<1>1. CASE Donate(a, m, n)
  <2> DEFINE t == market[m]
             new == [t EXCEPT !.cash = @ + n]
  <2>1. market' = [market EXCEPT ![m] = new]
    BY <1>1 DEF Donate
  <2>2. t \in MarketBooks
    BY WellFormedFacts DEF BooksInv
  <2> HIDE DEF t
  <2>3. /\ new \in MarketBooks
        /\ new.totalSupply = t.totalSupply /\ new.reserveFactor = t.reserveFactor
        /\ new.cash = t.cash + n /\ new.totalBorrows = t.totalBorrows
        /\ new.totalReserves = t.totalReserves
    BY <2>2 DEF MarketBooks
  <2> HIDE DEF new
  <2>4. Backing(new) >= Backing(t)
    BY <2>2, <2>3, BackingInt DEF Backing
  <2>5. ShareStep(t, new)
    BY <2>2, <2>3, <2>4, KeptBackingShare
  <2> QED
    BY <2>1, <2>5, OneMarketShares DEF t
<1>2. CASE AddReserves(a, m, n) \/ ReduceReserves(m, n)
  <2> DEFINE t == Accrued(market[m])
  <2>1. CanAccrue(market[m])
    BY <1>2 DEF AddReserves, ReduceReserves
  <2>2. PICK new : /\ \/ new = [t EXCEPT !.cash = @ + n, !.totalReserves = @ + n]
                      \/ /\ new = [t EXCEPT !.cash = @ - n, !.totalReserves = @ - n]
                         /\ n <= t.cash /\ n <= t.totalReserves
                   /\ market' = [market EXCEPT ![m] = new]
    BY <1>2 DEF AddReserves, ReduceReserves
  <2>3. BooksInv(t, blockNumber) /\ t \in MarketBooks
    BY <2>1, WellFormedFacts DEF BooksInv
  <2> HIDE DEF t
  <2>4. /\ new.totalSupply = t.totalSupply /\ new.reserveFactor = t.reserveFactor
        /\ new.totalBorrows = t.totalBorrows
        /\ \/ new.cash = t.cash + n /\ new.totalReserves = t.totalReserves + n
           \/ /\ new.cash = t.cash - n /\ new.totalReserves = t.totalReserves - n
              /\ n <= t.cash /\ n <= t.totalReserves
    BY <2>2, <2>3 DEF MarketBooks
  <2>5. BooksInv(new, blockNumber)
    <3> DEFINE cash == new.cash
               reserves == new.totalReserves
    <3>1. cash \in Nat /\ reserves \in Nat
      BY <2>3, <2>4, BackingInt
    <3>2. t.reserveFactor \in Nat /\ t.rateModel \in RateModels
      BY <2>3 DEF MarketBooks
    <3>3. new = BooksWritten(t, cash, reserves, t.reserveFactor, t.rateModel)
      BY <2>2, <2>3 DEF BooksWritten, MarketBooks
    <3> HIDE DEF cash, reserves
    <3>4. BooksInv(BooksWritten(t, cash, reserves, t.reserveFactor, t.rateModel), blockNumber)
      BY <2>3, <3>1, <3>2, BooksWrittenInv
    <3> QED
      BY <3>3, <3>4
  <2>6. new \in MarketBooks
    BY <2>5 DEF BooksInv
  <2>7. Backing(new) >= Backing(t)
    BY <2>3, <2>4, BackingInt DEF Backing
  <2>8. ShareStep(t, new)
    BY <2>3, <2>4, <2>6, <2>7, KeptBackingShare
  <2> QED
    BY <2>1, <2>2, <2>5, <2>8, FreshMarketShares DEF t
<1> QED
  BY <1>1, <1>2

\* New terms apply to the interest still to come.
LEMMA TermsShares ==
  ASSUME WellFormed, NEW m \in Markets, NEW f \in Nat, NEW model \in RateModels,
         SetReserveFactor(m, f) \/ SetInterestRateModel(m, model)
  PROVE  Shares
<1> DEFINE t == Accrued(market[m])
<1>1. CanAccrue(market[m])
  BY DEF SetReserveFactor, SetInterestRateModel
<1>2. PICK new : /\ \/ new = [t EXCEPT !.reserveFactor = f] /\ f <= ExpScale
                    \/ new = [t EXCEPT !.rateModel = model]
                 /\ market' = [market EXCEPT ![m] = new]
  BY DEF SetReserveFactor, SetInterestRateModel
<1>3. BooksInv(t, blockNumber) /\ t \in MarketBooks
  BY <1>1, WellFormedFacts DEF BooksInv
<1> HIDE DEF t
<1>4. /\ new.totalSupply = t.totalSupply /\ new.cash = t.cash
      /\ new.totalBorrows = t.totalBorrows /\ new.totalReserves = t.totalReserves
      /\ new.reserveFactor = t.reserveFactor \/ new.reserveFactor <= ExpScale
  BY <1>2, <1>3 DEF MarketBooks
<1>5. BooksInv(new, blockNumber)
  <2>1. /\ t.cash \in Nat /\ t.totalReserves \in Nat /\ t.reserveFactor \in Nat
        /\ t.rateModel \in RateModels
    BY <1>3 DEF MarketBooks
  <2>2. \/ new = BooksWritten(t, t.cash, t.totalReserves, f, t.rateModel)
        \/ new = BooksWritten(t, t.cash, t.totalReserves, t.reserveFactor, model)
    BY <1>2, <1>3 DEF BooksWritten, MarketBooks
  <2> QED
    BY <1>3, <2>1, <2>2, BooksWrittenInv
<1>6. new \in MarketBooks
  BY <1>5 DEF BooksInv
<1>7. Backing(new) >= Backing(t)
  BY <1>3, <1>4, BackingInt DEF Backing
<1>8. ShareStep(t, new)
  BY <1>3, <1>4, <1>6, <1>7, KeptBackingShare
<1> QED
  BY <1>1, <1>2, <1>5, <1>8, FreshMarketShares DEF t

\* A liquidation repays in one market and moves brTokens in the other, or in the
\* same one: neither touches what stands behind a brToken.
LEMMA LiquidateShares ==
  ASSUME WellFormed, NEW m \in Markets, NEW c \in Markets, NEW a \in Accounts,
         NEW u \in Accounts, NEW n \in Nat, LiquidateBorrow(a, u, m, c, n)
  PROVE  Shares
<1> DEFINE fresh  == [market EXCEPT ![m] = Accrued(market[m]), ![c] = Accrued(market[c])]
           repaid == [fresh EXCEPT ![m] = RepayBorrowFresh(fresh[m], u, n)]
           seized == SeizeTokens(repaid, m, c, n)
           after  == MoveTokens(repaid[c], u, a, seized)
<1>1. /\ CanAccrue(market[m]) /\ CanAccrue(market[c])
      /\ CanRepay(fresh[m], u, n)
      /\ SeizeKnown(repaid, m, c) /\ CanMove(repaid[c], u, a, seized)
      /\ market' = [repaid EXCEPT ![c] = after]
  BY DEF LiquidateBorrow
<1>2. /\ market \in [Markets -> MarketBooks]
      /\ \A x \in Markets : BooksInv(market[x], blockNumber)
  BY WellFormedFacts DEF WellFormed, TypeOK
<1>3. fresh[m] = Accrued(market[m]) /\ fresh[c] = Accrued(market[c])
  BY <1>2
<1>4. /\ DOMAIN fresh = Markets
      /\ \A x \in Markets : /\ BooksInv(fresh[x], blockNumber)
                            /\ x \notin {m, c} => fresh[x] = market[x]
  BY <1>1, <1>2, WellFormedFacts
<1> HIDE DEF fresh
<1>5. /\ BooksInv(RepayBorrowFresh(fresh[m], u, n), blockNumber)
      /\ ShareStep(fresh[m], RepayBorrowFresh(fresh[m], u, n))
  BY <1>1, <1>4, RepayFreshInv, DebtShare
<1>6. /\ DOMAIN repaid = Markets
      /\ \A x \in Markets : /\ BooksInv(repaid[x], blockNumber)
                            /\ x # m => repaid[x] = fresh[x]
      /\ ShareStep(fresh[m], repaid[m])
  BY <1>4, <1>5
<1> HIDE DEF repaid
<1>7. seized \in Nat
  BY <1>1, <1>6, SeizeTokensNat
<1> HIDE DEF seized
<1>8. BooksInv(after, blockNumber) /\ ShareStep(repaid[c], after)
  BY <1>1, <1>6, <1>7, MoveTokensInv, MoveTokensShare
<1>9. after.totalSupply = repaid[c].totalSupply /\ Backing(after) = Backing(repaid[c])
  BY <1>6 DEF after, MoveTokens, BooksInv, MarketBooks, Backing
<1>10. /\ repaid[m].totalSupply = fresh[m].totalSupply
       /\ Backing(repaid[m]) >= Backing(fresh[m])
  <2>1. repaid[m] = RepayBorrowFresh(fresh[m], u, n)
    BY <1>4 DEF repaid
  <2>2. /\ repaid[m].totalSupply = fresh[m].totalSupply
        /\ repaid[m].totalReserves = fresh[m].totalReserves
        /\ repaid[m].cash = fresh[m].cash + n
        /\ repaid[m].totalBorrows = fresh[m].totalBorrows - n
    BY <1>4, <2>1 DEF RepayBorrowFresh, BooksInv, MarketBooks
  <2>3. fresh[m] \in MarketBooks
    BY <1>4 DEF BooksInv
  <2> QED
    BY <2>2, <2>3, BackingInt DEF Backing
<1> HIDE DEF after
<1>11. ASSUME NEW x \in Markets
       PROVE  ShareStep(market[x], market'[x])
  <2>1. BooksInv(market'[x], blockNumber)
    BY <1>1, <1>6, <1>8
  <2>2. ShareStep(fresh[x], market'[x])
    <3>1. CASE x # c /\ x # m
      <4>1. market'[x] = fresh[x] /\ fresh[x] \in MarketBooks
        BY <1>1, <1>4, <1>6, <3>1 DEF BooksInv
      <4> QED
        BY <4>1, SameBooksShare
    <3>2. CASE x = m /\ x # c
      BY <1>1, <1>6, <3>2
    <3>3. CASE x = c /\ x # m
      BY <1>1, <1>6, <1>8, <3>3
    <3>4. CASE x = c /\ x = m
      <4>1. market'[x] = after
        BY <1>1, <1>6, <3>4
      <4>2. after.totalSupply = fresh[x].totalSupply /\ Backing(after) >= Backing(fresh[x])
        BY <1>9, <1>10, <3>4
      <4>3. after.reserveFactor <= ExpScale \/ ~(fresh[x].reserveFactor <= ExpScale)
        BY <1>6, <1>8, <3>4 DEF ShareStep
      <4>4. after \in MarketBooks /\ fresh[x] \in MarketBooks
        BY <1>4, <1>8 DEF BooksInv
      <4> QED
        BY <4>1, <4>2, <4>3, <4>4, KeptBackingShare
    <3> QED
      BY <3>1, <3>2, <3>3, <3>4
  <2>3. CASE x \in {m, c}
    <3>1. CanAccrue(market[x]) /\ fresh[x] = Accrued(market[x])
      BY <1>1, <1>3, <2>3
    <3> QED
      BY <2>1, <2>2, <3>1, FreshShareStep
  <2>4. CASE x \notin {m, c}
    BY <1>4, <2>2, <2>4
  <2> QED
    BY <2>3, <2>4
<1> QED
  BY <1>11 DEF Shares

LEMMA UserActionShares ==
  ASSUME WellFormed, NEW m \in Markets, UserAction(m)
  PROVE  Shares
<1> USE InputsNat
<1>1. CASE AccrueInterest(m)
  BY <1>1, AccrueShares DEF AccrueInterest
<1>2. ASSUME NEW a \in Accounts, EnterMarket(a, m) \/ ExitMarket(a, m)
      PROVE  Shares
  BY <1>2, NothingMovedShares DEF EnterMarket, ExitMarket, tokenVars
<1>3. ASSUME NEW a \in Accounts, NEW u \in Accounts, RepayAll(a, u, m)
      PROVE  Shares
  BY <1>3, RepayAllShares
<1>4. ASSUME NEW a \in Accounts, NEW n \in GiftAmounts, Donate(a, m, n) \/ AddReserves(a, m, n)
      PROVE  Shares
  BY <1>4, CashShares
<1>5. ASSUME NEW a \in Accounts, NEW n \in Amounts, Redeem(a, m, n) \/ RedeemUnderlying(a, m, n)
      PROVE  Shares
  BY <1>5, RedeemShares
<1>6. ASSUME NEW a \in Accounts, NEW n \in Amounts, Borrow(a, m, n)
      PROVE  Shares
  BY <1>6, BorrowShares
<1>7. ASSUME NEW a \in Accounts, NEW n \in Amounts, BorrowRejected(a, m, n)
      PROVE  Shares
  BY <1>7, AccrueShares DEF BorrowRejected
<1>8. ASSUME NEW a \in Accounts, NEW u \in Accounts, NEW n \in Amounts, Mint(a, u, m, n)
      PROVE  Shares
  BY <1>8, MintShares
<1>9. ASSUME NEW a \in Accounts, NEW u \in Accounts, NEW n \in Amounts, Repay(a, u, m, n)
      PROVE  Shares
  BY <1>9, RepayShares
<1>10. ASSUME NEW a \in Accounts, NEW u \in Accounts, NEW n \in Amounts, Transfer(a, u, m, n)
       PROVE  Shares
  BY <1>10, TransferShares
<1>11. ASSUME NEW a \in Accounts, NEW u \in Accounts, NEW n \in Amounts, NEW c \in Markets,
              LiquidateBorrow(a, u, m, c, n)
       PROVE  Shares
  BY <1>11, LiquidateShares
<1> QED
  BY <1>1, <1>2, <1>3, <1>4, <1>5, <1>6, <1>7, <1>8, <1>9, <1>10, <1>11
  DEF UserAction

LEMMA AdminActionShares ==
  ASSUME WellFormed, AdminAction
  PROVE  Shares
<1> USE InputsNat
<1>1. ASSUME \/ \E f \in CloseFactors : SetCloseFactor(f)
             \/ \E i \in Incentives : SetLiquidationIncentive(i)
             \/ \E p \in TreasuryPercents : SetTreasuryPercent(p)
             \/ \E flags \in PauseStates : SetPaused(flags)
             \/ \E m \in Markets : SupportMarket(m)
             \/ \E m \in Markets, f \in CollateralFactors : SetCollateralFactor(m, f)
             \/ \E m \in Markets, c \in BorrowCaps : SetMarketBorrowCap(m, c)
      PROVE  Shares
  <2>1. UNCHANGED tokenVars
    BY <1>1 DEF SetCloseFactor, SetLiquidationIncentive, SetTreasuryPercent, SetPaused,
                SupportMarket, SetCollateralFactor, SetMarketBorrowCap
  <2> QED
    BY <2>1, NothingMovedShares DEF tokenVars
<1>2. ASSUME NEW m \in Markets, NEW f \in ReserveFactors, SetReserveFactor(m, f)
      PROVE  Shares
  <2>1. PICK model \in RateModels : TRUE
    BY BRTokenAssumption
  <2> QED
    BY <1>2, <2>1, TermsShares
<1>3. ASSUME NEW m \in Markets, NEW model \in RateModels, SetInterestRateModel(m, model)
      PROVE  Shares
  BY <1>3, TermsShares
<1>4. ASSUME NEW m \in Markets, NEW n \in GiftAmounts, ReduceReserves(m, n)
      PROVE  Shares
  BY <1>4, CashShares
<1> QED
  BY <1>1, <1>2, <1>3, <1>4 DEF AdminAction

LEMMA NextShares == WellFormed /\ [Next]_vars => Shares
<1> SUFFICES ASSUME WellFormed, [Next]_vars
             PROVE  Shares
  OBVIOUS
<1>1. ASSUME \/ AdvanceBlock
             \/ \E c \in PriceChanges : SetUnderlyingPrice(c[1], c[2])
             \/ UNCHANGED vars
      PROVE  Shares
  BY <1>1, NothingMovedShares DEF AdvanceBlock, SetUnderlyingPrice, vars, tokenVars
<1> QED
  BY <1>1, UserActionShares, AdminActionShares DEF Next

\* No market keeps more than all of its interest.
FactorsBounded == \A m \in Markets : market[m].reserveFactor <= ExpScale

LEMMA InitFactors == Init => FactorsBounded
  BY ExpScaleAssumption DEF Init, TokenInit, NewMarket, FactorsBounded

-----------------------------------------------------------------------------
(* Liquidity, and what truncation takes from it *)

\* One truncated product: within one unit of the exact one.
LEMMA MulTruncateBounds ==
  ASSUME NEW x \in Nat, NEW y \in Nat
  PROVE  /\ MulTruncate(x, y) \in Nat
         /\ ExpScale * MulTruncate(x, y) <= x * y
         /\ x * y <= ExpScale * MulTruncate(x, y) + ExpScale - 1
<1> DEFINE n == x * y
           q == n \div ExpScale
<1>1. n \in Nat /\ ExpScale \in Nat /\ ExpScale > 0
  BY TimesNat, ExpScaleAssumption
<1> HIDE DEF n
<1>2. q \in Nat /\ ExpScale * q <= n /\ n < ExpScale * (q + 1)
  BY <1>1, DivBounds
<1>3. MulTruncate(x, y) = q
  BY DEF MulTruncate, n
<1> HIDE DEF q
<1>4. ExpScale * (q + 1) = ExpScale * q + ExpScale
  BY <1>1, <1>2, SMT
<1>5. ExpScale * q \in Nat
  BY <1>1, <1>2, TimesNat
<1>6. n <= ExpScale * q + ExpScale - 1
  BY <1>1, <1>2, <1>4, <1>5
<1> QED
  BY <1>2, <1>3, <1>6 DEF n

\* What a lower factor of a product loses, times the scale.
LEMMA FactorLoss ==
  ASSUME NEW x \in Nat, NEW z \in Nat, NEW k \in Nat
  PROVE  ExpScale * (MulTruncate(x, k) - MulTruncate(z, k)) <= k * (x - z) + ExpScale - 1
<1> DEFINE v == MulTruncate(x, k)
           w == MulTruncate(z, k)
<1>1. v \in Nat /\ w \in Nat /\ ExpScale \in Nat
  BY MulTruncateNat, ExpScaleAssumption
<1>2. ExpScale * v <= x * k /\ z * k <= ExpScale * w + ExpScale - 1
  BY MulTruncateBounds
<1> HIDE DEF v, w
<1>3. ExpScale * (v - w) = ExpScale * v - ExpScale * w /\ k * (x - z) = x * k - z * k
  BY <1>1, SMT
<1>4. /\ ExpScale * v \in Int /\ ExpScale * w \in Int
      /\ x * k \in Int /\ z * k \in Int
  BY <1>1
<1> QED
  BY <1>1, <1>2, <1>3, <1>4 DEF v, w

\* The chain of products ComptrollerLens multiplies brTokens by, at two rates.
LEMMA ChainLoss ==
  ASSUME NEW c \in Nat, c <= ExpScale, NEW p \in Nat, NEW T \in Nat, T > 0,
         NEW r \in Nat, NEW q \in Nat, (r - q) * T <= r + T
  PROVE  LET D == MulTruncate(MulTruncate(c, r), p)
             E == MulTruncate(MulTruncate(c, q), p)
         IN  MulTruncate(D, T) - MulTruncate(E, T)
               <= 1 + (D * ExpScale + T * (3 * p + ExpScale)) \div (ExpScale * ExpScale)
<1> DEFINE S == ExpScale
           x == MulTruncate(c, r)
           y == MulTruncate(c, q)
           D == MulTruncate(x, p)
           E == MulTruncate(y, p)
           W == MulTruncate(D, T)
           V == MulTruncate(E, T)
           bound == D * S + T * (3 * p + S)
<1>1. /\ S \in Nat /\ S > 0 /\ x \in Nat /\ y \in Nat /\ D \in Nat /\ E \in Nat
      /\ W \in Nat /\ V \in Nat
  <2>0. S \in Nat /\ S > 0
    BY ExpScaleAssumption
  <2>1. x \in Nat /\ y \in Nat
    BY MulTruncateNat, Zenon
  <2> HIDE DEF x, y
  <2>2. D \in Nat /\ E \in Nat
    BY <2>1, MulTruncateNat
  <2> HIDE DEF D, E
  <2>3. W \in Nat /\ V \in Nat
    BY <2>2, MulTruncateNat
  <2> QED
    BY <2>0, <2>1, <2>2, <2>3
<1>2. S * (W - V) <= T * (D - E) + S - 1
  <2>1. \A i, j \in Nat :
          S * (MulTruncate(i, T) - MulTruncate(j, T)) <= T * (i - j) + S - 1
    BY FactorLoss
  <2> HIDE DEF x, y, D, E
  <2> QED
    BY <1>1, <2>1
<1>3. S * (D - E) <= p * (x - y) + S
  <2>1. S * (D - E) <= p * (x - y) + S - 1
    BY <1>1, FactorLoss
  <2> HIDE DEF S, x, y, D, E
  <2>2. S * (D - E) \in Int /\ p * (x - y) \in Int
    BY <1>1
  <2> QED
    BY <1>1, <2>1, <2>2
<1>4. c * (r - q) + S >= S * (x - y)
  <2>1. S * x <= c * r /\ c * q <= S * y + S - 1
    BY MulTruncateBounds
  <2> HIDE DEF S, x, y
  <2>2. /\ S * x \in Int /\ c * r \in Int /\ S * y \in Int /\ c * q \in Int
        /\ S * (x - y) = S * x - S * y /\ c * (r - q) = c * r - c * q
    BY <1>1, SMT
  <2> QED
    BY <1>1, <2>1, <2>2
<1>5. c * r <= S * x + S /\ x * p <= S * D + S
  <2>1. c * r <= S * x + S - 1 /\ x * p <= S * D + S - 1
    BY <1>1, MulTruncateBounds
  <2> HIDE DEF S, x, D
  <2>2. c * r \in Int /\ S * x \in Int /\ x * p \in Int /\ S * D \in Int
    BY <1>1
  <2> QED
    BY <1>1, <2>1, <2>2
<1> HIDE DEF S, x, y, D, E, W, V
<1>6. p * c * r <= S * S * D + S * S + p * S
  <2>1. c * r * p <= (S * x + S) * p
    BY <1>1, <1>5, SMT
  <2>2. S * (x * p) <= S * (S * D + S)
    BY <1>1, <1>5, SMT
  <2> QED
    BY <1>1, <2>1, <2>2, SMT
<1>7. (p * c) * ((r - q) * T) <= (p * c) * (r + T)
  <2>1. \A i, j \in Int, k \in Nat : i <= j => k * i <= k * j
    BY SMT
  <2>2. p * c \in Nat /\ (r - q) * T \in Int /\ r + T \in Int
    BY TimesNat, SMT
  <2> QED
    BY <2>1, <2>2, Zenon
<1>8. p * c * T <= p * S * T
  <2>1. c * (p * T) <= S * (p * T)
    BY <1>1, TimesNat, TimesMonotone DEF S
  <2>2. \A i \in Nat : i * (p * T) = p * i * T
    BY SMT
  <2> QED
    BY <1>1, <2>1, <2>2
<1>9. p * S <= p * S * T
  <2>1. p * S \in Nat /\ T >= 1
    BY <1>1, TimesNat
  <2>2. 1 * (p * S) <= T * (p * S)
    BY <2>1, TimesMonotone
  <2>3. \A i \in Nat : 1 * i = i /\ T * i = i * T
    BY SMT
  <2> QED
    BY <2>1, <2>2, <2>3
<1>10. (T * p) * (S * (x - y)) <= S * S * D + S * S + 3 * (p * S * T)
  <2>1. (T * p) * (S * (x - y)) <= (T * p) * (c * (r - q) + S)
    BY <1>1, <1>4, SMT
  <2>2. (T * p) * (c * (r - q) + S) = (p * c) * ((r - q) * T) + p * S * T
    BY <1>1, SMT
  <2>3. (p * c) * (r + T) = p * c * r + p * c * T
    BY <1>1, SMT
  <2> DEFINE e1 == (T * p) * (S * (x - y))
             e2 == (p * c) * ((r - q) * T)
             e3 == (p * c) * (r + T)
             e4 == p * c * r
             e5 == p * c * T
             e6 == p * S * T
             e7 == p * S
             e8 == S * S * D
             e9 == S * S
             e0 == (T * p) * (c * (r - q) + S)
  <2>4. /\ e1 \in Int /\ e2 \in Int /\ e3 \in Int /\ e4 \in Int /\ e5 \in Int
        /\ e6 \in Int /\ e7 \in Int /\ e8 \in Int /\ e9 \in Int /\ e0 \in Int
    BY <1>1
  <2>5. /\ e1 <= e0 /\ e0 = e2 + e6 /\ e2 <= e3 /\ e3 = e4 + e5 /\ e5 <= e6
        /\ e4 <= e8 + e9 + e7 /\ e7 <= e6
    BY <1>6, <1>7, <1>8, <1>9, <2>1, <2>2, <2>3
  <2> HIDE DEF e1, e2, e3, e4, e5, e6, e7, e8, e9, e0
  <2>6. e1 <= e8 + e9 + 3 * e6
    BY <2>4, <2>5
  <2> QED
    BY <2>6 DEF e1, e6, e8, e9
<1>11. S * (S * S * (W - V)) <= S * (bound + S * S)
  <2>1. (S * S) * (S * (W - V)) <= (S * S) * (T * (D - E) + S - 1)
    BY <1>1, <1>2, SMT
  <2>2. (S * T) * (S * (D - E)) <= (S * T) * (p * (x - y) + S)
    BY <1>1, <1>3, SMT
  <2> DEFINE e1 == S * (S * S * (W - V))
             e2 == S * S * T * (D - E)
             e3 == (T * p) * (S * (x - y))
             e4 == S * S * T
             e5 == p * S * T
             e6 == S * S * D
             e7 == S * S * S
             e8 == S * S
  <2>3. /\ (S * S) * (S * (W - V)) = e1
        /\ (S * S) * (T * (D - E) + S - 1) = e2 + e7 - e8
        /\ (S * T) * (S * (D - E)) = e2
        /\ (S * T) * (p * (x - y) + S) = e3 + e4
        /\ S * (bound + S * S) = e6 + 3 * e5 + e4 + e7
    BY <1>1, SMT
  <2>4. /\ e1 \in Int /\ e2 \in Int /\ e3 \in Int /\ e4 \in Int /\ e5 \in Int
        /\ e6 \in Int /\ e7 \in Int /\ e8 \in Int
    BY <1>1
  <2>5. e1 <= e2 + e7 - e8 /\ e2 <= e3 + e4 /\ e3 <= e6 + e8 + 3 * e5
    BY <1>10, <2>1, <2>2, <2>3
  <2> HIDE DEF e1, e2, e3, e4, e5, e6, e7, e8, bound
  <2>6. e1 <= e6 + 3 * e5 + e4 + e7
    BY <2>4, <2>5
  <2> QED
    BY <2>3, <2>6 DEF e1
<1>12. bound \in Nat /\ S * S \in Nat /\ S * S > 0
  BY <1>1, SMT
<1> HIDE DEF bound
<1>13. S * S * (W - V) <= bound + S * S
  <2> DEFINE k == S * S * (W - V)
             n == bound + S * S
  <2>1. k \in Int /\ n \in Int /\ S * k <= S * n
    BY <1>1, <1>11, <1>12
  <2> HIDE DEF k, n
  <2>2. k <= n
    BY <1>1, <2>1, SMT
  <2> QED
    BY <2>2 DEF k, n
<1>14. W - V <= 1 + bound \div (S * S)
  <2> DEFINE d == S * S
  <2>1. d * (W - V) <= bound + d
    BY <1>13
  <2>2. d \in Nat /\ d > 0
    BY <1>12
  <2> HIDE DEF d
  <2>3. bound \div d \in Nat
    BY <1>12, <2>2, DivBounds
  <2>4. CASE W - V >= 1
    <3>1. W - V - 1 \in Nat
      BY <1>1, <2>4
    <3>2. (W - V - 1) * d = d * (W - V) - d
      BY <1>1, <2>2, SMT
    <3>3. d * (W - V) \in Int
      BY <1>1, <2>2
    <3>4. bound >= (W - V - 1) * d
      BY <1>12, <2>1, <2>2, <3>2, <3>3
    <3>5. bound \div d >= W - V - 1
      BY <1>12, <2>2, <3>1, <3>4, DivAtLeast
    <3> QED
      BY <1>1, <2>3, <3>5 DEF d
  <2>5. CASE W - V < 1
    BY <1>1, <2>3, <2>5 DEF d
  <2> QED
    BY <1>1, <2>4, <2>5
<1> QED
  BY <1>14 DEF S, x, y, D, E, W, V, bound

\* A truncated product does not fall as a factor grows.
LEMMA MulTruncateMonotone ==
  ASSUME NEW x \in Nat, NEW z \in Nat, x <= z, NEW k \in Nat
  PROVE  MulTruncate(x, k) <= MulTruncate(z, k) /\ MulTruncate(k, x) <= MulTruncate(k, z)
<1> DEFINE v == MulTruncate(x, k)
<1>1. ExpScale \in Nat /\ ExpScale > 0 /\ v \in Nat
  BY MulTruncateNat, ExpScaleAssumption
<1>2. ExpScale * v <= x * k /\ x * k <= z * k /\ x * k \in Nat /\ z * k \in Nat
  BY MulTruncateBounds, TimesMonotone, TimesNat
<1>3. k * x = x * k /\ k * z = z * k
  BY SMT
<1>4. v = MulTruncate(k, x)
  BY <1>3 DEF MulTruncate
<1> HIDE DEF v
<1>5. v * ExpScale <= z * k
  <2>1. v * ExpScale = ExpScale * v /\ ExpScale * v \in Int
    BY <1>1, SMT
  <2> QED
    BY <1>2, <2>1
<1>6. (z * k) \div ExpScale >= v
  BY <1>1, <1>2, <1>5, DivAtLeast
<1> QED
  BY <1>3, <1>4, <1>6 DEF MulTruncate, v

\* A part of the sum is worth, truncated, no less than the truncated whole less
\* the truncated rest and one.
LEMMA MulTruncateSplit ==
  ASSUME NEW k \in Nat, NEW x \in Nat, NEW n \in Nat
  PROVE  /\ MulTruncate(k, x + n) <= MulTruncate(k, x) + MulTruncate(k, n) + 1
         /\ MulTruncate(k, x) + MulTruncate(k, n) <= MulTruncate(k, x + n)
<1>0. \A i \in Nat : MulTruncate(k, i) \in Nat
                      /\ ExpScale * MulTruncate(k, i) <= k * i
                      /\ k * i <= ExpScale * MulTruncate(k, i) + ExpScale - 1
  BY MulTruncateNat, MulTruncateBounds
<1> DEFINE v == MulTruncate(k, x)
           w == MulTruncate(k, n)
           e == MulTruncate(k, x + n)
<1>1. ExpScale \in Nat /\ ExpScale > 0 /\ v \in Nat /\ w \in Nat /\ e \in Nat
  <2>1. x + n \in Nat
    OBVIOUS
  <2> QED
    BY <1>0, <2>1, ExpScaleAssumption
<1>2. /\ ExpScale * e <= k * (x + n)
      /\ k * x <= ExpScale * v + ExpScale - 1
      /\ k * n <= ExpScale * w + ExpScale - 1
      /\ ExpScale * v <= k * x /\ ExpScale * w <= k * n
      /\ k * (x + n) <= ExpScale * e + ExpScale - 1
  <2>1. x + n \in Nat
    OBVIOUS
  <2> QED
    BY <1>0, <2>1
<1> HIDE DEF v, w, e
<1>3. k * (x + n) = k * x + k * n
  BY SMT
<1>4. ExpScale * (v + w + 2) = ExpScale * v + ExpScale * w + 2 * ExpScale
  BY <1>1, SMT
<1>5. ExpScale * (v + w) = ExpScale * v + ExpScale * w /\ ExpScale * (e + 1) = ExpScale * e + ExpScale
  BY <1>1, SMT
<1>6. /\ ExpScale * v \in Int /\ ExpScale * w \in Int /\ ExpScale * e \in Int
      /\ k * x \in Int /\ k * n \in Int
  BY <1>1
<1>7. ExpScale * e < ExpScale * (v + w + 2) /\ ExpScale * (v + w) < ExpScale * (e + 1)
  BY <1>1, <1>2, <1>3, <1>4, <1>5, <1>6
<1>8. e < v + w + 2 /\ v + w < e + 1
  <2>1. \A i, j \in Int : ExpScale * i < ExpScale * j => i < j
    BY <1>1, SMT
  <2> QED
    BY <1>1, <1>7, <2>1
<1> QED
  BY <1>1, <1>8 DEF v, w, e

\* What a step that keeps the suppliers' share takes from the rate of brTokens
\* of which T are still held.
LEMMA RateLoss ==
  ASSUME NEW old \in MarketBooks, NEW new \in MarketBooks, KeepsShare(old, new),
         old.totalSupply > 0, ExchangeRateKnown(old), ExchangeRateKnown(new),
         NEW T \in Nat, T > 0, T <= new.totalSupply
  PROVE  (ExchangeRate(old) - ExchangeRate(new)) * T <= ExchangeRate(old) + T
<1> DEFINE r == ExchangeRate(old)
           q == ExchangeRate(new)
           s == new.totalSupply
           x == Backing(new) * ExpScale
<1>1. s \in Nat /\ s > 0 /\ T <= s
  BY BackingInt
<1>2. r \in Nat /\ q \in Nat
  BY ExchangeRateType
<1>3. x \in Nat
  BY <1>1, BackingInt, TimesNat, ExpScaleAssumption
<1>4. x >= r * (s - 1)
  BY <1>1 DEF KeepsShare
<1>5. q = x \div s
  BY <1>1 DEF ExchangeRate, GetExp, Backing
<1> HIDE DEF r, q, s, x
<1>6. x < s * (q + 1)
  BY <1>1, <1>3, <1>5, DivBounds
<1>7. (r - q - 1) * s < r
  <2>1. r * (s - 1) = r * s - r /\ s * (q + 1) = q * s + s /\ (r - q - 1) * s = r * s - q * s - s
    BY <1>1, <1>2, SMT
  <2>2. r * s \in Int /\ q * s \in Int
    BY <1>1, <1>2
  <2> QED
    BY <1>1, <1>2, <1>3, <1>4, <1>6, <2>1, <2>2
<1>8. (r - q) * T = (r - q - 1) * T + T /\ (r - q - 1) * T \in Int /\ (r - q - 1) * s \in Int
  BY <1>1, <1>2, SMT
<1>9. CASE r - q >= 1
  <2>1. r - q - 1 \in Nat
    BY <1>2, <1>9
  <2>2. (r - q - 1) * T <= (r - q - 1) * s
    BY <1>1, <2>1, SMT
  <2> QED
    BY <1>1, <1>2, <1>7, <1>8, <2>2 DEF r, q
<1>10. CASE r - q < 1
  <2>1. (r - q) * T <= 0
    BY <1>2, <1>10, SMT
  <2>2. (r - q) * T \in Int
    BY <1>2
  <2> QED
    BY <1>2, <2>1, <2>2 DEF r, q
<1> QED
  BY <1>2, <1>9, <1>10

-----------------------------------------------------------------------------
(* What one market adds to an account's liquidity *)

RiskTyped ==
  /\ collateralFactor \in [Markets -> Nat] /\ price \in [Markets -> Nat]
  /\ \A m \in Markets : collateralFactor[m] <= ExpScale

\* tokensToDenom of market m at books t.
Denom(t, m) == MulTruncate(MulTruncate(collateralFactor[m], ExchangeRate(t)), price[m])

Net(t, m, u) ==
  MulTruncate(Denom(t, m), t.tokens[u]) - MulTruncate(price[m], BorrowBalanceStored(t, u))

Loss(t, m, T) ==
  (Denom(t, m) * ExpScale + T * (3 * price[m] + ExpScale)) \div (ExpScale * ExpScale)

\* Books whose rate can be read and whose brTokens are in the accounts.
Readable(t) == BooksInv(t, blockNumber) /\ ExchangeRateKnown(t) /\ Backed(t)

LEMMA DenomNat ==
  ASSUME RiskTyped, NEW t, Readable(t), NEW m \in Markets
  PROVE  Denom(t, m) \in Nat /\ ExchangeRate(t) \in Nat
<1>1. ExchangeRate(t) \in Nat
  BY ExchangeRateType DEF Readable, BooksInv
<1>2. collateralFactor[m] \in Nat /\ price[m] \in Nat
  BY DEF RiskTyped
<1> QED
  BY <1>1, <1>2, MulTruncateNat DEF Denom

LEMMA ReadableFacts ==
  ASSUME NEW t, Readable(t), NEW u \in Accounts
  PROVE  /\ t \in MarketBooks /\ t.tokens[u] \in Nat /\ t.totalSupply \in Nat
         /\ t.tokens[u] <= t.totalSupply
         /\ BorrowBalanceStored(t, u) \in Nat
<1>1. t \in MarketBooks /\ t.tokens \in [Accounts -> Nat] /\ t.totalSupply \in Nat
  BY DEF Readable, BooksInv, MarketBooks
<1>2. t.tokens[u] <= SumFunction(t.tokens)
  BY <1>1, AccountsFinite, SumFunctionNat
<1>3. t.totalSupply = SumFunction(t.tokens)
  BY DEF Readable, Backed
<1>4. BorrowBalanceStored(t, u) \in Nat
  BY BorrowBalanceType DEF Readable
<1> QED
  BY <1>1, <1>2, <1>3, <1>4

LEMMA NetInt ==
  ASSUME RiskTyped, NEW t, Readable(t), NEW m \in Markets, NEW u \in Accounts
  PROVE  /\ Net(t, m, u) \in Int
         /\ MulTruncate(Denom(t, m), t.tokens[u]) \in Nat
         /\ MulTruncate(price[m], BorrowBalanceStored(t, u)) \in Nat
<1>1. price[m] \in Nat
  BY DEF RiskTyped
<1>2. /\ MulTruncate(Denom(t, m), t.tokens[u]) \in Nat
      /\ MulTruncate(price[m], BorrowBalanceStored(t, u)) \in Nat
  BY <1>1, DenomNat, ReadableFacts, MulTruncateNat
<1> QED
  BY <1>2 DEF Net

LEMMA LossNat ==
  ASSUME RiskTyped, NEW t, Readable(t), NEW m \in Markets, NEW T \in Nat
  PROVE  Loss(t, m, T) \in Nat
<1>1. price[m] \in Nat /\ Denom(t, m) \in Nat /\ ExpScale \in Nat /\ ExpScale > 0
  BY DenomNat, ExpScaleAssumption DEF RiskTyped
<1> DEFINE n == Denom(t, m) * ExpScale + T * (3 * price[m] + ExpScale)
<1>2. Denom(t, m) * ExpScale \in Nat /\ 3 * price[m] + ExpScale \in Nat
  BY <1>1, TimesNat
<1>3. T * (3 * price[m] + ExpScale) \in Nat
  BY <1>2, TimesNat
<1>4. n \in Nat
  BY <1>2, <1>3
<1>5. ExpScale * ExpScale \in Nat /\ ExpScale * ExpScale > 0
  BY <1>1, SMT
<1> HIDE DEF n
<1>6. n \div (ExpScale * ExpScale) \in Nat
  BY <1>4, <1>5, DivNat
<1> QED
  BY <1>6 DEF Loss, n

\* More brTokens held, lower rates.
LEMMA LossMonotone ==
  ASSUME RiskTyped, NEW t, Readable(t), NEW m \in Markets, NEW T \in Nat, NEW U \in Nat, T <= U
  PROVE  Loss(t, m, T) <= Loss(t, m, U)
<1> DEFINE p == 3 * price[m] + ExpScale
           d == Denom(t, m) * ExpScale
           k == ExpScale * ExpScale
<1>1. ExpScale \in Nat /\ ExpScale > 0 /\ price[m] \in Nat /\ Denom(t, m) \in Nat
  BY DenomNat, ExpScaleAssumption DEF RiskTyped
<1>2. p \in Nat /\ d \in Nat /\ k \in Nat /\ k > 0
  BY <1>1, TimesNat, SMT
<1> DEFINE x == d + T * p
           y == d + U * p
<1> HIDE DEF p, d, k
<1>3. T * p <= U * p /\ T * p \in Nat /\ U * p \in Nat
  BY <1>2, TimesMonotone, TimesNat
<1>4. x \in Nat /\ y \in Nat /\ x <= y
  BY <1>2, <1>3
<1> HIDE DEF x, y
<1>5. x \div k \in Nat /\ k * (x \div k) <= x
  BY <1>2, <1>4, DivBounds
<1>6. (x \div k) * k = k * (x \div k) /\ k * (x \div k) \in Int
  BY <1>2, <1>5, SMT
<1>7. y >= (x \div k) * k
  BY <1>4, <1>5, <1>6
<1>8. y \div k >= x \div k
  BY <1>2, <1>4, <1>5, <1>7, DivAtLeast
<1> QED
  BY <1>8 DEF Loss, x, y, p, d, k

\* A rate that does not fall.
LEMMA WorthKept ==
  ASSUME RiskTyped, NEW old, Readable(old), NEW new, Readable(new), NEW m \in Markets,
         ExchangeRate(new) >= ExchangeRate(old), NEW T \in Nat, NEW U \in Nat, T <= U
  PROVE  MulTruncate(Denom(old, m), T) <= MulTruncate(Denom(new, m), U)
<1>1. /\ ExchangeRate(old) \in Nat /\ ExchangeRate(new) \in Nat
      /\ Denom(old, m) \in Nat /\ Denom(new, m) \in Nat
      /\ collateralFactor[m] \in Nat /\ price[m] \in Nat
  BY DenomNat DEF RiskTyped
<1>2. /\ MulTruncate(collateralFactor[m], ExchangeRate(old)) \in Nat
      /\ MulTruncate(collateralFactor[m], ExchangeRate(new)) \in Nat
      /\ MulTruncate(collateralFactor[m], ExchangeRate(old))
           <= MulTruncate(collateralFactor[m], ExchangeRate(new))
  BY <1>1, MulTruncateNat, MulTruncateMonotone
<1>3. Denom(old, m) <= Denom(new, m)
  BY <1>1, <1>2, MulTruncateMonotone DEF Denom
<1>4. /\ MulTruncate(Denom(old, m), T) <= MulTruncate(Denom(new, m), T)
      /\ MulTruncate(Denom(new, m), T) <= MulTruncate(Denom(new, m), U)
  BY <1>1, <1>3, MulTruncateMonotone
<1>5. /\ MulTruncate(Denom(old, m), T) \in Nat /\ MulTruncate(Denom(new, m), T) \in Nat
      /\ MulTruncate(Denom(new, m), U) \in Nat
  BY <1>1, MulTruncateNat
<1> QED
  BY <1>4, <1>5

\* brTokens that stay with their holder lose the truncation, at most.
LEMMA WorthLoss ==
  ASSUME RiskTyped, NEW old, Readable(old), NEW new, Readable(new), NEW m \in Markets,
         KeepsShare(old, new), NEW T \in Nat, T <= old.totalSupply, T <= new.totalSupply
  PROVE  MulTruncate(Denom(old, m), T) - MulTruncate(Denom(new, m), T) <= 1 + Loss(old, m, T)
<1>1. /\ ExchangeRate(old) \in Nat /\ ExchangeRate(new) \in Nat
      /\ Denom(old, m) \in Nat /\ Denom(new, m) \in Nat
      /\ collateralFactor[m] \in Nat /\ price[m] \in Nat /\ collateralFactor[m] <= ExpScale
  BY DenomNat DEF RiskTyped
<1>2. /\ old \in MarketBooks /\ new \in MarketBooks
      /\ ExchangeRateKnown(old) /\ ExchangeRateKnown(new)
  BY DEF Readable, BooksInv
<1>3. CASE T = 0
  <2>1. MulTruncate(Denom(old, m), T) = 0 /\ MulTruncate(Denom(new, m), T) = 0
    <3>1. \A k \in Nat : MulTruncate(k, 0) = 0
      BY ExpScaleAssumption, SMT DEF MulTruncate
    <3> QED
      BY <1>1, <1>3, <3>1
  <2>2. Loss(old, m, T) \in Nat
    BY LossNat
  <2> QED
    BY <2>1, <2>2
<1>4. CASE T > 0
  <2>1. old.totalSupply > 0
    BY <1>2, <1>4, BackingInt
  <2>2. (ExchangeRate(old) - ExchangeRate(new)) * T <= ExchangeRate(old) + T
    BY <1>2, <1>4, <2>1, RateLoss
  <2> QED
    BY <1>1, <1>4, <2>2, ChainLoss DEF Denom, Loss
<1> QED
  BY <1>3, <1>4

\* Holding more, owing less, in a market whose supply does not fall.
Gains(old, new, u) ==
  /\ new.tokens[u] >= old.tokens[u]
  /\ new.totalSupply >= old.totalSupply
  /\ BorrowBalanceStored(new, u) <= BorrowBalanceStored(old, u)

\* Holding as much and owing no more.
Stays(old, new, u) ==
  /\ new.tokens[u] = old.tokens[u]
  /\ BorrowBalanceStored(new, u) <= BorrowBalanceStored(old, u)

\* What is held there is worth no less.
LEMMA HeldGains ==
  ASSUME RiskTyped, NEW old, Readable(old), NEW new, Readable(new), NEW m \in Markets,
         KeepsShare(old, new), new.totalSupply >= old.totalSupply,
         NEW T \in Nat, T <= old.totalSupply, NEW U \in Nat, T <= U
  PROVE  MulTruncate(Denom(old, m), T) <= MulTruncate(Denom(new, m), U)
<1>1. old \in MarketBooks /\ new \in MarketBooks /\ old.totalSupply \in Nat /\ new.totalSupply \in Nat
  BY BackingInt DEF Readable, BooksInv
<1>2. CASE T = 0
  <2>1. MulTruncate(Denom(old, m), T) = 0
    BY <1>2, DenomNat, ExpScaleAssumption, SMT DEF MulTruncate
  <2> QED
    BY <2>1, DenomNat, MulTruncateNat
<1>3. CASE T > 0
  <2>1. ExchangeRate(new) >= ExchangeRate(old)
    BY <1>1, <1>3 DEF KeepsShare, Readable
  <2> QED
    BY <2>1, WorthKept
<1> QED
  BY <1>2, <1>3

LEMMA OwesLess ==
  ASSUME RiskTyped, NEW m \in Markets, NEW x \in Nat, NEW y \in Nat, x <= y
  PROVE  MulTruncate(price[m], x) <= MulTruncate(price[m], y)
  BY MulTruncateMonotone DEF RiskTyped

LEMMA GainsNet ==
  ASSUME RiskTyped, NEW old, Readable(old), NEW new, Readable(new), NEW m \in Markets,
         KeepsShare(old, new), NEW u \in Accounts, Gains(old, new, u)
  PROVE  Net(new, m, u) >= Net(old, m, u)
<1>1. /\ MulTruncate(Denom(old, m), old.tokens[u]) <= MulTruncate(Denom(new, m), new.tokens[u])
      /\ MulTruncate(price[m], BorrowBalanceStored(new, u))
           <= MulTruncate(price[m], BorrowBalanceStored(old, u))
  BY ReadableFacts, HeldGains, OwesLess DEF Gains
<1> QED
  BY <1>1, NetInt DEF Net

LEMMA StaysNet ==
  ASSUME RiskTyped, NEW old, Readable(old), NEW new, Readable(new), NEW m \in Markets,
         KeepsShare(old, new), NEW u \in Accounts, Stays(old, new, u)
  PROVE  Net(new, m, u) >= Net(old, m, u) - (2 + Loss(old, m, old.tokens[u]))
<1>1. /\ MulTruncate(Denom(old, m), old.tokens[u]) - MulTruncate(Denom(new, m), new.tokens[u])
           <= 1 + Loss(old, m, old.tokens[u])
      /\ MulTruncate(price[m], BorrowBalanceStored(new, u))
           <= MulTruncate(price[m], BorrowBalanceStored(old, u))
  BY ReadableFacts, WorthLoss, OwesLess DEF Stays
<1>2. Loss(old, m, old.tokens[u]) \in Nat
  BY ReadableFacts, LossNat
<1> QED
  BY <1>1, <1>2, NetInt DEF Net

-----------------------------------------------------------------------------
(* An account's liquidity is the sum over the markets it is in *)

\* What an account of the list `assets` has, over the books M.
Position(M, u, assets) == SumFunction([m \in ToSet(assets) |-> Net(M[m], m, u)])

\* Books over which the lens answers.
Answered(M, assets) ==
  /\ assets \in Seq(Markets) /\ NoRepeats(assets)
  /\ \A m \in ToSet(assets) : Readable(M[m])

LEMMA AssetsFinite ==
  ASSUME NEW s \in Seq(Markets)
  PROVE  /\ IsFiniteSet(ToSet(s)) /\ ToSet(s) \subseteq Markets
         /\ IsFiniteSet(DOMAIN s) /\ \A i \in DOMAIN s : s[i] \in ToSet(s)
<1>1. DOMAIN s = 1..Len(s) /\ Len(s) \in Nat
  OBVIOUS
<1>2. IsFiniteSet(DOMAIN s)
  BY <1>1, FS_Interval
<1>3. ToSet(s) = {s[i] : i \in DOMAIN s}
  BY DEF ToSet
<1>4. IsFiniteSet(ToSet(s))
  <2>1. s \in Surjection(DOMAIN s, ToSet(s))
    BY <1>3 DEF Surjection
  <2> QED
    BY <1>2, <2>1, FS_Surjection
<1> QED
  BY <1>2, <1>3, <1>4

\* The code adds along the list; no market is in it twice.
LEMMA ListSum ==
  ASSUME NEW s \in Seq(Markets), NoRepeats(s), NEW g, \A m \in ToSet(s) : g[m] \in Int
  PROVE  SumFunction([i \in DOMAIN s |-> g[s[i]]]) = SumFunctionOnSet(g, ToSet(s))
<1> DEFINE f == [i \in DOMAIN s |-> g[s[i]]]
<1>1. IsFiniteSet(DOMAIN s) /\ \A i \in DOMAIN s : s[i] \in ToSet(s)
  BY AssetsFinite
<1>2. \A i \in DOMAIN s : f[i] \in Int /\ g[s[i]] = f[i]
  BY <1>1
<1>3. \A i, j \in DOMAIN s : s[i] = s[j] => i = j
  BY DEF NoRepeats
<1>4. DOMAIN f = DOMAIN s
  OBVIOUS
<1> HIDE DEF f
<1>5. SumFunctionOnSet(g, {s[i] : i \in DOMAIN s}) = SumFunctionOnSet(f, DOMAIN s)
  BY <1>1, <1>2, <1>3, SumRenamed
<1>6. ToSet(s) = {s[i] : i \in DOMAIN s}
  BY DEF ToSet
<1>7. SumFunction(f) = SumFunctionOnSet(f, DOMAIN s)
  BY <1>4 DEF SumFunction
<1> QED
  BY <1>5, <1>6, <1>7 DEF f

\* The hypothetical effects of getHypotheticalAccountLiquidity.
Effect(M, m, n, b) ==
  MulTruncate(Denom(M[m], m), n) + MulTruncate(price[m], b)

LEMMA EffectNat ==
  ASSUME RiskTyped, NEW M, NEW m \in Markets, Readable(M[m]), NEW n \in Nat, NEW b \in Nat
  PROVE  Effect(M, m, n, b) \in Nat
<1>1. MulTruncate(Denom(M[m], m), n) \in Nat /\ MulTruncate(price[m], b) \in Nat
  BY DenomNat, MulTruncateNat DEF RiskTyped
<1> QED
  BY <1>1 DEF Effect

LEMMA LiquidityAsSum ==
  ASSUME RiskTyped, NEW M, NEW assets, Answered(M, assets), NEW u \in Accounts,
         NEW k \in Markets \cup {NoMarket}, NEW n \in Nat, NEW b \in Nat
  PROVE  LET g == [m \in ToSet(assets) |->
                     Net(M[m], m, u) - (IF m # k THEN 0 ELSE Effect(M, m, n, b))]
         IN  /\ Liquidity(M, u, assets, k, n, b) = SumFunction(g)
             /\ g \in [ToSet(assets) -> Int]
<1> DEFINE A == ToSet(assets)
           g == [m \in A |-> Net(M[m], m, u) - (IF m # k THEN 0 ELSE Effect(M, m, n, b))]
<1>1. assets \in Seq(Markets) /\ NoRepeats(assets) /\ A \subseteq Markets
  BY AssetsFinite DEF Answered
<1>2. \A i \in DOMAIN assets : assets[i] \in A
  BY <1>1, AssetsFinite
<1>3. \A m \in A : Readable(M[m])
  BY DEF Answered
<1> HIDE DEF A
<1>4. \A m \in A : /\ Net(M[m], m, u) \in Int
                   /\ Effect(M, m, n, b) \in Nat
  BY <1>1, <1>3, NetInt, EffectNat
<1>5. g \in [A -> Int]
  BY <1>4
<1>6. \A m \in A : g[m] = Net(M[m], m, u) - (IF m # k THEN 0 ELSE Effect(M, m, n, b))
  OBVIOUS
<1>7. Liquidity(M, u, assets, k, n, b)
        = SumFunction([i \in DOMAIN assets |->
             MulTruncate(TokensToDenom(M, assets[i]), M[assets[i]].tokens[u])
             - MulTruncate(price[assets[i]], BorrowBalanceStored(M[assets[i]], u))
             - (IF assets[i] # k THEN 0
                ELSE MulTruncate(TokensToDenom(M, assets[i]), n)
                       + MulTruncate(price[assets[i]], b))])
  BY DEF Liquidity
<1>8. [i \in DOMAIN assets |->
             MulTruncate(TokensToDenom(M, assets[i]), M[assets[i]].tokens[u])
             - MulTruncate(price[assets[i]], BorrowBalanceStored(M[assets[i]], u))
             - (IF assets[i] # k THEN 0
                ELSE MulTruncate(TokensToDenom(M, assets[i]), n)
                       + MulTruncate(price[assets[i]], b))]
        = [i \in DOMAIN assets |-> g[assets[i]]]
  BY <1>2, <1>6 DEF Net, Effect, Denom, TokensToDenom
<1>9. DOMAIN g = A
  OBVIOUS
<1> HIDE DEF g
<1>10. \A m \in A : g[m] \in Int
  BY <1>5
<1>11. SumFunction([i \in DOMAIN assets |-> g[assets[i]]]) = SumFunctionOnSet(g, A)
  BY <1>1, <1>10, ListSum DEF A
<1>12. SumFunction(g) = SumFunctionOnSet(g, A)
  BY <1>9 DEF SumFunction
<1> QED
  BY <1>5, <1>7, <1>8, <1>11, <1>12 DEF g, A

\* The liquidity with nothing hypothetical.
LEMMA LiquidityIsPosition ==
  ASSUME RiskTyped, NEW M, NEW assets, Answered(M, assets), NEW u \in Accounts,
         NEW k \in Markets \cup {NoMarket}, k \notin ToSet(assets), NEW n \in Nat, NEW b \in Nat
  PROVE  /\ Liquidity(M, u, assets, k, n, b) = Position(M, u, assets)
         /\ Position(M, u, assets) \in Int
         /\ [m \in ToSet(assets) |-> Net(M[m], m, u)] \in [ToSet(assets) -> Int]
<1> DEFINE A == ToSet(assets)
           g == [m \in A |-> Net(M[m], m, u) - (IF m # k THEN 0 ELSE Effect(M, m, n, b))]
           f == [m \in A |-> Net(M[m], m, u)]
<1>1. Liquidity(M, u, assets, k, n, b) = SumFunction(g)
  BY LiquidityAsSum
<1>2. \A m \in A : m # k /\ m \in Markets /\ Readable(M[m])
  BY AssetsFinite DEF Answered
<1>3. IsFiniteSet(A)
  BY AssetsFinite DEF Answered
<1> HIDE DEF A
<1>4. \A m \in A : Net(M[m], m, u) \in Int
  BY <1>2, NetInt
<1>5. f = g /\ f \in [A -> Int]
  BY <1>2, <1>4
<1> HIDE DEF f, g
<1>6. SumFunction(f) \in Int
  BY <1>3, <1>5, SumFunctionInt
<1> QED
  BY <1>1, <1>5, <1>6 DEF Position, f, A

\* With a redemption or a borrow in a market of the list.
LEMMA LiquidityAfter ==
  ASSUME RiskTyped, NEW M, NEW assets, Answered(M, assets), NEW u \in Accounts,
         NEW k \in ToSet(assets), NEW n \in Nat, NEW b \in Nat
  PROVE  Liquidity(M, u, assets, k, n, b) = Position(M, u, assets) - Effect(M, k, n, b)
<1> DEFINE A == ToSet(assets)
           g == [m \in A |-> Net(M[m], m, u) - (IF m # k THEN 0 ELSE Effect(M, m, n, b))]
           f == [m \in A |-> Net(M[m], m, u)]
<1>1. IsFiniteSet(A) /\ A \subseteq Markets
  BY AssetsFinite DEF Answered
<1>2. Liquidity(M, u, assets, k, n, b) = SumFunction(g) /\ g \in [A -> Int]
  BY <1>1, LiquidityAsSum
<1>3. \A m \in A : Readable(M[m])
  BY DEF Answered
<1> HIDE DEF A
<1>4. \A m \in A : Net(M[m], m, u) \in Int
  BY <1>1, <1>3, NetInt
<1>5. f \in [A -> Int]
  BY <1>4
<1>6. k \in A
  BY DEF A
<1>7. Effect(M, k, n, b) \in Nat
  BY <1>1, <1>3, <1>6, EffectNat
<1>8. g[k] = f[k] - Effect(M, k, n, b) /\ \A m \in A \ {k} : g[m] = f[m]
  BY <1>4, <1>6, <1>7
<1> HIDE DEF f, g
<1>9. SumFunction(g) = SumFunction(f) - f[k] + g[k]
  BY <1>1, <1>2, <1>5, <1>6, <1>8, SumFunctionUpdate
<1>10. SumFunction(f) \in Int /\ f[k] \in Int
  BY <1>1, <1>5, <1>6, SumFunctionInt
<1> QED
  BY <1>2, <1>7, <1>8, <1>9, <1>10 DEF Position, f, A

\* Only one market of the same list adds less than before, by no more than loss.
LEMMA PositionKept ==
  ASSUME RiskTyped, NEW M, NEW N, NEW assets, Answered(M, assets), Answered(N, assets),
         NEW u \in Accounts, NEW k, NEW loss \in Nat,
         \A m \in ToSet(assets) \ {k} : Net(N[m], m, u) >= Net(M[m], m, u),
         k \in ToSet(assets) => Net(N[k], k, u) >= Net(M[k], k, u) - loss
  PROVE  Position(N, u, assets) >= Position(M, u, assets) - loss
<1> DEFINE A == ToSet(assets)
           f == [m \in A |-> Net(M[m], m, u)]
           g == [m \in A |-> Net(N[m], m, u)]
<1>1. IsFiniteSet(A) /\ A \subseteq Markets
  BY AssetsFinite DEF Answered
<1>2. NoMarket \notin A
  BY <1>1, ComptrollerAssumption
<1>3. f \in [A -> Int] /\ g \in [A -> Int]
  BY <1>2, LiquidityIsPosition
<1>4. /\ \A m \in A : f[m] = Net(M[m], m, u) /\ g[m] = Net(N[m], m, u)
      /\ Position(M, u, assets) = SumFunction(f) /\ Position(N, u, assets) = SumFunction(g)
  BY DEF Position
<1>5. /\ \A m \in A \ {k} : g[m] >= f[m]
      /\ k \in A => g[k] >= f[k] - loss
  BY <1>4
<1> HIDE DEF f, g, A
<1>6. SumFunction(f) \in Int /\ SumFunction(g) \in Int
  BY <1>1, <1>3, SumFunctionInt
<1>7. CASE k \in A
  <2> DEFINE h == [f EXCEPT ![k] = f[k] - loss]
  <2>1. h \in [A -> Int] /\ h[k] = f[k] - loss /\ \A m \in A \ {k} : h[m] = f[m]
    BY <1>3, <1>7
  <2> HIDE DEF h
  <2>2. SumFunction(h) = SumFunction(f) - f[k] + h[k]
    BY <1>1, <1>3, <1>7, <2>1, SumFunctionUpdate
  <2>3. \A m \in A : h[m] <= g[m]
    BY <1>3, <1>5, <2>1
  <2>4. SumFunction(h) <= SumFunction(g)
    BY <1>1, <1>3, <2>1, <2>3, SumFunctionLeq
  <2>5. f[k] \in Int
    BY <1>3, <1>7
  <2> QED
    BY <1>4, <1>6, <2>1, <2>2, <2>4, <2>5
<1>8. CASE k \notin A
  <2>1. \A m \in A : f[m] <= g[m]
    BY <1>3, <1>5, <1>8
  <2>2. SumFunction(f) <= SumFunction(g)
    BY <1>1, <1>3, <2>1, SumFunctionLeq
  <2> QED
    BY <1>4, <1>6, <2>2
<1> QED
  BY <1>7, <1>8

\* One more market in the list.
LEMMA PositionAppended ==
  ASSUME RiskTyped, NEW M, NEW small, NEW large, Answered(M, small), Answered(M, large),
         NEW u \in Accounts, NEW k \in Markets, k \notin ToSet(small),
         ToSet(large) = ToSet(small) \cup {k}
  PROVE  Position(M, u, large) = Net(M[k], k, u) + Position(M, u, small)
<1> DEFINE A == ToSet(small)
           B == ToSet(large)
           f == [m \in A |-> Net(M[m], m, u)]
           g == [m \in B |-> Net(M[m], m, u)]
<1>1. IsFiniteSet(A) /\ A \subseteq Markets /\ B \subseteq Markets /\ B = A \cup {k} /\ k \notin A
  BY AssetsFinite DEF Answered
<1>2. NoMarket \notin A /\ NoMarket \notin B
  BY <1>1, ComptrollerAssumption
<1>3. f \in [A -> Int] /\ g \in [B -> Int]
  BY <1>2, LiquidityIsPosition
<1>4. g[k] = Net(M[k], k, u) /\ \A m \in A : g[m] = f[m]
  BY <1>1
<1>5. Position(M, u, small) = SumFunction(f) /\ Position(M, u, large) = SumFunction(g)
  BY DEF Position
<1> HIDE DEF f, g, A, B
<1>6. SumFunction(g) = g[k] + SumFunction(f)
  <2>1. g \in [A \cup {k} -> Int]
    BY <1>1, <1>3
  <2> QED
    BY <1>1, <1>3, <1>4, <2>1, SumFunctionInsert
<1> QED
  BY <1>4, <1>5, <1>6

-----------------------------------------------------------------------------
(* Steps under which settings, prices and interest stand still *)

CollateralBounded == \A m \in Markets : collateralFactor[m] <= ExpScale

\* What is known of a step from the theorems above.
Calm ==
  /\ IInv /\ IInv'
  /\ SupplyMatchesBalances /\ SupplyMatchesBalances'
  /\ CollateralBounded
  /\ \A m \in Markets : KeepsShare(market[m], market'[m])
  /\ SettingsUnchanged

\* The lens answers for u before and after, and u owes something after.
Asked(u) ==
  /\ \A m \in ToSet(accountAssets[u]) : ExchangeRateKnown(market[m])
  /\ \A m \in ToSet(accountAssets'[u]) : ExchangeRateKnown(market'[m])
  /\ \E m \in Markets : market'[m].principal[u] > 0
  /\ Position(market, u, accountAssets[u]) >= 0

\* The step leaves u covered, up to what truncation in one market loses.
Covered(u) ==
  \E m \in Markets :
    Position(market', u, accountAssets'[u]) >= -(2 + Loss(market[m], m, market[m].tokens[u]))

LEMMA CalmFacts ==
  ASSUME Calm
  PROVE  /\ RiskTyped /\ WellFormed /\ NoMarket \notin Markets
         /\ \A m \in Markets :
              /\ BooksInv(market[m], blockNumber) /\ BooksInv(market'[m], blockNumber)
              /\ Backed(market[m]) /\ Backed(market'[m])
              /\ KeepsShare(market[m], market'[m])
         /\ \A u \in Accounts :
              /\ accountAssets[u] \in Seq(Markets) /\ accountAssets'[u] \in Seq(Markets)
              /\ NoRepeats(accountAssets[u]) /\ NoRepeats(accountAssets'[u])
              /\ \A m \in Markets :
                   /\ u \in accountMembership[m] <=> m \in ToSet(accountAssets[u])
                   /\ u \in accountMembership'[m] <=> m \in ToSet(accountAssets'[u])
                   /\ market[m].principal[u] > 0 => m \in ToSet(accountAssets[u])
                   /\ market'[m].principal[u] > 0 => m \in ToSet(accountAssets'[u])
<1>1. WellFormed /\ WellFormed' /\ blockNumber' = blockNumber
  BY DEF Calm, IInv, SettingsUnchanged
<1>2. RiskTyped
  BY <1>1 DEF Calm, RiskTyped, CollateralBounded, WellFormed, TypeOK
<1>3. \A m \in Markets :
        /\ BooksInv(market[m], blockNumber) /\ BooksInv(market'[m], blockNumber)
        /\ Backed(market[m]) /\ Backed(market'[m])
        /\ KeepsShare(market[m], market'[m])
  BY <1>1 DEF Calm, WellFormed, SupplyMatchesBalances, Backed
<1>4. ASSUME NEW u \in Accounts
      PROVE  /\ accountAssets[u] \in Seq(Markets) /\ accountAssets'[u] \in Seq(Markets)
             /\ NoRepeats(accountAssets[u]) /\ NoRepeats(accountAssets'[u])
  BY <1>1 DEF Calm, IInv, WellFormed, TypeOK, AssetsMatchMembership, NoRepeats
<1>5. ASSUME NEW u \in Accounts, NEW m \in Markets
      PROVE  /\ u \in accountMembership[m] <=> m \in ToSet(accountAssets[u])
             /\ u \in accountMembership'[m] <=> m \in ToSet(accountAssets'[u])
  BY DEF Calm, IInv, AssetsMatchMembership, ToSet
<1>6. ASSUME NEW u \in Accounts, NEW m \in Markets
      PROVE  /\ market[m].principal[u] > 0 => u \in accountMembership[m]
             /\ market'[m].principal[u] > 0 => u \in accountMembership'[m]
  BY DEF Calm, IInv, BorrowerIsMember
<1> QED
  BY <1>1, <1>2, <1>3, <1>4, <1>5, <1>6, ComptrollerAssumption

LEMMA AskedFacts ==
  ASSUME Calm, NEW u \in Accounts, Asked(u)
  PROVE  /\ Answered(market, accountAssets[u])
         /\ Answered(market', accountAssets'[u])
         /\ ToSet(accountAssets[u]) \subseteq Markets
         /\ ToSet(accountAssets'[u]) \subseteq Markets
         /\ \A m \in ToSet(accountAssets[u]) : Readable(market[m])
         /\ \A m \in ToSet(accountAssets'[u]) : Readable(market'[m])
         /\ Position(market, u, accountAssets[u]) \in Int
         /\ Position(market', u, accountAssets'[u]) \in Int
<1>1. /\ accountAssets[u] \in Seq(Markets) /\ accountAssets'[u] \in Seq(Markets)
      /\ NoRepeats(accountAssets[u]) /\ NoRepeats(accountAssets'[u])
  BY CalmFacts
<1>2. ToSet(accountAssets[u]) \subseteq Markets /\ ToSet(accountAssets'[u]) \subseteq Markets
  BY <1>1, AssetsFinite
<1>3. /\ \A m \in ToSet(accountAssets[u]) : Readable(market[m])
      /\ \A m \in ToSet(accountAssets'[u]) : Readable(market'[m])
  BY <1>2, CalmFacts DEF Asked, Readable
<1>4. Answered(market, accountAssets[u]) /\ Answered(market', accountAssets'[u])
  BY <1>1, <1>3 DEF Answered
<1>5. NoMarket \notin ToSet(accountAssets[u]) /\ NoMarket \notin ToSet(accountAssets'[u])
  BY <1>2, CalmFacts
<1>6. RiskTyped
  BY CalmFacts
<1>7. Position(market, u, accountAssets[u]) \in Int /\ Position(market', u, accountAssets'[u]) \in Int
  BY <1>4, <1>5, <1>6, LiquidityIsPosition
<1> QED
  BY <1>2, <1>3, <1>4, <1>7

LEMMA RoundingNat ==
  ASSUME Calm, NEW u \in Accounts, NEW m \in Markets, ExchangeRateKnown(market[m])
  PROVE  Loss(market[m], m, market[m].tokens[u]) \in Nat
<1>1. Readable(market[m]) /\ RiskTyped
  BY CalmFacts DEF Readable
<1> QED
  BY <1>1, ReadableFacts, LossNat

\* Who is not below zero is covered, if it owes what it owed in its markets.
LEMMA NotBelowZero ==
  ASSUME Calm, NEW u \in Accounts, Asked(u),
         \A m \in Markets : market'[m].principal[u] > 0 => m \in ToSet(accountAssets[u]),
         Position(market', u, accountAssets'[u]) >= 0
  PROVE  Covered(u)
<1>1. PICK m \in Markets : market'[m].principal[u] > 0
  BY DEF Asked
<1>2. ExchangeRateKnown(market[m])
  BY <1>1 DEF Asked
<1>3. Loss(market[m], m, market[m].tokens[u]) \in Nat
  BY <1>2, RoundingNat
<1> QED
  BY <1>3, AskedFacts DEF Covered

LEMMA SameGains ==
  ASSUME NEW t, BooksInv(t, blockNumber), NEW u \in Accounts
  PROVE  Gains(t, t, u)
<1>1. t.tokens[u] \in Nat /\ t.totalSupply \in Nat
  BY DEF BooksInv, MarketBooks
<1>2. BorrowBalanceStored(t, u) \in Nat
  BY BorrowBalanceType
<1> QED
  BY <1>1, <1>2 DEF Gains

\* A step that leaves u's list, and u's books except in one market.
LEMMA ListedStep ==
  ASSUME Calm, NEW u \in Accounts, Asked(u), accountAssets'[u] = accountAssets[u],
         NEW k \in Markets, NEW loss \in Nat,
         \A m \in Markets \ {k} : Gains(market[m], market'[m], u),
         k \in ToSet(accountAssets[u]) => Net(market'[k], k, u) >= Net(market[k], k, u) - loss
  PROVE  Position(market', u, accountAssets'[u]) >= Position(market, u, accountAssets[u]) - loss
<1> DEFINE s == accountAssets[u]
<1>1. /\ RiskTyped /\ Answered(market, s) /\ Answered(market', s) /\ ToSet(s) \subseteq Markets
      /\ \A m \in ToSet(s) : Readable(market[m]) /\ Readable(market'[m])
  BY CalmFacts, AskedFacts
<1>2. \A m \in ToSet(s) : KeepsShare(market[m], market'[m])
  BY <1>1, CalmFacts
<1> HIDE DEF s
<1>3. \A m \in ToSet(s) \ {k} : Net(market'[m], m, u) >= Net(market[m], m, u)
  BY <1>1, <1>2, GainsNet
<1>4. Position(market', u, s) >= Position(market, u, s) - loss
  BY <1>1, <1>3, PositionKept DEF s
<1> QED
  BY <1>4 DEF s

\* A step in which u neither spends brTokens nor borrows.
LEMMA GainingStep ==
  ASSUME Calm, NEW u \in Accounts, Asked(u), accountAssets'[u] = accountAssets[u],
         \A m \in Markets : Gains(market[m], market'[m], u)
  PROVE  Covered(u)
<1>1. PICK k \in Markets : market'[k].principal[u] > 0
  BY DEF Asked
<1>2. \A m \in Markets : market'[m].principal[u] > 0 => m \in ToSet(accountAssets[u])
  BY CalmFacts
<1>3. k \in ToSet(accountAssets[u]) => Net(market'[k], k, u) >= Net(market[k], k, u) - 0
  <2>1. ASSUME k \in ToSet(accountAssets[u])
        PROVE  Readable(market[k]) /\ Readable(market'[k]) /\ RiskTyped
               /\ KeepsShare(market[k], market'[k])
    BY <2>1, CalmFacts, AskedFacts
  <2> QED
    BY <2>1, GainsNet, NetInt
<1>4. Position(market', u, accountAssets'[u]) >= Position(market, u, accountAssets[u]) - 0
  BY <1>3, ListedStep
<1> QED
  BY <1>2, <1>4, AskedFacts, NotBelowZero DEF Asked

\* One in which another account redeems from market k.
LEMMA StayingStep ==
  ASSUME Calm, NEW u \in Accounts, Asked(u), accountAssets'[u] = accountAssets[u],
         NEW k \in Markets, Stays(market[k], market'[k], u),
         \A m \in Markets \ {k} : Gains(market[m], market'[m], u)
  PROVE  Covered(u)
<1> DEFINE loss == 2 + Loss(market[k], k, market[k].tokens[u])
<1>1. CASE k \in ToSet(accountAssets[u])
  <2>1. /\ Readable(market[k]) /\ Readable(market'[k]) /\ RiskTyped
        /\ KeepsShare(market[k], market'[k])
    BY <1>1, CalmFacts, AskedFacts
  <2>2. Net(market'[k], k, u) >= Net(market[k], k, u) - loss
    BY <2>1, StaysNet
  <2>3. loss \in Nat
    BY <2>1, RoundingNat DEF Readable
  <2> HIDE DEF loss
  <2>4. Position(market', u, accountAssets'[u]) >= Position(market, u, accountAssets[u]) - loss
    BY <2>2, <2>3, ListedStep
  <2>5. Position(market', u, accountAssets'[u]) >= -loss
    BY <2>3, <2>4, AskedFacts DEF Asked
  <2> QED
    BY <2>5 DEF Covered, loss
<1>2. CASE k \notin ToSet(accountAssets[u])
  <2>1. Position(market', u, accountAssets'[u]) >= Position(market, u, accountAssets[u]) - 0
    BY <1>2, ListedStep
  <2>2. \A m \in Markets : market'[m].principal[u] > 0 => m \in ToSet(accountAssets[u])
    BY CalmFacts
  <2> QED
    BY <2>1, <2>2, AskedFacts, NotBelowZero DEF Asked
<1> QED
  BY <1>1, <1>2

\* Spending n brTokens whose value the code has found to be free.
LEMMA SpentNet ==
  ASSUME RiskTyped, NEW old, Readable(old), NEW new, Readable(new), NEW m \in Markets,
         KeepsShare(old, new), NEW u \in Accounts, NEW n \in Nat,
         new.tokens[u] = old.tokens[u] - n,
         BorrowBalanceStored(new, u) <= BorrowBalanceStored(old, u)
  PROVE  Net(new, m, u)
           >= Net(old, m, u) - (MulTruncate(Denom(old, m), n) + 2 + Loss(old, m, old.tokens[u]))
<1> DEFINE T == new.tokens[u]
           D == Denom(old, m)
           l == Loss(old, m, T)
           l0 == Loss(old, m, old.tokens[u])
<1>1. /\ T \in Nat /\ old.tokens[u] = T + n /\ old.tokens[u] \in Nat /\ T <= old.tokens[u]
      /\ T <= old.totalSupply /\ T <= new.totalSupply
  BY ReadableFacts
<1>2. D \in Nat
  BY DenomNat
<1>3. l \in Nat /\ l0 \in Nat /\ l <= l0
  BY <1>1, LossNat, LossMonotone
<1>4. MulTruncate(D, T) - MulTruncate(Denom(new, m), T) <= 1 + l
  BY <1>1, WorthLoss
<1>5. MulTruncate(D, old.tokens[u]) <= MulTruncate(D, T) + MulTruncate(D, n) + 1
  BY <1>1, <1>2, MulTruncateSplit
<1>6. MulTruncate(price[m], BorrowBalanceStored(new, u))
        <= MulTruncate(price[m], BorrowBalanceStored(old, u))
  BY ReadableFacts, OwesLess
<1>7. /\ MulTruncate(D, old.tokens[u]) \in Nat /\ MulTruncate(D, T) \in Nat
      /\ MulTruncate(D, n) \in Nat /\ MulTruncate(Denom(new, m), T) \in Nat
      /\ MulTruncate(price[m], BorrowBalanceStored(new, u)) \in Nat
      /\ MulTruncate(price[m], BorrowBalanceStored(old, u)) \in Nat
  BY <1>1, <1>2, DenomNat, MulTruncateNat, NetInt
<1>8. /\ Net(old, m, u) = MulTruncate(D, old.tokens[u])
                            - MulTruncate(price[m], BorrowBalanceStored(old, u))
      /\ Net(new, m, u) = MulTruncate(Denom(new, m), T)
                            - MulTruncate(price[m], BorrowBalanceStored(new, u))
  BY DEF Net
<1> HIDE DEF T, D, l, l0
<1>9. Net(new, m, u) >= Net(old, m, u) - (MulTruncate(D, n) + 2 + l0)
  BY <1>3, <1>4, <1>5, <1>6, <1>7, <1>8
<1> QED
  BY <1>9 DEF D, l0

LEMMA SpendingStep ==
  ASSUME Calm, NEW u \in Accounts, Asked(u), accountAssets'[u] = accountAssets[u],
         NEW k \in Markets, NEW n \in Nat, market'[k].tokens[u] = market[k].tokens[u] - n,
         BorrowBalanceStored(market'[k], u) <= BorrowBalanceStored(market[k], u),
         \A m \in Markets \ {k} : Gains(market[m], market'[m], u),
         RedeemAllowedInternal(market, k, u, n)
  PROVE  Covered(u)
<1> DEFINE s == accountAssets[u]
           spent == MulTruncate(Denom(market[k], k), n)
           l == Loss(market[k], k, market[k].tokens[u])
<1>1. CASE k \in ToSet(s)
  <2>1. /\ Readable(market[k]) /\ Readable(market'[k]) /\ RiskTyped
        /\ KeepsShare(market[k], market'[k]) /\ Answered(market, s)
    BY <1>1, CalmFacts, AskedFacts
  <2>2. u \in accountMembership[k]
    BY <1>1, CalmFacts
  <2>3. Liquidity(market, u, s, k, n, 0) >= 0
    BY <2>2 DEF RedeemAllowedInternal
  <2>4. Liquidity(market, u, s, k, n, 0) = Position(market, u, s) - Effect(market, k, n, 0)
    BY <1>1, <2>1, LiquidityAfter
  <2>5. Effect(market, k, n, 0) = spent /\ spent \in Nat
    <3>1. MulTruncate(price[k], 0) = 0
      BY <2>1, ExpScaleAssumption, SMT DEF MulTruncate, RiskTyped
    <3>2. spent \in Nat
      BY <2>1, DenomNat, MulTruncateNat
    <3> QED
      BY <3>1, <3>2 DEF Effect
  <2>6. Net(market'[k], k, u) >= Net(market[k], k, u) - (spent + 2 + l)
    BY <2>1, SpentNet
  <2>7. l \in Nat
    BY <2>1, RoundingNat DEF Readable
  <2>8. Position(market, u, s) \in Int /\ Position(market', u, accountAssets'[u]) \in Int
    BY AskedFacts
  <2> HIDE DEF spent, l
  <2>9. spent + 2 + l \in Nat
    BY <2>5, <2>7
  <2>10. Position(market', u, accountAssets'[u]) >= Position(market, u, s) - (spent + 2 + l)
    BY <2>6, <2>9, ListedStep
  <2> HIDE DEF s
  <2>11. Position(market', u, accountAssets'[u]) >= -(2 + l)
    BY <2>3, <2>4, <2>5, <2>7, <2>8, <2>10
  <2> QED
    BY <2>11 DEF Covered, l
<1>2. CASE k \notin ToSet(s)
  <2>1. Position(market', u, accountAssets'[u]) >= Position(market, u, accountAssets[u]) - 0
    BY <1>2, ListedStep
  <2>2. \A m \in Markets : market'[m].principal[u] > 0 => m \in ToSet(accountAssets[u])
    BY CalmFacts
  <2> QED
    BY <2>1, <2>2, AskedFacts, NotBelowZero DEF Asked
<1> QED
  BY <1>1, <1>2

\* A transaction that writes one market's books.
LEMMA WrittenGains ==
  ASSUME Calm, NEW m \in Markets, NEW t, market' = [market EXCEPT ![m] = t], NEW u \in Accounts
  PROVE  /\ market'[m] = t
         /\ \A x \in Markets \ {m} : Gains(market[x], market'[x], u)
<1>1. market \in [Markets -> MarketBooks]
  BY CalmFacts DEF WellFormed, TypeOK
<1>2. market'[m] = t /\ \A x \in Markets \ {m} : market'[x] = market[x]
  BY <1>1
<1> QED
  BY <1>2, CalmFacts, SameGains

\* In a step under which no interest is added, the books were accrued before.
LEMMA AlreadyAccrued ==
  ASSUME Calm, NEW m \in Markets, market'[m].accrualBlock = Accrued(market[m]).accrualBlock
  PROVE  Accrued(market[m]) = market[m]
<1>1. market'[m].accrualBlock = market[m].accrualBlock
  BY DEF Calm, SettingsUnchanged
<1>2. market[m] \in MarketBooks
  BY CalmFacts DEF BooksInv
<1>3. CASE market[m].accrualBlock = blockNumber
  BY <1>3 DEF Accrued
<1>4. CASE market[m].accrualBlock # blockNumber
  <2>1. Accrued(market[m]).accrualBlock = blockNumber
    BY <1>2, <1>4 DEF Accrued, MarketBooks
  <2> QED
    BY <1>1, <1>4, <2>1
<1> QED
  BY <1>3, <1>4

-----------------------------------------------------------------------------
(* The transactions and the accounts they leave covered *)

\* A debt written at the current index is what is owed.
LEMMA WrittenBalance ==
  ASSUME NEW t, NEW v, NEW n \in Nat, t.principal[v] = n,
         t.interestIndex[v] = t.borrowIndex, t.borrowIndex \in Nat, t.borrowIndex > 0
  PROVE  BorrowBalanceStored(t, v) = n
<1>1. CASE n = 0
  BY <1>1 DEF BorrowBalanceStored
<1>2. CASE n # 0
  <2>1. (n * t.borrowIndex) \div t.borrowIndex = n
    <3>1. \A i \in Nat : i > 0 => (n * i) \div i = n
      BY SMT
    <3> QED
      BY <3>1
  <2> QED
    BY <1>2, <2>1 DEF BorrowBalanceStored
<1> QED
  BY <1>1, <1>2

\* Borrows: the borrower owes the amount more, the others nothing.
LEMMA BorrowEffect ==
  ASSUME NEW t, BooksInv(t, blockNumber), NEW v \in Accounts, NEW n \in Nat, NEW u \in Accounts
  PROVE  LET new == BorrowFresh(t, v, n)
         IN  /\ new.tokens = t.tokens /\ new.totalSupply = t.totalSupply
             /\ new.accrualBlock = t.accrualBlock
             /\ u # v => BorrowBalanceStored(new, u) = BorrowBalanceStored(t, u)
             /\ BorrowBalanceStored(new, v) = BorrowBalanceStored(t, v) + n
<1> DEFINE new == BorrowFresh(t, v, n)
           bal == BorrowBalanceStored(t, v)
<1>1. bal \in Nat /\ t \in MarketBooks /\ t.borrowIndex \in Nat /\ t.borrowIndex > 0
  BY BorrowBalanceType DEF BooksInv, MarketBooks
<1>2. /\ new.tokens = t.tokens /\ new.totalSupply = t.totalSupply
      /\ new.accrualBlock = t.accrualBlock /\ new.borrowIndex = t.borrowIndex
      /\ new.principal = [t.principal EXCEPT ![v] = bal + n]
      /\ new.interestIndex = [t.interestIndex EXCEPT ![v] = t.borrowIndex]
  BY <1>1 DEF BorrowFresh, MarketBooks
<1>3. /\ t.principal \in [Accounts -> Nat] /\ t.interestIndex \in [Accounts -> Nat]
  BY <1>1 DEF MarketBooks
<1> HIDE DEF new
<1>4. new.principal[v] = bal + n /\ new.interestIndex[v] = new.borrowIndex
  BY <1>2, <1>3
<1> HIDE DEF bal
<1>5. BorrowBalanceStored(new, v) = bal + n
  <2>1. bal + n \in Nat /\ new.borrowIndex \in Nat /\ new.borrowIndex > 0
    BY <1>1, <1>2
  <2> QED
    BY <1>4, <2>1, WrittenBalance
<1>6. u # v => new.principal[u] = t.principal[u] /\ new.interestIndex[u] = t.interestIndex[u]
  BY <1>2, <1>3
<1>7. u # v => BorrowBalanceStored(new, u) = BorrowBalanceStored(t, u)
  BY <1>2, <1>6 DEF BorrowBalanceStored
<1> QED
  BY <1>2, <1>5, <1>7 DEF new, bal

\* Repayments: nobody owes more.
LEMMA RepayEffect ==
  ASSUME NEW t, BooksInv(t, blockNumber), NEW v \in Accounts, NEW n \in Nat,
         CanRepay(t, v, n), NEW u \in Accounts
  PROVE  LET new == RepayBorrowFresh(t, v, n)
         IN  /\ new.tokens = t.tokens /\ new.totalSupply = t.totalSupply
             /\ new.accrualBlock = t.accrualBlock
             /\ Gains(t, new, u)
<1> DEFINE new == RepayBorrowFresh(t, v, n)
           bal == BorrowBalanceStored(t, v)
<1>1. /\ bal \in Nat /\ bal - n \in Nat /\ t \in MarketBooks
      /\ t.borrowIndex \in Nat /\ t.borrowIndex > 0
  BY BorrowBalanceType DEF BooksInv, MarketBooks, CanRepay
<1>2. /\ new.tokens = t.tokens /\ new.totalSupply = t.totalSupply
      /\ new.accrualBlock = t.accrualBlock /\ new.borrowIndex = t.borrowIndex
      /\ new.principal = [t.principal EXCEPT ![v] = bal - n]
      /\ new.interestIndex = [t.interestIndex EXCEPT ![v] = t.borrowIndex]
  BY <1>1 DEF RepayBorrowFresh, MarketBooks
<1>3. /\ t.principal \in [Accounts -> Nat] /\ t.interestIndex \in [Accounts -> Nat]
      /\ t.tokens[u] \in Nat /\ t.totalSupply \in Nat /\ BorrowBalanceStored(t, u) \in Nat
  BY <1>1, BorrowBalanceType DEF MarketBooks
<1> HIDE DEF new
<1>4. new.principal[v] = bal - n /\ new.interestIndex[v] = new.borrowIndex
  BY <1>2, <1>3
<1>5. BorrowBalanceStored(new, v) = bal - n
  BY <1>1, <1>2, <1>4, WrittenBalance
<1>6. u # v => new.principal[u] = t.principal[u] /\ new.interestIndex[u] = t.interestIndex[u]
  BY <1>2, <1>3
<1>7. u # v => BorrowBalanceStored(new, u) = BorrowBalanceStored(t, u)
  BY <1>2, <1>6 DEF BorrowBalanceStored
<1>8. BorrowBalanceStored(new, u) <= BorrowBalanceStored(t, u)
  BY <1>1, <1>3, <1>5, <1>7
<1>9. Gains(t, new, u)
  BY <1>2, <1>3, <1>8 DEF Gains
<1> QED
  BY <1>2, <1>9 DEF new

\* Moving brTokens: only their source has fewer.
LEMMA MoveEffect ==
  ASSUME NEW t, BooksInv(t, blockNumber), NEW src \in Accounts, NEW dst \in Accounts,
         NEW n \in Nat, CanMove(t, src, dst, n), NEW u \in Accounts
  PROVE  LET new == MoveTokens(t, src, dst, n)
         IN  /\ new.accrualBlock = t.accrualBlock
             /\ BorrowBalanceStored(new, u) = BorrowBalanceStored(t, u)
             /\ u # src => Gains(t, new, u)
             /\ new.tokens[src] = t.tokens[src] - n
<1> DEFINE new == MoveTokens(t, src, dst, n)
<1>1. /\ t \in MarketBooks /\ src # dst /\ t.tokens \in [Accounts -> Nat]
      /\ t.totalSupply \in Nat /\ BorrowBalanceStored(t, u) \in Nat
  BY BorrowBalanceType DEF BooksInv, MarketBooks, CanMove
<1>2. /\ new.accrualBlock = t.accrualBlock /\ new.totalSupply = t.totalSupply
      /\ new.borrowIndex = t.borrowIndex /\ new.principal = t.principal
      /\ new.interestIndex = t.interestIndex
      /\ new.tokens = [t.tokens EXCEPT ![src] = t.tokens[src] - n, ![dst] = t.tokens[dst] + n]
  BY <1>1 DEF MoveTokens, MarketBooks
<1>3. /\ new.tokens[src] = t.tokens[src] - n /\ new.tokens[dst] = t.tokens[dst] + n
      /\ \A x \in Accounts \ {src, dst} : new.tokens[x] = t.tokens[x]
  BY <1>1, <1>2
<1> HIDE DEF new
<1>4. BorrowBalanceStored(new, u) = BorrowBalanceStored(t, u)
  BY <1>2 DEF BorrowBalanceStored
<1>5. u # src => new.tokens[u] >= t.tokens[u]
  BY <1>1, <1>3
<1>6. u # src => Gains(t, new, u)
  BY <1>1, <1>2, <1>4, <1>5 DEF Gains
<1> QED
  BY <1>2, <1>3, <1>4, <1>6 DEF new

\* Transactions that take nothing from anybody: the books of one market change,
\* and whatever they say of u is at least as good.
LEMMA OneMarketGains ==
  ASSUME Calm, NEW m \in Markets, NEW new, NEW u \in Accounts, Asked(u),
         market' = [market EXCEPT ![m] = new], accountAssets' = accountAssets,
         new.accrualBlock = Accrued(market[m]).accrualBlock,
         Gains(Accrued(market[m]), new, u)
  PROVE  Covered(u)
<1>1. market'[m] = new /\ \A x \in Markets \ {m} : Gains(market[x], market'[x], u)
  BY WrittenGains
<1>2. Accrued(market[m]) = market[m]
  BY <1>1, AlreadyAccrued
<1>3. \A x \in Markets : Gains(market[x], market'[x], u)
  BY <1>1, <1>2
<1> QED
  BY <1>3, GainingStep

LEMMA NothingMovedCovers ==
  ASSUME Calm, NEW u \in Accounts, Asked(u), market' = market, accountAssets' = accountAssets
  PROVE  Covered(u)
<1>1. \A x \in Markets : Gains(market[x], market'[x], u)
  BY CalmFacts, SameGains
<1> QED
  BY <1>1, GainingStep

\* What the books say besides their cash, borrows, reserves and terms.
LEMMA OtherFields ==
  ASSUME NEW t, BooksInv(t, blockNumber), NEW new, NEW u \in Accounts,
         new.tokens[u] >= t.tokens[u], new.totalSupply >= t.totalSupply,
         new.principal = t.principal, new.interestIndex = t.interestIndex,
         new.borrowIndex = t.borrowIndex
  PROVE  Gains(t, new, u)
<1>1. BorrowBalanceStored(t, u) \in Nat
  BY BorrowBalanceType
<1>2. BorrowBalanceStored(new, u) = BorrowBalanceStored(t, u)
  BY DEF BorrowBalanceStored
<1> QED
  BY <1>1, <1>2 DEF Gains

LEMMA AccruedBooks ==
  ASSUME Calm, NEW m \in Markets, CanAccrue(market[m])
  PROVE  BooksInv(Accrued(market[m]), blockNumber)
  BY CalmFacts, WellFormedFacts

LEMMA AccrueCovers ==
  ASSUME Calm, NEW m \in Markets, CanAccrue(market[m]), market' = Books(m),
         accountAssets' = accountAssets, NEW u \in Accounts, Asked(u)
  PROVE  Covered(u)
<1>1. market' = [market EXCEPT ![m] = Accrued(market[m])]
  BY DEF Books
<1>2. Gains(Accrued(market[m]), Accrued(market[m]), u)
  BY AccruedBooks, SameGains
<1> QED
  BY <1>1, <1>2, OneMarketGains

LEMMA MintCovers ==
  ASSUME Calm, NEW m \in Markets, NEW a \in Accounts, NEW v \in Accounts, NEW n \in Nat,
         Mint(a, v, m, n), NEW u \in Accounts, Asked(u)
  PROVE  Covered(u)
<1> DEFINE t == Accrued(market[m])
           new == MintFresh(t, v, n)
           minted == DivScalarByExp(n, ExchangeRate(t))
<1>1. /\ CanAccrue(market[m]) /\ ExchangeRateKnown(t) /\ ExchangeRate(t) > 0
      /\ market' = [market EXCEPT ![m] = new] /\ accountAssets' = accountAssets
  BY DEF Mint, membershipVars
<1>2. BooksInv(t, blockNumber)
  BY <1>1, AccruedBooks
<1> SUFFICES ASSUME TRUE PROVE new.accrualBlock = t.accrualBlock /\ Gains(t, new, u)
  BY <1>1, OneMarketGains
<1> HIDE DEF t
<1>3. t \in MarketBooks /\ t.tokens \in [Accounts -> Nat] /\ t.totalSupply \in Nat
  BY <1>2 DEF BooksInv, MarketBooks
<1>4. minted \in Nat
  BY <1>1, <1>3, ExchangeRateType, DivScalarNat
<1>5. /\ new.accrualBlock = t.accrualBlock /\ new.totalSupply = t.totalSupply + minted
      /\ new.tokens = [t.tokens EXCEPT ![v] = @ + minted]
      /\ new.principal = t.principal /\ new.interestIndex = t.interestIndex
      /\ new.borrowIndex = t.borrowIndex
  BY <1>3 DEF MintFresh, MarketBooks
<1> HIDE DEF new, minted
<1>6. new.tokens[u] >= t.tokens[u] /\ new.totalSupply >= t.totalSupply
  BY <1>3, <1>4, <1>5
<1> QED
  BY <1>2, <1>5, <1>6, OtherFields

LEMMA RedeemBothCovers ==
  ASSUME Calm, NEW m \in Markets, NEW a \in Accounts, NEW n \in Nat, NEW amount,
         CanAccrue(market[m]), RedeemBoth(a, m, n, amount), NEW u \in Accounts, Asked(u)
  PROVE  Covered(u)
<1> DEFINE t == Accrued(market[m])
           new == RedeemFresh(t, a, n, amount)
<1>1. /\ RedeemAllowed(Books(m), m, a, n)
      /\ market' = [market EXCEPT ![m] = new] /\ accountAssets' = accountAssets
  BY DEF RedeemBoth, membershipVars
<1>2. /\ market'[m] = new /\ \A x \in Markets \ {m} : Gains(market[x], market'[x], u)
  BY <1>1, WrittenGains
<1>3. BooksInv(t, blockNumber)
  BY AccruedBooks
<1>4. t \in MarketBooks /\ t.tokens \in [Accounts -> Nat] /\ BorrowBalanceStored(t, u) \in Nat
  BY <1>3, BorrowBalanceType DEF BooksInv, MarketBooks
<1>5. /\ new.accrualBlock = t.accrualBlock
      /\ new.tokens = [t.tokens EXCEPT ![a] = @ - n]
      /\ new.principal = t.principal /\ new.interestIndex = t.interestIndex
      /\ new.borrowIndex = t.borrowIndex
  <2> HIDE DEF t
  <2> QED
    BY <1>4 DEF RedeemFresh, MarketBooks
<1>6. t = market[m]
  BY <1>2, <1>5, AlreadyAccrued
<1>7. Books(m) = market
  BY <1>6, CalmFacts DEF Books, WellFormed, TypeOK
<1> HIDE DEF new, t
<1>8. BorrowBalanceStored(new, u) <= BorrowBalanceStored(t, u)
  <2>1. BorrowBalanceStored(new, u) = BorrowBalanceStored(t, u)
    BY <1>5 DEF BorrowBalanceStored
  <2> QED
    BY <1>4, <2>1
<1>9. CASE u = a
  <2>1. new.tokens[u] = t.tokens[u] - n
    BY <1>4, <1>5, <1>9
  <2>2. RedeemAllowedInternal(market, m, u, n)
    BY <1>1, <1>7, <1>9 DEF RedeemAllowed
  <2> QED
    BY <1>1, <1>2, <1>6, <1>8, <2>1, <2>2, SpendingStep
<1>10. CASE u # a
  <2>1. new.tokens[u] = t.tokens[u]
    BY <1>4, <1>5, <1>10
  <2>2. Stays(market[m], market'[m], u)
    BY <1>2, <1>6, <1>8, <2>1 DEF Stays
  <2> QED
    BY <1>1, <1>2, <2>2, StayingStep
<1> QED
  BY <1>9, <1>10

LEMMA RedeemCovers ==
  ASSUME Calm, NEW m \in Markets, NEW a \in Accounts, NEW n \in Nat,
         Redeem(a, m, n) \/ RedeemUnderlying(a, m, n), NEW u \in Accounts, Asked(u)
  PROVE  Covered(u)
<1> DEFINE r == ExchangeRate(Accrued(market[m]))
<1>1. CanAccrue(market[m]) /\ ExchangeRateKnown(Accrued(market[m]))
  BY DEF Redeem, RedeemUnderlying
<1>2. r \in Nat
  BY <1>1, AccruedBooks, ExchangeRateType DEF BooksInv
<1>3. CASE Redeem(a, m, n)
  BY <1>1, <1>3, RedeemBothCovers DEF Redeem
<1>4. CASE RedeemUnderlying(a, m, n)
  <2>1. r > 0 /\ RedeemBoth(a, m, DivScalarByExp(n, r), n)
    BY <1>4 DEF RedeemUnderlying
  <2> HIDE DEF r
  <2>2. DivScalarByExp(n, r) \in Nat
    BY <1>2, <2>1, DivScalarNat
  <2> QED
    BY <1>1, <2>1, <2>2, RedeemBothCovers
<1> QED
  BY <1>3, <1>4

LEMMA RepayCovers ==
  ASSUME Calm, NEW m \in Markets, NEW a \in Accounts, NEW v \in Accounts, NEW n \in Nat,
         Repay(a, v, m, n), NEW u \in Accounts, Asked(u)
  PROVE  Covered(u)
<1> DEFINE t == Accrued(market[m])
           new == RepayBorrowFresh(t, v, n)
<1>1. /\ CanAccrue(market[m]) /\ CanRepay(t, v, n)
      /\ market' = [market EXCEPT ![m] = new] /\ accountAssets' = accountAssets
  BY DEF Repay, membershipVars
<1>2. BooksInv(t, blockNumber)
  BY <1>1, AccruedBooks
<1> HIDE DEF t
<1>3. new.accrualBlock = t.accrualBlock /\ Gains(t, new, u)
  BY <1>1, <1>2, RepayEffect
<1> HIDE DEF new
<1> QED
  BY <1>1, <1>3, OneMarketGains DEF t

LEMMA RepayAllCovers ==
  ASSUME Calm, NEW m \in Markets, NEW a \in Accounts, NEW v \in Accounts, RepayAll(a, v, m),
         NEW u \in Accounts, Asked(u)
  PROVE  Covered(u)
<1> DEFINE n == BorrowBalanceStored(Accrued(market[m]), v)
<1>1. Repay(a, v, m, n)
  BY DEF RepayAll
<1>2. CanAccrue(market[m])
  BY <1>1 DEF Repay
<1>3. n \in Nat
  BY <1>2, AccruedBooks, BorrowBalanceType
<1> HIDE DEF n
<1> QED
  BY <1>1, <1>3, RepayCovers

LEMMA TransferCovers ==
  ASSUME Calm, NEW m \in Markets, NEW src \in Accounts, NEW dst \in Accounts, NEW n \in Nat,
         Transfer(src, dst, m, n), NEW u \in Accounts, Asked(u)
  PROVE  Covered(u)
<1> DEFINE new == MoveTokens(market[m], src, dst, n)
<1>1. /\ CanMove(market[m], src, dst, n) /\ RedeemAllowedInternal(market, m, src, n)
      /\ market' = [market EXCEPT ![m] = new] /\ accountAssets' = accountAssets
  BY DEF Transfer, TransferAllowed, membershipVars
<1>2. market'[m] = new /\ \A x \in Markets \ {m} : Gains(market[x], market'[x], u)
  BY <1>1, WrittenGains
<1>3. BooksInv(market[m], blockNumber)
  BY CalmFacts
<1>4. /\ BorrowBalanceStored(new, u) = BorrowBalanceStored(market[m], u)
      /\ u # src => Gains(market[m], new, u)
      /\ new.tokens[src] = market[m].tokens[src] - n
  BY <1>1, <1>3, MoveEffect
<1>5. BorrowBalanceStored(market[m], u) \in Nat
  BY <1>3, BorrowBalanceType
<1> HIDE DEF new
<1>6. CASE u = src
  BY <1>1, <1>2, <1>4, <1>5, <1>6, SpendingStep
<1>7. CASE u # src
  <2>1. \A x \in Markets : Gains(market[x], market'[x], u)
    BY <1>2, <1>4, <1>7
  <2> QED
    BY <1>1, <2>1, GainingStep
<1> QED
  BY <1>6, <1>7

\* A liquidated borrower was in a shortfall before; the others only gain.
LEMMA LiquidateCovers ==
  ASSUME Calm, NEW m \in Markets, NEW c \in Markets, NEW a \in Accounts,
         NEW v \in Accounts, NEW n \in Nat, LiquidateBorrow(a, v, m, c, n),
         NEW u \in Accounts, Asked(u)
  PROVE  Covered(u)
<1> DEFINE fresh  == [market EXCEPT ![m] = Accrued(market[m]), ![c] = Accrued(market[c])]
           repaid == [fresh EXCEPT ![m] = RepayBorrowFresh(fresh[m], v, n)]
           seized == SeizeTokens(repaid, m, c, n)
           after  == MoveTokens(repaid[c], v, a, seized)
<1>1. /\ CanAccrue(market[m]) /\ CanAccrue(market[c])
      /\ CanRepay(fresh[m], v, n) /\ Shortfall(fresh, v)
      /\ SeizeKnown(repaid, m, c) /\ CanMove(repaid[c], v, a, seized)
      /\ market' = [repaid EXCEPT ![c] = after] /\ accountAssets' = accountAssets
  BY DEF LiquidateBorrow, LiquidateBorrowAllowed, membershipVars
<1>2. /\ market \in [Markets -> MarketBooks] /\ WellFormed
      /\ \A x \in Markets : BooksInv(market[x], blockNumber)
  BY CalmFacts DEF WellFormed, TypeOK
<1>3. fresh[m] = Accrued(market[m]) /\ fresh[c] = Accrued(market[c])
  BY <1>2
<1>4. /\ DOMAIN fresh = Markets
      /\ \A x \in Markets : /\ BooksInv(fresh[x], blockNumber)
                            /\ x \notin {m, c} => fresh[x] = market[x]
  BY <1>1, <1>2, AccruedBooks
<1>5. fresh \in [Markets -> MarketBooks]
  BY <1>2, <1>4 DEF BooksInv
<1> HIDE DEF fresh
<1>6. /\ BooksInv(RepayBorrowFresh(fresh[m], v, n), blockNumber)
      /\ Gains(fresh[m], RepayBorrowFresh(fresh[m], v, n), u)
      /\ RepayBorrowFresh(fresh[m], v, n).accrualBlock = fresh[m].accrualBlock
  BY <1>1, <1>4, RepayFreshInv, RepayEffect
<1>7. /\ DOMAIN repaid = Markets
      /\ \A x \in Markets : /\ BooksInv(repaid[x], blockNumber)
                            /\ x # m => repaid[x] = fresh[x]
                            /\ Gains(fresh[x], repaid[x], u)
                            /\ repaid[x].accrualBlock = fresh[x].accrualBlock
  BY <1>4, <1>6, SameGains
<1> HIDE DEF repaid
<1>8. seized \in Nat
  BY <1>1, <1>2, <1>7, SeizeTokensNat
<1> HIDE DEF seized
<1>9. /\ after.accrualBlock = repaid[c].accrualBlock
      /\ u # v => Gains(repaid[c], after, u)
  BY <1>1, <1>7, <1>8, MoveEffect
<1> HIDE DEF after
<1>10. /\ market'[c] = after /\ \A x \in Markets : x # c => market'[x] = repaid[x]
  BY <1>1, <1>7
<1>11. \A x \in Markets : market'[x].accrualBlock = fresh[x].accrualBlock
  BY <1>7, <1>9, <1>10
<1>12. Accrued(market[m]) = market[m] /\ Accrued(market[c]) = market[c]
  BY <1>3, <1>11, AlreadyAccrued
<1>13. \A x \in Markets : fresh[x] = market[x]
  BY <1>3, <1>4, <1>12
<1>14. fresh = market
  BY <1>2, <1>5, <1>13
<1>15. CASE u = v
  <2>1. Liquidity(market, u, accountAssets[u], NoMarket, 0, 0) < 0
    BY <1>1, <1>14, <1>15 DEF Shortfall
  <2>2. RiskTyped /\ Answered(market, accountAssets[u]) /\ NoMarket \notin ToSet(accountAssets[u])
    BY CalmFacts, AskedFacts
  <2>3. Liquidity(market, u, accountAssets[u], NoMarket, 0, 0) = Position(market, u, accountAssets[u])
    BY <2>2, LiquidityIsPosition
  <2> QED
    BY <2>1, <2>3, AskedFacts DEF Asked
<1>16. CASE u # v
  <2>1. ASSUME NEW x \in Markets
        PROVE  Gains(market[x], market'[x], u)
    <3>1. Gains(market[x], repaid[x], u)
      BY <1>7, <1>13
    <3>2. CASE x # c
      BY <1>10, <3>1, <3>2
    <3>3. CASE x = c
      <4>1. Gains(repaid[x], after, u)
        BY <1>9, <1>16, <3>3
      <4>2. /\ market[x].tokens[u] \in Nat /\ market[x].totalSupply \in Nat
            /\ repaid[x].tokens[u] \in Nat /\ repaid[x].totalSupply \in Nat
        BY <1>2, <1>7 DEF BooksInv, MarketBooks
      <4>3. BorrowBalanceStored(market[x], u) \in Nat /\ BorrowBalanceStored(repaid[x], u) \in Nat
        BY <1>2, <1>7, BorrowBalanceType
      <4>4. BooksInv(market'[x], blockNumber)
        BY CalmFacts
      <4>5. /\ market'[x].tokens[u] \in Nat /\ market'[x].totalSupply \in Nat
            /\ BorrowBalanceStored(market'[x], u) \in Nat
        BY <4>4, BorrowBalanceType DEF BooksInv, MarketBooks
      <4>6. market'[x] = after
        BY <1>10, <3>3
      <4> QED
        BY <3>1, <4>1, <4>2, <4>3, <4>5, <4>6 DEF Gains
    <3> QED
      BY <3>2, <3>3
  <2> QED
    BY <1>1, <2>1, GainingStep
<1> QED
  BY <1>15, <1>16

\* Donations, reserves and the admin's terms change nothing an account has.
LEMMA CashCovers ==
  ASSUME Calm, NEW m \in Markets, NEW n \in Nat,
         \/ \E a \in Accounts : Donate(a, m, n) \/ AddReserves(a, m, n)
         \/ ReduceReserves(m, n)
         \/ SetReserveFactor(m, n)
         \/ \E model \in RateModels : SetInterestRateModel(m, model),
         NEW u \in Accounts, Asked(u)
  PROVE  Covered(u)
<1> DEFINE t == Accrued(market[m])
<1>1. accountAssets' = accountAssets
  BY DEF Donate, AddReserves, ReduceReserves, SetReserveFactor, SetInterestRateModel,
         membershipVars
<1>2. BooksInv(market[m], blockNumber)
  BY CalmFacts
<1>3. CASE \E a \in Accounts : Donate(a, m, n)
  <2> DEFINE new == [market[m] EXCEPT !.cash = @ + n]
  <2>1. market' = [market EXCEPT ![m] = new]
    BY <1>3 DEF Donate
  <2>2. market'[m] = new /\ \A x \in Markets \ {m} : Gains(market[x], market'[x], u)
    BY <2>1, WrittenGains
  <2>3. /\ new.tokens = market[m].tokens /\ new.totalSupply = market[m].totalSupply
        /\ new.principal = market[m].principal /\ new.borrowIndex = market[m].borrowIndex
        /\ new.interestIndex = market[m].interestIndex
    BY <1>2 DEF BooksInv, MarketBooks
  <2>4. market[m].tokens[u] \in Nat /\ market[m].totalSupply \in Nat
    BY <1>2 DEF BooksInv, MarketBooks
  <2> HIDE DEF new
  <2>5. Gains(market[m], new, u)
    BY <1>2, <2>3, <2>4, OtherFields
  <2>6. \A x \in Markets : Gains(market[x], market'[x], u)
    BY <2>2, <2>5
  <2> QED
    BY <1>1, <2>6, GainingStep
<1>4. CASE ~ \E a \in Accounts : Donate(a, m, n)
  <2>1. PICK new : /\ market' = [market EXCEPT ![m] = new] /\ CanAccrue(market[m])
                   /\ \/ new = [t EXCEPT !.cash = @ + n, !.totalReserves = @ + n]
                      \/ new = [t EXCEPT !.cash = @ - n, !.totalReserves = @ - n]
                      \/ new = [t EXCEPT !.reserveFactor = n]
                      \/ \E model \in RateModels : new = [t EXCEPT !.rateModel = model]
    BY <1>4 DEF AddReserves, ReduceReserves, SetReserveFactor, SetInterestRateModel
  <2>2. BooksInv(t, blockNumber)
    BY <2>1, AccruedBooks
  <2> HIDE DEF t
  <2>3. /\ new.tokens = t.tokens /\ new.totalSupply = t.totalSupply
        /\ new.principal = t.principal /\ new.borrowIndex = t.borrowIndex
        /\ new.interestIndex = t.interestIndex /\ new.accrualBlock = t.accrualBlock
    BY <2>1, <2>2 DEF BooksInv, MarketBooks
  <2>4. t.tokens[u] \in Nat /\ t.totalSupply \in Nat
    BY <2>2 DEF BooksInv, MarketBooks
  <2>5. Gains(t, new, u)
    BY <2>2, <2>3, <2>4, OtherFields
  <2> QED
    BY <1>1, <2>1, <2>3, <2>5, OneMarketGains DEF t
<1> QED
  BY <1>3, <1>4

\* Entering a market adds what is held there, and no debt: who owes is in it.
LEMMA EnterCovers ==
  ASSUME Calm, NEW m \in Markets, NEW a \in Accounts, AddToMarket(m, a), market' = market,
         NEW u \in Accounts, Asked(u)
  PROVE  Covered(u)
<1>1. accountAssets \in [Accounts -> Seq(Markets)]
  BY CalmFacts DEF WellFormed, TypeOK
<1>2. accountAssets' = [accountAssets EXCEPT ![a] = AssetsWith(m, a)]
  BY DEF AddToMarket
<1>3. CASE u # a \/ a \in accountMembership[m]
  <2>1. accountAssets'[u] = accountAssets[u]
    BY <1>1, <1>2, <1>3 DEF AssetsWith
  <2>2. \A x \in Markets : Gains(market[x], market'[x], u)
    BY CalmFacts, SameGains
  <2> QED
    BY <2>1, <2>2, GainingStep
<1>4. CASE u = a /\ a \notin accountMembership[m]
  <2> DEFINE s == accountAssets[u]
             r == accountAssets'[u]
  <2>1. r = Append(s, m)
    BY <1>1, <1>2, <1>4 DEF AssetsWith
  <2>2. m \notin ToSet(s)
    BY <1>4, CalmFacts
  <2>3. s \in Seq(Markets)
    BY <1>1
  <2>4. /\ Answered(market, s) /\ Answered(market, r) /\ RiskTyped
        /\ Position(market, u, s) \in Int
        /\ \A x \in ToSet(r) : Readable(market[x])
    BY AskedFacts, CalmFacts
  <2> HIDE DEF s, r
  <2>5. ToSet(r) = ToSet(s) \cup {m}
    <3>1. /\ DOMAIN s = 1..Len(s) /\ DOMAIN r = 1..(Len(s) + 1) /\ Len(s) \in Nat
          /\ r[Len(s) + 1] = m /\ \A i \in 1..Len(s) : r[i] = s[i]
      BY <2>1, <2>3, AppendProperties
    <3>2. ToSet(r) = {r[i] : i \in DOMAIN r} /\ ToSet(s) = {s[i] : i \in DOMAIN s}
      BY DEF ToSet
    <3>3. ASSUME NEW i \in DOMAIN r
          PROVE  r[i] \in ToSet(s) \cup {m}
      BY <3>1, <3>2
    <3>4. ASSUME NEW i \in DOMAIN s
          PROVE  s[i] \in ToSet(r)
      BY <3>1, <3>2
    <3>5. m \in ToSet(r)
      BY <3>1, <3>2
    <3> QED
      BY <3>2, <3>3, <3>4, <3>5
  <2>6. Position(market, u, r) = Net(market[m], m, u) + Position(market, u, s)
    BY <2>2, <2>4, <2>5, PositionAppended
  <2>7. Readable(market[m])
    BY <2>4, <2>5
  <2>8. Net(market[m], m, u) >= 0
    <3>1. ~(market[m].principal[u] > 0)
      BY <2>2, CalmFacts DEF s
    <3>2. BorrowBalanceStored(market[m], u) = 0
      BY <2>7, <3>1, BorrowBalanceType DEF Readable, BooksInv, MarketBooks
    <3>3. MulTruncate(price[m], 0) = 0
      BY <2>4, ExpScaleAssumption, SMT DEF MulTruncate, RiskTyped
    <3> QED
      BY <2>4, <2>7, <3>2, <3>3, NetInt DEF Net
  <2>9. Net(market[m], m, u) \in Int
    BY <2>4, <2>7, NetInt
  <2>10. Position(market, u, s) >= 0
    BY DEF Asked, s
  <2>11. Position(market, u, r) >= 0
    BY <2>4, <2>6, <2>8, <2>9, <2>10
  <2>12. \A x \in Markets : market'[x].principal[u] > 0 => x \in ToSet(accountAssets[u])
    BY CalmFacts
  <2> QED
    BY <2>11, <2>12, NotBelowZero DEF r
<1> QED
  BY <1>3, <1>4

\* Leaving one takes what the code has found to be free.
LEMMA ExitCovers ==
  ASSUME Calm, NEW m \in Markets, NEW a \in Accounts, ExitMarket(a, m),
         NEW u \in Accounts, Asked(u)
  PROVE  Covered(u)
<1>1. market' = market
  BY DEF ExitMarket, tokenVars
<1>2. accountAssets \in [Accounts -> Seq(Markets)]
  BY CalmFacts DEF WellFormed, TypeOK
<1>3. /\ BorrowBalanceStored(market[m], a) = 0
      /\ RedeemAllowedInternal(market, m, a, market[m].tokens[a])
      /\ a \in accountMembership[m]
      /\ accountAssets' = [accountAssets EXCEPT ![a] = SwapRemove(@, IndexOf(m, @))]
      /\ accountMembership' = [accountMembership EXCEPT ![m] = @ \ {a}]
  BY DEF ExitMarket, CanExit, RemoveFromMarket
<1>4. CASE u # a
  <2>1. accountAssets'[u] = accountAssets[u]
    BY <1>2, <1>3, <1>4
  <2>2. \A x \in Markets : Gains(market[x], market'[x], u)
    BY <1>1, CalmFacts, SameGains
  <2> QED
    BY <2>1, <2>2, GainingStep
<1>5. CASE u = a
  <2> DEFINE s == accountAssets[u]
             r == accountAssets'[u]
             T == market[m].tokens[u]
  <2>1. /\ Answered(market, s) /\ Answered(market, r) /\ RiskTyped
        /\ Position(market, u, s) \in Int /\ Position(market, u, r) \in Int
        /\ ToSet(s) \subseteq Markets /\ ToSet(r) \subseteq Markets
        /\ \A x \in ToSet(s) : Readable(market[x])
    BY <1>1, AskedFacts, CalmFacts
  <2>2. m \in ToSet(s)
    BY <1>3, <1>5, CalmFacts
  <2>3. ToSet(s) = ToSet(r) \cup {m} /\ m \notin ToSet(r)
    <3>1. accountMembership \in [Markets -> SUBSET Accounts]
      BY CalmFacts DEF WellFormed, TypeOK
    <3>2. \A x \in Markets : u \in accountMembership'[x] <=> u \in accountMembership[x] /\ x # m
      BY <1>3, <1>5, <3>1
    <3>3. \A x \in Markets : /\ u \in accountMembership[x] <=> x \in ToSet(s)
                             /\ u \in accountMembership'[x] <=> x \in ToSet(r)
      BY CalmFacts
    <3> HIDE DEF s, r
    <3> QED
      BY <2>1, <2>2, <3>2, <3>3
  <2>4. Readable(market[m])
    BY <2>1, <2>2
  <2>5. T \in Nat
    BY <2>4, ReadableFacts
  <2>6. Liquidity(market, u, s, m, T, 0) >= 0
    BY <1>3, <1>5 DEF RedeemAllowedInternal
  <2> HIDE DEF s, r
  <2>7. Liquidity(market, u, s, m, T, 0) = Position(market, u, s) - Effect(market, m, T, 0)
    BY <2>1, <2>2, <2>5, LiquidityAfter
  <2>8. Position(market, u, s) = Net(market[m], m, u) + Position(market, u, r)
    BY <2>1, <2>3, PositionAppended
  <2>9. MulTruncate(price[m], 0) = 0
    BY <2>1, ExpScaleAssumption, SMT DEF MulTruncate, RiskTyped
  <2>10. Net(market[m], m, u) \in Int /\ Effect(market, m, T, 0) \in Nat
    BY <2>1, <2>4, <2>5, NetInt, EffectNat
  <2>11. Net(market[m], m, u) <= Effect(market, m, T, 0)
    <3>1. MulTruncate(Denom(market[m], m), T) \in Nat
      BY <2>1, <2>4, NetInt
    <3> QED
      BY <1>3, <1>5, <2>9, <3>1 DEF Net, Effect
  <2>12. Position(market, u, r) >= 0
    BY <2>1, <2>6, <2>7, <2>8, <2>10, <2>11
  <2>13. \A x \in Markets : market'[x].principal[u] > 0 => x \in ToSet(accountAssets[u])
    BY <1>1, CalmFacts
  <2> QED
    BY <1>1, <2>12, <2>13, NotBelowZero DEF r
<1> QED
  BY <1>4, <1>5

\* Borrowing takes what the code has found to be free, rounded in one division.
LEMMA BorrowCovers ==
  ASSUME Calm, NEW m \in Markets, NEW a \in Accounts, NEW n \in Nat, Borrow(a, m, n),
         NEW u \in Accounts, Asked(u)
  PROVE  Covered(u)
<1> DEFINE t == Accrued(market[m])
           new == BorrowFresh(t, a, n)
<1>1. /\ CanAccrue(market[m]) /\ LiquidForBorrow(Books(m), m, a, n)
      /\ market' = [market EXCEPT ![m] = new]
      /\ accountAssets' = [accountAssets EXCEPT ![a] = AssetsWith(m, a)]
  BY DEF Borrow, AddToMarket
<1>2. market'[m] = new /\ \A x \in Markets \ {m} : Gains(market[x], market'[x], u)
  BY <1>1, WrittenGains
<1>3. BooksInv(t, blockNumber)
  BY <1>1, AccruedBooks
<1>4. /\ new.tokens = t.tokens /\ new.totalSupply = t.totalSupply
      /\ new.accrualBlock = t.accrualBlock
      /\ u # a => BorrowBalanceStored(new, u) = BorrowBalanceStored(t, u)
      /\ BorrowBalanceStored(new, a) = BorrowBalanceStored(t, a) + n
  <2> HIDE DEF t
  <2> QED
    BY <1>3, BorrowEffect
<1>5. t = market[m]
  BY <1>2, <1>4, AlreadyAccrued
<1>6. /\ Books(m) = market /\ accountAssets \in [Accounts -> Seq(Markets)]
  BY <1>5, CalmFacts DEF Books, WellFormed, TypeOK
<1> HIDE DEF new, t
<1>7. /\ BorrowBalanceStored(t, u) \in Nat /\ t.tokens[u] \in Nat /\ t.totalSupply \in Nat
  BY <1>3, BorrowBalanceType DEF BooksInv, MarketBooks
<1>8. CASE u # a
  <2>1. Gains(market[m], market'[m], u)
    BY <1>2, <1>4, <1>5, <1>7, <1>8 DEF Gains
  <2>2. accountAssets'[u] = accountAssets[u]
    BY <1>1, <1>6, <1>8
  <2> QED
    BY <1>2, <2>1, <2>2, GainingStep
<1>9. CASE u = a
  <2> DEFINE r == accountAssets'[u]
             more == MulTruncate(price[m], n)
  <2>1. r = AssetsWith(m, u)
    BY <1>1, <1>6, <1>9
  <2>2. /\ LiquidityKnown(market, r) /\ Liquidity(market, u, r, m, 0, n) >= 0
    BY <1>1, <1>6, <1>9, <2>1 DEF LiquidForBorrow
  <2>3. /\ Answered(market', r) /\ RiskTyped /\ ToSet(r) \subseteq Markets
        /\ r \in Seq(Markets) /\ NoRepeats(r)
        /\ \A x \in ToSet(r) : Readable(market'[x])
        /\ Position(market', u, r) \in Int
    BY CalmFacts, AskedFacts
  <2>4. m \in ToSet(r)
    <3>1. u \in accountMembership'[m]
      <4>1. accountMembership' = [accountMembership EXCEPT ![m] = @ \cup {a}]
        BY DEF Borrow, AddToMarket
      <4>2. accountMembership \in [Markets -> SUBSET Accounts]
        BY CalmFacts DEF WellFormed, TypeOK
      <4> QED
        BY <1>9, <4>1, <4>2
    <3> QED
      BY <3>1, CalmFacts
  <2> HIDE DEF r
  <2>5. \A x \in ToSet(r) : Readable(market[x]) /\ KeepsShare(market[x], market'[x])
    BY <2>2, <2>3, CalmFacts DEF LiquidityKnown, Readable
  <2>6. Answered(market, r)
    BY <2>3, <2>5 DEF Answered
  <2>7. Liquidity(market, u, r, m, 0, n) = Position(market, u, r) - Effect(market, m, 0, n)
    BY <2>3, <2>4, <2>6, LiquidityAfter
  <2>8. Effect(market, m, 0, n) = more /\ more \in Nat
    <3>1. Denom(market[m], m) \in Nat /\ price[m] \in Nat
      BY <2>3, <2>4, <2>5, DenomNat DEF RiskTyped
    <3>2. MulTruncate(Denom(market[m], m), 0) = 0
      BY <3>1, ExpScaleAssumption, SMT DEF MulTruncate
    <3>3. MulTruncate(price[m], n) \in Nat
      BY <3>1, MulTruncateNat
    <3>4. Effect(market, m, 0, n)
            = MulTruncate(Denom(market[m], m), 0) + MulTruncate(price[m], n)
      BY DEF Effect
    <3> QED
      BY <3>2, <3>3, <3>4
  <2>9. Position(market, u, r) \in Int
    BY <2>3, <2>6, LiquidityIsPosition, CalmFacts
  <2> HIDE DEF more
  <2>10. Net(market'[m], m, u) >= Net(market[m], m, u) - (more + 1)
    <3> DEFINE old == market[m]
               now == market'[m]
               k == BorrowBalanceStored(old, u)
    <3>1. /\ Readable(old) /\ Readable(now) /\ KeepsShare(old, now)
      BY <2>3, <2>4, <2>5
    <3>2. /\ now.tokens[u] = old.tokens[u] /\ now.totalSupply = old.totalSupply
          /\ BorrowBalanceStored(now, u) = k + n /\ k \in Nat
      BY <1>2, <1>4, <1>5, <1>7, <1>9
    <3> HIDE DEF old, now, k
    <3>3. MulTruncate(Denom(old, m), old.tokens[u]) <= MulTruncate(Denom(now, m), now.tokens[u])
      BY <2>3, <2>4, <3>1, <3>2, ReadableFacts, HeldGains
    <3>4. MulTruncate(price[m], k + n) <= MulTruncate(price[m], k) + more + 1
      BY <2>3, <2>4, <3>2, MulTruncateSplit DEF RiskTyped, more
    <3>5. /\ MulTruncate(Denom(old, m), old.tokens[u]) \in Nat
          /\ MulTruncate(Denom(now, m), now.tokens[u]) \in Nat
          /\ MulTruncate(price[m], k + n) \in Nat
          /\ MulTruncate(price[m], k) \in Nat
      BY <2>3, <2>4, <3>1, <3>2, NetInt DEF k
    <3>6. /\ Net(old, m, u) = MulTruncate(Denom(old, m), old.tokens[u]) - MulTruncate(price[m], k)
          /\ Net(now, m, u)
               = MulTruncate(Denom(now, m), now.tokens[u]) - MulTruncate(price[m], k + n)
      BY <3>2 DEF Net, k
    <3>7. Net(now, m, u) >= Net(old, m, u) - (more + 1)
      BY <2>8, <3>3, <3>4, <3>5, <3>6
    <3> QED
      BY <3>7 DEF old, now
  <2>11. \A x \in ToSet(r) \ {m} : Net(market'[x], x, u) >= Net(market[x], x, u)
    BY <1>2, <2>3, <2>5, GainsNet
  <2>12. more + 1 \in Nat
    BY <2>8
  <2>13. Position(market', u, r) >= Position(market, u, r) - (more + 1)
    BY <2>3, <2>6, <2>10, <2>11, <2>12, PositionKept
  <2>14. Loss(market[m], m, market[m].tokens[u]) \in Nat
    BY <2>2, <2>4, RoundingNat DEF LiquidityKnown
  <2>15. Position(market', u, r) >= -1
    BY <2>2, <2>3, <2>7, <2>8, <2>9, <2>13
  <2>16. Position(market', u, r) >= -(2 + Loss(market[m], m, market[m].tokens[u]))
    BY <2>3, <2>14, <2>15
  <2> QED
    BY <2>16 DEF Covered, r
<1> QED
  BY <1>8, <1>9

\* No collateral is worth more than its price: the admin's factors are bounded,
\* and a market starts with none.
LEMMA InitCollateral == Init => CollateralBounded
<1> SUFFICES ASSUME Init PROVE CollateralBounded
  OBVIOUS
<1>1. \A f \in 0..CollateralFactorMax : f <= ExpScale
  BY ExpScaleAssumption, ComptrollerAssumption
<1>2. 0 \in 0..CollateralFactorMax
  BY ExpScaleAssumption, ComptrollerAssumption
<1>3. \A m \in Markets : collateralFactor[m] \in 0..CollateralFactorMax
  BY <1>2, ComptrollerAssumption DEF Init, ComptrollerInit
<1> QED
  BY <1>1, <1>3 DEF CollateralBounded

LEMMA NextCollateral ==
  ASSUME WellFormed, CollateralBounded, [Next]_vars
  PROVE  CollateralBounded'
<1>1. collateralFactor \in [Markets -> Nat]
  BY DEF WellFormed, TypeOK
<1>2. ASSUME NEW m \in Markets, NEW f \in CollateralFactors, SetCollateralFactor(m, f)
      PROVE  CollateralBounded'
  <2>1. f \in Nat /\ f <= ExpScale
    BY <1>2, InputsNat, ExpScaleAssumption, ComptrollerAssumption DEF SetCollateralFactor
  <2>2. collateralFactor' = [collateralFactor EXCEPT ![m] = f]
    BY <1>2 DEF SetCollateralFactor
  <2> QED
    BY <1>1, <2>1, <2>2 DEF CollateralBounded
<1>3. ASSUME NEW m \in Markets, SupportMarket(m)
      PROVE  CollateralBounded'
  <2>1. collateralFactor' = [collateralFactor EXCEPT ![m] = 0]
    BY <1>3 DEF SupportMarket
  <2>2. 0 <= ExpScale
    BY ExpScaleAssumption
  <2> QED
    BY <1>1, <2>1, <2>2 DEF CollateralBounded
<1>4. CASE \/ UNCHANGED vars
           \/ \E c \in PriceChanges : SetUnderlyingPrice(c[1], c[2])
           \/ AdvanceBlock
  BY <1>4 DEF vars, riskVars, SetUnderlyingPrice, AdvanceBlock, CollateralBounded
<1>5. ASSUME NEW m \in Markets, UserAction(m)
      PROVE  CollateralBounded'
  <2>1. UNCHANGED riskVars
    <3>1. CASE AccrueInterest(m)
      BY <3>1 DEF AccrueInterest
    <3>2. ASSUME NEW a \in Accounts, EnterMarket(a, m) \/ ExitMarket(a, m)
          PROVE  UNCHANGED riskVars
      BY <3>2 DEF EnterMarket, ExitMarket
    <3>3. ASSUME NEW a \in Accounts, NEW n,
                 Donate(a, m, n) \/ AddReserves(a, m, n) \/ Borrow(a, m, n)
                   \/ BorrowRejected(a, m, n) \/ Redeem(a, m, n) \/ RedeemUnderlying(a, m, n)
          PROVE  UNCHANGED riskVars
      BY <3>3 DEF Donate, AddReserves, Borrow, BorrowRejected, Redeem, RedeemUnderlying,
                  RedeemBoth
    <3>4. ASSUME NEW a \in Accounts, NEW b \in Accounts, NEW n,
                 RepayAll(a, b, m) \/ Repay(a, b, m, n) \/ Mint(a, b, m, n)
                   \/ Transfer(a, b, m, n) \/ \E c \in Markets : LiquidateBorrow(a, b, m, c, n)
          PROVE  UNCHANGED riskVars
      BY <3>4 DEF RepayAll, Repay, Mint, Transfer, LiquidateBorrow
    <3> QED
      BY <1>5, <3>1, <3>2, <3>3, <3>4 DEF UserAction
  <2> QED
    BY <2>1 DEF riskVars, CollateralBounded
<1>6. CASE \/ \E f \in CloseFactors : SetCloseFactor(f)
           \/ \E i \in Incentives : SetLiquidationIncentive(i)
           \/ \E p \in TreasuryPercents : SetTreasuryPercent(p)
           \/ \E flags \in PauseStates : SetPaused(flags)
           \/ \E m \in Markets :
                \/ \E c \in BorrowCaps : SetMarketBorrowCap(m, c)
                \/ \E f \in ReserveFactors : SetReserveFactor(m, f)
                \/ \E model \in RateModels : SetInterestRateModel(m, model)
                \/ \E n \in GiftAmounts : ReduceReserves(m, n)
  <2>1. collateralFactor' = collateralFactor
    BY <1>6 DEF riskVars, SetCloseFactor, SetLiquidationIncentive, SetTreasuryPercent,
                SetPaused, SetMarketBorrowCap, SetReserveFactor, SetInterestRateModel,
                ReduceReserves
  <2> QED
    BY <2>1 DEF CollateralBounded
<1> QED
  BY <1>2, <1>3, <1>4, <1>5, <1>6 DEF Next, AdminAction

LEMMA UserActionCovers ==
  ASSUME Calm, NEW m \in Markets, UserAction(m), NEW u \in Accounts, Asked(u)
  PROVE  Covered(u)
<1> USE InputsNat
<1>1. CASE AccrueInterest(m)
  BY <1>1, AccrueCovers DEF AccrueInterest, membershipVars
<1>2. ASSUME NEW a \in Accounts, EnterMarket(a, m)
      PROVE  Covered(u)
  BY <1>2, EnterCovers DEF EnterMarket, tokenVars
<1>3. ASSUME NEW a \in Accounts, ExitMarket(a, m)
      PROVE  Covered(u)
  BY <1>3, ExitCovers
<1>4. ASSUME NEW a \in Accounts, NEW b \in Accounts, RepayAll(a, b, m)
      PROVE  Covered(u)
  BY <1>4, RepayAllCovers
<1>5. ASSUME NEW a \in Accounts, NEW n \in GiftAmounts, Donate(a, m, n) \/ AddReserves(a, m, n)
      PROVE  Covered(u)
  BY <1>5, CashCovers
<1>6. ASSUME NEW a \in Accounts, NEW n \in Amounts, Redeem(a, m, n) \/ RedeemUnderlying(a, m, n)
      PROVE  Covered(u)
  BY <1>6, RedeemCovers
<1>7. ASSUME NEW a \in Accounts, NEW n \in Amounts, Borrow(a, m, n)
      PROVE  Covered(u)
  BY <1>7, BorrowCovers
<1>8. ASSUME NEW a \in Accounts, NEW n \in Amounts, BorrowRejected(a, m, n)
      PROVE  Covered(u)
  <2>1. CanAccrue(market[m]) /\ market' = Books(m) /\ AddToMarket(m, a)
    BY <1>8 DEF BorrowRejected
  <2>2. market \in [Markets -> MarketBooks]
    BY DEF Calm, IInv, WellFormed, TypeOK
  <2>3. market'[m] = Accrued(market[m])
    BY <2>1, <2>2 DEF Books
  <2>4. market' = market
    BY <2>1, <2>2, <2>3, AlreadyAccrued DEF Books
  <2> QED
    BY <2>1, <2>4, EnterCovers
<1>9. ASSUME NEW a \in Accounts, NEW b \in Accounts, NEW n \in Amounts, Mint(a, b, m, n)
      PROVE  Covered(u)
  BY <1>9, MintCovers
<1>10. ASSUME NEW a \in Accounts, NEW b \in Accounts, NEW n \in Amounts, Repay(a, b, m, n)
       PROVE  Covered(u)
  BY <1>10, RepayCovers
<1>11. ASSUME NEW a \in Accounts, NEW b \in Accounts, NEW n \in Amounts, Transfer(a, b, m, n)
       PROVE  Covered(u)
  BY <1>11, TransferCovers
<1>12. ASSUME NEW a \in Accounts, NEW b \in Accounts, NEW n \in Amounts, NEW c \in Markets,
              LiquidateBorrow(a, b, m, c, n)
       PROVE  Covered(u)
  BY <1>12, LiquidateCovers
<1> QED
  BY <1>1, <1>2, <1>3, <1>4, <1>5, <1>6, <1>7, <1>8, <1>9, <1>10, <1>11, <1>12
  DEF UserAction

LEMMA AdminActionCovers ==
  ASSUME Calm, AdminAction, NEW u \in Accounts, Asked(u)
  PROVE  Covered(u)
<1> USE InputsNat
<1>1. ASSUME \/ \E f \in CloseFactors : SetCloseFactor(f)
             \/ \E i \in Incentives : SetLiquidationIncentive(i)
             \/ \E p \in TreasuryPercents : SetTreasuryPercent(p)
             \/ \E flags \in PauseStates : SetPaused(flags)
             \/ \E m \in Markets : SupportMarket(m)
             \/ \E m \in Markets, f \in CollateralFactors : SetCollateralFactor(m, f)
             \/ \E m \in Markets, c \in BorrowCaps : SetMarketBorrowCap(m, c)
      PROVE  Covered(u)
  <2>1. UNCHANGED <<tokenVars, membershipVars>>
    BY <1>1 DEF SetCloseFactor, SetLiquidationIncentive, SetTreasuryPercent, SetPaused,
                SupportMarket, SetCollateralFactor, SetMarketBorrowCap
  <2> QED
    BY <2>1, NothingMovedCovers DEF tokenVars, membershipVars
<1>2. ASSUME NEW m \in Markets, NEW f \in ReserveFactors, SetReserveFactor(m, f)
      PROVE  Covered(u)
  BY <1>2, CashCovers
<1>3. ASSUME NEW m \in Markets, NEW model \in RateModels, SetInterestRateModel(m, model)
      PROVE  Covered(u)
  <2>1. 0 \in Nat
    OBVIOUS
  <2> QED
    BY <1>3, <2>1, CashCovers
<1>4. ASSUME NEW m \in Markets, NEW n \in GiftAmounts, ReduceReserves(m, n)
      PROVE  Covered(u)
  BY <1>4, CashCovers
<1> QED
  BY <1>1, <1>2, <1>3, <1>4 DEF AdminAction

LEMMA NextCovers ==
  ASSUME Calm, [Next]_vars, NEW u \in Accounts, Asked(u)
  PROVE  Covered(u)
<1>1. CASE AdvanceBlock
  <2>1. blockNumber' = blockNumber /\ blockNumber \in Nat
    BY DEF Calm, SettingsUnchanged, IInv, WellFormed, TypeOK
  <2> QED
    BY <1>1, <2>1 DEF AdvanceBlock
<1>2. CASE UNCHANGED vars \/ \E c \in PriceChanges : SetUnderlyingPrice(c[1], c[2])
  BY <1>2, NothingMovedCovers DEF vars, tokenVars, membershipVars, SetUnderlyingPrice
<1> QED
  BY <1>1, <1>2, UserActionCovers, AdminActionCovers DEF Next

\* What the property says of an account is what the lemmas say.
LEMMA StepCovers ==
  ASSUME Calm, [Next]_vars, NEW u \in Accounts,
         \E m \in Markets : market'[m].principal[u] > 0,
         LiquidityKnown(market, accountAssets[u]),
         LiquidityKnown(market, accountAssets[u])',
         Liquidity(market, u, accountAssets[u], NoMarket, 0, 0) >= 0
  PROVE  \E m \in Markets :
           Liquidity(market, u, accountAssets[u], NoMarket, 0, 0)' >= -RoundingLoss(m, u)
<1> DEFINE s == accountAssets[u]
           r == accountAssets'[u]
<1>1. /\ RiskTyped /\ s \in Seq(Markets) /\ r \in Seq(Markets)
      /\ NoRepeats(s) /\ NoRepeats(r) /\ NoMarket \notin Markets
  BY CalmFacts
<1>2. ToSet(s) \subseteq Markets /\ ToSet(r) \subseteq Markets
  BY <1>1, AssetsFinite
<1>3. /\ \A m \in ToSet(s) : ExchangeRateKnown(market[m])
      /\ \A m \in ToSet(r) : ExchangeRateKnown(market'[m])
  BY DEF LiquidityKnown, ExchangeRateKnown
<1>4. \A m \in ToSet(s) : Readable(market[m])
  BY <1>2, <1>3, CalmFacts DEF Readable
<1>5. \A m \in ToSet(r) : Readable(market'[m])
  BY <1>2, <1>3, CalmFacts DEF Readable
<1>6. Answered(market, s) /\ Answered(market', r)
  BY <1>1, <1>4, <1>5 DEF Answered
<1> HIDE DEF s, r
<1>7. Liquidity(market, u, s, NoMarket, 0, 0) = Position(market, u, s)
  BY <1>1, <1>2, <1>6, LiquidityIsPosition
<1>8. Liquidity(market', u, r, NoMarket, 0, 0) = Position(market', u, r)
  BY <1>1, <1>2, <1>6, LiquidityIsPosition
<1>9. Liquidity(market, u, accountAssets[u], NoMarket, 0, 0)'
        = Liquidity(market', u, r, NoMarket, 0, 0)
  <2>1. price' = price /\ collateralFactor' = collateralFactor
    BY DEF Calm, SettingsUnchanged, riskVars
  <2> QED
    BY <2>1 DEF r, Liquidity, TokensToDenom, ExchangeRate, BorrowBalanceStored
<1>10. Asked(u)
  BY <1>3, <1>7 DEF Asked, s, r
<1>11. PICK m \in Markets :
          Position(market', u, r) >= -(2 + Loss(market[m], m, market[m].tokens[u]))
  BY <1>10, NextCovers DEF Covered, r
<1>12. RoundingLoss(m, u) = 2 + Loss(market[m], m, market[m].tokens[u])
  BY DEF RoundingLoss, Loss, TokensToDenom, Denom
<1> QED
  BY <1>8, <1>9, <1>11, <1>12

-----------------------------------------------------------------------------
(* The theorems *)

\* Nothing a market issues is lost or held twice: through any order of mints,
\* redemptions, transfers and seizures, of any accounts and also of one market
\* liquidated against itself, totalSupply is the sum of accountTokens.
THEOREM SupplyIsBalances == Spec => []SupplyMatchesBalances
<1>1. IInv /\ SupplyMatchesBalances /\ [Next]_vars => SupplyMatchesBalances'
  BY NextConserves DEF IInv, Conserves, SupplyMatchesBalances, Backed
<1>2. Init => SupplyMatchesBalances
  BY InitConserves
<1> QED
  BY <1>1, <1>2, Invariance, PTL DEF Spec

\* No operation of the markets makes or loses underlying: a market's cash and
\* what the users, the admin and the treasury hold outside it always add up to
\* what the users started with, whatever interest and reserves say is owed.
THEOREM UnderlyingIsConserved == Spec => []UnderlyingConserved
<1>1. IInv /\ UnderlyingConserved /\ [Next]_vars => UnderlyingConserved'
  BY NextConserves DEF IInv, Conserves, UnderlyingConserved, Underlying
<1>2. Init => UnderlyingConserved
  BY InitConserves
<1> QED
  BY <1>1, <1>2, Invariance, PTL DEF Spec

\* _setProtocolPaused(true) freezes every account's brTokens and debts until it
\* is lifted: every operation that writes either passes a hook that reads it.
THEOREM PauseFreezes == Spec => PauseFreezesPositions
<1>1. IInv /\ [Next]_vars =>
        [paused.protocol =>
           \A m \in Markets : /\ market'[m].tokens = market[m].tokens
                              /\ market'[m].principal = market[m].principal]_vars
  BY PausedStepsFreeze DEF IInv, Frozen
<1> QED
  BY <1>1, Invariance, PTL DEF Spec, PauseFreezesPositions

\* Whoever mints, redeems, borrows, repays or liquidates, in whatever order, and
\* however the truncated divisions fall, the suppliers who stay keep their share:
\* no step that burns no brTokens lowers a readable exchange rate, and one that
\* burns some takes at most one brToken's worth from the others.
THEOREM SuppliersKeep == Spec => SuppliersKeepTheirShare
<1>1. IInv /\ FactorsBounded /\ [Next]_vars => FactorsBounded'
  BY NextShares DEF IInv, FactorsBounded, Shares, ShareStep
<1>2. IInv /\ FactorsBounded /\ [Next]_vars =>
        [\A m \in Markets :
           LET old == market[m]
               new == market'[m]
               backing == new.cash + new.totalBorrows - new.totalReserves
           IN  old.totalSupply > 0 /\ ExchangeRateKnown(old) /\ new.totalSupply > 0 =>
                 /\ new.totalSupply >= old.totalSupply => ExchangeRate(new) >= ExchangeRate(old)
                 /\ backing * ExpScale >= ExchangeRate(old) * (new.totalSupply - 1)]_vars
  BY NextShares DEF IInv, FactorsBounded, Shares, ShareStep, KeepsShare, Backing
<1> QED
  BY <1>1, <1>2, InitFactors, Invariance, PTL DEF Spec, SuppliersKeepTheirShare

\* No sequence of transactions pushes an account below what truncation in one of
\* its markets loses: whoever redeems, transfers, borrows, leaves a market or is
\* liquidated, in any order and for any wallets, prices, factors and rate models,
\* only time, the oracle and the admin can make a borrower liquidatable.
THEOREM NoShortfall == Spec => NoShortfallByTransaction
<1> DEFINE Known == IInv /\ SupplyMatchesBalances /\ FactorsBounded /\ CollateralBounded
<1>1. Init => FactorsBounded /\ CollateralBounded
  BY InitFactors, InitCollateral
<1>2. IInv /\ FactorsBounded /\ CollateralBounded /\ [Next]_vars
        => FactorsBounded' /\ CollateralBounded'
  BY NextShares, NextCollateral DEF IInv, FactorsBounded, Shares, ShareStep
<1>3. ASSUME Known, Known', [Next]_vars
      PROVE  [SettingsUnchanged =>
                \A u \in Accounts :
                  LET assets == accountAssets[u]
                      debtor == \E m \in Markets : market'[m].principal[u] > 0
                  IN  /\ debtor
                      /\ LiquidityKnown(market, assets) /\ LiquidityKnown(market, assets)'
                      /\ Liquidity(market, u, assets, NoMarket, 0, 0) >= 0
                      => \E m \in Markets :
                           Liquidity(market, u, assets, NoMarket, 0, 0)'
                             >= -RoundingLoss(m, u)]_vars
  <2>1. SettingsUnchanged => Calm
    BY <1>3, NextShares DEF Calm, IInv, FactorsBounded, Shares, ShareStep
  <2> QED
    BY <1>3, <2>1, StepCovers
<1> QED
  BY <1>1, <1>2, <1>3, Invariance, SupplyIsBalances, PTL DEF Spec, NoShortfallByTransaction
=============================================================================
