----------------------------- MODULE MCLending -----------------------------
(***************************************************************************)
(* Instances of LendingMarket for TLC.  The unit of value is small, so     *)
(* that every truncation is visible.                                       *)
(***************************************************************************)
EXTENDS LendingMarket

FreeModel == [base |-> 0, multiplier |-> 0, jump |-> 0, kink |-> 0]
JumpModel == [base |-> 50, multiplier |-> 0, jump |-> 50, kink |-> 100]

OnlyFree == {FreeModel}
OnlyJump == {JumpModel}

CONSTANTS a, b, m1, m2   \* the users and the markets

Wallets(ofA1, ofB1, ofA2, ofB2) ==
  [m \in Markets |-> [u \in Accounts |->
     IF m = m1 THEN (IF u = a THEN ofA1 ELSE ofB1)
               ELSE (IF u = a THEN ofA2 ELSE ofB2)]]

\* User a has the collateral of m1, user b the liquidity of m2.
CollateralAndLender == Wallets(2, 0, 0, 2)
SharedMarket        == Wallets(2, 1, 0, 0)
OneUnitEach         == Wallets(1, 1, 0, 0)

NoPauses  == {}
Open      == [mint |-> {}, borrow |-> {}, seize |-> FALSE, protocol |-> FALSE]
OpenOrPaused == {Open, [Open EXCEPT !.protocol = TRUE]}

NoChange  == {}
M1Falls   == {<<m1, 20000>>}
EvenPrices == [m \in Markets |-> 100]
M1Dear     == [m \in Markets |-> IF m = m1 THEN 40000 ELSE 20000]
=============================================================================
