----------------------------- MODULE MCBRNVault -----------------------------
(***************************************************************************)
(* Instances of BRNVault for TLC: a stakes BRN and delegates, b stakes     *)
(* another token without a delegate; or both stake both.                   *)
(***************************************************************************)
EXTENDS BRNVault, TLC

CONSTANTS a, b, brn, xtoken, nobody

Own   == <<brn, brn>>
Other == <<brn, xtoken>>

BothPools == {Own, Other}

Wallets == [t \in {brn, xtoken} |->
             [u \in {a, b} |-> IF <<t, u>> \in {<<brn, a>>, <<xtoken, b>>} THEN 1 ELSE 0]]
WalletsBoth == [t \in {brn, xtoken} |-> [u \in {a, b} |-> 1]]
Store == [t \in {brn, xtoken} |-> IF t = brn THEN 1 ELSE 0]

FewTerms == (Own :> {<<1, 2, 1>>}) @@ (Other :> {<<1, 2, 2>>})

Separate == (Own :> {a}) @@ (Other :> {b})
Everybody == (Own :> {a, b}) @@ (Other :> {a, b})
=============================================================================
