-------------------------- MODULE MCLockedStaking --------------------------
(***************************************************************************)
(* An instance of LockedStaking for TLC: two stakers, and one reward, paid *)
(* in the staked token as in the repository's deployment of BRN staking.   *)
(***************************************************************************)
EXTENDS LockedStaking

CONSTANTS a, b, brn

TwoAndOne == [u \in Account |-> IF u = a THEN 2 ELSE 1]
NoneGiven == [t \in Token |-> 0]
InStakedToken == [i \in 0..0 |-> brn]
TwiceTheIndex == [i \in 0..0 |-> 12]
=============================================================================
