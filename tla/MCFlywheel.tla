----------------------------- MODULE MCFlywheel -----------------------------
(***************************************************************************)
(* Instances of Flywheel for TLC.                                          *)
(***************************************************************************)
EXTENDS MCLending, Flywheel

UsersAlike == Permutations(Accounts)

NoSpeed  == [m \in Markets |-> 0]
SpeedOne == [m \in Markets |-> 1]
SpeedTwo == [m \in Markets |-> 2]
BRNOnly == Wallets(0, 0, 2, 0)
=============================================================================
