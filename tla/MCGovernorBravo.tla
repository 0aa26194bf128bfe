--------------------------- MODULE MCGovernorBravo ---------------------------
(***************************************************************************)
(* An instance of GovernorBravo for TLC: two holders of voting power, ann  *)
(* and bob, a deployer d who is also the guardian, and proposals 2 and 3,  *)
(* since the earlier governor counted one.                                 *)
(***************************************************************************)
EXTENDS GovernorBravo

CONSTANTS ann, bob, d, gov, lock, none

Holders == {ann, bob, d, gov, lock}

Two == {ann, bob}

FirstPower == [a \in Holders |-> IF a = ann THEN 2 ELSE IF a = bob THEN 3 ELSE 0]

Pay     == [method |-> "pay", arg |-> 1]
Slower  == [method |-> "setDelay", arg |-> 2]
Raise   == [method |-> "_setProposalThreshold", arg |-> 2]
TooHigh == [method |-> "_setProposalThreshold", arg |-> 3]
Return  == [method |-> "setPendingAdmin", arg |-> d]
Begin   == [method |-> "_initiate", arg |-> 2]

AllCalls    == {Pay, Slower, Raise, TooHigh, Return, Begin}
AdminsCalls == {Begin}
SomeActions == {<<Pay>>, <<Return, Slower>>}

Admins     == {d, lock}
NoneOrTwo  == {0, 2}
One        == {1}
Seconds    == {1}
MidVote    == {4}
LotsOfTwo  == {2}
YesOrNo    == {"for", "against"}
=============================================================================
