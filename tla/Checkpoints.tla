---------------------------- MODULE Checkpoints ----------------------------
(***************************************************************************)
(* The record of a delegate's votes (BRNVault.sol, and the same code in    *)
(* BRN.sol and VRT.sol): a sequence of checkpoints, one per block in which *)
(* the votes changed, searched by halving for the votes at a past block.   *)
(***************************************************************************)
EXTENDS Integers, Sequences

CONSTANT Nobody    \* address(0)

Checkpoint == [fromBlock : Nat, votes : Nat]

CurrentVotes(cps) == IF cps = <<>> THEN 0 ELSE cps[Len(cps)].votes

\* Mutant of WriteCheckpoint: every change of a block has an entry of its own.
AppendCheckpoint(cps, block, votes) ==
  Append(cps, [fromBlock |-> block, votes |-> votes])

\* _writeCheckpoint: a block has one entry, its last.
WriteCheckpoint(cps, block, votes) ==
  IF cps # <<>> /\ cps[Len(cps)].fromBlock = block
  THEN [cps EXCEPT ![Len(cps)] = [fromBlock |-> block, votes |-> votes]]
  ELSE Append(cps, [fromBlock |-> block, votes |-> votes])

\* getPriorVotes: the loop keeps cps[lower].fromBlock <= block.
GetPriorVotes(cps, block) ==
  LET center(lower, upper) == upper - (upper - lower) \div 2
      search[lower \in DOMAIN cps] ==
        [upper \in DOMAIN cps |->
          LET c == center(lower, upper)
          IN  IF upper <= lower THEN cps[lower].votes
              ELSE IF cps[c].fromBlock = block THEN cps[c].votes
              ELSE IF cps[c].fromBlock < block THEN search[c][upper]
              ELSE search[lower][c - 1]]
  IN  IF cps = <<>> THEN 0
      ELSE IF cps[Len(cps)].fromBlock <= block THEN cps[Len(cps)].votes
      ELSE IF cps[1].fromBlock > block THEN 0
      ELSE search[1][Len(cps)]

\* _moveDelegates: reverts when the source has fewer votes.
CanMoveDelegates(checkpoints, src, dst, amount) ==
  src # dst /\ src # Nobody => amount <= CurrentVotes(checkpoints[src])

MovedDelegates(checkpoints, block, src, dst, amount) ==
  [d \in DOMAIN checkpoints |->
    LET votes == CurrentVotes(checkpoints[d])
    IN  IF src = dst \/ amount = 0 \/ d \notin {src, dst} THEN checkpoints[d]
        ELSE IF d = src THEN WriteCheckpoint(checkpoints[d], block, votes - amount)
        ELSE WriteCheckpoint(checkpoints[d], block, votes + amount)]
=============================================================================
