------------------------------ MODULE BRNVault ------------------------------
(***************************************************************************)
(* The BRN vault (BRNVault.sol) with its store (BRNStore.sol).  A pool is  *)
(* named by the token it pays and the token it takes: poolInfos holds at   *)
(* most one pool for such a pair.  Stakes of BRN carry votes.              *)
(***************************************************************************)
EXTENDS Checkpoints, FiniteSets, FiniteSetsExt, Functions, SequencesExt

CONSTANTS
  Account, Token, BRN,
  Pools,             \* pools the admin may add: <<reward token, staked token>>
  Terms,             \* [Pools -> SUBSET <<points, rate, lock period>>]: on which terms
  FirstWallet,       \* [Token -> [Account -> Nat]]
  FirstStore,        \* [Token -> Nat]: reward tokens in the store
  AccScale,          \* 1e12
  AllocPoints, RewardRates, LockPeriods,   \* values the admin sets
  Users,             \* [Pools -> SUBSET Account]: who uses which pool
  Delegators, Delegatees,   \* who delegates, to whom (Nobody takes the votes back)
  Amounts, Gifts,
  \* Bounds of the model: its length, the blocks in which pools are added and
  \* settings changed, a user's open requests.
  MaxBlock, MaxSeconds, AddBlocks, SettingBlocks, MaxRequests

ASSUME VaultAssumption ==
  /\ IsFiniteSet(Account) /\ IsFiniteSet(Pools)
  /\ BRN \in Token /\ Nobody \notin Account
  /\ Pools \subseteq Token \X Token
  /\ \A p \in Pools : Terms[p] \subseteq Nat \X Nat \X Nat
  /\ FirstWallet \in [Token -> [Account -> Nat]]
  /\ FirstStore \in [Token -> Nat]
  /\ AccScale \in Nat \ {0}
  /\ AllocPoints \cup RewardRates \cup Gifts \subseteq Nat
  /\ LockPeriods \subseteq Nat \ {0}
  /\ Users \in [Pools -> SUBSET Account]
  /\ Delegators \subseteq Account /\ Delegatees \subseteq Account \cup {Nobody}
  /\ Amounts \subseteq Nat
  /\ MaxBlock \in Nat \ {0}
  /\ {MaxSeconds, MaxRequests} \cup AddBlocks \cup SettingBlocks \subseteq Nat

VARIABLES
  block, now,
  poolInfos,          \* [added pools -> their PoolInfo]
  totalAllocPoints, rewardTokenAmountsPerBlock,
  userInfos, withdrawalRequests,
  delegates, checkpoints,
  wallets, vaultBalance, storeBalance,
  votesAt,            \* history: votes at the end of each block
  emitted, paid,      \* history: rewards promised by the schedule, rewards due at payments
  truncated           \* history: what reward debts were rounded down by, in AccScale-ths

poolVars == <<poolInfos, totalAllocPoints, rewardTokenAmountsPerBlock>>
userVars == <<userInfos, withdrawalRequests>>
voteVars == <<delegates, checkpoints>>
tokenVars == <<wallets, vaultBalance, storeBalance>>
vars == <<block, now, poolVars, userVars, voteVars, tokenVars, votesAt, emitted, paid, truncated>>

Reward(p) == p[1]
Staked(p) == p[2]
PoolInfo == [allocPoint : Nat, lastRewardBlock : Nat, accRewardPerShare : Nat, lockPeriod : Nat]
UserInfo == [amount : Nat, rewardDebt : Nat, pendingWithdrawals : Nat]
NewUser  == [amount |-> 0, rewardDebt |-> 0, pendingWithdrawals |-> 0]
Added    == DOMAIN poolInfos

Init ==
  /\ block = 1 /\ now = 1
  /\ poolInfos = <<>>
  /\ totalAllocPoints = [t \in Token |-> 0]
  /\ rewardTokenAmountsPerBlock = [t \in Token |-> 0]
  /\ userInfos = [p \in Pools |-> [a \in Account |-> NewUser]]
  /\ withdrawalRequests = [p \in Pools |-> [a \in Account |-> <<>>]]
  /\ delegates = [a \in Account |-> Nobody]
  /\ checkpoints = [a \in Account |-> <<>>]
  /\ wallets = FirstWallet
  /\ vaultBalance = [t \in Token |-> 0]
  /\ storeBalance = FirstStore
  /\ votesAt = <<>>
  /\ emitted = [t \in Token |-> 0]
  /\ paid = [t \in Token |-> 0]
  /\ truncated = [t \in Token |-> 0]

-----------------------------------------------------------------------------
(* Rewards: what a pool's share has earned up to this block.               *)

\* A pool nobody may be paid from reverts once its reward token has no points.
CanUpdate(p) ==
  \/ block <= poolInfos[p].lastRewardBlock
  \/ vaultBalance[Staked(p)] = 0
  \/ totalAllocPoints[Reward(p)] > 0

\* _updatePool.  The supply is the vault's whole balance of the token.
Updated(p) ==
  LET pool   == poolInfos[p]
      supply == vaultBalance[Staked(p)]
      reward == ((block - pool.lastRewardBlock) * rewardTokenAmountsPerBlock[Reward(p)]
                   * pool.allocPoint) \div totalAllocPoints[Reward(p)]
  IN  IF block <= pool.lastRewardBlock THEN pool
      ELSE IF supply = 0 THEN [pool EXCEPT !.lastRewardBlock = block]
      ELSE [pool EXCEPT !.accRewardPerShare = @ + (reward * AccScale) \div supply,
                        !.lastRewardBlock = block]

Earned(amount, acc) == (amount * acc) \div AccScale

\* What a reward debt is less than the reward it stands for.
Remainder(amount, acc) == (amount * acc) % AccScale

Pending(user, acc) == Earned(user.amount, acc) - user.rewardDebt

\* BRNStore.safeRewardTransfer pays what the store has; the rest is not owed any more.
RewardPaid(t, due) == Min({due, storeBalance[t]})

\* Mutant of MassUpdated: the pools keep the rate and the shares that are about to change.
NotUpdated(t) == poolInfos

MassUpdated(t) == [p \in Added |-> IF Reward(p) = t THEN Updated(p) ELSE poolInfos[p]]

CanMassUpdate(t) == \A p \in Added : Reward(p) = t => CanUpdate(p)

-----------------------------------------------------------------------------
(* The admin.                                                              *)

Add(p, alloc, rate, period) ==
  /\ p \notin Added
  /\ CanMassUpdate(Reward(p))
  /\ totalAllocPoints' = [totalAllocPoints EXCEPT ![Reward(p)] = @ + alloc]
  /\ rewardTokenAmountsPerBlock' = [rewardTokenAmountsPerBlock EXCEPT ![Reward(p)] = rate]
  /\ poolInfos' = [q \in Added \cup {p} |->
       IF q = p THEN [allocPoint |-> alloc, lastRewardBlock |-> block,
                      accRewardPerShare |-> 0, lockPeriod |-> period]
       ELSE MassUpdated(Reward(p))[q]]
  /\ UNCHANGED <<block, now, userVars, voteVars, tokenVars,
                 votesAt, emitted, paid, truncated>>

Set(p, alloc) ==
  /\ CanMassUpdate(Reward(p))
  /\ totalAllocPoints' =
       [totalAllocPoints EXCEPT ![Reward(p)] = @ - poolInfos[p].allocPoint + alloc]
  /\ poolInfos' = [MassUpdated(Reward(p)) EXCEPT ![p].allocPoint = alloc]
  /\ UNCHANGED <<block, now, rewardTokenAmountsPerBlock, userVars, voteVars, tokenVars,
                 votesAt, emitted, paid, truncated>>

SetRewardAmountPerBlock(t, rate) ==
  /\ CanMassUpdate(t)
  /\ poolInfos' = MassUpdated(t)
  /\ rewardTokenAmountsPerBlock' = [rewardTokenAmountsPerBlock EXCEPT ![t] = rate]
  /\ UNCHANGED <<block, now, totalAllocPoints, userVars, voteVars, tokenVars,
                 votesAt, emitted, paid, truncated>>

SetWithdrawalLockingPeriod(p, period) ==
  /\ poolInfos' = [poolInfos EXCEPT ![p].lockPeriod = period]
  /\ UNCHANGED <<block, now, totalAllocPoints, rewardTokenAmountsPerBlock, userVars,
                 voteVars, tokenVars, votesAt, emitted, paid, truncated>>

-----------------------------------------------------------------------------
(* The users.                                                              *)

UpdatePool(p) ==
  /\ CanUpdate(p)
  /\ poolInfos' = [poolInfos EXCEPT ![p] = Updated(p)]
  /\ UNCHANGED <<block, now, totalAllocPoints, rewardTokenAmountsPerBlock, userVars,
                 voteVars, tokenVars, votesAt, emitted, paid, truncated>>

\* The books of a user whose rewards have just been paid.
\* Mutant of Settled: the rewards of the earlier stake stay due.
SettledAsBefore(user, amount, acc) == [user EXCEPT !.amount = amount]

\* Mutant of Settled: a stake that shrinks stays on the books.
SettledOldStake(user, amount, acc) ==
  [user EXCEPT !.amount = Max({@, amount}), !.rewardDebt = Earned(amount, acc)]

Settled(user, amount, acc) ==
  [user EXCEPT !.amount = amount, !.rewardDebt = Earned(amount, acc)]

\* The reward comes before the deposit is taken, and may be part of it.
Deposit(a, p, amount) ==
  LET pool == Updated(p)
      user == userInfos[p][a]
      due  == IF user.amount > 0 THEN Pending(user, pool.accRewardPerShare) ELSE 0
      gain == RewardPaid(Reward(p), due)
      rich == [wallets EXCEPT ![Reward(p)][a] = @ + gain]
  IN  /\ CanUpdate(p)
      /\ due >= 0
      /\ amount <= rich[Staked(p)][a]
      /\ poolInfos' = [poolInfos EXCEPT ![p] = pool]
      /\ userInfos' = [userInfos EXCEPT
           ![p][a] = Settled(user, user.amount + amount, pool.accRewardPerShare)]
      /\ wallets' = [rich EXCEPT ![Staked(p)][a] = @ - amount]
      /\ vaultBalance' = [vaultBalance EXCEPT ![Staked(p)] = @ + amount]
      /\ storeBalance' = [storeBalance EXCEPT ![Reward(p)] = @ - gain]
      /\ checkpoints' = IF Staked(p) = BRN
                        THEN MovedDelegates(checkpoints, block, Nobody, delegates[a], amount)
                        ELSE checkpoints
      /\ paid' = [paid EXCEPT ![Reward(p)] = @ + due]
      /\ truncated' = [truncated EXCEPT
           ![Reward(p)] = @ + Remainder(user.amount + amount, pool.accRewardPerShare)]
      /\ UNCHANGED <<block, now, totalAllocPoints, rewardTokenAmountsPerBlock,
                     withdrawalRequests, delegates, votesAt, emitted>>

\* Mutant of PushedRequest: the newest request is the next to be popped.
PushedLast(requests, amount, lockedUntil) ==
  Append(requests, [amount |-> amount, lockedUntil |-> lockedUntil])

\* pushWithdrawalRequest: from the end, behind the first that unlocks later.
PushedRequest(requests, amount, lockedUntil) ==
  LET later == {i \in DOMAIN requests : requests[i].lockedUntil > lockedUntil}
  IN  InsertAt(requests, Max(later \cup {0}) + 1,
               [amount |-> amount, lockedUntil |-> lockedUntil])

\* Mutant of CanRequest: what is already requested may be requested again.
CanRequestAgain(user, amount) == amount > 0 /\ user.amount >= amount

CanRequest(user, amount) ==
  amount > 0 /\ user.amount >= user.pendingWithdrawals + amount

\* Mutant of VotesLeave: a request moves no votes.
NoVotesLeave(p) == FALSE

\* A request moves votes when the pool pays BRN, a deposit when it takes BRN.
VotesLeave(p) == Reward(p) = BRN

RequestWithdrawal(a, p, amount) ==
  LET user == userInfos[p][a]
  IN  /\ CanRequest(user, amount)
      /\ Len(withdrawalRequests[p][a]) < MaxRequests
      /\ VotesLeave(p) => CanMoveDelegates(checkpoints, delegates[a], Nobody, amount)
      /\ withdrawalRequests' = [withdrawalRequests EXCEPT
           ![p][a] = PushedRequest(@, amount, now + poolInfos[p].lockPeriod)]
      /\ userInfos' = [userInfos EXCEPT ![p][a].pendingWithdrawals = @ + amount]
      /\ checkpoints' = IF VotesLeave(p)
                        THEN MovedDelegates(checkpoints, block, delegates[a], Nobody, amount)
                        ELSE checkpoints
      /\ UNCHANGED <<block, now, poolVars, delegates, tokenVars,
                     votesAt, emitted, paid, truncated>>

\* popEligibleWithdrawalRequests: from the end, down to the first that is locked.
KeptRequests(requests) ==
  LET locked == {i \in DOMAIN requests : requests[i].lockedUntil > now}
  IN  SubSeq(requests, 1, Max(locked \cup {0}))

Requested(requests) == [i \in DOMAIN requests |-> requests[i].amount]

TotalOf(requests) == SumFunction(Requested(requests))

ExecuteWithdrawal(a, p) ==
  LET user   == userInfos[p][a]
      kept   == KeptRequests(withdrawalRequests[p][a])
      amount == TotalOf(withdrawalRequests[p][a]) - TotalOf(kept)
      pool   == Updated(p)
      due    == Pending(user, pool.accRewardPerShare)
      gain   == RewardPaid(Reward(p), due)
      popped == [user EXCEPT !.pendingWithdrawals = @ - amount]
  IN  /\ amount > 0
      /\ CanUpdate(p)
      /\ due >= 0 /\ amount <= user.amount /\ amount <= vaultBalance[Staked(p)]
      /\ poolInfos' = [poolInfos EXCEPT ![p] = pool]
      /\ withdrawalRequests' = [withdrawalRequests EXCEPT ![p][a] = kept]
      /\ userInfos' = [userInfos EXCEPT
           ![p][a] = Settled(popped, user.amount - amount, pool.accRewardPerShare)]
      /\ wallets' = [[wallets EXCEPT ![Reward(p)][a] = @ + gain]
                        EXCEPT ![Staked(p)][a] = @ + amount]
      /\ vaultBalance' = [vaultBalance EXCEPT ![Staked(p)] = @ - amount]
      /\ storeBalance' = [storeBalance EXCEPT ![Reward(p)] = @ - gain]
      /\ paid' = [paid EXCEPT ![Reward(p)] = @ + due]
      /\ truncated' = [truncated EXCEPT
           ![Reward(p)] = @ + Remainder(user.amount - amount, pool.accRewardPerShare)]
      /\ UNCHANGED <<block, now, totalAllocPoints, rewardTokenAmountsPerBlock, voteVars,
                     votesAt, emitted>>

\* getStakeAmount: what is requested does not vote any more.
StakeAmount(a) ==
  IF <<BRN, BRN>> \in Added
  THEN userInfos[<<BRN, BRN>>][a].amount - userInfos[<<BRN, BRN>>][a].pendingWithdrawals
  ELSE 0

\* delegate, and delegateBySig for whoever signed.
Delegate(a, delegatee) ==
  /\ CanMoveDelegates(checkpoints, delegates[a], delegatee, StakeAmount(a))
  /\ checkpoints' = MovedDelegates(checkpoints, block, delegates[a], delegatee, StakeAmount(a))
  /\ delegates' = [delegates EXCEPT ![a] = delegatee]
  /\ UNCHANGED <<block, now, poolVars, userVars, tokenVars,
                 votesAt, emitted, paid, truncated>>

\* Tokens sent to the vault by a plain transfer.
Donate(a, t, amount) ==
  /\ 0 < amount /\ amount <= wallets[t][a]
  /\ wallets' = [wallets EXCEPT ![t][a] = @ - amount]
  /\ vaultBalance' = [vaultBalance EXCEPT ![t] = @ + amount]
  /\ UNCHANGED <<block, now, poolVars, userVars, voteVars, storeBalance,
                 votesAt, emitted, paid, truncated>>

\* The next block; the history keeps the votes at the end of this one.
Mine(seconds) ==
  /\ block < MaxBlock
  /\ block' = block + 1
  /\ now' = now + seconds
  /\ votesAt' = Append(votesAt, [a \in Account |-> CurrentVotes(checkpoints[a])])
  /\ emitted' = [t \in Token |-> emitted[t] + rewardTokenAmountsPerBlock[t]]
  /\ UNCHANGED <<poolVars, userVars, voteVars, tokenVars, paid, truncated>>

AdminCall ==
  \/ /\ block \in AddBlocks
     /\ \E p \in Pools : \E terms \in Terms[p] : Add(p, terms[1], terms[2], terms[3])
  \/ /\ block \in SettingBlocks
     /\ \/ \E p \in Added, alloc \in AllocPoints : Set(p, alloc)
        \/ \E t \in {Reward(p) : p \in Pools}, rate \in RewardRates :
             SetRewardAmountPerBlock(t, rate)
        \/ \E p \in Added, period \in LockPeriods : SetWithdrawalLockingPeriod(p, period)

UserCall ==
  \/ \E p \in Added : UpdatePool(p)
  \/ \E p \in Added : \E a \in Users[p], amount \in Amounts : Deposit(a, p, amount)
  \/ \E p \in Added : \E a \in Users[p], amount \in Amounts : RequestWithdrawal(a, p, amount)
  \/ \E p \in Added : \E a \in Users[p] : ExecuteWithdrawal(a, p)
  \/ \E a \in Delegators, d \in Delegatees : Delegate(a, d)
  \/ \E a \in Account, t \in Token, amount \in Gifts : Donate(a, t, amount)

Next ==
  \/ AdminCall
  \/ UserCall
  \/ \E seconds \in 1..MaxSeconds : Mine(seconds)

Spec == Init /\ [][Next]_vars

-----------------------------------------------------------------------------
(* Properties.                                                             *)

VaultTypeOK ==
  /\ block \in 1..MaxBlock /\ now \in Nat
  /\ Added \subseteq Pools /\ \A p \in Added : poolInfos[p] \in PoolInfo
  /\ totalAllocPoints \in [Token -> Nat] /\ rewardTokenAmountsPerBlock \in [Token -> Nat]
  /\ userInfos \in [Pools -> [Account -> UserInfo]]
  /\ \A p \in Pools, a \in Account :
       /\ userInfos[p][a].pendingWithdrawals <= userInfos[p][a].amount
       /\ \A i \in DOMAIN withdrawalRequests[p][a] : withdrawalRequests[p][a][i].amount \in Nat \ {0}
  /\ delegates \in [Account -> Account \cup {Nobody}]
  /\ \A d \in Account : \A i \in DOMAIN checkpoints[d] : checkpoints[d][i] \in Checkpoint
  /\ wallets \in [Token -> [Account -> Nat]]
  /\ vaultBalance \in [Token -> Nat] /\ storeBalance \in [Token -> Nat]

\* Popping from the end down to the first locked request finds every request whose
\* time has come, whatever the lock periods were when they were made, and what is
\* pending is what is still in the queue.
Unlocked(requests) == {i \in DOMAIN requests : requests[i].lockedUntil <= now}

PopsWhatIsDue ==
  \A p \in Pools, a \in Account :
    LET requests == withdrawalRequests[p][a]
    IN  /\ TotalOf(requests) - TotalOf(KeptRequests(requests))
             = SumFunctionOnSet(Requested(requests), Unlocked(requests))
        /\ TotalOf(requests) = userInfos[p][a].pendingWithdrawals

\* The votes of a delegate are the stakes of those who named it, less what they
\* have asked back, through any order of deposits, requests and delegations.
VotesMatchStake ==
  \A d \in Account :
    CurrentVotes(checkpoints[d]) =
      SumFunction([a \in {b \in Account : delegates[b] = d} |-> StakeAmount(a)])

\* getPriorVotes answers for a block that is over what the votes were at its end,
\* for ever: the search is right and no later call rewrites the past.
PastVotesFixed ==
  \A a \in Account, b \in 1..(block - 1) : GetPriorVotes(checkpoints[a], b) = votesAt[b][a]

\* The vault holds every stake, also when pools share a token or pay in it.
HoldsStakes ==
  \A t \in Token :
    SumFunction([p \in {q \in Pools : Staked(q) = t} |->
      SumFunction([a \in Account |-> userInfos[p][a].amount])]) <= vaultBalance[t]

\* What has been and could now be claimed exceeds what the rates in force during
\* the blocks promised, however rates, shares and stakes changed, by no more than
\* what rounding down the reward debts has left due.
Claimable(p) ==
  IF CanUpdate(p)
  THEN SumFunction([a \in Account |-> Pending(userInfos[p][a], Updated(p).accRewardPerShare)])
  ELSE 0

WithinSchedule ==
  \A t \in Token :
    AccScale * (paid[t] + SumFunction([p \in {q \in Added : Reward(q) = t} |-> Claimable(p)]))
      <= AccScale * emitted[t] + truncated[t]
=============================================================================
