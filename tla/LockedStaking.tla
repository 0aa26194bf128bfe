--------------------------- MODULE LockedStaking ---------------------------
(***************************************************************************)
(* Locked staking (BrainiacLockedStaking.sol): every deposit is a lock of  *)
(* its own; what has expired may be redeemed, what has not may be redeemed *)
(* early at a penalty.  The admin changes the duration of later locks, the *)
(* penalty and the rewards.  Stakes, slashed tokens and rewards are all    *)
(* paid out of the one balance the contract has of each token.  The        *)
(* addresses of the tokens are those of the deployment: all are set.       *)
(***************************************************************************)
EXTENDS Integers, FiniteSets, FiniteSetsExt, Functions, SequencesExt

CONSTANTS
  Account,
  Token,
  StakedToken,       \* stakedTokenAddress
  MaxRewards,        \* reward tokens there may be
  RewardToken,       \* rewardTokenAddresses: [0..MaxRewards-1 -> Token]
  RewardScale,       \* [0..MaxRewards-1 -> Nat]: 10 ** (36 + 18 - decimals)
  FirstWallet,       \* [Account -> Nat]: the staked token
  FirstBalance,      \* [Token -> Nat]: what the contract is given for rewards
  FirstCount, FirstDuration, FirstPenalty,
  IndexScale,        \* 1e36
  PenaltyScale,      \* 1e18
  WordSize,          \* 2 ** 256
  Amounts, AdminAmounts, Durations, Penalties, Speeds, RewardCounts,   \* inputs
  \* Bounds of the model: the last second, and the deposits an account makes.
  MaxTime, MaxDeposits

Rewards == 0..(MaxRewards - 1)

\* All there is of the staked token, but for what the admin holds.
Supply == SumFunction(FirstWallet) + FirstBalance[StakedToken]

ASSUME StakingAssumption ==
  /\ IsFiniteSet(Account) /\ StakedToken \in Token
  /\ MaxRewards \in Nat
  /\ RewardToken \in [Rewards -> Token] /\ RewardScale \in [Rewards -> Nat \ {0}]
  /\ FirstWallet \in [Account -> Nat] /\ FirstBalance \in [Token -> Nat]
  /\ FirstCount \in 0..MaxRewards /\ RewardCounts \subseteq 0..MaxRewards
  /\ FirstDuration \in Nat /\ FirstPenalty \in Nat
  /\ IndexScale \in Nat \ {0} /\ PenaltyScale \in Nat /\ PenaltyScale >= 2
  /\ WordSize \in Nat /\ 2 * Supply <= WordSize
  /\ Amounts \subseteq 0..(WordSize - 1)
  /\ AdminAmounts \cup Durations \cup Penalties \cup Speeds \cup {MaxTime, MaxDeposits} \subseteq Nat

VARIABLES
  now,
  rewardTokenCount, lockDuration, earlyRedeemPenalty,
  rewardSpeeds, rewardIndex, accrualTime,
  supplyAmount, totalSupplies, unlockedSupplyAmount, lockedSupplies, slashedTokenAmount,
  accruedReward, supplierRewardIndex,
  wallets,           \* the staked token, by account
  balance,           \* of the contract, by token
  deposits,          \* history: every deposit of an account with its unlock time
  redeemed,          \* history: what each account redeemed without a penalty
  taken,             \* history: what the admin withdrew in an emergency, by token
  emitted, claimed   \* history: rewards the speeds promised, rewards paid

settingVars == <<rewardTokenCount, lockDuration, earlyRedeemPenalty>>
indexVars == <<rewardSpeeds, rewardIndex, accrualTime>>
stakeVars == <<supplyAmount, totalSupplies, unlockedSupplyAmount, lockedSupplies,
               slashedTokenAmount>>
rewardVars == <<accruedReward, supplierRewardIndex>>
tokenVars == <<wallets, balance>>
historyVars == <<deposits, redeemed, taken, emitted, claimed>>
vars == <<now, settingVars, indexVars, stakeVars, rewardVars, tokenVars, historyVars>>

Zero == [a \in Account |-> 0]
NoRewards == [i \in Rewards |-> 0]

Init ==
  /\ now = 1
  /\ rewardTokenCount = FirstCount
  /\ lockDuration = FirstDuration /\ earlyRedeemPenalty = FirstPenalty
  /\ rewardSpeeds = NoRewards /\ rewardIndex = NoRewards
  /\ accrualTime = 0
  /\ supplyAmount = Zero /\ totalSupplies = 0 /\ unlockedSupplyAmount = Zero
  /\ lockedSupplies = [a \in Account |-> <<>>]
  /\ slashedTokenAmount = 0
  /\ accruedReward = [a \in Account |-> NoRewards]
  /\ supplierRewardIndex = [a \in Account |-> NoRewards]
  /\ wallets = FirstWallet /\ balance = FirstBalance
  /\ deposits = [a \in Account |-> <<>>] /\ redeemed = Zero
  /\ taken = [t \in Token |-> 0]
  /\ emitted = NoRewards /\ claimed = NoRewards

-----------------------------------------------------------------------------
(* Locks.                                                                  *)

Locked(amount, until) == [stakedTokenAmount |-> amount, unlockTime |-> until]

Stakes(locks) == [i \in DOMAIN locks |-> locks[i].stakedTokenAmount]

Total(locks) == SumFunction(Stakes(locks))

\* What the loop of getUnlockedBalance adds up: every lock whose time has come.
Expired(locks) ==
  SumFunctionOnSet(Stakes(locks), {i \in DOMAIN locks : locks[i].unlockTime <= now})

UnlockedBalance(a) == unlockedSupplyAmount[a] + Expired(lockedSupplies[a])

LockedBalance(a) == supplyAmount[a] - UnlockedBalance(a)

\* Mutant of FirstLocked: a lock that was redeemed early, and deleted, is not over.
FirstNotOver(locks) ==
  Min({i \in DOMAIN locks : ~ locks[i].unlockTime \in 1..now} \cup {Len(locks) + 1})

\* Mutant of FirstLocked: every lock before one that has expired goes with it.
FirstAfterExpired(locks) ==
  Max({i \in DOMAIN locks : locks[i].unlockTime <= now} \cup {0}) + 1

FirstLocked(locks) ==
  Min({i \in DOMAIN locks : locks[i].unlockTime > now} \cup {Len(locks) + 1})

\* updateExpiredLocks: the expired locks before the first that is not.
Sweepable(locks) == SubSeq(locks, 1, FirstLocked(locks) - 1)
Swept(locks)     == SubSeq(locks, FirstLocked(locks), Len(locks))

UpdateExpiredLocks(a, locks) ==
  /\ lockedSupplies' = [lockedSupplies EXCEPT ![a] = Swept(locks)]
  /\ unlockedSupplyAmount' =
       [unlockedSupplyAmount EXCEPT ![a] = @ + Total(Sweepable(locks))]

\* Mutant of EarlyTaken: a lock taken in part is left whole.
EarlyTakenWhole(locks, amount) ==
  [i \in DOMAIN locks |->
    IF Total(SubSeq(locks, 1, i)) <= amount /\ Total(SubSeq(locks, 1, i - 1)) < amount
    THEN Locked(0, 0) ELSE locks[i]]

\* The loop of redeemEarly: from the front, expired or not; an emptied lock is
\* deleted, so its unlock time is 0.
EarlyTaken(locks, amount) ==
  [i \in DOMAIN locks |->
    LET left == amount - Total(SubSeq(locks, 1, i - 1))
    IN  IF left <= 0 THEN locks[i]
        ELSE IF locks[i].stakedTokenAmount <= left THEN Locked(0, 0)
        ELSE Locked(locks[i].stakedTokenAmount - left, locks[i].unlockTime)]

-----------------------------------------------------------------------------
(* Rewards.                                                                *)

Paying == {i \in Rewards : i < rewardTokenCount}

\* Mutant of IndexNow: the growth replaces the index.
IndexFromZero ==
  LET delta == now - accrualTime
  IN  [i \in Rewards |->
        IF totalSupplies = 0 \/ i \notin Paying THEN rewardIndex[i]
        ELSE (rewardSpeeds[i] * delta * IndexScale) \div totalSupplies]

\* accrueReward.
IndexNow ==
  LET delta == now - accrualTime
  IN  [i \in Rewards |->
        IF totalSupplies = 0 \/ i \notin Paying THEN rewardIndex[i]
        ELSE rewardIndex[i] + (rewardSpeeds[i] * delta * IndexScale) \div totalSupplies]

Accrue ==
  /\ accrualTime' = now
  /\ rewardIndex' = IndexNow

\* What distributeReward adds to an account's rewards.
Earned(a, i) == ((IndexNow[i] - supplierRewardIndex[a][i]) * supplyAmount[a]) \div RewardScale[i]

\* Mutant of IndexAfter: the account is paid from its old index again.
IndexAsBefore(a, i) == supplierRewardIndex[a][i]

IndexAfter(a, i) == IndexNow[i]

AccruedNow(a) ==
  [i \in Rewards |-> accruedReward[a][i] + IF i \in Paying THEN Earned(a, i) ELSE 0]

\* distributeReward, before the operation changes the supply.
SettleIndex(a) ==
  /\ Accrue
  /\ supplierRewardIndex' = [supplierRewardIndex EXCEPT
       ![a] = [i \in Rewards |-> IF i \in Paying THEN IndexAfter(a, i) ELSE @[i]]]

DistributeReward(a) ==
  /\ SettleIndex(a)
  /\ accruedReward' = [accruedReward EXCEPT ![a] = AccruedNow(a)]

-----------------------------------------------------------------------------
(* The users.                                                              *)

\* transfer and transferFrom of the staked token: to (a positive amount) or from a.
MoveStakedToken(a, amount) ==
  /\ wallets' = [wallets EXCEPT ![a] = @ + amount]
  /\ balance' = [balance EXCEPT ![StakedToken] = @ - amount]

Deposit(a, amount) ==
  LET lock == Locked(amount, now + lockDuration)
  IN  /\ 0 < amount /\ amount <= wallets[a]
      /\ Len(deposits[a]) < MaxDeposits /\ now + lockDuration <= MaxTime
      /\ totalSupplies + amount < WordSize
      /\ DistributeReward(a)
      /\ totalSupplies' = totalSupplies + amount
      /\ supplyAmount' = [supplyAmount EXCEPT ![a] = @ + amount]
      /\ UpdateExpiredLocks(a, Append(lockedSupplies[a], lock))
      /\ MoveStakedToken(a, -amount)
      /\ deposits' = [deposits EXCEPT ![a] = Append(@, lock)]
      /\ UNCHANGED <<now, settingVars, rewardSpeeds, slashedTokenAmount, redeemed, taken,
                     emitted, claimed>>

\* What redeem can subtract: the locks behind one that is still locked are not swept.
Redeemable(a) == unlockedSupplyAmount[a] + Total(Sweepable(lockedSupplies[a]))

Redeem(a, amount) ==
  /\ amount <= supplyAmount[a] /\ amount <= UnlockedBalance(a)
  /\ amount <= Redeemable(a) /\ amount <= balance[StakedToken]
  /\ DistributeReward(a)
  /\ lockedSupplies' = [lockedSupplies EXCEPT ![a] = Swept(@)]
  /\ unlockedSupplyAmount' = [unlockedSupplyAmount EXCEPT ![a] = Redeemable(a) - amount]
  /\ supplyAmount' = [supplyAmount EXCEPT ![a] = @ - amount]
  /\ totalSupplies' = totalSupplies - amount
  /\ MoveStakedToken(a, amount)
  /\ redeemed' = [redeemed EXCEPT ![a] = @ + amount]
  /\ UNCHANGED <<now, settingVars, rewardSpeeds, slashedTokenAmount, deposits, taken,
                 emitted, claimed>>

\* Mutant of Penalty: what was rounded away is counted as slashed too.
PenaltyRoundedUp(amount) == (amount * earlyRedeemPenalty + PenaltyScale - 1) \div PenaltyScale

Penalty(amount) == (amount * earlyRedeemPenalty) \div PenaltyScale

\* amountAfterPenalty: nothing bounds the penalty, and the subtraction wraps.
AfterPenalty(amount) ==
  LET left == amount - (amount * earlyRedeemPenalty) \div PenaltyScale
  IN  IF left < 0 THEN left + WordSize ELSE left

RedeemEarly(a, amount) ==
  LET payment == AfterPenalty(amount)
  IN  /\ amount <= supplyAmount[a] /\ amount <= LockedBalance(a)
      /\ amount * earlyRedeemPenalty < WordSize
      /\ payment <= balance[StakedToken]
      /\ DistributeReward(a)
      /\ UpdateExpiredLocks(a, EarlyTaken(lockedSupplies[a], amount))
      /\ supplyAmount' = [supplyAmount EXCEPT ![a] = @ - amount]
      /\ totalSupplies' = totalSupplies - amount
      /\ slashedTokenAmount' = slashedTokenAmount + Penalty(amount)
      /\ MoveStakedToken(a, payment)
      /\ UNCHANGED <<now, settingVars, rewardSpeeds, deposits, redeemed, taken, emitted,
                     claimed>>

\* What amounts of the reward tokens come to in one token.
AmountIn(token, amounts) ==
  SumFunctionOnSet(amounts, {i \in Rewards : RewardToken[i] = token})

\* claimRewards pays all reward tokens or, when the contract lacks one, none.  A
\* reward in the staked token is paid out of the same balance as the stakes.
ClaimRewards(a) ==
  LET due == AccruedNow(a)
      pay == [i \in Rewards |-> IF i \in Paying THEN due[i] ELSE 0]
  IN  /\ \A t \in Token : AmountIn(t, pay) <= balance[t]
      /\ SettleIndex(a)
      /\ UpdateExpiredLocks(a, lockedSupplies[a])
      /\ accruedReward' = [accruedReward EXCEPT ![a] = [i \in Rewards |-> due[i] - pay[i]]]
      /\ balance' = [t \in Token |-> balance[t] - AmountIn(t, pay)]
      /\ wallets' = [wallets EXCEPT ![a] = @ + AmountIn(StakedToken, pay)]
      /\ claimed' = [i \in Rewards |-> claimed[i] + pay[i]]
      /\ UNCHANGED <<now, settingVars, rewardSpeeds, supplyAmount, totalSupplies,
                     slashedTokenAmount, deposits, redeemed, taken, emitted>>

-----------------------------------------------------------------------------
(* The admin.                                                              *)

SetRewardTokenCount(count) ==
  /\ rewardTokenCount' = count
  /\ UNCHANGED <<now, lockDuration, earlyRedeemPenalty, indexVars, stakeVars, rewardVars,
                 tokenVars, historyVars>>

SetLockDuration(duration) ==
  /\ lockDuration' = duration
  /\ UNCHANGED <<now, rewardTokenCount, earlyRedeemPenalty, indexVars, stakeVars, rewardVars,
                 tokenVars, historyVars>>

SetEarlyRedeemPenalty(penalty) ==
  /\ earlyRedeemPenalty' = penalty
  /\ UNCHANGED <<now, rewardTokenCount, lockDuration, indexVars, stakeVars, rewardVars,
                 tokenVars, historyVars>>

SetRewardSpeed(i, speed) ==
  /\ IF accrualTime # 0 THEN Accrue ELSE UNCHANGED <<accrualTime, rewardIndex>>
  /\ rewardSpeeds' = [rewardSpeeds EXCEPT ![i] = speed]
  /\ UNCHANGED <<now, settingVars, stakeVars, rewardVars, tokenVars, historyVars>>

WithdrawSlashedTokens(amount) ==
  /\ 0 < amount /\ amount <= slashedTokenAmount /\ amount <= balance[StakedToken]
  /\ slashedTokenAmount' = slashedTokenAmount - amount
  /\ balance' = [balance EXCEPT ![StakedToken] = @ - amount]
  /\ UNCHANGED <<now, settingVars, indexVars, supplyAmount, totalSupplies,
                 unlockedSupplyAmount, lockedSupplies, rewardVars, wallets, historyVars>>

\* emergencyWithdraw, and emergencyWithdrawNative for the native token.
EmergencyWithdraw(t, amount) ==
  /\ 0 < amount /\ amount <= balance[t]
  /\ balance' = [balance EXCEPT ![t] = @ - amount]
  /\ taken' = [taken EXCEPT ![t] = @ + amount]
  /\ UNCHANGED <<now, settingVars, indexVars, stakeVars, rewardVars, wallets, deposits,
                 redeemed, emitted, claimed>>

AdvanceTime ==
  /\ now < MaxTime
  /\ now' = now + 1
  /\ emitted' = [i \in Rewards |-> emitted[i] + rewardSpeeds[i]]
  /\ UNCHANGED <<settingVars, indexVars, stakeVars, rewardVars, tokenVars, deposits,
                 redeemed, taken, claimed>>

UserCall ==
  \/ \E a \in Account, amount \in Amounts : Deposit(a, amount)
  \/ \E a \in Account, amount \in Amounts : Redeem(a, amount)
  \/ \E a \in Account, amount \in Amounts : RedeemEarly(a, amount)
  \/ \E a \in Account : ClaimRewards(a)

AdminCall ==
  \/ \E count \in RewardCounts : SetRewardTokenCount(count)
  \/ \E duration \in Durations : SetLockDuration(duration)
  \/ \E penalty \in Penalties : SetEarlyRedeemPenalty(penalty)
  \/ \E i \in Rewards, speed \in Speeds : SetRewardSpeed(i, speed)
  \/ \E amount \in AdminAmounts : WithdrawSlashedTokens(amount)
  \/ \E t \in Token, amount \in AdminAmounts : EmergencyWithdraw(t, amount)

Next == UserCall \/ AdminCall \/ AdvanceTime

Spec == Init /\ [][Next]_vars

\* Only time is sure to pass.
FairSpec == Spec /\ WF_vars(AdvanceTime)

-----------------------------------------------------------------------------
(* Properties.                                                             *)

LockType == [stakedTokenAmount : Nat, unlockTime : Nat]

StakingTypeOK ==
  /\ now \in Nat /\ accrualTime \in 0..now
  /\ rewardTokenCount \in 0..MaxRewards
  /\ {lockDuration, earlyRedeemPenalty, totalSupplies, slashedTokenAmount} \subseteq Nat
  /\ {rewardSpeeds, rewardIndex} \subseteq [Rewards -> Nat]
  /\ {supplyAmount, unlockedSupplyAmount, wallets} \subseteq [Account -> Nat]
  /\ balance \in [Token -> Nat]
  /\ \A a \in Account : \A i \in DOMAIN lockedSupplies[a] : lockedSupplies[a][i] \in LockType
  /\ accruedReward \in [Account -> [Rewards -> Nat]]
  /\ supplierRewardIndex \in [Account -> [Rewards -> Nat]]

\* The two accounts of a stake agree after any order of deposits, redemptions and
\* sweeps: it is what is unlocked and the locks, and together they are the total.
SupplyIsUnlockedAndLocks ==
  /\ \A a \in Account :
       supplyAmount[a] = unlockedSupplyAmount[a] + Total(lockedSupplies[a])
  /\ totalSupplies = SumFunction(supplyAmount)

\* Where every token is: with what the admin took in an emergency and what was
\* claimed in it, the contract's balance of a token is what it was given and, of
\* the staked token, what it owes to the stakers and what it slashed.  (So the
\* stakes are there as long as no more is claimed in their token than was given.)
TokensAccounted ==
  \A t \in Token :
    balance[t] + taken[t] + AmountIn(t, claimed)
      = FirstBalance[t] + IF t = StakedToken THEN totalSupplies + slashedTokenAmount ELSE 0

\* Nobody has redeemed without a penalty more than deposits whose time has come.
MaturedOnly ==
  \A a \in Account : redeemed[a] <= Expired(deposits[a])

\* However speeds, stakes and times of claims change, what was claimed and what is
\* accrued or due, at the scale of its token, never exceeds what the speeds in
\* force promised at the scale of the indices.
WithinEmission ==
  \A i \in Rewards :
    RewardScale[i] * (claimed[i] + SumFunction([a \in Account |-> AccruedNow(a)[i]]))
      <= IndexScale * emitted[i]

\* The deposits of an account that a redeem of it no longer finds locked.
Freed(a) == Len(deposits[a]) - Len(Swept(lockedSupplies[a]))

\* A shorter lock made after a longer one expires behind it and stays out of
\* redeem's reach, and deposits may go on; but each deposit comes free in time.
EveryDepositFreed ==
  \A a \in Account, k \in 1..MaxDeposits : Len(deposits[a]) >= k ~> Freed(a) >= k
=============================================================================
