# Brainiac: a verification project

TLA+ models of the Brainiac lending protocol (`src/contracts`) and of the
scenario runner that drives its deployments and tests (`src/scenario`), the TLC
configurations that check them on small instances, and theorems the TLA+ proof
system has checked for every instance.

## 1. The system

Brainiac is a Compound/Venus style money market on an EVM chain. Every
transaction is atomic; what the protocol has to withstand is any *order* of
transactions of any senders, with any number of blocks and price changes in
between, and calls that return an error code (and so keep what they already
wrote) instead of reverting. The scenario runner is a Node program: a prompt or
a script whose lines send transactions and whose knowledge of the deployment
lives in files that survive it.

| Component (source) | State | Operations | What makes it correct |
|---|---|---|---|
| Money market, `BRToken.sol`, `BRErc20.sol` | cash, total supply, total borrows, reserves, borrow index, accrual block, balances, debts with the index they were written at | accrueInterest, mint, redeem, redeemUnderlying, borrow, repay, liquidate, seize, transfer, reserves, reserve factor, rate model | supply = sum of balances; nothing is paid twice; rounding never pays the one who acts at the expense of those who stay; no subtraction underflows that a user needs |
| Comptroller, `Comptroller.sol` | listed markets, membership flags, asset lists, factors, caps, pauses | enter, exit, the policy hook before every market operation, admin setters | a debt is always counted; no sequence of permitted operations creates a shortfall; a pause stops every way in |
| Lens, `Lens/ComptrollerLens.sol` | none | hypothetical liquidity, tokens to seize | agrees with what the operation then does |
| BRN distribution (in `Comptroller.sol`) | supply and borrow index per market, index per account, accrued BRN, speeds | accrual in every hook, claims, speed setter | nobody is paid for blocks or tokens that earned nothing; together never more than the emission |
| Rate models, oracles | parameters; prices | views | a rate exists whenever a market must accrue |
| Governor Bravo + Timelock | proposals, receipts, settings; queued transactions | propose, vote, queue, execute, cancel, initiate, settings by proposal or admin; admin handovers | an executed proposal won, waited and was never cancelled; nothing is left queued that nobody decided; rules change by vote |
| BRN token, BRN vault | balances or stakes, delegates, vote checkpoints; withdrawal queue, rewards | delegate, transfer; deposit, request, execute, claim; pools, rates, lock periods | votes of a delegate = stakes delegated to it; the past stays; what is due can be popped; rewards within the schedule |
| BAI vault, VRT vault, VRT conversion, BRN vesting | stakes, accumulators, principals, vesting records | deposit, withdraw, claim, convert | nobody takes more than the schedule gives |
| Locked staking | locks, unlocked and slashed amounts, reward indices | deposit, redeem, redeemEarly, claim, duration, penalty, speeds | supply = unlocked + locks; every token is accounted for; nothing leaves early without a penalty; each deposit comes free in time |
| Liquidator, Reservoir, VestingWallet, PaymentSplitter | percentages, released amounts | liquidate, drip, release | shares add up, releases are monotone |
| Unitroller and the other proxies | admin, pending admin, implementation, pending implementation | two-step handovers | only who was named can accept |
| Scenario runner, `scenario/src` | the prompt's world (actions, invariants, expectations, contracts by name), the running line, the objects worlds share; network and ABI files; the chain | about 290 commands in tables; deploy and save, merge ABIs, send, expect, assert, hold and clear invariants, gate, crash and restart | a line counts whole or not at all; a hold excuses one transaction; a restart finds what the session knew; a dry run changes nothing |

**Interaction.** A user calls a market. The market accrues its interest, asks
the comptroller's hook (`mintAllowed`, `redeemAllowed`, ...), which asks the
lens, which reads *every* market the account is in (at their stored, possibly
stale, books) and the oracle; the hook also accrues BRN to the account. Then the
market moves the underlying and writes its books. `borrowAllowed` calls back
into the membership of the borrower. A liquidation spans two markets: repay in
one, seize in the other. The admin of the comptroller and of the markets is the
timelock, whose admin is the governor, whose votes come from the BRN vault. A
proposal's actions may be calls of the timelock or of the governor itself, so an
execution changes the rules for the proposals still open.

In the runner, a line is a list of events. An event goes through a table of
commands, the first row that matches takes it; some rows pass the rest on to
another table (`Comptroller`, `BRToken`, ...), some wrap another event (`From`,
`Trx`, `Gate`, `Given`), some call the chain (`invoke`) and some save a contract
(`storeAndSaveContract`: `networks` and ABI file, one after the other). After
every event the invariants and expectations are checked. A world is immutable
and kept only when its line succeeds; the chain, the files and the objects of
the invariants are not part of it.

**What is hard.** Histories (lists and flags that must agree after any order of
entering and exiting), reads of stale books, two truncations that should be
equal and are not, operations that fail half-way with an error code, two markets
in one transaction, settings changed under open positions, schedules that change
under open requests, votes read at one block and rights at another, two proposals
with one timelock entry, locks that end in another order than they began; in the
runner a line that is taken back after it wrote to the chain and the disk, a
process that ends between two writes, and a promise nobody awaits.
`PROJECT.json` lists each hazard at its line, with the property that watches it
or the reason there is none.

## 2. Modules

| Module | Models |
|---|---|
| `ExpMath` | the fixed-point arithmetic: scale, truncating product and quotients |
| `BRToken` | a market's books as one record `market[m]`, the views on it, `Accrued`, and the effect of each operation on the record; the wallets of the underlying (an external token without transfer fees) |
| `Comptroller` | membership, risk settings, pauses, prices; the lens; every policy hook as a predicate |
| `LendingMarket` | the transactions: one action per entry point, hook and effect together; the properties |
| `Flywheel` | the BRN distribution: each transaction of `LendingMarket` joined with what its hook settles, claims, grants and the speed setter |
| `Timelock` | queue, cancel and execute of a batch of calls, what a batch leaves in the timelock's settings, the handover |
| `ProposalLifecycle` | the abstract specification: the statuses of proposals, which edge time takes and which a call takes, and that no clock runs for ever |
| `GovernorBravo` | the governor composed with `Timelock`; the properties and the refinement mapping |
| `Checkpoints` | the checkpoint code that BRN, VRT and the BRN vault share, `getPriorVotes` as a recursive function |
| `BRNVault` | pools, stakes, the queue of withdrawal requests, rewards and their store, delegation |
| `LockedStaking` | locks, redemptions early and late, penalties, reward indices |
| `ScenarioCommands` | what a row of a command table is, how it matches an event and which of its words it takes (`Command.ts`) |
| `MarketCommands`, `TokenCommands`, `GovernanceCommands` | the tables of `src/scenario/src/Event`, row by row, and what each row's function does: send, build, adopt, become, merge, ... |
| `Scenario` | the runner: process, lines, worlds, files, crashes; the properties |
| `MCLending`, `MCFlywheel`, `MCGovernorBravo`, `MCBRNVault`, `MCLockedStaking`, `MCScenario` | values of the constants for TLC |
| `Sums` | lemmas about the sum of a function over a finite set |
| `LendingMarketProofs`, `LendingConservationProofs`, `FlywheelProofs`, `GovernorBravoProofs`, `BRNVaultProofs`, `LockedStakingProofs`, `ScenarioProofs` | the theorems |

**Lending.** `market[m]` is the storage of a brToken (`MarketBooks` has
the code's field names; `cash` is the underlying's balance of the contract),
`accountMembership[m]` and `accountAssets[a]` the two copies of membership,
`paused` the guardian flags, `price[m]` what the oracle answers, 0 when it has no
price. `listed`, the factors and caps are the comptroller's variables of those
names. An operation reads `Accrued(market[m])`, the books as `accrueInterest`
has just written them, and everything after reads that record, as the code does.

`flywheel` is one record, so that a transaction which settles twice threads it
through both: `speed`, `supply` and `borrow` are `brainiacSpeeds`,
`brainiacSupplyState` and `brainiacBorrowState`, `supplierIndex`,
`borrowerIndex` and `accrued` the mappings of those names, `balance` the
comptroller's BRN; `claimed` is a history variable. A block number of 0 is the
code's "never", so the flywheel's `Now` is `blockNumber + 1`.

One transaction is one action. A call that reverts is not a step. A
call that returns an error code keeps its earlier writes: for all operations
that is the interest, which `AccrueInterest` is, and for `borrow` also the
membership, which is `BorrowRejected`. The admin's setters, the oracle
(`SetUnderlyingPrice`), donations and time (`AdvanceBlock`) interleave freely
with the users. In `Flywheel` every market operation is the lending action and
`SuppliersSettled` or `BorrowerSettled` together (`MintAndSettle`,
`LiquidateAndSettle`, ...). `RedeemRejected`, `TransferRejected` and
`BorrowRejectedLate` are the calls that return an error code after their hook has
settled. `ClaimBrainiac` is a claim of one holder in one market.
A claim in several markets is several of these in a row, except that the code
reads the shortfall once, before the first of them; a claim of several holders
also reads the borrow index once for all of them. What these two can add, a
grant in one market that ends the shortfall or accrues interest before the next
is settled, is not modelled. Within a claim the flywheel and the market's books
are threaded through both grants, because a grant to a bankrupt account mints
brBRN for it, and that mint settles again.

**Governance.** `queuedTransactions` is a set of `<<call, eta>>`, since the
timelock's hash covers nothing else that differs here: two proposals with the
same action and eta share an entry. The governor handles all actions of a
proposal in one transaction, so the timelock's operators take a sequence of
calls. `StateOf` is `state()`. A call executed by a proposal (`setDelay`,
`setPendingAdmin`, `_setVotingDelay`, `_initiate`, ...) writes the settings in the
same step. `foreign` is a history variable: the entries another admin, before or
after the governor, has touched. Votes come from outside (`votesAt`, the votes at
the end of each block) and move at any time between accounts. `Mine` is a block
with its timestamp.

**Vault.** A pool is named by `<<reward token, staked token>>`; its record and the
user's are the code's structs. The queue of a user is kept as the code keeps it,
sorted by descending unlock time, and `PushedRequest` and `KeptRequests` are
`pushWithdrawalRequest` and `popEligibleWithdrawalRequests`. `Updated` and
`MassUpdated` are `_updatePool` and `massUpdatePools`, called by the actions at the
places where the code calls them. `votesAt`, `emitted`, `paid` and `truncated` are
history; the last counts what the reward debts written so far were rounded down by.
A user may delegate to `Delegatees`, any accounts and nobody, as `delegate(address(0))` does.

**Locked staking.** `lockedSupplies[a]` is the user's array, swept from the front
(`FirstLocked`), `rewardIndex`, `supplierRewardIndex` and `accruedReward` the
mappings. `deposits`, `redeemed`, `taken`, `emitted` and `claimed` are history.
The contract has one `balance` of each token, from which stakes, slashed tokens and
rewards are paid: a reward may be paid in the staked token, which
`scripts/setRewardSpeeds.ts` (14-20, 51-56) sets up, and a claim is then paid out of
the stakes when nothing else is there. `RewardScale[i]` is the division by
`10 ** (36 + 18 - decimals)` in `distributeReward`. Nothing bounds the penalty: above the whole
amount the subtraction of what is left wraps at `WordSize`.

**Scenario runner.** `pc` says what the process is doing: off, at the prompt,
running an event, reading or writing the files of a contract, checking what the
event did. `handler` is the table the event has reached, or, once the row is found, the
effect its function has (`PassOn`); each effect is an action (`Send`, `Build`,
`Become`, `MergeABI`, ...). `world` is the line's, `base` the prompt's, given back by
`Fail`. `objects` are the invariants' objects, which worlds share by reference:
a world holds their indices. `task` is the merge of ABIs that
`GovernorBravo SetImplementation` starts and does not wait for; it interleaves
with everything, down to single file writes. `Crash` may come between any two
steps, a script ends the process with the first error, a prompt goes on.

The chain is a value that a successful transaction changes, the contracts
deployed and the last sender and value; a comparison with the chain may
go either way. A dry run is the same program with `dryRun`, in which `invoke`
sends nothing and nothing is saved.

`HoldInvariants` and `ClearInvariants` take a word for the type, which `TypeIn` reads as the
code does: lower-cased, `all` when it is missing, and an error when it is none of the types
(`UnknownType`). `supportMarket` is the one function that asks `dryRun` itself and then
neither calls `invoke` nor records an action (`sendLive`).

The repository is half-way through a rename here: `CoreEvent.ts` imports
`./Event/BRTokenEvent`, `./Event/BRNVaultEvent` and others, the files are still
called `VTokenEvent.ts`, `XVSVaultEvent.ts`, ... The models take the files that are
there under the names the core table uses.

**Abstraction.** Amounts are naturals and the scales are constants (`ExpScale`
100 for TLC instead of 1e18), so that truncation is visible with small numbers.
Overflow of 256-bit products is not modelled: the code reverts or returns an
error there and nothing changes. Who may call a setter of the comptroller and
the markets is left out (they are taken by the admin), events and error codes
too. In the runner, words other than names of commands and contracts are
one word each. The code compares the names of commands without case and surrounding blanks; a name
here stands for all its spellings. The functions that a contract's ABI adds to its table
take words of one kind each and do the same, and are one row, `Call`. The options that a
file `${network}_opts` may set for every transaction (`World.ts:121-127`) are taken to be unset.

## 3. Properties and runs

| Run | Question | Checked | Bounds |
|---|---|---|---|
| `positions` | can an order of entering, exiting, borrowing, repaying, transferring and liquidating confuse the lists, leave a debt uncounted or push an account into a shortfall? | `AssetsMatchMembership`, `BorrowerIsMember`, `NoShortfallByTransaction` | two users, two markets with prices of 40 and 20, the second listed and made collateral on the way, two units per operation, so that a full collateral carries a debt of 40 where truncation may lose 22; one price fall, no interest |
| `interest` | do the books stay typed, the supply equal to the balances, the underlying complete and the suppliers' share safe while interest accrues, and does a pause stop every way in? | `TypeOK`, `SupplyMatchesBalances`, `UnderlyingConserved`, `SuppliersKeepTheirShare`, `PauseFreezesPositions` | two users with 2 and 1 units, one unit per operation, one market, three blocks, a rate of a half per block and more above full utilization; the redemption fee goes to a half, the protocol is paused and opened, units are donated, added to the reserves and withdrawn |
| `rewards` | does every hook settle the right accounts, at the right books, before a position changes? | `EntitlementKept` | two interchangeable users, one market that pays 1 BRN per block, one block, no interest |
| `emission` | can starting, stopping, claiming and granting pay more than the schedule, more than there is, or the same BRN twice? | `FlywheelTypeOK`, `EmissionBounded`, `BRNConserved` | one user, the market of BRN itself, listed on the way, two blocks, speeds 0 and 1, collateral factors 0 and a half, one BRN in the comptroller |
| `governance` | do entries, votes and rules stay tied to proposals, and does each proposal follow the life cycle to an end? | `TypeOK`, `NoOrphanEntries`, `LostOnlyToATwin`, `VotesCountOnce`, `OneLiveProposal`, `RulesChangeByVote`, `FollowsLifecycle`, `ResolvesInTime` | two voters with power 2 and 3 and a quorum of 3, two proposals of two kinds (pay; hand the timelock over and slow it down), seven blocks of one second, power moved in block 4, one call of another admin |
| `vault` | do queue, votes, their history, stakes and rewards stay consistent? | `VaultTypeOK`, `PopsWhatIsDue`, `VotesMatchStake`, `PastVotesFixed`, `HoldsStakes`, `WithinSchedule` | a pool of BRN and one of another token that pays BRN, one user each with one token, three blocks, two open requests, the first delegating to the second or to nobody, rate, points and lock period changed in block 2 |
| `staking` | do the books of the stakes agree, is every token accounted for, do penalties and emission hold, and does each deposit come free? | `StakingTypeOK`, `SupplyIsUnlockedAndLocks`, `TokensAccounted`, `MaturedOnly`, `WithinEmission`, `EveryDepositFreed` | two users with 2 and 1 tokens, two deposits each, durations 2 and 1, three seconds, penalties of a half and of one and a half, one reward that starts in the middle and is paid in the staked token, nothing given for it |
| `scenario` | does the runner keep its word about lines, holds, expectations, senders, dry runs and files, wherever it is stopped? | `HoldExcusesOne`, `ExpectationsMet`, `KnownOnDisk`, `AbiLossNeedsACrash`, `GatedDeploysOnce`, `OneCommandAnswers`, `SentAsAsked`, `DryRunLeavesAll` | the first line of the first session is one event of any command there is; later lines are eighteen that combine the effects; two transactions, deployments, sessions, lines per session and invariants |
| `startindex` | does every market with a speed start at the initial index? | `StartsAtInitialIndex` (violated) | two users, one market without a speed |
| `collateralclaim` | does a claim paid in brBRN keep the rest of the rewards? | `ClaimKeepsTheRest` (violated) | one user, the market of BRN |
| `othertoken` | are the votes the stakes also with a pool of another token that pays BRN? | `VotesMatchStake` (violated) | two users of both pools |
| `filters` | do `HoldInvariants` and `ClearInvariants` meet the invariants they name? | `FilteredAsNamed` (violated) | as `scenario` |

The bounds are enough for what the properties say. Two users are one who acts and
one who may lose; two markets are the smallest list in which an exit must move an
entry and a liquidation can span markets; an amount of 1 at a scale of 100 makes
each truncation lose something. Seven blocks let a proposal be voted on, queued,
wait and expire, and a second one, a twin of the first, overlap it. Two locks with
durations 2 and 1 are the smallest pair that ends in the other order. Two sessions are a
restart; two lines are one that is taken back and one that meets what it left.
`MaxBlock`, `MaxSeconds` and `MaxTime` bound time, the other `Max...` constants
what each module says of them; they occur in guards only. In
`vault` the settings change in block 2 only, between the stakes and the claims.
There a user may also donate a reward it was paid, which lowers the reward per
share of the pool that takes that token.

Some settings fire in the runs but do not change (in `emission`: the close factor, the incentive,
caps, and the reserve factor, which stays 0, so that reserves come from `AddReserves` alone);
what they could do is left to the theorems, which are about any values. A move of votes from one
delegate straight to another is not in `vault`, whose delegates are one account and
nobody, so that votes come and go in one block; `VotesAreStakes` and `PastVotesStay` are about any.

Deadlock is off in every run: a behaviour may stop at the last block, or with the
process off and no start left, with nothing to do. Symmetry of the users is
used in `rewards`, where they start alike; in the other runs they differ.

`EntitlementKept` and `EmissionBounded` are checked with a rate of zero: with
interest a settlement in the middle of a block range weighs a debt differently from
one at its end, by design of the index, and the equality would fail for that reason
alone; and total borrows are truncated once per accrual, each debt once per read, so
that after enough accruals the debts, and with them the rewards, can add up to more than
the market's share. `EntitlementKept` compares what each account has earned, settled or not
(`Entitlement`, `Unsettled`), before and after a transaction. It covers every action of
`Flywheel` within a block, and excepts the start of a speed and claims paid in brBRN,
the subject of `collateralclaim`.

Three properties carry an explicit allowance for rounding, because without it the
code does not satisfy them. `NoShortfallByTransaction` allows `RoundingLoss` in one market:
the collateral value of one brToken, which a redemption can take from those who stay;
for each brToken of the account what the truncated rate and prices lose; and two units. In
`positions` it is 22 at most, a little more than half of what the whole position is worth,
so an account that redeems, transfers or exits with its collateral under a full debt breaks
the property. `SuppliersKeepTheirShare` lets a step that burns brTokens
take the worth of one brToken from those who stay, and speaks of markets whose exchange
rate can be read (`ExchangeRateKnown`, see below). `WithinSchedule` allows exactly what
was rounded off the reward debts: a debt that is rounded down leaves up to one unit of
the reward due again, and `truncated` adds these remainders up, so that nothing else can
hide behind them.

`GatedDeploysOnce` is about lines in which every event that deploys is inside gates for
the contracts it names (`DeploysAreGated`; `MCScenario` assumes it of the run's lines, so
the condition is met there). The properties of files carry `merges = 0`: the merge
that `SetImplementation` does not wait for does break them.

**Fairness.** `GovernorBravo` and `LockedStaking` have a `FairSpec`: blocks keep
being mined (`WF_vars(Time)`), seconds keep passing (`WF_vars(AdvanceTime)`).
A chain gives no more than that, and nobody is obliged to call anything. It is
enough: `ResolvesInTime` says that every pending, active or queued proposal
leaves that status (by block number, by vote, or by the grace period), and
`EveryDepositFreed` that each deposit leaves the part of the array that `redeem` does not reach.
A shorter lock made after a longer one expires behind it, is unlocked for
`getUnlockedBalance` and not for `redeem`. Such a gap can stay open for ever while
long and short deposits alternate, so nothing is claimed about gaps; each single deposit is free
once it and those before it are due. The lending protocol has nothing that must happen:
every step is somebody's free decision. Nor has the runner, which a user may
leave at the prompt.

**Refinement.** `Lifecycle` is `ProposalLifecycle` with `status` mapped to
`StateOf` of each id; `FollowsLifecycle` is its initial condition and its steps,
`ResolvesInTime` its liveness. Statuses are computed from blocks, votes and
settings, so one block may move several proposals and a call exactly one; that
a change of the rules by an executed proposal moves no other one is part of what is
shown.

**Disagreements found** (findings in `PROJECT.json`, each with its run):
a market used before its first speed never gets the initial index, and from then
on a new supplier's settlement underflows (`startindex`); a claim paid in brBRN
loses what the hook of its own mint accrues (`collateralclaim`); in a pool of
another token that pays BRN a withdrawal request takes votes from a delegate that
the deposit never gave it, since one tests the reward token and the other
the staked one (`othertoken`); the filter of the runner's invariants answers which of them
are not of a type, and all of them for `All`, so `ClearInvariants All`, which its help text
says removes all invariants, removes none, and `HoldInvariants Success`, which is said to
skip those of success, skips all others (`filters`).

**Observed, without a statement in the repository that says otherwise:**
the utilization can exceed one, because reserves are lent out; the last
borrower's full repayment can revert, because total borrows are truncated more
often than debts grow; the lens truncates the value of the whole holding and of what is
redeemed separately, so a redemption can leave a small shortfall (see above for its bound);
the last holder's `redeemUnderlying`
truncates the brTokens it burns, so it can take up to one brToken's worth out of cash that
belongs to the reserves (mint 1, donate 2, add 2 to the reserves, redeem 5 for one
brToken), and after the next mint the exchange rate underflows and every operation that
reads it fails; a speed raised from 0 pays the
blocks of the halt; the close factor's bounds are not enforced; `cancel` works
again on a proposal that is already cancelled or defeated and clears the entry
its twin waits for, which then stays `Queued` until it expires, unable to
run; setting the points of a token's only pool to 0 makes updates divide by
zero while something is staked; lowering `rewardTokenCount` of the locked
staking and raising it again pays the stakes made meanwhile for growth before
them; where its rewards are paid in the staked token, a claim can be paid out of
the stakes of others, who then cannot redeem until tokens are sent (`TokensAccounted`
says how much is missing); an early redemption under a penalty above the whole stake
computes a payment close to `2**256` and reverts, though the setter accepts the penalty;
one holder with a shortfall reverts a claim for several; and in the runner, an `Expect` as a session's first event is
checked at once; deployments ignore `Trx Value`; `Comptroller Send` goes to the
chain in a dry run too; `Become` merges ABIs after a failed transaction; a
contract saved by a line that fails stays in the file.

## 4. Proofs

Of the invariants and action properties the passing runs check, these are
theorems too, for every value of the constants; the rest of the section says along
which argument, and the end of it what is left to TLC.

| Run | Theorems | Only model-checked |
|---|---|---|
| `positions` | `ListsCorrect`, `DebtorsAreMembers`, `NoShortfall` | |
| `interest` | `TypeCorrect`, `SupplyIsBalances`, `UnderlyingIsConserved`, `SuppliersKeep`, `PauseFreezes` | |
| `rewards` | `EntitlementsKept` | |
| `emission` | `FlywheelTypeCorrect`, `BRNIsConserved`, `EmissionIsBounded` | |
| `governance` | `GovernorTypeCorrect`, `NoOrphans`, `OnlyTwinsTake`, `VotesOnce`, `OneLive`, `RulesNeedAVote`, `ImplementsLifecycle` | `ResolvesInTime` |
| `vault` | `VaultTypes`, `QueuePopsWhatIsDue`, `PastVotesStay`, `VaultHoldsStakes`, `VotesAreStakes`, `RewardsWithinSchedule` | |
| `staking` | `StakingTypes`, `StakesAddUp`, `TokensAreAccounted`, `RedeemsAreMatured`, `RewardsWithinEmission` | `EveryDepositFreed` |
| `scenario` | `HoldsExcuse`, `ExpectationsAreMet`, `KnownIsOnDisk`, `AbiIsLostToCrashes`, `GatesDeployOnce`, `TransactionsAreSentAsAsked`, `DryRunChangesNothing` | `OneCommandAnswers` |

**`Sums`.** Half of the properties add something up over accounts, voters or pools. The
models write such a sum as `SumFunction` of the community modules, which is a
recursion over the subsets of the domain. The library's induction theorems cannot be
instantiated here, so each lemma takes the subsets on which it fails and looks at the
smallest one (`SmallestSubset`, from the well-foundedness of inclusion on a
finite set): the sum does not depend on the order in which it is taken, changes with
one value by as much as the value does, with two values by both, is monotone,
linear, and natural when its terms are. It needs the domain finite:
`AccountsFinite` in `BRToken` and in `GovernorBravo`, and the finite accounts and
pools in `VaultAssumption` and `StakingAssumption`. A chain has finitely many
accounts that ever hold anything.

**`LendingMarketProofs`** proves, for every set of markets and accounts, every
scale, rate model, setting and input amount:

- `TypeCorrect`: `Spec => []TypeOK`. Most of it is the absence of underflow:
  cash, supply, borrows, reserves and balances stay natural numbers.
- `ListsCorrect`: `Spec => []AssetsMatchMembership`.
- `DebtorsAreMembers`: `Spec => []BorrowerIsMember`.

The inductive invariant is `IInv == WellFormed /\ AssetsMatchMembership /\
BorrowerIsMember`. `WellFormed` strengthens `TypeOK` by what the steps need:
`BooksInv`, for every market, says that no accrual lies in the future, the index
is positive and no debt was written at an index that is zero or larger than the
current one; and the treasury's percentage is below one, so a fee is never more than the
amount. The index part is what makes `exitMarket` safe: it lets an
account out when its *stored* debt is 0, and only because the index never falls
below the one a debt was written at does a stored debt of 0 mean a principal of
0 (`DebtKeepsPrincipal`, `BorrowBalanceType`).

The argument: each effect on the books keeps `BooksInv` (`AccruedInv`,
`MintFreshInv`, `RedeemFreshInv`, `BorrowFreshInv`, `RepayFreshInv`,
`MoveTokensInv`, `BooksWrittenInv`); each action keeps `WellFormed` and lets
nobody owe anything new without entering (`NewDebtorsEnter`, the lemmas ending
in `WF`); the swap-and-pop of `exitMarket` and the append of
`addToMarketInternal` keep the list a duplicate-free copy of the flags
(`SwapRemoveSpec`, `AppendOnce`, `AddToMarketMatches`,
`RemoveFromMarketMatches`); `UserActionIInv`, `AdminActionIInv` and `NextIInv`
put them together. The assumptions are the named `ASSUME`s of the modules
(distinct addresses, a positive scale, inputs that are naturals); TLC evaluates them
in every run.

**`LendingConservationProofs`** adds, on top of `IInv`:

- `SupplyIsBalances`: `Spec => []SupplyMatchesBalances`.
- `UnderlyingIsConserved`: `Spec => []UnderlyingConserved`.
- `PauseFreezes`: `Spec => PauseFreezesPositions`.
- `SuppliersKeep`: `Spec => SuppliersKeepTheirShare`.
- `NoShortfall`: `Spec => NoShortfallByTransaction`.

Both sums are followed operation by operation: `Backed` says of one market's books that
the supply is the sum of the balances, `Underlying` is cash and wallets together, and
each action keeps the first and does not change the second (`Conserves`). The delicate
cases are those where one transaction writes the same sum several times: a
seizure in the market that is repaid, a redemption with a fee for the treasury, the
withdrawal of reserves.

`SuppliersKeep` follows each market's exchange rate in the same way (`ShareStep`,
`Shares`). Accrual adds to the borrows at least what it adds to the reserves, as long as no
reserve factor exceeds one, which `_setReserveFactor` refuses (`FactorsBounded`, the one
invariant this needs beyond `IInv`). A mint is given a truncated number of brTokens and a
redemption a truncated amount, both in favour of those who stay; `redeemUnderlying` truncates
the number of brTokens it burns, which is where the allowance of one brToken comes from.
Operations on debts and reserves move amounts between cash, borrows and reserves and leave
their balance; donations only raise it.

`NoShortfall` writes the lens's answer as a sum over the account's assets, of what each is worth
net of what is owed in it (`LiquidityIsPosition`), and asks of each transaction what it does to
the terms. Where an account does not act, or gives, its terms do not fall (`GainingStep`,
`StayingStep`), except that a redemption of others lowers a rate by the allowance of
`SuppliersKeep`, which `WorthLoss` turns into value. Where it acts, the hook asked the lens for
the term that changes (`SpendingStep`). No transaction loses in more than one market for an
account that was not in a shortfall: a liquidation, which spans two, takes only from one that
was (`LiquidateCovers`). Entering adds a term that is not negative, exiting drops one whose
loss the lens has allowed (`EnterCovers`, `ExitCovers`). `CollateralBounded`, no factor above
one, is kept by the setter.

**`FlywheelProofs`** continues for every speed, scale and amount of BRN:

- `FlywheelTypeCorrect`: `FSpec => []FlywheelTypeOK`.
- `FlywheelKeepsDebtors`: `FSpec => []BorrowerIsMember`.
- `RewardsOnlyWatch`: if no market of BRN is set, `FSpec => Spec`: the flywheel
  implements the lending market. With such a market it does not, since claims and
  grants bring BRN into its wallets and brBRN into its books; for that case the
  invariant is proved directly.
- `BRNIsConserved`: `FSpec => []BRNConserved`, and `FlywheelSupplyIsBalances`: the brTokens
  of every market add up also when claims mint brBRN. A grant moves BRN from the
  comptroller to a holder or, through a mint, into the market of BRN, so that what
  the comptroller has and the underlying of that market have one total (`FConserves`).
- `EntitlementsKept`: `NoInterest => (FSpec => EntitlementKept)`, and `EmissionIsBounded`:
  `NoInterest => (FSpec => []EmissionBounded)`.

Its inductive invariant is `FInv == IInv /\ RewardInv(flywheel, Now)`. The types
of the reward books alone are not inductive: a borrower's reward subtracts the
index it was last settled at from the market's, and an update the block of a
state from the current one, so `RewardInv` says that no state is from the future
and nobody was settled at a borrow index the market has not reached. On the supply
side no such bound holds (that is the finding of `startindex`); the settlement
reverts there, and the guard `CanSettleSuppliers` is what its lemma uses.
`SettleSuppliersInv`, `SettleBorrowerInv` and `PaidOutInv` carry the invariant
through one settlement or payment, `Working`, `GrantedWorks` and `ClaimWorks` through
the steps inside a claim, where the books of the markets change too, and
`SettlingIInv`, `SpeedRewards`, `GrantIInv` and `NextFInv` through the actions.

`NoInterest` says of the rate models that they lend for nothing; section 3 says why
neither property holds with interest. It is the condition under which the runs check them,
and it leaves everything else free: markets, accounts, speeds, when they change, prices,
settings, and BRN markets whose claims mint. Without interest debts and borrows stay equal to what was
borrowed (`EvenBooks`), so that what the accounts hold on a side of a market is what its
index was divided by. `Earnings` is what an account was paid and what settling it would add.
Every transaction is a sequence of moves of one side of one market (`Moves`):
the index is brought to the present, some accounts are settled, only they
change position. Each such move is shown to keep every account's earnings
(`SuppliersSteady` and its like) and the budget `WithinBudget`: what was earned by all, in
units in which nothing was divided yet, is at most what the sides have promised by now less
the leads of the index over the accounts, weighted with what they hold. `Paced` says that
nobody is ahead of an index and that a side which was never updated has no speed.
`Steady`, the three together, is the invariant, and the bound on the emission follows
by cancelling the scale (`BudgetIsBounded`).

**`GovernorBravoProofs`** proves, for every set of accounts, calls, proposals,
settings, vote distribution, earlier count and foreign admin:

- `GovernorTypeCorrect`: `Spec => []TypeOK`; the settings stay in the ranges the
  setters check, also when a proposal or another admin calls them.
- `RulesNeedAVote`: `Spec => RulesChangeByVote`.
- `GovernorInvariant`: `Spec => []IInv`, and from it `NoOrphans`
  (`NoOrphanEntries`), `OnlyTwinsTake` (`LostOnlyToATwin`) and `OneLive`
  (`OneLiveProposal`).
- `ImplementsLifecycle`: `Spec => FollowsLifecycle`: the governor with its timelock
  implements the safety part of `ProposalLifecycle`.
- `VotesOnce`: `Spec => []VotesCountOnce`: a proposal's tally is never more than there were
  votes when its vote began, however power moves between the accounts meanwhile.

`IInv` is `TypeOK /\ Level /\ Counted /\ AllSound /\ NoOrphanEntries /\ LostToTwins
/\ LatestLive`. `Level` says that the votes noted for the blocks to come are those
of the current block, without which a move of votes need not leave a natural
number there. `Counted` says that the count is not below the initial id and that
nothing was proposed before `_initiate`, so that an `_initiate` run again gives
no id twice. `AllSound` says of each proposal that its vote takes time, that what
has an eta won a vote that is over, and that what is executed was queued; it is what
excludes a move of the life cycle backwards, because a won vote stays won and
an eta is never set again. `LostToTwins` strengthens
`LostOnlyToATwin` to every proposal that waits, expired ones included, because
time makes a status and not the entries. `LatestLive`, that a live proposal is its
proposer's latest, is why looking at the latest one alone suffices. The steps are
first sorted into kinds (quiet ones, initiation, proposing, voting, queueing,
executing, cancelling, foreign calls); each part of `IInv` and each edge of the life
cycle is then proved once per kind.

`VotesOnce` needs one more invariant, `AllWeighed`: the three tallies of a proposal add up
to the power its voters had at its start block, and before that block nobody has
voted. It holds because a receipt forbids a second vote and because `castVote`
is open only when the start block is past, so the votes it reads no longer
change; a sum over some accounts is then at most the sum over all.

**`BRNVaultProofs`** proves, for any accounts, tokens, pools, periods, rates, points and
donations:

- `VaultTypes`: `Spec => []VaultTypeOK`.
- `QueuePopsWhatIsDue`: `Spec => []PopsWhatIsDue`.
- `PastVotesStay`: `Spec => []PastVotesFixed`.
- `VaultHoldsStakes`: `Spec => []HoldsStakes`.
- `VotesAreStakes`: `Spec /\ ApartFromVotes => []VotesMatchStake`.
- `VotesDoNotBlock`: `Spec /\ ApartFromVotes => []VotesNeverBlock`: no request and no change
  of delegate reverts for want of votes, so a stake can always be asked back.
- `RewardsWithinSchedule`: `Spec => []WithinSchedule`.

The inductive invariant is `Booked == Types /\ Queued /\ Pointed /\ Recorded`. `Queued` says of
every user that the requests fall from the front to the end in their unlock times and
that they add up to what is pending, which is at most the stake; from it follows that
popping from the end until one is not due finds all that are (`Popped`), and it is kept
because a push keeps the order whatever the lock period has become (`Pushed`). `Pointed` says
that the points of a token are those of its pools. `Recorded` says that the
checkpoints of a delegate have rising blocks, none of them in the future, and give the
votes of the history at every past block. What the halving search of `getPriorVotes` computes
is not a matter of induction over data: the recursive function it is in the model
equals, by its own defining equation, the largest checkpoint not after the block
between its bounds, and the closed form is proved to solve that equation
(`FoundSolves`, `SearchFinds`, `PriorVotes`). `VaultHoldsStakes` is a sum over the pools
that stake a token, each of them a sum over the accounts; that rewards come from the store
and not from the vault is why a pool that pays in the token it takes does not break it.

`ApartFromVotes` is a condition on who uses what and not on the code: nobody who names
a delegate uses a pool in which BRN is only the stake or only the reward. Without
it the property is false (`othertoken` shows the case); with it, the condition that the
deposit tests and the one that the request tests are the same pool. `Backed` follows the
votes: those of a delegate are the stakes, less what is asked back, of the accounts that
name it.

`RewardsWithinSchedule` needs `Scheduled == Metered /\ Covered /\ Budgeted`, with `Booked` and
`HoldsStakes`. `WithinSchedule` itself is not inductive, because it forgets who is waiting:
pools of one token are updated at different blocks, and a change of rate or points between
an update of one and of the other would break it, were it not for `massUpdatePools`.
`Budgeted` measures in units in which nothing is divided: `x`, what was paid and what
the stakes have earned beyond their debts (`Credit`), less what was promised and what was
truncated; and `w`, the points of the pools, each times the blocks it has not been updated
for (`Waiting`). It says `x <= 0` and *total points times `x`, plus scale times rate times `w`,
`<= 0`*. A block lowers `x` by the rate and raises `w` by the points of all pools, which are the
total (`Pointed`): the sum stays. An update ends one pool's wait and credits its stakes with no
more than their share of it, since the stakes are at most the balance it divides by
(`HoldsStakes`, `UpdateGains`). A settlement turns credit into payment and leaves the
remainder that `truncated` counts (`SettleScheduled`). New terms find `w = 0` for
their token, because every pool of it was just updated, and then any total and rate will do
(`TermsScheduled`). `Covered` says that no debt is ahead of its pool: it is why a first
deposit, which is paid nothing, cannot lose the others anything. The theorem has no hypothesis:
pools may share a stake, points may be zero, and a pool that cannot be updated owes nothing now.

**`LockedStakingProofs`** proves, for any accounts, durations, penalties, rewards and
emergencies:

- `TokensAreAccounted`: `Spec => []TokensAccounted`.
- `StakesAddUp`: `Spec => []SupplyIsUnlockedAndLocks`.
- `RedeemsAreMatured`: `Spec => []MaturedOnly`.
- `StakingTypes`: `Spec => []StakingTypeOK`.
- `RewardsWithinEmission`: `Spec /\ CountOnlyRises => []WithinEmission`.

Any penalties means any natural number: above the whole amount the payment is the wrapped one,
which the contract's balance cannot cover since there is less than half a word of the token
(`StakingAssumption`), and with a smaller one what is paid and what is slashed add up to
the amount (`PaidIsLeft`), which is why `TokensAreAccounted` follows its sum through an early
redemption. A reward may be paid in any token, the staked one included. `StakesAddUp` and
`RedeemsAreMatured` need `StakeInv`, of which `Matched` is the core: *at every time from now
on*, what an account has redeemed, may
redeem and will have due by then comes from deposits due by then. `MaturedOnly` is the
instance for now, and is not inductive, because a sweep or an early redemption
today takes part of a lock that counts only later. A redemption before time empties the
locks from the front, due or not, and takes the last of them in part; a sweep stops at the
first lock that is not due, though later ones may be. Both are shown never to raise what
is unlocked or due at any later time.

`RewardsWithinEmission` follows a potential (`Emitting`): what was claimed, what is accrued or
would be credited to each account at the current index, and what the speed in
force promises since the last accrual, in units in which no division has happened yet,
is at most what was emitted, each at the scale of its token. Each accrual moves the promise
into the index and loses
only what the division cuts off. `CountOnlyRises` says that the admin never lowers
`rewardTokenCount`: lowering it and raising it again leaves indices behind (see
section 3), and stake made meanwhile is paid from them. The run keeps to it by its
bounds; the types need no such condition.

**`ScenarioProofs`** proves, for any lines of events, contracts and bounds, and
with the process ending at any point:

- `DryHolds`: a dry run never saves and has no merge under way, and from it
  `DryRunChangesNothing`: `Spec => DryRunLeavesAll`.
- `KnownIsOnDisk`: `Spec => []KnownOnDisk`.
- `AbiIsLostToCrashes`: `Spec => []AbiLossNeedsACrash`.
- `ExpectationsAreMet`: `Spec => []ExpectationsMet`.
- `HoldsExcuse`: `Spec => []HoldExcusesOne`.
- `TransactionsAreSentAsAsked`: `Spec => SentAsAsked`.
- `GatesDeployOnce`: `Spec => []GatedDeploysOnce`.

Each action is first shown to be one of fourteen kinds of
step (`EveryStep`), by what they do to the world's contracts, the files and the
chain. The invariant `KnownInv` follows a contract through its saving: in step with
the file while running, ahead of it by one name while reading (`AheadByOne`), with
a file ready that drops nothing and holds what the world knows (`ReadyToWrite`),
and in step again. It is conditional on `merges = 0`, and on a line not taken back
where the addresses have to be the same.

`AbiInv` counts: the contracts in the networks file without an ABI are at most as many as
saves were cut short, and one more between the two writes, the one being saved;
a process that ends there turns it into one that was cut short. `ExpectInv` tells a world
in which all is checked (`AtRest`: each expectation was met by the action after it, or
still waits for one)
from one that has just acted (`Acted`); the check after each event leads back to the
first or fails the line, and the world a failed line is given back to is at rest, since
only worlds that passed the check become the prompt's. `HoldInv` says that the failed actions of a world
are at most as many as holds were made, of whatever type, counting a hold not used yet
(`Excuses`), and that the success invariant is the first object and in every world,
as long as no clearing took it away; a failure not yet checked is the one exception.

`ReadInv` says where in its event the process is: what is left of an event are the last of the
parts it was typed as, the first of them understood as far as the rows of the tables it went
through say; the sender and the value the world has are those of the wrappers passed, and it does
not know the contracts of the gates passed. It holds because an event that fails is taken back with its world, options included, and
it gives the sender of each transaction (`TransactionsAreSentAsAsked`). All that is assumed of the lines
(`LinesAssumption`) is that they are sequences of events, not empty, each of them parts of
which all but the last are wrappers (`From`, `Trx`, `Gate`, `Given`, `Block`). `GatedInv` then counts: a contract that is
not known where it will be looked for next (the file for a process that starts, the
prepared file while one is written, the world of the prompt or of the line) has at most as
many deployments as saves were cut short and lines taken back (`Counted`); where it is known a
gate for it does not open, so one more deployment at most is made of it.

The assumptions of all proofs are the named `ASSUME`s of the modules (distinct
addresses, positive scales, inputs that are naturals, periods of at least one
block, initial settings within their ranges); TLC evaluates them in every run.

**Only model-checked,** and why:

- `OneCommandAnswers`: about the tables and the words of the run's lines. For arbitrary words
  it is false (a contract could be named like a command, as the hazard at `Command.ts:231`
  says), and for given ones it is some 290 rows, for which enumerating every row is the natural proof.
- Liveness (`ResolvesInTime`, `EveryDepositFreed`), which is out of the prover's reach.
- With interest, `EntitlementKept` and `EmissionBounded`, for the reasons in section 3; there
  is no run of them either.

## 5. Not modelled

In the modelled parts, by component (`PROJECT.json` repeats it): a market's
allowances and its own change of admin; a claim of several holders at once; the
BAI variants of lens and minting (`setMintedBAIOf` answers only `baiController`,
and no function of this comptroller sets that address, so its operations are
rejected); proposals whose action calls `propose`, `queue` or `castVote`
themselves, and native coin in timelock transactions; the vault's `burnAdmin`,
`setBrnStore` and store administration; the setters of token addresses in the
locked staking, which are taken as deployed, and a lock duration so long that `now +
lockDuration` wraps. In the runner: `Web3Fork` and `UseConfigs`, which replace the
chain; what fetchers read (`CoreValue.ts` and `Value/`, without effect on the
world); gas counting, sleeping and printing; the in-memory files of test runs.

Not modelled at all: the parser (`Parser.ts` is generated) and macros, which
expand a line before it runs; the BAI vault, VRT vault and VRT conversion with its
vesting, of which the first repeats the BRN vault's rewards without its queue and
the others are one schedule per deposit; `Liquidator`, `Unitroller` and the other
proxies, `Reservoir`, `VestingWallet`, `PaymentSplitter`, `Maximillion`, treasury
and faucet, each a single call or a handover like the timelock's; earlier
comptrollers and governors, which the modelled ones replace; read-only lenses;
delegates for foreign tokens; deployment scripts and tests.

What would add most next: the BAI and VRT vaults; one module that joins `BRNVault`
with `GovernorBravo` in place of the votes from outside; claims of several holders
in `Flywheel`; and a bound, in the number of accruals, on what truncation can add to
`EmissionBounded` once debts bear interest.
