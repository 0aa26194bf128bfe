--------------------------- MODULE GovernorBravo ---------------------------
(***************************************************************************)
(* The governor (GovernorBravoDelegate.sol) with its timelock: holders of  *)
(* voting power propose calls, vote on them, and a proposal that wins is   *)
(* queued in the timelock and executed through it.  Among the calls are    *)
(* the ones that change the timelock and the governor themselves.          *)
(*                                                                         *)
(* Voting power comes from the BRN vault (see BRNVault), of which only     *)
(* getPriorVotes is used; here it moves between accounts at any time.      *)
(***************************************************************************)
EXTENDS Timelock, Functions

CONSTANTS
  Governor,          \* address(this) of the governor
  Guardian,
  Voters,            \* accounts that propose, vote and hold voting power
  FirstVotes,        \* voting power of the accounts at the start
  QuorumVotes,
  MinVotingDelay, MaxVotingDelay, MinVotingPeriod, MaxVotingPeriod,
  MinProposalThreshold, MaxProposalThreshold,
  FirstVotingDelay, FirstVotingPeriod, FirstThreshold, FirstMaxOperations,
  FirstGovernorAdmins,  \* who the delegator may have been given as admin
  AlphaCounts,       \* proposals the earlier governor may have counted
  InitiatedWith,     \* such counts with which _initiate may already have run
  Actions,           \* sequences of calls that may be proposed
  Intervals,         \* seconds a block may take
  \* Bounds of the model: its length, the calls of another admin and how much
  \* later than necessary it schedules them, moves of voting power, kinds of votes.
  MaxBlock, MaxProposals, ForeignCalls, MaxForeign, MaxSlack, MoveBlocks, Lots, Ballots

ASSUME GovernorAssumption ==
  /\ {Governor, Guardian} \subseteq Account
  /\ Governor # TimelockAddress
  /\ Voters \subseteq Account
  /\ FirstVotes \in [Account -> Nat]
  /\ QuorumVotes \in Nat \ {0}
  /\ {MinVotingPeriod, MinVotingDelay} \subseteq Nat \ {0}
  /\ {MaxVotingDelay, MaxVotingPeriod, MinProposalThreshold, MaxProposalThreshold} \subseteq Nat
  /\ FirstVotingDelay \in MinVotingDelay..MaxVotingDelay
  /\ FirstVotingPeriod \in MinVotingPeriod..MaxVotingPeriod
  /\ FirstThreshold \in MinProposalThreshold..MaxProposalThreshold
  /\ FirstMaxOperations \in Nat
  /\ FirstGovernorAdmins \subseteq Account
  /\ AlphaCounts \subseteq Nat /\ InitiatedWith \subseteq Nat \ {0}
  /\ Actions \subseteq Seq(Calls)
  /\ Intervals \subseteq Nat \ {0}
  /\ MaxBlock \in Nat \ {0, 1} /\ {MaxProposals, MaxForeign, MaxSlack} \subseteq Nat
  /\ ForeignCalls \subseteq Calls
  /\ MoveBlocks \cup Lots \subseteq Nat

ASSUME AccountsFinite == IsFiniteSet(Account)

ASSUME BoundsAssumption == Ballots \subseteq {"against", "for", "abstain"}

ASSUME CallsAssumption == \A call \in Calls :
  /\ call.method \in {"_setGuardian", "_setPendingAdmin"} => call.arg \in Account \cup {Nobody}
  /\ call.method = "_acceptAdmin" => call.arg = Nobody
  /\ call.method \in {"_setProposalMaxOperations", "_initiate"} => call.arg \in Nat

VARIABLES
  block,             \* block.number
  votesAt,           \* the vault's history: votes at the end of each block
  governorAdmin, governorPendingAdmin, guardian,
  votingDelay, votingPeriod, proposalThreshold, proposalMaxOperations,
  initialProposalId, proposalCount, proposals, latestProposalIds,
  foreign            \* history: timelock entries another admin has touched

settingVars == <<governorAdmin, governorPendingAdmin, guardian, votingDelay,
                 votingPeriod, proposalThreshold, proposalMaxOperations>>
proposalVars == <<initialProposalId, proposalCount, proposals, latestProposalIds>>
chainVars == <<now, block, votesAt>>
vars == <<timelockVars, settingVars, proposalVars, chainVars, foreign>>

Ids == 1..MaxProposals
Blocks == 1..MaxBlock
Supports == {"against", "for", "abstain"}

NotVoted == [hasVoted |-> FALSE, support |-> "against", votes |-> 0]
Receipt  == [hasVoted : BOOLEAN, support : Supports, votes : Nat]

Proposal ==
  [proposer : Account, actions : Actions, eta : Nat, startBlock : Nat, endBlock : Nat,
   tally : [Supports -> Nat], receipts : [Account -> Receipt],
   canceled : BOOLEAN, executed : BOOLEAN]

NewProposal(proposer, actions, start, end) ==
  [proposer |-> proposer, actions |-> actions, eta |-> 0,
   startBlock |-> start, endBlock |-> end,
   tally |-> [s \in Supports |-> 0], receipts |-> [a \in Account |-> NotVoted],
   canceled |-> FALSE, executed |-> FALSE]

\* Ids no proposal has hold this value; initialProposalId keeps anybody from asking.
NoProposal == [canceled |-> FALSE]

\* getPriorVotes answers for blocks that are over.
PriorVotes(a, b) == IF b \in Blocks THEN votesAt[b][a] ELSE 0

Exists(id) == initialProposalId < id /\ id <= proposalCount

\* Mutant of StateOf: the quorum is not asked for.
StateOfNoQuorum(id) ==
  LET p == proposals[id]
  IN  IF p.canceled THEN "Canceled"
      ELSE IF block <= p.startBlock THEN "Pending"
      ELSE IF block <= p.endBlock THEN "Active"
      ELSE IF p.tally["for"] <= p.tally["against"] THEN "Defeated"
      ELSE IF p.eta = 0 THEN "Succeeded"
      ELSE IF p.executed THEN "Executed"
      ELSE IF now >= p.eta + GracePeriod THEN "Expired"
      ELSE "Queued"

\* Mutant of StateOf: the grace period does not end.
StateOfWithoutExpiry(id) ==
  LET p == proposals[id]
  IN  IF p.canceled THEN "Canceled"
      ELSE IF block <= p.startBlock THEN "Pending"
      ELSE IF block <= p.endBlock THEN "Active"
      ELSE IF p.tally["for"] <= p.tally["against"] \/ p.tally["for"] < QuorumVotes
           THEN "Defeated"
      ELSE IF p.eta = 0 THEN "Succeeded"
      ELSE IF p.executed THEN "Executed"
      ELSE "Queued"

\* state(): the order of the tests decides.
StateOf(id) ==
  LET p == proposals[id]
  IN  IF p.canceled THEN "Canceled"
      ELSE IF block <= p.startBlock THEN "Pending"
      ELSE IF block <= p.endBlock THEN "Active"
      ELSE IF p.tally["for"] <= p.tally["against"] \/ p.tally["for"] < QuorumVotes
           THEN "Defeated"
      ELSE IF p.eta = 0 THEN "Succeeded"
      ELSE IF p.executed THEN "Executed"
      ELSE IF now >= p.eta + GracePeriod THEN "Expired"
      ELSE "Queued"

Is(id, status) == Exists(id) /\ StateOf(id) = status

GovernorInit ==
  /\ block = 2
  /\ votesAt = [b \in Blocks |-> FirstVotes]
  /\ governorPendingAdmin = Nobody
  /\ guardian = Guardian
  /\ votingDelay = FirstVotingDelay
  /\ votingPeriod = FirstVotingPeriod
  /\ proposalThreshold = FirstThreshold
  /\ proposalMaxOperations = FirstMaxOperations
  /\ initialProposalId \in {0} \cup InitiatedWith
  /\ proposalCount = initialProposalId
  /\ governorAdmin \in IF initialProposalId = 0 THEN FirstGovernorAdmins ELSE {TimelockAddress}
  /\ proposals = [id \in Ids |-> NoProposal]
  /\ latestProposalIds = [a \in Account |-> 0]
  /\ foreign = {}

Init ==
  /\ GovernorInit
  /\ IF initialProposalId = 0 THEN TimelockInit(FirstAdmin, FirstPendingAdmin)
                              ELSE TimelockInit(Governor, Nobody)

-----------------------------------------------------------------------------
(* Calls on the governor's settings, by its admin or through the timelock. *)

AdminMethods == {"_setVotingDelay", "_setVotingPeriod", "_setProposalThreshold",
                 "_setProposalMaxOperations", "_setPendingAdmin"}

\* Mutant of InRange: a setter takes any value.
InAnyRange(call) == TRUE

InRange(call) ==
  /\ call.method = "_setVotingDelay" => call.arg \in MinVotingDelay..MaxVotingDelay
  /\ call.method = "_setVotingPeriod" => call.arg \in MinVotingPeriod..MaxVotingPeriod
  /\ call.method = "_setProposalThreshold" =>
       call.arg \in MinProposalThreshold..MaxProposalThreshold
  /\ call.method = "_setGuardian" => call.arg # Nobody

\* What one call requires when the calls before it have been made.
SettingAllowed(sender, before, call) ==
  LET accepted == \E i \in DOMAIN before : before[i].method = "_acceptAdmin"
      adminNow == IF accepted THEN sender ELSE governorAdmin
  IN  /\ InRange(call)
      /\ call.method # "_initiate"      \* it would revert: this governor is initiated
      /\ call.method \in AdminMethods => sender = adminNow
      /\ call.method = "_setGuardian" =>
           sender \in {Written(before, {"_setGuardian"}, guardian), adminNow}
      /\ call.method = "_acceptAdmin" =>
           sender = Written(before, {"_setPendingAdmin", "_acceptAdmin"}, governorPendingAdmin)

SettingCalls(sender, calls) ==
  /\ \A i \in DOMAIN calls : SettingAllowed(sender, SubSeq(calls, 1, i - 1), calls[i])
  /\ governorAdmin' = IF \E i \in DOMAIN calls : calls[i].method = "_acceptAdmin"
                      THEN sender ELSE governorAdmin
  /\ governorPendingAdmin' =
       Written(calls, {"_setPendingAdmin", "_acceptAdmin"}, governorPendingAdmin)
  /\ guardian' = Written(calls, {"_setGuardian"}, guardian)
  /\ votingDelay' = Written(calls, {"_setVotingDelay"}, votingDelay)
  /\ votingPeriod' = Written(calls, {"_setVotingPeriod"}, votingPeriod)
  /\ proposalThreshold' = Written(calls, {"_setProposalThreshold"}, proposalThreshold)
  /\ proposalMaxOperations' =
       Written(calls, {"_setProposalMaxOperations"}, proposalMaxOperations)

\* A setter or _acceptAdmin called directly.
CallSetting(sender, call) ==
  /\ call.method \in AdminMethods \cup {"_setGuardian", "_acceptAdmin"}
  /\ sender \notin {TimelockAddress, Governor}
  /\ SettingCalls(sender, <<call>>)
  /\ UNCHANGED <<timelockVars, proposalVars, chainVars, foreign>>

\* _initiate: the count continues the earlier governor's, the timelock gets a new admin.
Initiated(sender, count) ==
  /\ sender = governorAdmin
  /\ initialProposalId = 0
  /\ proposalCount' = count
  /\ initialProposalId' = count
  /\ UNCHANGED <<settingVars, proposals, latestProposalIds, chainVars>>

Initiate(sender, count) ==
  /\ sender # TimelockAddress
  /\ Initiated(sender, count)
  /\ AcceptTimelockAdmin(Governor)
  /\ UNCHANGED foreign

-----------------------------------------------------------------------------
(* The life of a proposal. *)

\* Mutant of LatestIsOver: only an active proposal stands in the way.
LatestNotActive(proposer) ==
  LET latest == latestProposalIds[proposer]
  IN  latest # 0 => StateOf(latest) # "Active"

LatestIsOver(proposer) ==
  LET latest == latestProposalIds[proposer]
  IN  latest # 0 => StateOf(latest) \notin {"Active", "Pending"}

Propose(proposer, actions) ==
  LET start == block + votingDelay
      end   == start + votingPeriod
      id    == proposalCount + 1
  IN  /\ initialProposalId # 0
      /\ PriorVotes(proposer, block - 1) > proposalThreshold
      /\ Len(actions) \in 1..proposalMaxOperations
      /\ LatestIsOver(proposer)
      /\ id <= MaxProposals /\ end + GracePeriod < MaxBlock
      /\ proposalCount' = id
      /\ proposals' = [proposals EXCEPT ![id] = NewProposal(proposer, actions, start, end)]
      /\ latestProposalIds' = [latestProposalIds EXCEPT ![proposer] = id]
      /\ UNCHANGED <<timelockVars, settingVars, initialProposalId, chainVars, foreign>>

\* Mutant of VotesCast: the voter's votes as they are now.
VotesCastNow(voter, p) == votesAt[block][voter]

VotesCast(voter, p) == PriorVotes(voter, p.startBlock)

\* castVote, castVoteWithReason and castVoteBySig for whoever signed.
CastVote(voter, id, support) ==
  LET votes == VotesCast(voter, proposals[id])
  IN  /\ Is(id, "Active")
      /\ ~ proposals[id].receipts[voter].hasVoted
      /\ proposals' = [proposals EXCEPT
           ![id].tally[support] = @ + votes,
           ![id].receipts[voter] = [hasVoted |-> TRUE, support |-> support, votes |-> votes]]
      /\ UNCHANGED <<timelockVars, settingVars, initialProposalId, proposalCount,
                     latestProposalIds, chainVars, foreign>>

\* The loop checks each action after it has queued the ones before it.
NoneQueuedAt(calls, eta) ==
  /\ \A i, j \in DOMAIN calls : i # j => calls[i] # calls[j]
  /\ Entries(calls, eta) \cap queuedTransactions = {}

Queue(id) ==
  LET p == proposals[id]
      eta == now + delay
  IN  /\ Is(id, "Succeeded")
      /\ NoneQueuedAt(p.actions, eta)
      /\ eta + GracePeriod <= now + MaxBlock - block
      /\ QueueTransactions(Governor, p.actions, eta)
      /\ proposals' = [proposals EXCEPT ![id].eta = eta]
      /\ UNCHANGED <<settingVars, initialProposalId, proposalCount, latestProposalIds,
                     chainVars, foreign>>

Execute(id) ==
  LET p == proposals[id]
  IN  /\ Is(id, "Queued")
      /\ ExecuteTransactions(Governor, p.actions, p.eta)
      /\ SettingCalls(TimelockAddress, p.actions)
      /\ proposals' = [proposals EXCEPT ![id].executed = TRUE]
      /\ UNCHANGED <<initialProposalId, proposalCount, latestProposalIds, chainVars, foreign>>

\* Mutant of MayCancel: an executed proposal may be cancelled too.
MayCancelAnything(sender, id) ==
  \/ sender \in {guardian, proposals[id].proposer}
  \/ PriorVotes(proposals[id].proposer, block - 1) < proposalThreshold

MayCancel(sender, id) ==
  /\ StateOf(id) # "Executed"
  /\ \/ sender \in {guardian, proposals[id].proposer}
     \/ PriorVotes(proposals[id].proposer, block - 1) < proposalThreshold

Cancel(sender, id) ==
  /\ Exists(id)
  /\ MayCancel(sender, id)
  /\ CancelTransactions(Governor, proposals[id].actions, proposals[id].eta)
  /\ proposals' = [proposals EXCEPT ![id].canceled = TRUE]
  /\ UNCHANGED <<settingVars, initialProposalId, proposalCount, latestProposalIds,
                 chainVars, foreign>>

-----------------------------------------------------------------------------
(* The timelock in the hands of another admin: before _initiate, or after a *)
(* proposal has named one.                                                 *)

ForeignAdmin == admin \notin {Governor, TimelockAddress}

ForeignQueue(call, eta) ==
  /\ ForeignAdmin
  /\ Cardinality(foreign \cup {<<call, eta>>}) <= MaxForeign
  /\ QueueTransactions(admin, <<call>>, eta)
  /\ foreign' = foreign \cup {<<call, eta>>}
  /\ UNCHANGED <<settingVars, proposalVars, chainVars>>

ForeignCancel(call, eta) ==
  /\ ForeignAdmin
  /\ Cardinality(foreign \cup {<<call, eta>>}) <= MaxForeign
  /\ CancelTransactions(admin, <<call>>, eta)
  /\ foreign' = foreign \cup {<<call, eta>>}
  /\ UNCHANGED <<settingVars, proposalVars, chainVars>>

ForeignExecute(call, eta) ==
  /\ ForeignAdmin
  /\ call.method # "_initiate"
  /\ Cardinality(foreign \cup {<<call, eta>>}) <= MaxForeign
  /\ ExecuteTransactions(admin, <<call>>, eta)
  /\ SettingCalls(TimelockAddress, <<call>>)
  /\ foreign' = foreign \cup {<<call, eta>>}
  /\ UNCHANGED <<proposalVars, chainVars>>

\* The call is the governor's _initiate, which calls the timelock back.
ForeignInitiate(call, eta) ==
  /\ ForeignAdmin
  /\ call.method = "_initiate"
  /\ <<call, eta>> \in queuedTransactions
  /\ now \in eta..(eta + GracePeriod)
  /\ pendingAdmin = Governor
  /\ Initiated(TimelockAddress, call.arg)
  /\ queuedTransactions' = queuedTransactions \ {<<call, eta>>}
  /\ admin' = Governor
  /\ pendingAdmin' = Nobody
  /\ foreign' = foreign \cup {<<call, eta>>}
  /\ UNCHANGED delay

\* acceptAdmin by an account; the governor calls it from _initiate only.
AcceptAdmin(sender) ==
  /\ sender \notin {Governor, TimelockAddress}
  /\ AcceptTimelockAdmin(sender)
  /\ UNCHANGED <<settingVars, proposalVars, chainVars, foreign>>

-----------------------------------------------------------------------------
(* The chain and the vault. *)

Mine(seconds) ==
  /\ block < MaxBlock
  /\ block' = block + 1
  /\ now' = now + seconds
  /\ UNCHANGED <<timelockVars, settingVars, proposalVars, votesAt, foreign>>

\* Stake or delegation moves: the votes of this block and the later ones.
MoveVotes(src, dst, votes) ==
  /\ src # dst
  /\ block \in MoveBlocks
  /\ votes <= votesAt[block][src]
  /\ votesAt' = [b \in Blocks |->
       IF b < block THEN votesAt[b]
       ELSE [votesAt[b] EXCEPT ![src] = @ - votes, ![dst] = @ + votes]]
  /\ UNCHANGED <<timelockVars, settingVars, proposalVars, now, block, foreign>>

GovernanceCall ==
  \/ \E sender \in Account, call \in Calls : CallSetting(sender, call)
  \/ \E sender \in Account, count \in AlphaCounts : Initiate(sender, count)
  \/ \E proposer \in Voters, actions \in Actions : Propose(proposer, actions)
  \/ \E voter \in Voters, id \in Ids, support \in Ballots : CastVote(voter, id, support)
  \/ \E id \in Ids : Queue(id)
  \/ \E id \in Ids : Execute(id)
  \/ \E sender \in Account, id \in Ids : Cancel(sender, id)

TimelockCall ==
  \/ \E call \in ForeignCalls, slack \in 0..MaxSlack : ForeignQueue(call, now + delay + slack)
  \/ \E entry \in queuedTransactions : ForeignCancel(entry[1], entry[2])
  \/ \E entry \in queuedTransactions : ForeignExecute(entry[1], entry[2])
  \/ \E entry \in queuedTransactions : ForeignInitiate(entry[1], entry[2])
  \/ \E sender \in Account : AcceptAdmin(sender)

Time == \E seconds \in Intervals : Mine(seconds)

Next ==
  \/ GovernanceCall
  \/ TimelockCall
  \/ Time
  \/ \E src, dst \in Voters : \E votes \in Lots : MoveVotes(src, dst, votes)

Spec == Init /\ [][Next]_vars

\* Blocks keep coming; nobody is obliged to call anything.
FairSpec == Spec /\ WF_vars(Time)

-----------------------------------------------------------------------------
(* Properties. *)

Existing == {id \in Ids : Exists(id)}

SettingsTypeOK ==
  /\ governorAdmin \in Account
  /\ governorPendingAdmin \in Account \cup {Nobody}
  /\ guardian \in Account
  /\ votingDelay \in MinVotingDelay..MaxVotingDelay
  /\ votingPeriod \in MinVotingPeriod..MaxVotingPeriod
  /\ proposalThreshold \in MinProposalThreshold..MaxProposalThreshold
  /\ proposalMaxOperations \in Nat

ProposalsTypeOK ==
  /\ initialProposalId \in Nat /\ proposalCount \in Nat
  /\ proposals \in [Ids -> Proposal \cup {NoProposal}]
  /\ \A id \in Existing : proposals[id] \in Proposal
  /\ latestProposalIds \in [Account -> Nat]

TypeOK ==
  /\ TimelockTypeOK
  /\ SettingsTypeOK
  /\ ProposalsTypeOK
  /\ block \in Blocks
  /\ votesAt \in [Blocks -> [Account -> Nat]]
  /\ foreign \subseteq Calls \X Nat

\* Whatever the governor has put in the timelock belongs to a proposal that is
\* neither cancelled nor executed: after any order of queueing, cancelling and
\* executing proposals that share actions, nothing is left that could run.
NoOrphanEntries ==
  \A entry \in queuedTransactions \ foreign : \E id \in Existing :
    /\ entry \in Entries(proposals[id].actions, proposals[id].eta)
    /\ proposals[id].eta # 0
    /\ ~ proposals[id].canceled
    /\ ~ proposals[id].executed

\* The only way a queued proposal loses an entry in the timelock is another
\* proposal with the same action at the same eta that was cancelled or executed.
LostOnlyToATwin ==
  \A id \in Existing : StateOf(id) = "Queued" =>
    \A entry \in Entries(proposals[id].actions, proposals[id].eta)
                   \ (queuedTransactions \cup foreign) :
      \E twin \in Existing \ {id} :
        /\ entry \in Entries(proposals[twin].actions, proposals[twin].eta)
        /\ proposals[twin].canceled \/ proposals[twin].executed

\* However voting power moves while a vote is open, nobody's power counts twice:
\* the votes of a proposal never exceed the power there was at its start block.
VotesCountOnce ==
  \A id \in Existing :
    LET p == proposals[id]
    IN  SumFunction(p.tally) <= IF p.startBlock < block
                                THEN SumFunction(votesAt[p.startBlock]) ELSE 0

\* However the voting delay and period change, a proposer has at most one
\* proposal that is pending or active.
OneLiveProposal ==
  \A a \in Account :
    Cardinality({id \in Existing : /\ proposals[id].proposer = a
                                    /\ StateOf(id) \in {"Pending", "Active"}}) <= 1

\* While the governor is the timelock's admin, the timelock the governor's, and no
\* handover is under way, a rule changes only when a proposal that waited and
\* reached the quorum is executed.
Rules == <<delay, pendingAdmin, governorAdmin, governorPendingAdmin, votingDelay,
           votingPeriod, proposalThreshold, proposalMaxOperations>>

Sovereign == /\ admin = Governor
             /\ governorAdmin = TimelockAddress
             /\ governorPendingAdmin = Nobody

RuledByVote ==
  \/ Rules' = Rules
  \/ \E id \in Existing :
       /\ StateOf(id) = "Queued" /\ now >= proposals[id].eta
       /\ proposals'[id].executed
       /\ proposals[id].tally["for"] >= QuorumVotes

RulesChangeByVote == [][ Sovereign /\ admin' = Governor => RuledByVote ]_vars

\* The governor with its timelock implements the life cycle.
Status == [id \in Ids |-> IF Exists(id) THEN StateOf(id) ELSE "None"]

Lifecycle == INSTANCE ProposalLifecycle WITH status <- Status

\* Every call and every block moves proposals along the edges of the life cycle:
\* no order of calls, time and changes of rules skips a vote, a queue or a wait.
FollowsLifecycle == Lifecycle!Init /\ [][Lifecycle!Next]_Status

\* No vote stays open and no proposal stays queued for ever, whoever calls or
\* does not call anything, as long as blocks are mined.
ResolvesInTime == Lifecycle!Resolves
=============================================================================
