------------------------- MODULE GovernorBravoProofs -------------------------
(***************************************************************************)
(* What is proved of GovernorBravo for any accounts, calls, delays,        *)
(* thresholds, voting power and interleaving: types, one live proposal per *)
(* proposer, no entry in the timelock without a live proposal, no loss of  *)
(* an entry but to a twin, rules that change only by a vote, and that the  *)
(* governor with its timelock follows ProposalLifecycle.                   *)
(***************************************************************************)
EXTENDS GovernorBravo, Sums, WellFoundedInduction, FiniteSetTheorems, SequenceTheorems, TLAPS

-----------------------------------------------------------------------------
(* Sequences of calls *)

\* A nonempty set of positions has a last one.
LEMMA LastPosition ==
  ASSUME NEW n \in Nat, NEW S \in SUBSET (1..n), S # {}
  PROVE  Max(S) \in S
<1> DEFINE T == {n - x : x \in S}
           R == OpToRel(<, Nat)
<1>1. T \subseteq Nat /\ T # {}
  <2>1. \A x \in S : n - x \in Nat
    OBVIOUS
  <2>2. T \subseteq Nat
    BY <2>1
  <2>3. T # {}
    <3>1. PICK x \in S : TRUE
      OBVIOUS
    <3>2. n - x \in T
      BY <3>1
    <3> QED
      BY <3>2
  <2> QED
    BY <2>2, <2>3
<1>2. \E t \in T : \A u \in T : ~ (<<u, t>> \in R)
  <2>1. IsWellFoundedOn(R, Nat)
    BY NatLessThanWellFounded
  <2> HIDE DEF T, R
  <2> QED
    BY <1>1, <2>1, WFMin
<1>3. PICK t \in T : \A u \in T : ~ (<<u, t>> \in R)
  BY <1>2
<1>4. \A u \in T : ~ (u < t)
  BY <1>1, <1>3 DEF OpToRel
<1>5. PICK x \in S : t = n - x
  BY <1>3
<1>6. \A y \in S : x >= y
  <2> SUFFICES ASSUME NEW y \in S PROVE x >= y
    OBVIOUS
  <2>1. n - y \in T
    OBVIOUS
  <2> QED
    BY <2>1, <1>4, <1>5
<1> QED
  BY <1>6 DEF Max

\* What calls leave in a cell is its old value or an argument of one of them.
LEMMA WrittenIn ==
  ASSUME NEW calls \in Seq(Calls), NEW methods, NEW S, NEW old \in S,
         \A i \in DOMAIN calls : calls[i].method \in methods => calls[i].arg \in S
  PROVE  Written(calls, methods, old) \in S
<1> DEFINE writes == {i \in DOMAIN calls : calls[i].method \in methods}
<1>1. CASE writes = {}
  BY <1>1 DEF Written
<1>2. CASE writes # {}
  <2>1. writes \in SUBSET (1..Len(calls)) /\ Len(calls) \in Nat
    OBVIOUS
  <2>2. Max(writes) \in writes
    BY <1>2, <2>1, LastPosition
  <2>3. calls[Max(writes)].arg \in S
    BY <2>2
  <2> QED
    BY <1>2, <2>3 DEF Written
<1> QED
  BY <1>1, <1>2

LEMMA OneCall ==
  ASSUME NEW call \in Calls
  PROVE  /\ <<call>> \in Seq(Calls)
         /\ DOMAIN <<call>> = {1} /\ <<call>>[1] = call
         /\ \A eta : Entries(<<call>>, eta) = {<<call, eta>>}
BY DEF Entries

-----------------------------------------------------------------------------
(* Types *)

LEMMA Constants ==
  /\ Nobody \notin Account
  /\ TimelockAddress \in Account /\ Governor \in Account /\ Guardian \in Account
  /\ Governor # TimelockAddress
  /\ \A a \in Voters : a \in Account
  /\ FirstAdmin \in Account /\ FirstPendingAdmin \in Account \cup {Nobody}
  /\ GracePeriod \in Nat /\ MaxBlock \in Nat /\ MaxBlock >= 2 /\ MaxProposals \in Nat
  /\ MinVotingDelay \in Nat /\ MinVotingDelay > 0 /\ MinVotingPeriod \in Nat /\ MinVotingPeriod > 0
  /\ MinimumDelay \in Nat /\ MinimumDelay > 0 /\ MaximumDelay \in Nat
  /\ MaxVotingDelay \in Nat /\ MaxVotingPeriod \in Nat
  /\ MinProposalThreshold \in Nat /\ MaxProposalThreshold \in Nat
  /\ \A c \in AlphaCounts : c \in Nat
  /\ \A s \in Intervals : s \in Nat /\ s > 0
  /\ \A a \in Actions : a \in Seq(Calls)
<1>1. /\ Nobody \notin Account
      /\ TimelockAddress \in Account /\ Governor \in Account /\ Guardian \in Account
      /\ Governor # TimelockAddress
      /\ \A a \in Voters : a \in Account
      /\ FirstAdmin \in Account /\ FirstPendingAdmin \in Account \cup {Nobody}
  BY TimelockAssumption, GovernorAssumption
<1>2. /\ GracePeriod \in Nat /\ MaxBlock \in Nat /\ MaxBlock >= 2 /\ MaxProposals \in Nat
      /\ MinimumDelay \in Nat /\ MinimumDelay > 0 /\ MaximumDelay \in Nat
  BY TimelockAssumption, GovernorAssumption
<1>3. /\ MinVotingDelay \in Nat /\ MinVotingDelay > 0 /\ MinVotingPeriod \in Nat /\ MinVotingPeriod > 0
      /\ MaxVotingDelay \in Nat /\ MaxVotingPeriod \in Nat
      /\ MinProposalThreshold \in Nat /\ MaxProposalThreshold \in Nat
  BY GovernorAssumption
<1>4. \A c \in AlphaCounts : c \in Nat
  BY GovernorAssumption
<1>5. \A s \in Intervals : s \in Nat /\ s > 0
  BY GovernorAssumption
<1>6. \A a \in Actions : a \in Seq(Calls)
  BY GovernorAssumption
<1> QED
  BY <1>1, <1>2, <1>3, <1>4, <1>5, <1>6

LEMMA InitSettings == Init => SettingsTypeOK
<1> SUFFICES ASSUME Init PROVE SettingsTypeOK
  OBVIOUS
<1>1. governorAdmin \in Account
  BY Constants, GovernorAssumption DEF Init, GovernorInit
<1>2. votingDelay \in MinVotingDelay..MaxVotingDelay
  BY GovernorAssumption DEF Init, GovernorInit
<1>3. votingPeriod \in MinVotingPeriod..MaxVotingPeriod
  BY GovernorAssumption DEF Init, GovernorInit
<1>4. proposalThreshold \in MinProposalThreshold..MaxProposalThreshold
  BY GovernorAssumption DEF Init, GovernorInit
<1>5. /\ proposalMaxOperations \in Nat
      /\ guardian \in Account
      /\ governorPendingAdmin \in Account \cup {Nobody}
  BY Constants, GovernorAssumption DEF Init, GovernorInit
<1> QED
  BY <1>1, <1>2, <1>3, <1>4, <1>5 DEF SettingsTypeOK

LEMMA InitCounts ==
  ASSUME Init
  PROVE  /\ initialProposalId \in Nat /\ proposalCount = initialProposalId
         /\ Existing = {}
<1>1. initialProposalId \in Nat /\ proposalCount = initialProposalId
  <2>1. InitiatedWith \subseteq Nat
    BY GovernorAssumption
  <2>2. initialProposalId \in {0} \cup InitiatedWith /\ proposalCount = initialProposalId
    BY DEF Init, GovernorInit
  <2> QED
    BY <2>1, <2>2
<1>2. \A id \in Ids : ~ Exists(id)
  BY <1>1, Constants DEF Exists, Ids
<1> QED
  BY <1>1, <1>2 DEF Existing

LEMMA InitType == Init => TypeOK
<1> SUFFICES ASSUME Init PROVE TypeOK
  OBVIOUS
<1>1. TimelockTypeOK
  <2>1. delay \in MinimumDelay..MaximumDelay
    BY TimelockAssumption DEF Init, TimelockInit
  <2>2. /\ now \in Nat /\ queuedTransactions = {}
        /\ admin \in Account /\ pendingAdmin \in Account \cup {Nobody}
    BY Constants DEF Init, TimelockInit
  <2> QED
    BY <2>1, <2>2 DEF TimelockTypeOK
<1>2. ProposalsTypeOK
  <2>1. proposals \in [Ids -> Proposal \cup {NoProposal}]
    BY DEF Init, GovernorInit
  <2>2. latestProposalIds \in [Account -> Nat]
    BY DEF Init, GovernorInit
  <2> QED
    BY <2>1, <2>2, InitCounts DEF ProposalsTypeOK
<1>3. block \in Blocks
  BY Constants DEF Init, GovernorInit, Blocks
<1>4. votesAt \in [Blocks -> [Account -> Nat]]
  BY GovernorAssumption DEF Init, GovernorInit
<1>5. foreign = {}
  BY DEF Init, GovernorInit
<1> QED
  BY <1>1, <1>2, <1>3, <1>4, <1>5, InitSettings DEF TypeOK

\* A call that a setter lets pass leaves its rule in range.
LEMMA AllowedCall ==
  ASSUME NEW sender, NEW before, NEW call \in Calls, SettingAllowed(sender, before, call)
  PROVE  /\ call.method = "_setVotingDelay" => call.arg \in MinVotingDelay..MaxVotingDelay
         /\ call.method = "_setVotingPeriod" => call.arg \in MinVotingPeriod..MaxVotingPeriod
         /\ call.method = "_setProposalThreshold" =>
              call.arg \in MinProposalThreshold..MaxProposalThreshold
         /\ call.method = "_setGuardian" => call.arg \in Account
BY CallsAssumption DEF SettingAllowed, InRange

LEMMA SettingsKept ==
  ASSUME SettingsTypeOK, NEW sender \in Account, NEW calls \in Seq(Calls),
         SettingCalls(sender, calls)
  PROVE  SettingsTypeOK'
<1>1. \A i \in DOMAIN calls : calls[i] \in Calls
  OBVIOUS
<1>2. \A i \in DOMAIN calls :
        /\ calls[i].method = "_setVotingDelay" =>
             calls[i].arg \in MinVotingDelay..MaxVotingDelay
        /\ calls[i].method = "_setVotingPeriod" =>
             calls[i].arg \in MinVotingPeriod..MaxVotingPeriod
        /\ calls[i].method = "_setProposalThreshold" =>
             calls[i].arg \in MinProposalThreshold..MaxProposalThreshold
        /\ calls[i].method = "_setGuardian" => calls[i].arg \in Account
  <2> TAKE i \in DOMAIN calls
  <2>1. SettingAllowed(sender, SubSeq(calls, 1, i - 1), calls[i])
    BY DEF SettingCalls
  <2>2. calls[i] \in Calls
    BY <1>1
  <2> HIDE DEF SettingCalls
  <2> QED
    BY <2>1, <2>2, AllowedCall
<1>3. governorAdmin' \in Account
  BY DEF SettingCalls, SettingsTypeOK
<1>4. governorPendingAdmin' \in Account \cup {Nobody}
  <2>1. \A i \in DOMAIN calls : calls[i].method \in {"_setPendingAdmin", "_acceptAdmin"}
          => calls[i].arg \in Account \cup {Nobody}
    BY <1>1, CallsAssumption
  <2>2. governorPendingAdmin \in Account \cup {Nobody}
    BY DEF SettingsTypeOK
  <2> QED
    BY <2>1, <2>2, WrittenIn DEF SettingCalls
<1>5. guardian' \in Account
  <2>1. guardian \in Account
    BY DEF SettingsTypeOK
  <2> QED
    BY <1>2, <2>1, WrittenIn DEF SettingCalls
<1>6. votingDelay' \in MinVotingDelay..MaxVotingDelay
  <2>1. votingDelay \in MinVotingDelay..MaxVotingDelay
    BY DEF SettingsTypeOK
  <2>2. Written(calls, {"_setVotingDelay"}, votingDelay) \in MinVotingDelay..MaxVotingDelay
    BY <1>2, <2>1, WrittenIn
  <2> QED
    BY <2>2 DEF SettingCalls
<1>7. votingPeriod' \in MinVotingPeriod..MaxVotingPeriod
  <2>1. votingPeriod \in MinVotingPeriod..MaxVotingPeriod
    BY DEF SettingsTypeOK
  <2>2. Written(calls, {"_setVotingPeriod"}, votingPeriod) \in MinVotingPeriod..MaxVotingPeriod
    BY <1>2, <2>1, WrittenIn
  <2> QED
    BY <2>2 DEF SettingCalls
<1>8. proposalThreshold' \in MinProposalThreshold..MaxProposalThreshold
  <2>1. proposalThreshold \in MinProposalThreshold..MaxProposalThreshold
    BY DEF SettingsTypeOK
  <2>2. Written(calls, {"_setProposalThreshold"}, proposalThreshold)
          \in MinProposalThreshold..MaxProposalThreshold
    BY <1>2, <2>1, WrittenIn
  <2> QED
    BY <2>2 DEF SettingCalls
<1>9. proposalMaxOperations' \in Nat
  <2>1. \A i \in DOMAIN calls : calls[i].method \in {"_setProposalMaxOperations"}
          => calls[i].arg \in Nat
    BY <1>1, CallsAssumption
  <2>2. proposalMaxOperations \in Nat
    BY DEF SettingsTypeOK
  <2>3. Written(calls, {"_setProposalMaxOperations"}, proposalMaxOperations) \in Nat
    BY <2>1, <2>2, WrittenIn
  <2> QED
    BY <2>3 DEF SettingCalls
<1> QED
  BY <1>3, <1>4, <1>5, <1>6, <1>7, <1>8, <1>9 DEF SettingsTypeOK

\* The timelock's operations keep its types, whatever sequence of calls they get.
LEMMA EntriesType ==
  ASSUME NEW calls \in Seq(Calls), NEW eta \in Nat
  PROVE  Entries(calls, eta) \subseteq Calls \X Nat
BY DEF Entries

LEMMA QueueType ==
  ASSUME TimelockTypeOK, NEW sender, NEW calls \in Seq(Calls), NEW eta \in Nat,
         QueueTransactions(sender, calls, eta), now' \in Nat
  PROVE  TimelockTypeOK'
BY EntriesType DEF TimelockTypeOK, QueueTransactions

LEMMA CancelType ==
  ASSUME TimelockTypeOK, NEW sender, NEW calls, NEW eta,
         CancelTransactions(sender, calls, eta), now' \in Nat
  PROVE  TimelockTypeOK'
BY DEF TimelockTypeOK, CancelTransactions

LEMMA ExecuteType ==
  ASSUME TimelockTypeOK, NEW sender, NEW calls \in Seq(Calls), NEW eta,
         ExecuteTransactions(sender, calls, eta), now' \in Nat
  PROVE  TimelockTypeOK'
<1>1. \A i \in DOMAIN calls : calls[i] \in Calls
  OBVIOUS
<1>2. delay' \in MinimumDelay..MaximumDelay
  <2>1. \A i \in DOMAIN calls : calls[i].method \in {"setDelay"}
          => calls[i].arg \in MinimumDelay..MaximumDelay
    BY <1>1 DEF ExecuteTransactions, SelfCallAllowed
  <2>2. delay \in MinimumDelay..MaximumDelay
    BY DEF TimelockTypeOK
  <2>3. Written(calls, {"setDelay"}, delay) \in MinimumDelay..MaximumDelay
    BY <2>1, <2>2, WrittenIn
  <2> QED
    BY <2>3 DEF ExecuteTransactions
<1>3. pendingAdmin' \in Account \cup {Nobody}
  <2>1. \A i \in DOMAIN calls : calls[i].method \in {"setPendingAdmin"}
          => calls[i].arg \in Account \cup {Nobody}
    BY <1>1, TimelockAssumption
  <2>2. pendingAdmin \in Account \cup {Nobody}
    BY DEF TimelockTypeOK
  <2> QED
    BY <2>1, <2>2, WrittenIn DEF ExecuteTransactions
<1> QED
  BY <1>2, <1>3 DEF TimelockTypeOK, ExecuteTransactions

LEMMA AcceptType ==
  ASSUME TimelockTypeOK, NEW sender \in Account, AcceptTimelockAdmin(sender), now' \in Nat
  PROVE  TimelockTypeOK'
BY DEF TimelockTypeOK, AcceptTimelockAdmin

LEMMA SameTimelock ==
  ASSUME TimelockTypeOK, UNCHANGED timelockVars, now' \in Nat
  PROVE  TimelockTypeOK'
BY DEF TimelockTypeOK, timelockVars

LEMMA SameSettings ==
  ASSUME SettingsTypeOK, UNCHANGED settingVars
  PROVE  SettingsTypeOK'
BY DEF SettingsTypeOK, settingVars

LEMMA SameProposals ==
  ASSUME UNCHANGED proposalVars
  PROVE  /\ Existing' = Existing
         /\ ProposalsTypeOK => ProposalsTypeOK'
<1>1. Existing' = Existing
  BY DEF Existing, Exists, proposalVars
<1> QED
  BY <1>1 DEF ProposalsTypeOK, proposalVars

LEMMA SameChain ==
  ASSUME TypeOK, UNCHANGED chainVars
  PROVE  now' \in Nat /\ block' \in Blocks /\ votesAt' \in [Blocks -> [Account -> Nat]]
BY DEF TypeOK, TimelockTypeOK, chainVars

\* What is known of an existing proposal.
LEMMA Fields ==
  ASSUME ProposalsTypeOK, NEW id \in Ids, Exists(id)
  PROVE  LET p == proposals[id]
         IN  /\ p \in Proposal
             /\ p.proposer \in Account
             /\ p.actions \in Actions /\ p.actions \in Seq(Calls)
             /\ p.eta \in Nat /\ p.startBlock \in Nat /\ p.endBlock \in Nat
             /\ p.tally \in [Supports -> Nat]
             /\ p.receipts \in [Account -> Receipt]
             /\ p.canceled \in BOOLEAN /\ p.executed \in BOOLEAN
<1>1. proposals[id] \in Proposal
  BY DEF ProposalsTypeOK, Existing
<1> QED
  BY <1>1, Constants DEF Proposal

\* Changing one existing proposal into another keeps the types.
LEMMA OneProposal ==
  ASSUME ProposalsTypeOK, NEW id \in Ids, NEW p \in Proposal,
         proposals' = [proposals EXCEPT ![id] = p],
         UNCHANGED <<initialProposalId, proposalCount, latestProposalIds>>
  PROVE  ProposalsTypeOK' /\ Existing' = Existing
<1>1. Existing' = Existing
  BY DEF Existing, Exists
<1>2. proposals' \in [Ids -> Proposal \cup {NoProposal}]
  BY DEF ProposalsTypeOK
<1>3. \A i \in Existing : proposals'[i] \in Proposal
  BY DEF ProposalsTypeOK, Existing
<1> QED
  BY <1>1, <1>2, <1>3 DEF ProposalsTypeOK

LEMMA ProposeType ==
  ASSUME TypeOK, NEW proposer \in Voters, NEW actions \in Actions, Propose(proposer, actions)
  PROVE  ProposalsTypeOK'
<1> DEFINE start == block + votingDelay
           end == start + votingPeriod
           id == proposalCount + 1
           p == NewProposal(proposer, actions, start, end)
<1>1. start \in Nat /\ end \in Nat
  BY Constants DEF TypeOK, SettingsTypeOK, Blocks
<1>2. p \in Proposal
  <2> HIDE DEF start, end
  <2>1. proposer \in Account
    BY Constants
  <2>2. [s \in Supports |-> 0] \in [Supports -> Nat]
    OBVIOUS
  <2>3. [a \in Account |-> NotVoted] \in [Account -> Receipt]
    BY DEF NotVoted, Receipt, Supports
  <2> QED
    BY <1>1, <2>1, <2>2, <2>3 DEF NewProposal, Proposal
<1>3. id \in Ids /\ id \in Nat
  BY Constants DEF Propose, Ids, TypeOK, ProposalsTypeOK
<1>4. proposals' = [proposals EXCEPT ![id] = p]
  BY DEF Propose
<1>5. proposalCount' = id /\ initialProposalId' = initialProposalId
  BY DEF Propose
<1>6. \A i \in Existing' : i # id => i \in Existing
  BY <1>5 DEF Existing, Exists, Ids, TypeOK, ProposalsTypeOK
<1>7. latestProposalIds' \in [Account -> Nat]
  BY <1>3 DEF Propose, TypeOK, ProposalsTypeOK
<1> HIDE DEF p, id
<1>8. proposals' \in [Ids -> Proposal \cup {NoProposal}]
  BY <1>2, <1>3, <1>4 DEF TypeOK, ProposalsTypeOK
<1>9. \A i \in Existing' : proposals'[i] \in Proposal
  BY <1>2, <1>3, <1>4, <1>6 DEF TypeOK, ProposalsTypeOK
<1>10. initialProposalId' \in Nat
  BY <1>5 DEF TypeOK, ProposalsTypeOK
<1> QED
  BY <1>3, <1>5, <1>7, <1>8, <1>9, <1>10 DEF ProposalsTypeOK

LEMMA PowerType ==
  ASSUME TypeOK, NEW a \in Account, NEW b
  PROVE  PriorVotes(a, b) \in Nat
BY DEF TypeOK, PriorVotes

\* The proposal a vote leaves behind.
VotedOn(p, voter, support, votes) ==
  [p EXCEPT !.tally = [p.tally EXCEPT ![support] = p.tally[support] + votes],
            !.receipts = [p.receipts EXCEPT ![voter] =
                            [hasVoted |-> TRUE, support |-> support, votes |-> votes]]]

LEMMA VotedOnType ==
  ASSUME NEW p \in Proposal, NEW voter \in Account, NEW support \in Supports, NEW votes \in Nat
  PROVE  VotedOn(p, voter, support, votes) \in Proposal
<1> DEFINE ballot == [hasVoted |-> TRUE, support |-> support, votes |-> votes]
           tally == [p.tally EXCEPT ![support] = p.tally[support] + votes]
           receipts == [p.receipts EXCEPT ![voter] = ballot]
<1>1. p.tally \in [Supports -> Nat] /\ p.receipts \in [Account -> Receipt]
  BY DEF Proposal
<1>2. ballot \in Receipt
  BY DEF Receipt
<1>3. tally \in [Supports -> Nat]
  BY <1>1
<1>4. receipts \in [Account -> Receipt]
  <2> HIDE DEF ballot
  <2> QED
    BY <1>1, <1>2
<1>5. VotedOn(p, voter, support, votes) = [p EXCEPT !.tally = tally, !.receipts = receipts]
  BY DEF VotedOn
<1>6. [p EXCEPT !.tally = tally, !.receipts = receipts] \in Proposal
  <2> HIDE DEF tally, receipts
  <2> QED
    BY <1>3, <1>4 DEF Proposal
<1> QED
  BY <1>5, <1>6

LEMMA CastVoteEffect ==
  ASSUME TypeOK, NEW voter \in Voters, NEW id \in Ids, NEW support \in Ballots,
         CastVote(voter, id, support)
  PROVE  /\ VotedOn(proposals[id], voter, support, VotesCast(voter, proposals[id])) \in Proposal
         /\ proposals' = [proposals EXCEPT ![id] =
              VotedOn(proposals[id], voter, support, VotesCast(voter, proposals[id]))]
<1> DEFINE votes == VotesCast(voter, proposals[id])
<1>1. votes \in Nat
  BY PowerType, Constants DEF VotesCast
<1>2. support \in Supports
  BY BoundsAssumption DEF Supports
<1>3. voter \in Account
  BY Constants
<1>4. proposals[id] \in Proposal
  BY Fields DEF CastVote, Is, TypeOK
<1>5. VotedOn(proposals[id], voter, support, votes) \in Proposal
  <2> HIDE DEF votes
  <2> QED
    BY <1>1, <1>2, <1>3, <1>4, VotedOnType
<1>6. proposals' = [proposals EXCEPT ![id] = VotedOn(proposals[id], voter, support, votes)]
  BY DEF CastVote, VotedOn
<1> QED
  BY <1>5, <1>6

LEMMA QueueEffect ==
  ASSUME TypeOK, NEW id \in Ids, Queue(id)
  PROVE  /\ now + delay \in Nat /\ now + delay > 0
         /\ [proposals[id] EXCEPT !.eta = now + delay] \in Proposal
         /\ proposals' = [proposals EXCEPT ![id] = [proposals[id] EXCEPT !.eta = now + delay]]
<1> DEFINE eta == now + delay
<1>1. eta \in Nat /\ eta > 0
  BY Constants DEF TypeOK, TimelockTypeOK
<1>2. proposals[id] \in Proposal
  BY Fields DEF Queue, Is, TypeOK
<1>3. proposals' = [proposals EXCEPT ![id] = [proposals[id] EXCEPT !.eta = eta]]
  BY DEF Queue
<1>4. [proposals[id] EXCEPT !.eta = eta] \in Proposal
  <2> HIDE DEF eta
  <2> QED
    BY <1>1, <1>2 DEF Proposal
<1> QED
  BY <1>1, <1>3, <1>4

LEMMA ExecuteEffect ==
  ASSUME TypeOK, NEW id \in Ids, Execute(id)
  PROVE  /\ [proposals[id] EXCEPT !.executed = TRUE] \in Proposal
         /\ proposals' = [proposals EXCEPT ![id] = [proposals[id] EXCEPT !.executed = TRUE]]
<1>1. proposals[id] \in Proposal
  BY Fields DEF Execute, Is, TypeOK
<1>2. proposals' = [proposals EXCEPT ![id] = [proposals[id] EXCEPT !.executed = TRUE]]
  BY DEF Execute
<1> QED
  BY <1>1, <1>2 DEF Proposal

LEMMA CancelEffect ==
  ASSUME TypeOK, NEW sender, NEW id \in Ids, Cancel(sender, id)
  PROVE  /\ [proposals[id] EXCEPT !.canceled = TRUE] \in Proposal
         /\ proposals' = [proposals EXCEPT ![id] = [proposals[id] EXCEPT !.canceled = TRUE]]
<1>1. proposals[id] \in Proposal
  BY Fields DEF Cancel, TypeOK
<1>2. proposals' = [proposals EXCEPT ![id] = [proposals[id] EXCEPT !.canceled = TRUE]]
  BY DEF Cancel
<1> QED
  BY <1>1, <1>2 DEF Proposal

LEMMA InitiateType ==
  ASSUME ProposalsTypeOK, NEW sender, NEW count \in Nat, Initiated(sender, count)
  PROVE  /\ ProposalsTypeOK' /\ Existing' = {}
         /\ proposalCount' = count /\ initialProposalId' = count
<1>1. \A id \in Ids : ~ Exists(id)'
  BY DEF Initiated, Exists, Ids
<1>2. Existing' = {}
  BY <1>1 DEF Existing, Exists
<1> QED
  BY <1>2 DEF ProposalsTypeOK, Initiated

LEMMA EntryType ==
  ASSUME TypeOK, NEW entry \in queuedTransactions
  PROVE  /\ entry[1] \in Calls /\ entry[2] \in Nat /\ entry = <<entry[1], entry[2]>>
         /\ <<entry[1]>> \in Seq(Calls)
BY OneCall DEF TypeOK, TimelockTypeOK

\* Types are kept by the calls on proposals.
LEMMA ProposalCallType ==
  ASSUME TypeOK,
         \/ \E proposer \in Voters, actions \in Actions : Propose(proposer, actions)
         \/ \E voter \in Voters, id \in Ids, support \in Ballots : CastVote(voter, id, support)
         \/ \E id \in Ids : Queue(id)
         \/ \E id \in Ids : Execute(id)
         \/ \E sender \in Account, id \in Ids : Cancel(sender, id)
  PROVE  TypeOK'
<1> USE DEF TypeOK
<1>1. CASE \E proposer \in Voters, actions \in Actions : Propose(proposer, actions)
  <2>1. PICK proposer \in Voters, actions \in Actions : Propose(proposer, actions)
    BY <1>1
  <2>2. UNCHANGED <<timelockVars, settingVars, chainVars, foreign>>
    BY <2>1 DEF Propose
  <2> QED
    BY <2>1, <2>2, ProposeType, SameChain, SameTimelock, SameSettings
<1>2. CASE \E voter \in Voters, id \in Ids, support \in Ballots : CastVote(voter, id, support)
  <2>1. PICK voter \in Voters, id \in Ids, support \in Ballots : CastVote(voter, id, support)
    BY <1>2
  <2>2. UNCHANGED <<timelockVars, settingVars, chainVars, foreign,
                    initialProposalId, proposalCount, latestProposalIds>>
    BY <2>1 DEF CastVote
  <2>3. ProposalsTypeOK'
    BY <2>1, <2>2, CastVoteEffect, OneProposal
  <2> QED
    BY <2>2, <2>3, SameChain, SameTimelock, SameSettings
<1>3. CASE \E id \in Ids : Queue(id)
  <2>1. PICK id \in Ids : Queue(id)
    BY <1>3
  <2>2. /\ UNCHANGED <<settingVars, chainVars, foreign,
                       initialProposalId, proposalCount, latestProposalIds>>
        /\ QueueTransactions(Governor, proposals[id].actions, now + delay)
        /\ Exists(id)
    BY <2>1 DEF Queue, Is
  <2>3. ProposalsTypeOK'
    BY <2>1, <2>2, QueueEffect, OneProposal
  <2>4. TimelockTypeOK'
    BY <2>1, <2>2, QueueType, QueueEffect, Fields, SameChain
  <2> QED
    BY <2>2, <2>3, <2>4, SameChain, SameSettings
<1>4. CASE \E id \in Ids : Execute(id)
  <2>1. PICK id \in Ids : Execute(id)
    BY <1>4
  <2>2. /\ UNCHANGED <<chainVars, foreign, initialProposalId, proposalCount, latestProposalIds>>
        /\ ExecuteTransactions(Governor, proposals[id].actions, proposals[id].eta)
        /\ SettingCalls(TimelockAddress, proposals[id].actions)
        /\ Exists(id)
    BY <2>1 DEF Execute, Is
  <2>3. ProposalsTypeOK'
    BY <2>1, <2>2, ExecuteEffect, OneProposal
  <2>4. proposals[id].actions \in Seq(Calls)
    BY <2>2, Fields
  <2>5. TimelockTypeOK'
    BY <2>2, <2>4, ExecuteType, SameChain
  <2>6. SettingsTypeOK'
    BY <2>2, <2>4, SettingsKept, Constants
  <2> QED
    BY <2>2, <2>3, <2>5, <2>6, SameChain
<1>5. CASE \E sender \in Account, id \in Ids : Cancel(sender, id)
  <2>1. PICK sender \in Account, id \in Ids : Cancel(sender, id)
    BY <1>5
  <2>2. /\ UNCHANGED <<settingVars, chainVars, foreign,
                       initialProposalId, proposalCount, latestProposalIds>>
        /\ CancelTransactions(Governor, proposals[id].actions, proposals[id].eta)
    BY <2>1 DEF Cancel
  <2>3. ProposalsTypeOK'
    BY <2>1, <2>2, CancelEffect, OneProposal
  <2>4. TimelockTypeOK'
    BY <2>2, CancelType, SameChain
  <2> QED
    BY <2>2, <2>3, <2>4, SameChain, SameSettings
<1> QED
  BY <1>1, <1>2, <1>3, <1>4, <1>5

\* The votes of the blocks to come are those of the current one.
Level == \A b \in block..MaxBlock : votesAt[b] = votesAt[block]

LEMMA MoveVotesType ==
  ASSUME TypeOK, Level, NEW src \in Account, NEW dst \in Account, NEW votes \in Nat,
         MoveVotes(src, dst, votes)
  PROVE  votesAt' \in [Blocks -> [Account -> Nat]] /\ Level'
<1> DEFINE moved == [votesAt[block] EXCEPT ![src] = @ - votes, ![dst] = @ + votes]
<1>1. block \in Blocks /\ votesAt[block] \in [Account -> Nat]
  BY DEF TypeOK
<1>2. votes <= votesAt[block][src] /\ src # dst /\ block' = block
  BY DEF MoveVotes
<1>3. moved \in [Account -> Nat]
  BY <1>1, <1>2
<1>4. votesAt' = [b \in Blocks |-> IF b < block THEN votesAt[b]
                   ELSE [votesAt[b] EXCEPT ![src] = @ - votes, ![dst] = @ + votes]]
  BY DEF MoveVotes
<1>5. \A b \in Blocks : ~ (b < block) => votesAt[b] = votesAt[block]
  BY <1>1, Constants DEF Level, Blocks
<1>6. \A b \in Blocks : votesAt'[b] = IF b < block THEN votesAt[b] ELSE moved
  BY <1>4, <1>5
<1> HIDE DEF moved
<1>7. votesAt' \in [Blocks -> [Account -> Nat]]
  <2>1. \A b \in Blocks : votesAt'[b] \in [Account -> Nat]
    BY <1>3, <1>6 DEF TypeOK
  <2> QED
    BY <1>4, <2>1
<1>8. Level'
  BY <1>1, <1>2, <1>6, Constants DEF Level, Blocks
<1> QED
  BY <1>7, <1>8

\* Steps that leave the proposals and the clock alone.
Quiet ==
  \/ \E sender \in Account, call \in Calls : CallSetting(sender, call)
  \/ \E call \in ForeignCalls, slack \in 0..MaxSlack : ForeignQueue(call, now + delay + slack)
  \/ \E entry \in queuedTransactions : ForeignCancel(entry[1], entry[2])
  \/ \E entry \in queuedTransactions : ForeignExecute(entry[1], entry[2])
  \/ \E sender \in Account : AcceptAdmin(sender)
  \/ \E src, dst \in Voters : \E votes \in Lots : MoveVotes(src, dst, votes)

LEMMA QuietEffect ==
  ASSUME TypeOK, Level, Quiet
  PROVE  /\ TypeOK' /\ Level' /\ Existing' = Existing
         /\ UNCHANGED <<proposalVars, now, block>>
         /\ foreign \subseteq foreign'
         /\ queuedTransactions' \ foreign' \subseteq queuedTransactions \ foreign
         /\ queuedTransactions \cup foreign \subseteq queuedTransactions' \cup foreign'
<1> USE DEF TypeOK
<1>0. ASSUME UNCHANGED chainVars PROVE Level'
  BY <1>0 DEF Level, chainVars
<1>1. CASE \E sender \in Account, call \in Calls : CallSetting(sender, call)
  <2>1. PICK sender \in Account, call \in Calls : CallSetting(sender, call)
    BY <1>1
  <2>2. /\ UNCHANGED <<timelockVars, proposalVars, chainVars, foreign>>
        /\ SettingCalls(sender, <<call>>)
    BY <2>1 DEF CallSetting
  <2>3. <<call>> \in Seq(Calls)
    BY OneCall
  <2>4. SettingsTypeOK'
    BY <2>2, <2>3, SettingsKept
  <2>5. UNCHANGED <<queuedTransactions, now, block>>
    BY <2>2 DEF timelockVars, chainVars
  <2> QED
    BY <2>2, <2>4, <2>5, <1>0, SameChain, SameTimelock, SameProposals
<1>2. CASE \E call \in ForeignCalls, slack \in 0..MaxSlack : ForeignQueue(call, now + delay + slack)
  <2>1. PICK call \in ForeignCalls, slack \in 0..MaxSlack : ForeignQueue(call, now + delay + slack)
    BY <1>2
  <2> DEFINE eta == now + delay + slack
  <2>2. /\ UNCHANGED <<settingVars, proposalVars, chainVars>>
        /\ QueueTransactions(admin, <<call>>, eta)
        /\ foreign' = foreign \cup {<<call, eta>>}
    BY <2>1 DEF ForeignQueue
  <2>3. eta \in Nat /\ call \in Calls
    BY GovernorAssumption, Constants DEF TimelockTypeOK
  <2> HIDE DEF eta
  <2>4. <<call>> \in Seq(Calls) /\ Entries(<<call>>, eta) = {<<call, eta>>}
    BY <2>3, OneCall
  <2>5. TimelockTypeOK'
    BY <2>2, <2>3, <2>4, QueueType, SameChain
  <2>6. queuedTransactions' = queuedTransactions \cup {<<call, eta>>} /\ UNCHANGED <<now, block>>
    BY <2>2, <2>4 DEF QueueTransactions, chainVars
  <2>7. foreign' \subseteq Calls \X Nat
    BY <2>2, <2>3
  <2> QED
    BY <2>2, <2>5, <2>6, <2>7, <1>0, SameChain, SameSettings, SameProposals
<1>3. CASE \E entry \in queuedTransactions : ForeignCancel(entry[1], entry[2])
  <2>1. PICK entry \in queuedTransactions : ForeignCancel(entry[1], entry[2])
    BY <1>3
  <2>2. /\ UNCHANGED <<settingVars, proposalVars, chainVars>>
        /\ CancelTransactions(admin, <<entry[1]>>, entry[2])
        /\ foreign' = foreign \cup {<<entry[1], entry[2]>>}
    BY <2>1 DEF ForeignCancel
  <2>3. /\ entry[1] \in Calls /\ entry[2] \in Nat
        /\ Entries(<<entry[1]>>, entry[2]) = {<<entry[1], entry[2]>>}
    BY EntryType, OneCall
  <2>4. TimelockTypeOK'
    BY <2>2, CancelType, SameChain
  <2>5. queuedTransactions' = queuedTransactions \ {<<entry[1], entry[2]>>} /\ UNCHANGED <<now, block>>
    BY <2>2, <2>3 DEF CancelTransactions, chainVars
  <2>6. foreign' \subseteq Calls \X Nat
    BY <2>2, <2>3
  <2> QED
    BY <2>2, <2>4, <2>5, <2>6, <1>0, SameChain, SameSettings, SameProposals
<1>4. CASE \E entry \in queuedTransactions : ForeignExecute(entry[1], entry[2])
  <2>1. PICK entry \in queuedTransactions : ForeignExecute(entry[1], entry[2])
    BY <1>4
  <2>2. /\ UNCHANGED <<proposalVars, chainVars>>
        /\ ExecuteTransactions(admin, <<entry[1]>>, entry[2])
        /\ SettingCalls(TimelockAddress, <<entry[1]>>)
        /\ foreign' = foreign \cup {<<entry[1], entry[2]>>}
    BY <2>1 DEF ForeignExecute
  <2>3. /\ entry[1] \in Calls /\ entry[2] \in Nat /\ <<entry[1]>> \in Seq(Calls)
        /\ Entries(<<entry[1]>>, entry[2]) = {<<entry[1], entry[2]>>}
    BY EntryType, OneCall
  <2>4. TimelockTypeOK'
    BY <2>2, <2>3, ExecuteType, SameChain
  <2>5. SettingsTypeOK'
    BY <2>2, <2>3, SettingsKept, Constants
  <2>6. queuedTransactions' = queuedTransactions \ {<<entry[1], entry[2]>>} /\ UNCHANGED <<now, block>>
    BY <2>2, <2>3 DEF ExecuteTransactions, chainVars
  <2>7. foreign' \subseteq Calls \X Nat
    BY <2>2, <2>3
  <2> QED
    BY <2>2, <2>4, <2>5, <2>6, <2>7, <1>0, SameChain, SameProposals
<1>5. CASE \E sender \in Account : AcceptAdmin(sender)
  <2>1. PICK sender \in Account : AcceptAdmin(sender)
    BY <1>5
  <2>2. /\ UNCHANGED <<settingVars, proposalVars, chainVars, foreign>>
        /\ AcceptTimelockAdmin(sender)
    BY <2>1 DEF AcceptAdmin
  <2>3. TimelockTypeOK'
    BY <2>2, AcceptType, SameChain
  <2>4. UNCHANGED <<queuedTransactions, now, block>>
    BY <2>2 DEF AcceptTimelockAdmin, chainVars
  <2> QED
    BY <2>2, <2>3, <2>4, <1>0, SameChain, SameSettings, SameProposals
<1>6. CASE \E src, dst \in Voters : \E votes \in Lots : MoveVotes(src, dst, votes)
  <2>1. PICK src \in Voters, dst \in Voters, votes \in Lots : MoveVotes(src, dst, votes)
    BY <1>6
  <2>2. UNCHANGED <<timelockVars, settingVars, proposalVars, now, block, foreign>>
    BY <2>1 DEF MoveVotes
  <2>3. votes \in Nat /\ src \in Account /\ dst \in Account
    BY GovernorAssumption
  <2>4. votesAt' \in [Blocks -> [Account -> Nat]] /\ Level'
    BY <2>1, <2>3, MoveVotesType
  <2>5. UNCHANGED queuedTransactions
    BY <2>2 DEF timelockVars
  <2>6. TimelockTypeOK'
    BY <2>2, SameTimelock DEF TimelockTypeOK
  <2> QED
    BY <2>2, <2>4, <2>5, <2>6, SameSettings, SameProposals
<1> QED
  BY <1>1, <1>2, <1>3, <1>4, <1>5, <1>6 DEF Quiet

LEMMA LevelKept ==
  ASSUME TypeOK, Level, [Next]_vars
  PROVE  Level'
<1>1. CASE UNCHANGED <<block, votesAt>>
  BY <1>1 DEF Level
<1>2. CASE Time
  <2>1. block' = block + 1 /\ votesAt' = votesAt /\ block < MaxBlock
    BY <1>2 DEF Time, Mine
  <2>2. block \in Nat
    BY DEF TypeOK, Blocks
  <2> QED
    BY <2>1, <2>2, Constants DEF Level
<1>3. CASE Quiet
  BY <1>3, QuietEffect
<1>4. CASE GovernanceCall /\ ~ Quiet
  BY <1>1, <1>4 DEF GovernanceCall, Quiet, Initiate, Initiated, Propose, CastVote, Queue, Execute, Cancel, chainVars
<1>5. CASE TimelockCall /\ ~ Quiet
  BY <1>1, <1>5 DEF TimelockCall, Quiet, ForeignInitiate, Initiated, chainVars
<1>6. CASE UNCHANGED vars
  BY <1>1, <1>6 DEF vars, chainVars
<1> QED
  BY <1>2, <1>3, <1>4, <1>5, <1>6 DEF Next, Quiet

\* Every call and every block keeps the types.
LEMMA TypeKept ==
  ASSUME TypeOK, Level, [Next]_vars
  PROVE  TypeOK'
<1>1. CASE Quiet
  BY <1>1, QuietEffect
<1>2. CASE \E sender \in Account, count \in AlphaCounts : Initiate(sender, count)
  <2>1. PICK sender \in Account, count \in AlphaCounts : Initiate(sender, count)
    BY <1>2
  <2>2. /\ Initiated(sender, count) /\ AcceptTimelockAdmin(Governor)
        /\ UNCHANGED <<settingVars, chainVars, foreign>>
    BY <2>1 DEF Initiate, Initiated
  <2> QED
    BY <2>2, Constants, InitiateType, AcceptType, SameSettings, SameChain DEF TypeOK
<1>3. CASE \E entry \in queuedTransactions : ForeignInitiate(entry[1], entry[2])
  <2>1. PICK entry \in queuedTransactions : ForeignInitiate(entry[1], entry[2])
    BY <1>3
  <2>2. /\ Initiated(TimelockAddress, entry[1].arg) /\ UNCHANGED <<settingVars, chainVars, delay>>
        /\ foreign' = foreign \cup {<<entry[1], entry[2]>>}
        /\ queuedTransactions' = queuedTransactions \ {<<entry[1], entry[2]>>}
        /\ admin' = Governor /\ pendingAdmin' = Nobody
    BY <2>1 DEF ForeignInitiate, Initiated
  <2>3. entry[1] \in Calls /\ entry[2] \in Nat /\ entry[1].arg \in Nat
    BY <2>1, EntryType, CallsAssumption DEF ForeignInitiate
  <2>4. TimelockTypeOK'
    BY <2>2, SameChain, Constants DEF TypeOK, TimelockTypeOK
  <2>5. ProposalsTypeOK'
    BY <2>2, <2>3, InitiateType DEF TypeOK
  <2>6. foreign' \subseteq Calls \X Nat
    BY <2>2, <2>3 DEF TypeOK
  <2> QED
    BY <2>2, <2>4, <2>5, <2>6, SameSettings, SameChain DEF TypeOK
<1>4. CASE Time
  <2>1. PICK seconds \in Intervals : Mine(seconds)
    BY <1>4 DEF Time
  <2>2. /\ UNCHANGED <<timelockVars, settingVars, proposalVars, votesAt, foreign>>
        /\ block < MaxBlock /\ block' = block + 1 /\ now' = now + seconds
    BY <2>1 DEF Mine
  <2>3. block' \in Blocks
    BY <2>2, Constants DEF TypeOK, Blocks
  <2>4. now' \in Nat
    BY <2>2, Constants DEF TypeOK, TimelockTypeOK
  <2> QED
    BY <2>2, <2>3, <2>4, SameTimelock, SameSettings, SameProposals DEF TypeOK
<1>5. CASE UNCHANGED vars
  BY <1>5, SameTimelock, SameSettings, SameProposals, SameChain DEF vars, TypeOK, chainVars, TimelockTypeOK
<1> QED
  BY <1>1, <1>2, <1>3, <1>4, <1>5, ProposalCallType DEF Next, GovernanceCall, TimelockCall, Quiet

LEMMA InitLevel == Init => Level
BY GovernorAssumption, SMTT(30) DEF Init, GovernorInit, Level, Blocks

\* Every variable keeps its type: settings within the ranges the setters check,
\* an existing proposal where there is an id.
THEOREM GovernorTypeCorrect == Spec => []TypeOK
<1>1. Init => TypeOK /\ Level
  BY InitType, InitLevel
<1>2. TypeOK /\ Level /\ [Next]_vars => TypeOK' /\ Level'
  BY TypeKept, LevelKept
<1> QED
  BY <1>1, <1>2, PTL DEF Spec

-----------------------------------------------------------------------------
(* Rules change by vote *)

\* What a call leaves in a cell that it does not write.
LEMMA NotWritten ==
  ASSUME NEW call \in Calls, NEW methods, NEW old, call.method \notin methods
  PROVE  Written(<<call>>, methods, old) = old
BY DEF Written

\* The first call of a sequence has nothing before it.
LEMMA AloneAllowed ==
  ASSUME NEW sender, NEW call \in Calls, SettingCalls(sender, <<call>>)
  PROVE  /\ call.method \in AdminMethods => sender = governorAdmin
         /\ call.method = "_acceptAdmin" => sender = governorPendingAdmin
<1> DEFINE before == SubSeq(<<call>>, 1, 0)
<1>1. before = << >>
  OBVIOUS
<1>2. SettingAllowed(sender, before, call)
  <2>1. 1 \in DOMAIN <<call>> /\ <<call>>[1] = call /\ 1 - 1 = 0
    OBVIOUS
  <2> QED
    BY <2>1 DEF SettingCalls
<1>3. \A methods, old : Written(<< >>, methods, old) = old
  BY DEF Written
<1>4. ~ \E i \in DOMAIN before : before[i].method = "_acceptAdmin"
  BY <1>1
<1> QED
  BY <1>1, <1>2, <1>3, <1>4 DEF SettingAllowed

LEMMA SettingNeedsTheVote ==
  ASSUME NEW sender \in Account, NEW call \in Calls, Sovereign, CallSetting(sender, call)
  PROVE  Rules' = Rules
<1>1. call.method = "_setGuardian"
  <2>1. call.method \notin AdminMethods /\ call.method # "_acceptAdmin"
    BY AloneAllowed, Constants DEF CallSetting, Sovereign
  <2> QED
    BY <2>1 DEF CallSetting
<1>2. SettingCalls(sender, <<call>>) /\ UNCHANGED timelockVars
  BY DEF CallSetting
<1>3. governorAdmin' = governorAdmin
  <2>1. ~ \E i \in DOMAIN <<call>> : <<call>>[i].method = "_acceptAdmin"
    BY <1>1
  <2> QED
    BY <1>2, <2>1 DEF SettingCalls
<1>4. /\ governorPendingAdmin' = governorPendingAdmin
      /\ votingDelay' = votingDelay
      /\ votingPeriod' = votingPeriod
      /\ proposalThreshold' = proposalThreshold
      /\ proposalMaxOperations' = proposalMaxOperations
  BY <1>1, <1>2, NotWritten DEF SettingCalls
<1> QED
  BY <1>2, <1>3, <1>4 DEF Rules, timelockVars

\* A queued proposal reached the quorum.
LEMMA QueuedMeans ==
  ASSUME NEW id, StateOf(id) = "Queued"
  PROVE  /\ ~ proposals[id].canceled /\ ~ proposals[id].executed
         /\ proposals[id].eta # 0
         /\ ~ (proposals[id].tally["for"] < QuorumVotes)
BY DEF StateOf

LEMMA ExecutedByVote ==
  ASSUME TypeOK, NEW id \in Ids, Execute(id)
  PROVE  RuledByVote
<1>1. StateOf(id) = "Queued" /\ id \in Existing /\ now >= proposals[id].eta
  BY DEF Execute, Is, Existing, ExecuteTransactions
<1>2. proposals'[id].executed
  BY <1>1, ExecuteEffect, Fields DEF TypeOK, ProposalsTypeOK, Existing, Proposal
<1>3. proposals[id].tally["for"] >= QuorumVotes
  <2>1. proposals[id].tally["for"] \in Nat /\ QuorumVotes \in Nat
    BY <1>1, Fields, GovernorAssumption DEF Existing, TypeOK, Supports
  <2> QED
    BY <1>1, <2>1, QueuedMeans
<1> QED
  BY <1>1, <1>2, <1>3 DEF RuledByVote

LEMMA RulesStep ==
  ASSUME TypeOK, [Next]_vars, Sovereign, admin' = Governor
  PROVE  RuledByVote
<1>1. CASE \E sender \in Account, call \in Calls : CallSetting(sender, call)
  BY <1>1, SettingNeedsTheVote DEF RuledByVote
<1>2. CASE \E sender \in Account, count \in AlphaCounts : Initiate(sender, count)
  BY <1>2 DEF Initiate, Initiated, Sovereign
<1>3. CASE \E id \in Ids : Execute(id)
  BY <1>3, ExecutedByVote
<1>4. CASE TimelockCall
  BY <1>4, Constants DEF TimelockCall, ForeignQueue, ForeignCancel, ForeignExecute, ForeignInitiate,
       ForeignAdmin, AcceptAdmin, AcceptTimelockAdmin, Sovereign
<1>5. CASE UNCHANGED <<delay, pendingAdmin, settingVars>>
  BY <1>5 DEF RuledByVote, Rules, settingVars
<1>6. CASE \/ \E proposer \in Voters, actions \in Actions : Propose(proposer, actions)
           \/ \E voter \in Voters, id \in Ids, support \in Ballots : CastVote(voter, id, support)
           \/ \E id \in Ids : Queue(id)
           \/ \E sender \in Account, id \in Ids : Cancel(sender, id)
           \/ Time
           \/ \E src, dst \in Voters : \E votes \in Lots : MoveVotes(src, dst, votes)
           \/ UNCHANGED vars
  <2>1. UNCHANGED <<delay, pendingAdmin, settingVars>>
    BY <1>6 DEF Propose, CastVote, Queue, QueueTransactions, Cancel, CancelTransactions, Time, Mine,
         MoveVotes, vars, timelockVars
  <2> QED
    BY <1>5, <2>1
<1> QED
  BY <1>1, <1>2, <1>3, <1>4, <1>6 DEF Next, GovernanceCall

\* While the governor rules itself and its timelock, and no handover is under
\* way, a rule changes only when a proposal that reached the quorum and waited
\* is executed: no setter, no other admin and no order of calls gets around it.
THEOREM RulesNeedAVote == Spec => RulesChangeByVote
<1>1. TypeOK /\ [Next]_vars => [Sovereign /\ admin' = Governor => RuledByVote]_vars
  BY RulesStep
<1> QED
  BY <1>1, GovernorTypeCorrect, PTL DEF Spec, RulesChangeByVote

-----------------------------------------------------------------------------
(* The inductive invariant: what holds of proposals, the timelock and the  *)
(* latest ids between any two calls.                                       *)

\* _initiate may run again only while nothing has been proposed.
Counted == /\ initialProposalId <= proposalCount
           /\ initialProposalId = 0 => proposalCount = 0

Won(p) == p.tally["for"] > p.tally["against"] /\ p.tally["for"] >= QuorumVotes

\* A vote takes time; what is queued has won a vote that is over; what is
\* executed was queued.
Sound(id) ==
  LET p == proposals[id]
  IN  /\ p.startBlock < p.endBlock
      /\ p.executed => p.eta # 0
      /\ p.eta # 0 => block > p.endBlock /\ Won(p)

AllSound == \A id \in Existing : Sound(id)

Waits(id) == /\ proposals[id].eta # 0
             /\ ~ proposals[id].canceled
             /\ ~ proposals[id].executed

Done(id) == proposals[id].canceled \/ proposals[id].executed

EntriesOf(id) == Entries(proposals[id].actions, proposals[id].eta)

\* LostOnlyToATwin, of expired proposals too.
LostToTwins ==
  \A id \in Existing : Waits(id) =>
    \A entry \in EntriesOf(id) \ (queuedTransactions \cup foreign) :
      \E twin \in Existing \ {id} : entry \in EntriesOf(twin) /\ Done(twin)

Live(id) == ~ proposals[id].canceled /\ block <= proposals[id].endBlock

\* A live proposal is its proposer's latest.
LatestLive ==
  \A id \in Existing : Live(id) => latestProposalIds[proposals[id].proposer] = id

\* What a step that is not about proposal id leaves of it.
Carried(id) ==
  /\ proposals'[id].actions = proposals[id].actions
  /\ proposals'[id].eta = proposals[id].eta
  /\ proposals'[id].canceled = proposals[id].canceled
  /\ proposals'[id].executed = proposals[id].executed

\* The statuses, by what they ask of a sound proposal.
LEMMA StatusOf ==
  ASSUME TypeOK, NEW id \in Existing, Sound(id)
  PROVE  LET p == proposals[id]
         IN  /\ StateOf(id) = "Canceled" <=> p.canceled
             /\ StateOf(id) \in {"Pending", "Active"} <=> Live(id)
             /\ StateOf(id) = "Pending" <=> ~ p.canceled /\ block <= p.startBlock
             /\ StateOf(id) = "Active" <=>
                  ~ p.canceled /\ block > p.startBlock /\ block <= p.endBlock
             /\ StateOf(id) = "Defeated" <=> ~ p.canceled /\ block > p.endBlock /\ ~ Won(p)
             /\ StateOf(id) = "Succeeded" <=>
                  ~ p.canceled /\ block > p.endBlock /\ Won(p) /\ p.eta = 0
             /\ StateOf(id) = "Executed" <=> ~ p.canceled /\ p.eta # 0 /\ p.executed
             /\ StateOf(id) = "Expired" <=>
                  ~ p.canceled /\ p.eta # 0 /\ ~ p.executed /\ now >= p.eta + GracePeriod
             /\ StateOf(id) = "Queued" <=>
                  ~ p.canceled /\ p.eta # 0 /\ ~ p.executed /\ now < p.eta + GracePeriod
             /\ StateOf(id) \in {"Canceled", "Pending", "Active", "Defeated", "Succeeded",
                                 "Executed", "Expired", "Queued"}
<1> DEFINE p == proposals[id]
<1>1. /\ p.eta \in Nat /\ p.startBlock \in Nat /\ p.endBlock \in Nat
      /\ p.tally["for"] \in Nat /\ p.tally["against"] \in Nat
      /\ p.canceled \in BOOLEAN /\ p.executed \in BOOLEAN
  BY Fields DEF TypeOK, Existing, Supports
<1>2. block \in Nat /\ now \in Nat /\ GracePeriod \in Nat /\ QuorumVotes \in Nat
  BY Constants, GovernorAssumption DEF TypeOK, TimelockTypeOK, Blocks
<1> QED
  BY <1>1, <1>2 DEF StateOf, Sound, Won, Live

LEMMA InitCounted == Init => Counted
BY InitCounts DEF Counted

LEMMA CountedKept ==
  ASSUME TypeOK, Level, Counted, [Next]_vars
  PROVE  Counted'
<1>1. CASE UNCHANGED <<initialProposalId, proposalCount>>
  BY <1>1 DEF Counted
<1>2. CASE Quiet
  BY <1>1, <1>2, QuietEffect DEF proposalVars
<1>3. CASE \E proposer \in Voters, actions \in Actions : Propose(proposer, actions)
  BY <1>3 DEF Propose, Counted, TypeOK, ProposalsTypeOK
<1>4. CASE \E sender \in Account, count \in AlphaCounts : Initiate(sender, count)
  BY <1>4, Constants DEF Initiate, Initiated, Counted
<1>5. CASE \E entry \in queuedTransactions : ForeignInitiate(entry[1], entry[2])
  <2>1. PICK entry \in queuedTransactions : ForeignInitiate(entry[1], entry[2])
    BY <1>5
  <2>2. entry[1].arg \in Nat
    BY <2>1, EntryType, CallsAssumption DEF ForeignInitiate
  <2> QED
    BY <2>1, <2>2 DEF ForeignInitiate, Initiated, Counted
<1>6. CASE \/ \E voter \in Voters, id \in Ids, support \in Ballots : CastVote(voter, id, support)
           \/ \E id \in Ids : Queue(id)
           \/ \E id \in Ids : Execute(id)
           \/ \E sender \in Account, id \in Ids : Cancel(sender, id)
           \/ Time
           \/ UNCHANGED vars
  BY <1>1, <1>6 DEF CastVote, Queue, Execute, Cancel, Time, Mine, vars, proposalVars
<1> QED
  BY <1>2, <1>3, <1>4, <1>5, <1>6 DEF Next, GovernanceCall, TimelockCall, Quiet

\* _initiate finds no proposal and leaves none.
LEMMA InitiateEmpty ==
  ASSUME TypeOK, Counted,
         \/ \E sender \in Account, count \in AlphaCounts : Initiate(sender, count)
         \/ \E entry \in queuedTransactions : ForeignInitiate(entry[1], entry[2])
  PROVE  /\ Existing = {} /\ Existing' = {}
         /\ foreign \subseteq foreign'
         /\ queuedTransactions' \ foreign' \subseteq queuedTransactions \ foreign
<1>1. initialProposalId = 0 => Existing = {}
  BY DEF Counted, Existing, Exists, Ids
<1>2. CASE \E sender \in Account, count \in AlphaCounts : Initiate(sender, count)
  <2>1. PICK sender \in Account, count \in AlphaCounts : Initiate(sender, count)
    BY <1>2
  <2>2. Initiated(sender, count) /\ UNCHANGED <<queuedTransactions, foreign>>
    BY <2>1 DEF Initiate, AcceptTimelockAdmin
  <2>3. Existing' = {}
    BY <2>2, InitiateType, Constants DEF TypeOK
  <2> QED
    BY <1>1, <2>2, <2>3 DEF Initiated
<1>3. CASE \E entry \in queuedTransactions : ForeignInitiate(entry[1], entry[2])
  <2>1. PICK entry \in queuedTransactions : ForeignInitiate(entry[1], entry[2])
    BY <1>3
  <2>2. entry[1].arg \in Nat
    BY <2>1, EntryType, CallsAssumption DEF ForeignInitiate
  <2>3. /\ Initiated(TimelockAddress, entry[1].arg)
        /\ queuedTransactions' \subseteq queuedTransactions /\ foreign \subseteq foreign'
    BY <2>1 DEF ForeignInitiate
  <2>4. Existing' = {}
    BY <2>2, <2>3, InitiateType DEF TypeOK
  <2> QED
    BY <1>1, <2>3, <2>4 DEF Initiated
<1> QED
  BY <1>2, <1>3

\* A new proposal has its own id and leaves the others as they are.
LEMMA ProposeEffect ==
  ASSUME TypeOK, Counted, NEW proposer \in Voters, NEW actions \in Actions, Propose(proposer, actions)
  PROVE  LET id == proposalCount + 1
             start == block + votingDelay
             p == NewProposal(proposer, actions, start, start + votingPeriod)
         IN  /\ id \in Ids /\ id \notin Existing /\ Existing' = Existing \cup {id}
             /\ proposals'[id] = p
             /\ \A i \in Ids : i # id => proposals'[i] = proposals[i]
             /\ latestProposalIds' = [latestProposalIds EXCEPT ![proposer] = id]
             /\ UNCHANGED <<queuedTransactions, foreign, block, now>>
<1> DEFINE id == proposalCount + 1
<1>1. id \in Ids /\ id \notin Existing /\ Existing' = Existing \cup {id}
  <2>1. /\ proposalCount \in Nat /\ initialProposalId \in Nat /\ initialProposalId <= proposalCount
    BY DEF Counted, TypeOK, ProposalsTypeOK
  <2>2. /\ id <= MaxProposals /\ proposalCount' = id /\ initialProposalId' = initialProposalId
    BY DEF Propose
  <2>3. id \in Ids
    BY <2>1, <2>2, Constants DEF Ids
  <2>4. ~ Exists(id)
    BY <2>1 DEF Exists
  <2>5. \A i \in Ids : Exists(i)' <=> Exists(i) \/ i = id
    BY <2>1, <2>2 DEF Exists, Ids
  <2>6. Existing' = {i \in Ids : Exists(i)'}
    BY DEF Existing, Exists, Ids
  <2> HIDE DEF id
  <2> QED
    BY <2>3, <2>4, <2>5, <2>6 DEF Existing
<1>2. UNCHANGED <<queuedTransactions, foreign, block, now>>
  BY DEF Propose, timelockVars, chainVars
<1>3. /\ proposals'[id] = NewProposal(proposer, actions, block + votingDelay,
                                       block + votingDelay + votingPeriod)
      /\ \A i \in Ids : i # id => proposals'[i] = proposals[i]
  <2>1. proposals' = [proposals EXCEPT ![id] = NewProposal(proposer, actions, block + votingDelay,
                                       block + votingDelay + votingPeriod)]
    BY DEF Propose
  <2>2. DOMAIN proposals = Ids
    BY DEF TypeOK, ProposalsTypeOK
  <2> HIDE DEF id
  <2> QED
    BY <1>1, <2>1, <2>2
<1>4. latestProposalIds' = [latestProposalIds EXCEPT ![proposer] = id]
  BY DEF Propose
<1> QED
  BY <1>1, <1>2, <1>3, <1>4

-----------------------------------------------------------------------------
(* Every step keeps each part of the invariant. *)

\* A call on one proposal: which others it leaves alone and what becomes of this one.
LEMMA CastVoteOne ==
  ASSUME TypeOK, NEW voter \in Voters, NEW id \in Ids, NEW support \in Ballots,
         CastVote(voter, id, support)
  PROVE  /\ id \in Existing /\ Existing' = Existing
         /\ \A i \in Ids : i # id => proposals'[i] = proposals[i]
         /\ Carried(id)
         /\ proposals'[id].proposer = proposals[id].proposer
         /\ proposals'[id].startBlock = proposals[id].startBlock
         /\ proposals'[id].endBlock = proposals[id].endBlock
         /\ UNCHANGED <<queuedTransactions, foreign, latestProposalIds, block, now>>
<1> DEFINE p == VotedOn(proposals[id], voter, support, VotesCast(voter, proposals[id]))
<1>1. id \in Existing /\ StateOf(id) = "Active"
  BY DEF CastVote, Is, Existing
<1>2. UNCHANGED <<initialProposalId, proposalCount, latestProposalIds, timelockVars, chainVars, foreign>>
  BY DEF CastVote
<1>3. proposals' = [proposals EXCEPT ![id] = p] /\ p \in Proposal
  BY CastVoteEffect
<1>4. Existing' = Existing
  BY <1>2, <1>3, OneProposal DEF TypeOK
<1>5. /\ p.actions = proposals[id].actions /\ p.eta = proposals[id].eta
      /\ p.canceled = proposals[id].canceled /\ p.executed = proposals[id].executed
      /\ p.proposer = proposals[id].proposer
      /\ p.startBlock = proposals[id].startBlock /\ p.endBlock = proposals[id].endBlock
  <2>1. proposals[id] \in Proposal
    BY <1>1, Fields DEF Existing, TypeOK
  <2> QED
    BY <2>1 DEF VotedOn, Proposal
<1> HIDE DEF p
<1>6. proposals'[id] = p /\ \A i \in Ids : i # id => proposals'[i] = proposals[i]
  BY <1>3 DEF TypeOK, ProposalsTypeOK
<1>7. UNCHANGED <<queuedTransactions, block, now>>
  BY <1>2 DEF timelockVars, chainVars
<1> QED
  BY <1>1, <1>2, <1>4, <1>5, <1>6, <1>7 DEF Carried

\* What queueing, executing and cancelling change of a proposal and of the timelock.
LEMMA QueueOne ==
  ASSUME TypeOK, NEW id \in Ids, Queue(id)
  PROVE  /\ id \in Existing /\ StateOf(id) = "Succeeded" /\ Existing' = Existing
         /\ \A i \in Ids : i # id => proposals'[i] = proposals[i]
         /\ proposals'[id] = [proposals[id] EXCEPT !.eta = now + delay]
         /\ proposals[id] \in Proposal /\ now + delay \in Nat /\ now + delay > now
         /\ queuedTransactions' = queuedTransactions
                                    \cup Entries(proposals[id].actions, now + delay)
         /\ UNCHANGED <<foreign, latestProposalIds, block, now>>
<1> DEFINE p == [proposals[id] EXCEPT !.eta = now + delay]
<1>1. id \in Existing /\ StateOf(id) = "Succeeded"
  BY DEF Queue, Is, Existing
<1>2. /\ UNCHANGED <<initialProposalId, proposalCount, latestProposalIds, chainVars, foreign>>
      /\ queuedTransactions' = queuedTransactions \cup Entries(proposals[id].actions, now + delay)
  BY DEF Queue, QueueTransactions
<1>3. proposals' = [proposals EXCEPT ![id] = p] /\ p \in Proposal /\ now + delay \in Nat
  BY QueueEffect
<1>4. Existing' = Existing
  BY <1>2, <1>3, OneProposal DEF TypeOK
<1>5. proposals[id] \in Proposal
  BY <1>1, Fields DEF Existing, TypeOK
<1>6. now + delay > now
  BY Constants DEF TypeOK, TimelockTypeOK
<1> HIDE DEF p
<1>7. proposals'[id] = p /\ \A i \in Ids : i # id => proposals'[i] = proposals[i]
  BY <1>3 DEF TypeOK, ProposalsTypeOK
<1>8. UNCHANGED <<block, now>>
  BY <1>2 DEF chainVars
<1> QED
  BY <1>1, <1>2, <1>3, <1>4, <1>5, <1>6, <1>7, <1>8 DEF p

LEMMA ExecuteOne ==
  ASSUME TypeOK, NEW id \in Ids, Execute(id)
  PROVE  /\ id \in Existing /\ StateOf(id) = "Queued" /\ Existing' = Existing
         /\ \A i \in Ids : i # id => proposals'[i] = proposals[i]
         /\ proposals'[id] = [proposals[id] EXCEPT !.executed = TRUE]
         /\ proposals[id] \in Proposal
         /\ queuedTransactions' = queuedTransactions \ EntriesOf(id)
         /\ UNCHANGED <<foreign, latestProposalIds, block, now>>
<1> DEFINE p == [proposals[id] EXCEPT !.executed = TRUE]
<1>1. id \in Existing /\ StateOf(id) = "Queued"
  BY DEF Execute, Is, Existing
<1>2. /\ UNCHANGED <<initialProposalId, proposalCount, latestProposalIds, chainVars, foreign>>
      /\ queuedTransactions' = queuedTransactions \ EntriesOf(id)
  BY DEF Execute, ExecuteTransactions, EntriesOf
<1>3. proposals' = [proposals EXCEPT ![id] = p] /\ p \in Proposal
  BY ExecuteEffect
<1>4. Existing' = Existing
  BY <1>2, <1>3, OneProposal DEF TypeOK
<1>5. proposals[id] \in Proposal
  BY <1>1, Fields DEF Existing, TypeOK
<1> HIDE DEF p
<1>6. proposals'[id] = p /\ \A i \in Ids : i # id => proposals'[i] = proposals[i]
  BY <1>3 DEF TypeOK, ProposalsTypeOK
<1>7. UNCHANGED <<block, now>>
  BY <1>2 DEF chainVars
<1> QED
  BY <1>1, <1>2, <1>4, <1>5, <1>6, <1>7 DEF p

LEMMA CancelOne ==
  ASSUME TypeOK, NEW sender, NEW id \in Ids, Cancel(sender, id)
  PROVE  /\ id \in Existing /\ StateOf(id) # "Executed" /\ Existing' = Existing
         /\ \A i \in Ids : i # id => proposals'[i] = proposals[i]
         /\ proposals'[id] = [proposals[id] EXCEPT !.canceled = TRUE]
         /\ proposals[id] \in Proposal
         /\ queuedTransactions' = queuedTransactions \ EntriesOf(id)
         /\ UNCHANGED <<foreign, latestProposalIds, block, now>>
<1> DEFINE p == [proposals[id] EXCEPT !.canceled = TRUE]
<1>1. id \in Existing /\ StateOf(id) # "Executed"
  BY DEF Cancel, MayCancel, Existing
<1>2. /\ UNCHANGED <<initialProposalId, proposalCount, latestProposalIds, chainVars, foreign>>
      /\ queuedTransactions' = queuedTransactions \ EntriesOf(id)
  BY DEF Cancel, CancelTransactions, EntriesOf
<1>3. proposals' = [proposals EXCEPT ![id] = p] /\ p \in Proposal
  BY CancelEffect
<1>4. Existing' = Existing
  BY <1>2, <1>3, OneProposal DEF TypeOK
<1>5. proposals[id] \in Proposal
  BY <1>1, Fields DEF Existing, TypeOK
<1> HIDE DEF p
<1>6. proposals'[id] = p /\ \A i \in Ids : i # id => proposals'[i] = proposals[i]
  BY <1>3 DEF TypeOK, ProposalsTypeOK
<1>7. UNCHANGED <<block, now>>
  BY <1>2 DEF chainVars
<1> QED
  BY <1>1, <1>2, <1>4, <1>5, <1>6, <1>7 DEF p

LEMMA TimeEffect ==
  ASSUME TypeOK, Time
  PROVE  /\ Existing' = Existing /\ proposals' = proposals
         /\ UNCHANGED <<queuedTransactions, foreign, latestProposalIds>>
         /\ block' = block + 1 /\ block \in Nat /\ now \in Nat /\ now' \in Nat /\ now' > now
<1>1. PICK seconds \in Intervals : Mine(seconds)
  BY DEF Time
<1>2. UNCHANGED <<timelockVars, proposalVars, foreign>> /\ block' = block + 1 /\ now' = now + seconds
  BY <1>1 DEF Mine
<1>3. block \in Nat /\ now \in Nat /\ seconds \in Nat /\ seconds > 0
  BY Constants DEF TypeOK, TimelockTypeOK, Blocks
<1> QED
  BY <1>2, <1>3, SameProposals DEF timelockVars, proposalVars

\* The kinds of step the proofs tell apart.
Initiation ==
  \/ \E sender \in Account, count \in AlphaCounts : Initiate(sender, count)
  \/ \E entry \in queuedTransactions : ForeignInitiate(entry[1], entry[2])

LEMMA StepKinds ==
  ASSUME [Next]_vars
  PROVE  \/ Quiet \/ Initiation \/ Time \/ UNCHANGED vars
         \/ \E proposer \in Voters, actions \in Actions : Propose(proposer, actions)
         \/ \E voter \in Voters, id \in Ids, support \in Ballots : CastVote(voter, id, support)
         \/ \E id \in Ids : Queue(id)
         \/ \E id \in Ids : Execute(id)
         \/ \E sender \in Account, id \in Ids : Cancel(sender, id)
BY DEF Next, GovernanceCall, TimelockCall, Quiet, Initiation

LEMMA Unchanged ==
  ASSUME UNCHANGED vars
  PROVE  /\ UNCHANGED <<proposalVars, proposals, latestProposalIds, now, block, queuedTransactions, foreign>>
         /\ Existing' = Existing
<1>1. UNCHANGED <<proposalVars, proposals, latestProposalIds, now, block, queuedTransactions, foreign>>
  BY DEF vars, proposalVars, chainVars, timelockVars
<1> QED
  BY <1>1, SameProposals

LEMMA SoundKept ==
  ASSUME TypeOK, Level, Counted, AllSound, [Next]_vars
  PROVE  AllSound'
<1>0. ASSUME NEW i \in Existing, proposals'[i] = proposals[i], UNCHANGED block
      PROVE  Sound(i)'
  BY <1>0 DEF AllSound, Sound
<1>1. CASE Quiet
  <2>1. Existing' = Existing /\ UNCHANGED <<proposals, block>>
    BY <1>1, QuietEffect DEF proposalVars
  <2> QED
    BY <2>1, <1>0 DEF AllSound
<1>2. CASE Initiation
  BY <1>2, InitiateEmpty DEF Initiation, AllSound
<1>3. CASE Time
  <2> SUFFICES ASSUME NEW i \in Existing PROVE Sound(i)'
    BY <1>3, TimeEffect DEF AllSound
  <2>1. Sound(i) /\ proposals[i].endBlock \in Nat
    BY Fields DEF AllSound, Existing, TypeOK
  <2> QED
    BY <1>3, <2>1, TimeEffect DEF Sound, Won
<1>4. CASE UNCHANGED vars
  BY <1>4, <1>0, Unchanged DEF AllSound
<1>5. CASE \E proposer \in Voters, actions \in Actions : Propose(proposer, actions)
  <2>1. PICK proposer \in Voters, actions \in Actions : Propose(proposer, actions)
    BY <1>5
  <2>2. PICK id, start, end :
          /\ id \notin Existing /\ Existing' = Existing \cup {id}
          /\ proposals'[id] = NewProposal(proposer, actions, start, end)
          /\ \A i \in Ids : i # id => proposals'[i] = proposals[i]
          /\ start = block + votingDelay /\ end = start + votingPeriod
          /\ UNCHANGED block
    BY <2>1, ProposeEffect
  <2>3. start < end
    BY <2>2, Constants DEF TypeOK, SettingsTypeOK, Blocks
  <2>4. Sound(id)'
    <3>1. /\ proposals'[id].startBlock = start /\ proposals'[id].endBlock = end
          /\ proposals'[id].eta = 0 /\ ~ proposals'[id].executed
      BY <2>2 DEF NewProposal
    <3> QED
      BY <2>3, <3>1 DEF Sound
  <2>5. \A i \in Existing : Sound(i)'
    <3>1. \A i \in Existing : proposals'[i] = proposals[i]
      BY <2>2 DEF Existing
    <3> QED
      BY <2>2, <3>1, <1>0
  <2> QED
    BY <2>2, <2>4, <2>5 DEF AllSound
<1>6. CASE \E voter \in Voters, id \in Ids, support \in Ballots : CastVote(voter, id, support)
  <2>1. PICK voter \in Voters, id \in Ids, support \in Ballots : CastVote(voter, id, support)
    BY <1>6
  <2>2. id \in Existing /\ Sound(id) /\ StateOf(id) = "Active"
    BY <2>1, CastVoteOne DEF CastVote, Is, AllSound
  <2>3. proposals[id].eta = 0 /\ ~ proposals[id].executed
    <3>1. block <= proposals[id].endBlock /\ block \in Nat /\ proposals[id].endBlock \in Nat
      BY <2>2, StatusOf, Fields DEF Existing, TypeOK, Blocks
    <3> QED
      BY <2>2, <3>1 DEF Sound
  <2>4. Sound(id)'
    BY <2>1, <2>2, <2>3, CastVoteOne DEF Sound, Carried
  <2> QED
    BY <2>1, <2>4, <1>0, CastVoteOne DEF AllSound, Existing
<1>7. CASE \E id \in Ids : Queue(id)
  <2>1. PICK id \in Ids : Queue(id)
    BY <1>7
  <2>2. id \in Existing /\ Sound(id)
    BY <2>1, QueueOne DEF AllSound
  <2>3. block > proposals[id].endBlock /\ Won(proposals[id])
    BY <2>1, <2>2, QueueOne, StatusOf
  <2>4. Sound(id)'
    <3>1. /\ proposals'[id].startBlock = proposals[id].startBlock
          /\ proposals'[id].endBlock = proposals[id].endBlock
          /\ proposals'[id].tally = proposals[id].tally
          /\ proposals'[id].eta = now + delay
          /\ UNCHANGED block
      BY <2>1, QueueOne DEF Proposal
    <3>2. now + delay # 0
      <4>1. now + delay \in Nat /\ now + delay > 0
        BY <2>1, QueueEffect
      <4> QED
        BY <4>1
    <3> QED
      BY <2>2, <2>3, <3>1, <3>2 DEF Sound, Won
  <2> QED
    BY <2>1, <2>4, <1>0, QueueOne DEF AllSound, Existing
<1>8. CASE \E id \in Ids : Execute(id)
  <2>1. PICK id \in Ids : Execute(id)
    BY <1>8
  <2>2. id \in Existing /\ Sound(id)
    BY <2>1, ExecuteOne DEF AllSound
  <2>3. proposals[id].eta # 0
    BY <2>1, ExecuteOne, QueuedMeans
  <2>4. Sound(id)'
    <3>1. /\ proposals'[id].startBlock = proposals[id].startBlock
          /\ proposals'[id].endBlock = proposals[id].endBlock
          /\ proposals'[id].tally = proposals[id].tally
          /\ proposals'[id].eta = proposals[id].eta
          /\ UNCHANGED block
      BY <2>1, ExecuteOne DEF Proposal
    <3> QED
      BY <2>2, <2>3, <3>1 DEF Sound, Won
  <2> QED
    BY <2>1, <2>4, <1>0, ExecuteOne DEF AllSound, Existing
<1>9. CASE \E sender \in Account, id \in Ids : Cancel(sender, id)
  <2>1. PICK sender \in Account, id \in Ids : Cancel(sender, id)
    BY <1>9
  <2>2. id \in Existing /\ Sound(id)
    BY <2>1, CancelOne DEF AllSound
  <2>3. Sound(id)'
    <3>1. /\ proposals'[id].startBlock = proposals[id].startBlock
          /\ proposals'[id].endBlock = proposals[id].endBlock
          /\ proposals'[id].tally = proposals[id].tally
          /\ proposals'[id].eta = proposals[id].eta
          /\ proposals'[id].executed = proposals[id].executed
          /\ UNCHANGED block
      BY <2>1, CancelOne, ZenonT(40) DEF Proposal
    <3> QED
      BY <2>2, <3>1 DEF Sound, Won
  <2> QED
    BY <2>1, <2>3, <1>0, CancelOne DEF AllSound, Existing
<1> QED
  BY <1>1, <1>2, <1>3, <1>4, <1>5, <1>6, <1>7, <1>8, <1>9, StepKinds

\* The timelock holds nothing of the governor's without a waiting proposal.
LEMMA OrphansKept ==
  ASSUME TypeOK, Level, Counted, AllSound, NoOrphanEntries, [Next]_vars
  PROVE  NoOrphanEntries'
<1> DEFINE Owned(entry, id) == id \in Existing /\ entry \in EntriesOf(id) /\ Waits(id)
<1>0. \A entry \in queuedTransactions \ foreign : \E id \in Existing : Owned(entry, id)
  BY DEF NoOrphanEntries, EntriesOf, Waits
<1>a. ASSUME \A entry \in queuedTransactions' \ foreign' : \E id \in Existing' : Owned(entry, id)'
      PROVE  NoOrphanEntries'
  BY <1>a DEF NoOrphanEntries, EntriesOf, Waits
<1>b. ASSUME NEW entry, NEW id, Owned(entry, id), Carried(id), id \in Existing'
      PROVE  Owned(entry, id)'
  BY <1>b DEF EntriesOf, Waits, Carried, Entries
<1>c. ASSUME NEW i, proposals'[i] = proposals[i] PROVE Carried(i)
  BY <1>c DEF Carried
<1> HIDE DEF Owned
<1>1. CASE Quiet
  BY <1>1, <1>0, <1>a, <1>b, <1>c, QuietEffect DEF proposalVars
<1>2. CASE Initiation
  BY <1>2, <1>0, <1>a, InitiateEmpty DEF Initiation
<1>3. CASE Time
  BY <1>3, <1>0, <1>a, <1>b, <1>c, TimeEffect
<1>4. CASE UNCHANGED vars
  BY <1>4, <1>0, <1>a, <1>b, <1>c, Unchanged
<1>5. CASE \E proposer \in Voters, actions \in Actions : Propose(proposer, actions)
  <2>1. PICK proposer \in Voters, actions \in Actions : Propose(proposer, actions)
    BY <1>5
  <2>2. /\ \A i \in Existing : i \in Existing' /\ Carried(i)
        /\ UNCHANGED <<queuedTransactions, foreign>>
    BY <2>1, <1>c, ProposeEffect DEF Existing
  <2> QED
    BY <2>2, <1>0, <1>a, <1>b
<1>6. CASE \E voter \in Voters, id \in Ids, support \in Ballots : CastVote(voter, id, support)
  <2>1. PICK voter \in Voters, id \in Ids, support \in Ballots : CastVote(voter, id, support)
    BY <1>6
  <2>2. /\ \A i \in Existing : i \in Existing' /\ Carried(i)
        /\ UNCHANGED <<queuedTransactions, foreign>>
    BY <2>1, <1>c, CastVoteOne DEF Existing
  <2> QED
    BY <2>2, <1>0, <1>a, <1>b
<1>7. CASE \E id \in Ids : Queue(id)
  <2>1. PICK id \in Ids : Queue(id)
    BY <1>7
  <2>2. Sound(id) /\ id \in Existing /\ id \in Existing'
    BY <2>1, QueueOne DEF AllSound
  <2>3. ~ proposals[id].canceled /\ proposals[id].eta = 0 /\ ~ proposals[id].executed
    BY <2>1, <2>2, QueueOne, StatusOf DEF Sound
  <2>4. \A i \in Existing : i # id => i \in Existing' /\ Carried(i)
    BY <2>1, <1>c, QueueOne DEF Existing
  <2>5. \A entry : ~ Owned(entry, id)
    BY <2>3 DEF Owned, Waits
  <2>6. \A entry \in Entries(proposals[id].actions, now + delay) : Owned(entry, id)'
    <3>1. /\ proposals'[id].actions = proposals[id].actions /\ proposals'[id].eta = now + delay
          /\ proposals'[id].canceled = proposals[id].canceled
          /\ proposals'[id].executed = proposals[id].executed
      BY <2>1, QueueOne DEF Proposal
    <3>2. now + delay # 0
      <4>1. now + delay \in Nat /\ now + delay > 0
        BY <2>1, QueueEffect
      <4> QED
        BY <4>1
    <3> QED
      BY <2>2, <2>3, <3>1, <3>2 DEF Owned, Waits, EntriesOf, Entries
  <2>7. \A entry \in queuedTransactions \ foreign : \E i \in Existing' : Owned(entry, i)'
    BY <2>4, <2>5, <1>0, <1>b
  <2> QED
    BY <2>1, <2>2, <2>6, <2>7, <1>a, QueueOne
<1>8. CASE \E id \in Ids : Execute(id)
  <2>1. PICK id \in Ids : Execute(id)
    BY <1>8
  <2>2. \A i \in Existing : i # id => i \in Existing' /\ Carried(i)
    BY <2>1, <1>c, ExecuteOne DEF Existing
  <2>3. queuedTransactions' = queuedTransactions \ EntriesOf(id) /\ foreign' = foreign
    BY <2>1, ExecuteOne
  <2>4. \A entry \in queuedTransactions' : ~ Owned(entry, id)
    BY <2>3 DEF Owned
  <2> QED
    BY <2>2, <2>3, <2>4, <1>0, <1>a, <1>b
<1>9. CASE \E sender \in Account, id \in Ids : Cancel(sender, id)
  <2>1. PICK sender \in Account, id \in Ids : Cancel(sender, id)
    BY <1>9
  <2>2. \A i \in Existing : i # id => i \in Existing' /\ Carried(i)
    BY <2>1, <1>c, CancelOne DEF Existing
  <2>3. queuedTransactions' = queuedTransactions \ EntriesOf(id) /\ foreign' = foreign
    BY <2>1, CancelOne
  <2>4. \A entry \in queuedTransactions' : ~ Owned(entry, id)
    BY <2>3 DEF Owned
  <2> QED
    BY <2>2, <2>3, <2>4, <1>0, <1>a, <1>b
<1> QED
  BY <1>1, <1>2, <1>3, <1>4, <1>5, <1>6, <1>7, <1>8, <1>9, StepKinds

\* A waiting proposal loses an entry only to a twin that is done.
LEMMA TwinsKept ==
  ASSUME TypeOK, Level, Counted, AllSound, LostToTwins, [Next]_vars
  PROVE  LostToTwins'
<1> DEFINE Lost(entry, id) == /\ id \in Existing /\ Waits(id) /\ entry \in EntriesOf(id)
                              /\ entry \notin queuedTransactions \cup foreign
           Twin(entry, id) == \E twin \in Existing \ {id} : entry \in EntriesOf(twin) /\ Done(twin)
<1>0. \A entry, id : Lost(entry, id) => Twin(entry, id)
  BY DEF LostToTwins
<1>a. ASSUME \A entry, id : Lost(entry, id)' => Twin(entry, id)'
      PROVE  LostToTwins'
  BY <1>a DEF LostToTwins
\* Proposals may be carried along while the entries shrink by none.
<1>b. ASSUME \A i \in Existing : i \in Existing' /\ Carried(i),
             \A i \in Existing' : i \in Existing \/ ~ Waits(i)',
             queuedTransactions \cup foreign \subseteq queuedTransactions' \cup foreign'
      PROVE  LostToTwins'
  <2> SUFFICES ASSUME NEW entry, NEW id, Lost(entry, id)' PROVE Twin(entry, id)'
    BY <1>a
  <2>1. id \in Existing
    BY <1>b
  <2>2. Lost(entry, id)
    BY <1>b, <2>1 DEF Waits, EntriesOf, Carried, Entries
  <2>3. PICK twin \in Existing \ {id} : entry \in EntriesOf(twin) /\ Done(twin)
    BY <2>2, <1>0
  <2>4. twin \in Existing' \ {id} /\ entry \in EntriesOf(twin)' /\ Done(twin)'
    BY <1>b, <2>3 DEF EntriesOf, Done, Carried, Entries
  <2> QED
    BY <2>4
\* One proposal is done and takes its entries with it.
<1>d. ASSUME NEW one \in Existing, Existing' = Existing,
             \A i \in Existing : i # one => Carried(i),
             proposals'[one].actions = proposals[one].actions,
             proposals'[one].eta = proposals[one].eta,
             Done(one)',
             queuedTransactions' = queuedTransactions \ EntriesOf(one), foreign' = foreign
      PROVE  LostToTwins'
  <2> SUFFICES ASSUME NEW entry, NEW id, Lost(entry, id)' PROVE Twin(entry, id)'
    BY <1>a
  <2>1. id \in Existing /\ id # one
    BY <1>d DEF Waits, Done
  <2>2. entry \in EntriesOf(id) /\ Waits(id)
    BY <1>d, <2>1 DEF Waits, EntriesOf, Carried, Entries
  <2>3. \A twin \in Existing : EntriesOf(twin)' = EntriesOf(twin) /\ (Done(twin) => Done(twin)')
    BY <1>d DEF EntriesOf, Entries, Carried, Done
  <2>4. CASE entry \in EntriesOf(one)
    BY <1>d, <2>1, <2>3, <2>4
  <2>5. CASE entry \notin EntriesOf(one)
    <3>1. Lost(entry, id)
      BY <1>d, <2>1, <2>2, <2>5
    <3>2. PICK twin \in Existing \ {id} : entry \in EntriesOf(twin) /\ Done(twin)
      BY <3>1, <1>0
    <3> QED
      BY <1>d, <2>3, <3>2
  <2> QED
    BY <2>4, <2>5
<1>c. ASSUME NEW i, proposals'[i] = proposals[i] PROVE Carried(i)
  BY <1>c DEF Carried
<1> HIDE DEF Lost, Twin
<1>1. CASE Quiet
  BY <1>1, <1>b, <1>c, QuietEffect DEF proposalVars
<1>2. CASE Initiation
  BY <1>2, InitiateEmpty DEF Initiation, LostToTwins
<1>3. CASE Time
  BY <1>3, <1>b, <1>c, TimeEffect
<1>4. CASE UNCHANGED vars
  BY <1>4, <1>b, <1>c, Unchanged
<1>5. CASE \E proposer \in Voters, actions \in Actions : Propose(proposer, actions)
  <2>1. PICK proposer \in Voters, actions \in Actions : Propose(proposer, actions)
    BY <1>5
  <2>2. PICK id, start, end :
          /\ id \notin Existing /\ Existing' = Existing \cup {id}
          /\ proposals'[id] = NewProposal(proposer, actions, start, end)
          /\ \A i \in Ids : i # id => proposals'[i] = proposals[i]
          /\ UNCHANGED <<queuedTransactions, foreign>>
    BY <2>1, ProposeEffect
  <2>3. \A i \in Existing : i \in Existing' /\ Carried(i)
    BY <2>2, <1>c DEF Existing
  <2>4. ~ Waits(id)'
    BY <2>2 DEF Waits, NewProposal
  <2> QED
    BY <2>2, <2>3, <2>4, <1>b
<1>6. CASE \E voter \in Voters, id \in Ids, support \in Ballots : CastVote(voter, id, support)
  <2>1. PICK voter \in Voters, id \in Ids, support \in Ballots : CastVote(voter, id, support)
    BY <1>6
  <2>2. /\ Existing' = Existing
        /\ \A i \in Existing : Carried(i)
        /\ UNCHANGED <<queuedTransactions, foreign>>
    BY <2>1, <1>c, CastVoteOne DEF Existing
  <2> QED
    BY <2>2, <1>b
<1>7. CASE \E id \in Ids : Queue(id)
  <2>1. PICK id \in Ids : Queue(id)
    BY <1>7
  <2>2. id \in Existing /\ Sound(id) /\ Existing' = Existing
    BY <2>1, QueueOne DEF AllSound
  <2>3. ~ Done(id)
    BY <2>1, <2>2, QueueOne, StatusOf DEF Sound, Done
  <2>4. \A i \in Existing : i # id => Carried(i)
    BY <2>1, <1>c, QueueOne DEF Existing
  <2>5. EntriesOf(id)' \subseteq queuedTransactions' /\ foreign' = foreign
        /\ queuedTransactions \subseteq queuedTransactions'
    <3>1. proposals'[id].actions = proposals[id].actions /\ proposals'[id].eta = now + delay
      BY <2>1, QueueOne DEF Proposal
    <3>2. queuedTransactions' = queuedTransactions \cup Entries(proposals[id].actions, now + delay)
          /\ foreign' = foreign
      BY <2>1, QueueOne
    <3> QED
      BY <3>1, <3>2 DEF EntriesOf, Entries
  <2> SUFFICES ASSUME NEW entry, NEW i, Lost(entry, i)' PROVE Twin(entry, i)'
    BY <1>a
  <2>6. i # id /\ i \in Existing
    BY <2>2, <2>5 DEF Lost
  <2>7. Lost(entry, i)
    BY <2>4, <2>5, <2>6 DEF Lost, Waits, EntriesOf, Carried, Entries
  <2>8. PICK twin \in Existing \ {i} : entry \in EntriesOf(twin) /\ Done(twin)
    BY <2>7, <1>0 DEF Twin
  <2>9. twin # id
    BY <2>3, <2>8
  <2>10. entry \in EntriesOf(twin)' /\ Done(twin)'
    BY <2>4, <2>8, <2>9 DEF EntriesOf, Entries, Done, Carried
  <2> QED
    BY <2>2, <2>8, <2>10 DEF Twin
<1>8. CASE \E id \in Ids : Execute(id)
  <2>1. PICK id \in Ids : Execute(id)
    BY <1>8
  <2>2. \A i \in Existing : i # id => Carried(i)
    BY <2>1, <1>c, ExecuteOne DEF Existing
  <2>3. /\ proposals'[id].actions = proposals[id].actions
        /\ proposals'[id].eta = proposals[id].eta
        /\ Done(id)'
    BY <2>1, ExecuteOne DEF Proposal, Done
  <2> QED
    BY <2>1, <2>2, <2>3, <1>d, ExecuteOne
<1>9. CASE \E sender \in Account, id \in Ids : Cancel(sender, id)
  <2>1. PICK sender \in Account, id \in Ids : Cancel(sender, id)
    BY <1>9
  <2>2. \A i \in Existing : i # id => Carried(i)
    BY <2>1, <1>c, CancelOne DEF Existing
  <2>3. /\ proposals'[id].actions = proposals[id].actions
        /\ proposals'[id].eta = proposals[id].eta
        /\ Done(id)'
    BY <2>1, CancelOne, ZenonT(40) DEF Proposal, Done
  <2> QED
    BY <2>1, <2>2, <2>3, <1>d, CancelOne
<1> QED
  BY <1>1, <1>2, <1>3, <1>4, <1>5, <1>6, <1>7, <1>8, <1>9, StepKinds

\* No step leaves a live proposal that is not its proposer's latest.
LEMMA LatestKept ==
  ASSUME TypeOK, Level, Counted, AllSound, LatestLive, [Next]_vars
  PROVE  LatestLive'
<1>b. ASSUME Existing' = Existing, latestProposalIds' = latestProposalIds,
             \A i \in Existing : /\ proposals'[i].proposer = proposals[i].proposer
                                 /\ Live(i)' => Live(i)
      PROVE  LatestLive'
  BY <1>b DEF LatestLive
<1>c. ASSUME NEW i, proposals'[i] = proposals[i], UNCHANGED block
      PROVE  proposals'[i].proposer = proposals[i].proposer /\ (Live(i)' => Live(i))
  BY <1>c DEF Live
<1>1. CASE Quiet
  BY <1>1, <1>b, <1>c, QuietEffect DEF proposalVars
<1>2. CASE Initiation
  BY <1>2, InitiateEmpty DEF Initiation, LatestLive
<1>3. CASE Time
  <2>1. \A i \in Existing : proposals[i].endBlock \in Nat
    BY Fields DEF Existing, TypeOK
  <2>2. \A i \in Existing : Live(i)' => Live(i)
    BY <1>3, <2>1, TimeEffect DEF Live
  <2> QED
    BY <1>3, <2>2, <1>b, TimeEffect
<1>4. CASE UNCHANGED vars
  BY <1>4, <1>b, <1>c, Unchanged
<1>5. CASE \E proposer \in Voters, actions \in Actions : Propose(proposer, actions)
  <2>1. PICK proposer \in Voters, actions \in Actions : Propose(proposer, actions)
    BY <1>5
  <2>2. PICK id, start, end :
          /\ id \in Ids /\ id \notin Existing /\ Existing' = Existing \cup {id}
          /\ proposals'[id] = NewProposal(proposer, actions, start, end)
          /\ \A i \in Ids : i # id => proposals'[i] = proposals[i]
          /\ latestProposalIds' = [latestProposalIds EXCEPT ![proposer] = id]
          /\ UNCHANGED block
    BY <2>1, ProposeEffect
  <2>3. proposer \in Account /\ DOMAIN latestProposalIds = Account
    BY Constants DEF TypeOK, ProposalsTypeOK
  <2>4. proposals'[id].proposer = proposer
    BY <2>2 DEF NewProposal
  <2> SUFFICES ASSUME NEW i \in Existing', Live(i)'
               PROVE  latestProposalIds'[proposals'[i].proposer] = i
    BY DEF LatestLive
  <2>5. CASE i = id
    BY <2>2, <2>3, <2>4, <2>5
  <2>6. CASE i # id
    <3>1. i \in Existing /\ i \in Ids /\ proposals'[i] = proposals[i]
      BY <2>2, <2>6 DEF Existing
    <3>2. Live(i) /\ latestProposalIds[proposals[i].proposer] = i
      BY <2>2, <3>1, <1>c DEF LatestLive
    <3>3. proposals[i].proposer # proposer
      <4>1. i # 0
        BY <3>1, Constants DEF Ids
      <4>2. StateOf(i) \in {"Pending", "Active"}
        BY <3>1, <3>2, StatusOf DEF AllSound
      <4>3. LatestIsOver(proposer)
        BY <2>1 DEF Propose
      <4> QED
        BY <3>2, <4>1, <4>2, <4>3 DEF LatestIsOver
    <3>4. proposals[i].proposer \in Account
      BY <3>1, Fields DEF Existing, TypeOK
    <3> QED
      BY <2>2, <2>3, <3>1, <3>2, <3>3, <3>4
  <2> QED
    BY <2>5, <2>6
<1>6. CASE \E voter \in Voters, id \in Ids, support \in Ballots : CastVote(voter, id, support)
  <2>1. PICK voter \in Voters, id \in Ids, support \in Ballots : CastVote(voter, id, support)
    BY <1>6
  <2>2. proposals'[id].proposer = proposals[id].proposer /\ (Live(id)' => Live(id))
    BY <2>1, CastVoteOne DEF Live, Carried
  <2>3. \A i \in Existing : i # id => proposals'[i] = proposals[i]
    BY <2>1, CastVoteOne DEF Existing
  <2> QED
    BY <2>1, <2>2, <2>3, <1>b, <1>c, CastVoteOne
<1>7. CASE \E id \in Ids : Queue(id)
  <2>1. PICK id \in Ids : Queue(id)
    BY <1>7
  <2>2. proposals'[id].proposer = proposals[id].proposer /\ (Live(id)' => Live(id))
    BY <2>1, QueueOne DEF Live, Proposal
  <2>3. \A i \in Existing : i # id => proposals'[i] = proposals[i]
    BY <2>1, QueueOne DEF Existing
  <2> QED
    BY <2>1, <2>2, <2>3, <1>b, <1>c, QueueOne
<1>8. CASE \E id \in Ids : Execute(id)
  <2>1. PICK id \in Ids : Execute(id)
    BY <1>8
  <2>2. proposals'[id].proposer = proposals[id].proposer /\ (Live(id)' => Live(id))
    BY <2>1, ExecuteOne DEF Live, Proposal
  <2>3. \A i \in Existing : i # id => proposals'[i] = proposals[i]
    BY <2>1, ExecuteOne DEF Existing
  <2> QED
    BY <2>1, <2>2, <2>3, <1>b, <1>c, ExecuteOne
<1>9. CASE \E sender \in Account, id \in Ids : Cancel(sender, id)
  <2>1. PICK sender \in Account, id \in Ids : Cancel(sender, id)
    BY <1>9
  <2>2. proposals'[id].proposer = proposals[id].proposer /\ (Live(id)' => Live(id))
    BY <2>1, CancelOne DEF Live, Proposal
  <2>3. \A i \in Existing : i # id => proposals'[i] = proposals[i]
    BY <2>1, CancelOne DEF Existing
  <2> QED
    BY <2>1, <2>2, <2>3, <1>b, <1>c, CancelOne
<1> QED
  BY <1>1, <1>2, <1>3, <1>4, <1>5, <1>6, <1>7, <1>8, <1>9, StepKinds

IInv == TypeOK /\ Level /\ Counted /\ AllSound /\ NoOrphanEntries /\ LostToTwins /\ LatestLive

LEMMA InitIInv == Init => IInv
<1> SUFFICES ASSUME Init PROVE IInv
  OBVIOUS
<1>1. queuedTransactions = {}
  BY DEF Init, TimelockInit
<1>2. NoOrphanEntries
  BY <1>1 DEF NoOrphanEntries
<1>3. AllSound /\ LostToTwins /\ LatestLive
  BY InitCounts DEF AllSound, LostToTwins, LatestLive
<1> QED
  BY <1>2, <1>3, InitType, InitLevel, InitCounted DEF IInv

LEMMA StepIInv == IInv /\ [Next]_vars => IInv'
BY TypeKept, LevelKept, CountedKept, SoundKept, OrphansKept, TwinsKept, LatestKept DEF IInv

\* Whatever the voters, the proposals executed and another admin of the timelock do,
\* proposals, tallies and timelock entries stay tied as IInv says.
THEOREM GovernorInvariant == Spec => []IInv
BY InitIInv, StepIInv, PTL DEF Spec

\* After any order of queueing, cancelling and executing, nothing is left in the
\* timelock that could run without a proposal that waits for it.
THEOREM NoOrphans == Spec => []NoOrphanEntries
<1>1. IInv => NoOrphanEntries
  BY DEF IInv
<1> QED
  BY <1>1, GovernorInvariant, PTL

\* A queued proposal loses an entry only to a twin that was cancelled or executed.
THEOREM OnlyTwinsTake == Spec => []LostOnlyToATwin
<1>1. IInv => LostOnlyToATwin
  <2> SUFFICES ASSUME IInv, NEW id \in Existing, StateOf(id) = "Queued",
                      NEW entry \in Entries(proposals[id].actions, proposals[id].eta)
                                     \ (queuedTransactions \cup foreign)
               PROVE  \E twin \in Existing \ {id} :
                        /\ entry \in Entries(proposals[twin].actions, proposals[twin].eta)
                        /\ proposals[twin].canceled \/ proposals[twin].executed
    BY DEF LostOnlyToATwin
  <2>1. Waits(id)
    BY QueuedMeans DEF Waits
  <2> QED
    BY <2>1 DEF IInv, LostToTwins, EntriesOf, Done
<1> QED
  BY <1>1, GovernorInvariant, PTL

\* A proposer has at most one proposal pending or active, however the delay and
\* the period of votes change between its proposals.
THEOREM OneLive == Spec => []OneLiveProposal
<1>1. IInv => OneLiveProposal
  <2> SUFFICES ASSUME IInv, NEW a \in Account
               PROVE  Cardinality({id \in Existing : /\ proposals[id].proposer = a
                                     /\ StateOf(id) \in {"Pending", "Active"}}) <= 1
    BY DEF OneLiveProposal
  <2> DEFINE live == {id \in Existing : /\ proposals[id].proposer = a
                                        /\ StateOf(id) \in {"Pending", "Active"}}
  <2>1. \A id \in live : id = latestProposalIds[a]
    <3> SUFFICES ASSUME NEW id \in live PROVE id = latestProposalIds[a]
      OBVIOUS
    <3>1. id \in Existing /\ Sound(id) /\ TypeOK /\ LatestLive
      BY DEF IInv, AllSound
    <3>2. Live(id)
      BY <3>1, StatusOf
    <3> QED
      BY <3>1, <3>2 DEF LatestLive
  <2> HIDE DEF live
  <2>2. live = {} \/ live = {latestProposalIds[a]}
    BY <2>1
  <2>3. Cardinality(live) = 0 \/ Cardinality(live) = 1
    <3>1. Cardinality({}) = 0
      BY FS_EmptySet
    <3>2. Cardinality({latestProposalIds[a]}) = 1
      BY FS_Singleton
    <3> QED
      BY <2>2, <3>1, <3>2
  <2> QED
    BY <2>3 DEF live
<1> QED
  BY <1>1, GovernorInvariant, PTL

-----------------------------------------------------------------------------
(* Every vote counts once. *)

\* What those who have voted on a proposal had at its start block.
Power(p) ==
  [a \in Account |-> IF p.receipts[a].hasVoted THEN PriorVotes(a, p.startBlock) ELSE 0]

\* The tally of a proposal is the power of its voters; before its vote it has none.
Weighed(id) ==
  /\ SumFunction(proposals[id].tally) = SumFunction(Power(proposals[id]))
  /\ 1 <= proposals[id].startBlock
  /\ block <= proposals[id].startBlock =>
       \A a \in Account : ~ proposals[id].receipts[a].hasVoted

AllWeighed == \A id \in Existing : Weighed(id)

\* The same lookup after a step.
LaterVotes(a, b) == IF b \in Blocks THEN votesAt'[b][a] ELSE 0

LEMMA PowerNext ==
  ASSUME NEW id
  PROVE  Power(proposals[id])'
           = [a \in Account |-> IF proposals'[id].receipts[a].hasVoted
                                THEN LaterVotes(a, proposals'[id].startBlock) ELSE 0]
BY DEF Power, PriorVotes, LaterVotes

LEMMA SupportsFinite == IsFiniteSet(Supports)
<1>1. IsFiniteSet({}) /\ Supports = (({} \cup {"against"}) \cup {"for"}) \cup {"abstain"}
  BY FS_EmptySet DEF Supports
<1>2. IsFiniteSet({} \cup {"against"})
  BY <1>1, FS_AddElement
<1>3. IsFiniteSet(({} \cup {"against"}) \cup {"for"})
  BY <1>2, FS_AddElement
<1> QED
  BY <1>1, <1>3, FS_AddElement

\* A step that leaves the votes on a proposal and the past alone.
LEMMA StillWeighed ==
  ASSUME TypeOK, TypeOK', NEW id \in Existing, Weighed(id),
         proposals'[id].tally = proposals[id].tally,
         proposals'[id].receipts = proposals[id].receipts,
         proposals'[id].startBlock = proposals[id].startBlock,
         \A b \in Blocks : b < block => votesAt'[b] = votesAt[b],
         block <= block'
  PROVE  Weighed(id)'
<1> DEFINE start == proposals[id].startBlock
           receipts == proposals[id].receipts
           f == [a \in Account |-> IF receipts[a].hasVoted THEN PriorVotes(a, start) ELSE 0]
           g == [a \in Account |-> IF receipts[a].hasVoted THEN LaterVotes(a, start) ELSE 0]
<1>1. /\ start \in Nat /\ block \in Nat /\ block' \in Nat
      /\ proposals'[id].startBlock = start /\ proposals'[id].receipts = receipts
  <2>1. start \in Nat
    BY Fields DEF TypeOK, Existing
  <2>2. block \in Nat /\ block' \in Nat
    BY DEF TypeOK, Blocks
  <2> QED
    BY <2>1, <2>2
<1>2. /\ Power(proposals[id]) = f
      /\ Power(proposals[id])' = g
  BY <1>1, PowerNext DEF Power
<1>3. /\ SumFunction(proposals[id].tally) = SumFunction(Power(proposals[id]))
      /\ 1 <= start
      /\ block <= start => \A a \in Account : ~ receipts[a].hasVoted
  BY DEF Weighed
<1> HIDE DEF start, receipts
<1>4. CASE start < block
  <2>1. \A a \in Account : LaterVotes(a, start) = PriorVotes(a, start)
    BY <1>1, <1>4 DEF PriorVotes, LaterVotes
  <2>2. f = g
    BY <2>1
  <2>3. ~ (block' <= start)
    BY <1>1, <1>4
  <2> QED
    BY <1>1, <1>2, <1>3, <2>2, <2>3 DEF Weighed
<1>5. CASE block <= start
  <2>1. f = g
    BY <1>3, <1>5
  <2> QED
    BY <1>1, <1>2, <1>3, <1>5, <2>1 DEF Weighed
<1> QED
  BY <1>1, <1>4, <1>5

\* Power moves in the current block and the later ones only.
LEMMA QuietPast ==
  ASSUME Quiet
  PROVE  \A b \in Blocks : b < block => votesAt'[b] = votesAt[b]
<1>1. CASE UNCHANGED chainVars
  BY <1>1 DEF chainVars
<1>2. CASE \E src, dst \in Voters : \E votes \in Lots : MoveVotes(src, dst, votes)
  <2>1. PICK src \in Voters, dst \in Voters, votes \in Lots : MoveVotes(src, dst, votes)
    BY <1>2
  <2> DEFINE moved(b) == [votesAt[b] EXCEPT ![src] = @ - votes, ![dst] = @ + votes]
  <2>2. votesAt' = [b \in Blocks |-> IF b < block THEN votesAt[b] ELSE moved(b)]
    BY <2>1 DEF MoveVotes
  <2> HIDE DEF moved
  <2> QED
    BY <2>2
<1>3. CASE ~ \E src, dst \in Voters : \E votes \in Lots : MoveVotes(src, dst, votes)
  <2>1. UNCHANGED chainVars
    BY <1>3 DEF Quiet, CallSetting, ForeignQueue, ForeignCancel, ForeignExecute, AcceptAdmin
  <2> QED
    BY <1>1, <2>1
<1> QED
  BY <1>2, <1>3

\* A vote adds to the tally what its voter had, and its receipt forbids a second one.
LEMMA VoteWeighed ==
  ASSUME TypeOK, NEW voter \in Voters, NEW id \in Ids, NEW support \in Ballots,
         Weighed(id), CastVote(voter, id, support)
  PROVE  Weighed(id)'
<1> DEFINE p == proposals[id]
           q == proposals'[id]
           start == p.startBlock
           votes == PriorVotes(voter, start)
           tally == p.tally
           receipts == p.receipts
           f == Power(p)
           g == Power(q)
<1>1. /\ voter \in Account /\ support \in Supports /\ votes \in Nat
      /\ IsFiniteSet(Account) /\ block \in Nat
  BY Constants, BoundsAssumption, AccountsFinite, PowerType, SMTT(30) DEF Supports, TypeOK, Blocks
<1>2. /\ id \in Existing /\ StateOf(id) = "Active" /\ ~ receipts[voter].hasVoted
      /\ UNCHANGED chainVars
  BY DEF CastVote, Is, Existing
<1>3. /\ p \in Proposal /\ tally \in [Supports -> Nat] /\ receipts \in [Account -> Receipt]
      /\ start \in Nat
  BY <1>2, Fields DEF Existing, TypeOK
<1>4. q = VotedOn(p, voter, support, votes)
  BY <1>2, CastVoteEffect DEF VotesCast, TypeOK, ProposalsTypeOK
<1> DEFINE ballot == [hasVoted |-> TRUE, support |-> support, votes |-> votes]
<1>5. /\ q.tally = [tally EXCEPT ![support] = tally[support] + votes]
      /\ q.receipts = [receipts EXCEPT ![voter] = ballot]
      /\ q.startBlock = start
  <2> HIDE DEF votes
  <2> QED
    BY <1>3, <1>4 DEF VotedOn, Proposal
<1>6. ~ (block <= start)
  BY <1>1, <1>2, <1>3 DEF StateOf
<1>7. /\ f \in [Account -> Nat] /\ g \in [Account -> Nat]
      /\ \A a \in Account \ {voter} : g[a] = f[a]
      /\ f[voter] = 0 /\ g[voter] = votes
  <2>1. \A a \in Account : PriorVotes(a, start) \in Nat
    BY PowerType
  <2>2. f = [a \in Account |-> IF receipts[a].hasVoted THEN PriorVotes(a, start) ELSE 0]
    BY DEF Power
  <2>3. g = [a \in Account |-> IF q.receipts[a].hasVoted THEN PriorVotes(a, start) ELSE 0]
    BY <1>5 DEF Power
  <2>4. /\ q.receipts[voter].hasVoted
        /\ \A a \in Account \ {voter} : q.receipts[a] = receipts[a]
    BY <1>1, <1>3, <1>5
  <2> HIDE DEF f, g, p, q, start, receipts
  <2> QED
    BY <1>1, <1>2, <2>1, <2>2, <2>3, <2>4
<1>8. Power(proposals[id])' = g
  BY <1>2 DEF Power, PriorVotes, chainVars
<1>9. SumFunction(q.tally) = SumFunction(tally) + votes
  <2> DEFINE n == q.tally
  <2>1. /\ tally \in [Supports -> Int] /\ n \in [Supports -> Int] /\ tally[support] \in Nat
        /\ n[support] = tally[support] + votes
        /\ \A s \in Supports \ {support} : n[s] = tally[s]
        /\ SumFunction(tally) \in Nat /\ IsFiniteSet(Supports)
    <3>1. IsFiniteSet(Supports)
      BY SupportsFinite
    <3> HIDE DEF votes, tally, q
    <3> QED
      BY <1>1, <1>3, <1>5, <3>1, SumFunctionNat
  <2> HIDE DEF votes, tally, n
  <2>2. SumFunction(n) = SumFunction(tally) - tally[support] + n[support]
    BY <1>1, <2>1, SumFunctionUpdate
  <2>3. SumFunction(n) = SumFunction(tally) + votes
    BY <1>1, <2>1, <2>2
  <2> QED
    BY <2>3 DEF n
<1>10. SumFunction(g) = SumFunction(f) + votes
  <2>1. f \in [Account -> Int] /\ g \in [Account -> Int]
    <3> HIDE DEF f, g
    <3> QED
      BY <1>7
  <2>2. SumFunction(f) \in Nat
    <3> HIDE DEF f
    <3> QED
      BY <1>1, <1>7, SumFunctionNat
  <2> HIDE DEF f, g, votes
  <2>3. SumFunction(g) = SumFunction(f) - f[voter] + g[voter]
    BY <1>1, <1>7, <2>1, SumFunctionUpdate
  <2> QED
    BY <1>1, <1>7, <2>2, <2>3
<1>11. SumFunction(tally) = SumFunction(f) /\ 1 <= start
  BY DEF Weighed
<1>12. block' = block
  BY <1>2 DEF chainVars
<1>13. SumFunction(q.tally) = SumFunction(Power(proposals[id])')
  BY <1>8, <1>9, <1>10, <1>11
<1> QED
  BY <1>5, <1>6, <1>11, <1>12, <1>13 DEF Weighed

LEMMA ProposedWeighed ==
  ASSUME TypeOK, Counted, NEW proposer \in Voters, NEW actions \in Actions,
         NEW id, id = proposalCount + 1, Propose(proposer, actions)
  PROVE  Weighed(id)'
<1> DEFINE q == proposals'[id]
<1>1. /\ q = NewProposal(proposer, actions, block + votingDelay,
                         block + votingDelay + votingPeriod)
      /\ block' = block
  BY ProposeEffect
<1>2. block \in Nat /\ 1 <= block /\ votingDelay \in Nat
  BY Constants DEF TypeOK, SettingsTypeOK, Blocks
<1>3. /\ q.tally = [s \in Supports |-> 0] /\ q.startBlock = block + votingDelay
      /\ \A a \in Account : q.receipts[a] = NotVoted
  BY <1>1 DEF NewProposal
<1>4. Power(proposals[id])' = [a \in Account |-> 0]
  <2>1. \A a \in Account : ~ q.receipts[a].hasVoted
    BY <1>3 DEF NotVoted
  <2>2. Power(proposals[id])' =
          [a \in Account |-> IF q.receipts[a].hasVoted THEN LaterVotes(a, q.startBlock) ELSE 0]
    BY PowerNext, ZenonT(40)
  <2> HIDE DEF q
  <2> QED
    BY <2>1, <2>2
<1>5. SumFunction([s \in Supports |-> 0]) = 0 /\ SumFunction([a \in Account |-> 0]) = 0
  <2> QED
    BY SupportsFinite, AccountsFinite, SumFunctionZero
<1> QED
  BY <1>2, <1>3, <1>4, <1>5, ProposeEffect DEF Weighed, NotVoted

LEMMA WeighedKept ==
  ASSUME IInv, IInv', AllWeighed, [Next]_vars
  PROVE  AllWeighed'
<1>a. TypeOK /\ TypeOK' /\ Level /\ Counted /\ block \in Nat
  <2>1. TypeOK /\ TypeOK' /\ Level /\ Counted
    BY DEF IInv
  <2> QED
    BY <2>1 DEF TypeOK, Blocks
<1>b. ASSUME NEW i \in Existing, proposals'[i] = proposals[i], block <= block',
             \A b \in Blocks : b < block => votesAt'[b] = votesAt[b]
      PROVE  Weighed(i)'
  BY <1>a, <1>b, StillWeighed DEF AllWeighed
<1>1. CASE Quiet
  BY <1>1, <1>a, <1>b, QuietEffect, QuietPast DEF AllWeighed, proposalVars
<1>2. CASE Initiation
  BY <1>2, <1>a, InitiateEmpty DEF Initiation, AllWeighed
<1>3. CASE Time
  <2>1. votesAt' = votesAt
    BY <1>3 DEF Time, Mine
  <2> QED
    BY <1>3, <1>a, <1>b, <2>1, TimeEffect DEF AllWeighed
<1>4. CASE UNCHANGED vars
  <2>1. votesAt' = votesAt
    BY <1>4 DEF vars, chainVars
  <2> QED
    BY <1>4, <1>a, <1>b, <2>1, Unchanged DEF AllWeighed
<1>5. CASE \E proposer \in Voters, actions \in Actions : Propose(proposer, actions)
  <2>1. PICK proposer \in Voters, actions \in Actions : Propose(proposer, actions)
    BY <1>5
  <2>2. votesAt' = votesAt
    BY <2>1 DEF Propose, chainVars
  <2>3. PICK id \in Ids : id = proposalCount + 1
    BY <1>a, <2>1, ProposeEffect
  <2>4. Weighed(id)'
    BY <1>a, <2>1, <2>3, ProposedWeighed
  <2>5. /\ Existing' = Existing \cup {id} /\ block' = block
        /\ \A i \in Ids : i # id => proposals'[i] = proposals[i]
        /\ id \notin Existing
    BY <1>a, <2>1, <2>3, ProposeEffect
  <2>6. ASSUME NEW i \in Existing PROVE Weighed(i)'
    BY <1>a, <1>b, <2>2, <2>5 DEF Existing
  <2> QED
    BY <2>4, <2>5, <2>6 DEF AllWeighed
<1>6. CASE \E voter \in Voters, id \in Ids, support \in Ballots : CastVote(voter, id, support)
  <2>1. PICK voter \in Voters, id \in Ids, support \in Ballots : CastVote(voter, id, support)
    BY <1>6
  <2>2. votesAt' = votesAt
    BY <2>1 DEF CastVote, chainVars
  <2>3. /\ id \in Existing /\ Existing' = Existing /\ block' = block
        /\ \A i \in Ids : i # id => proposals'[i] = proposals[i]
    BY <1>a, <2>1, CastVoteOne
  <2>4. Weighed(id)'
    BY <1>a, <2>1, <2>3, VoteWeighed DEF AllWeighed
  <2> QED
    BY <1>a, <1>b, <2>2, <2>3, <2>4 DEF AllWeighed, Existing
<1>7. ASSUME NEW id \in Ids, UNCHANGED <<block, votesAt>>, Existing' = Existing,
             \A i \in Ids : i # id => proposals'[i] = proposals[i],
             proposals'[id].tally = proposals[id].tally,
             proposals'[id].receipts = proposals[id].receipts,
             proposals'[id].startBlock = proposals[id].startBlock
      PROVE  AllWeighed'
  <2>1. ASSUME NEW i \in Existing PROVE Weighed(i)'
    <3>1. /\ proposals'[i].tally = proposals[i].tally
          /\ proposals'[i].receipts = proposals[i].receipts
          /\ proposals'[i].startBlock = proposals[i].startBlock
      BY <1>7 DEF Existing
    <3>2. block <= block' /\ \A b \in Blocks : b < block => votesAt'[b] = votesAt[b]
      BY <1>7, <1>a
    <3> QED
      BY <1>a, <3>1, <3>2, StillWeighed DEF AllWeighed
  <2> QED
    BY <1>7, <2>1 DEF AllWeighed
<1>8. CASE \E id \in Ids : Queue(id)
  <2>1. PICK id \in Ids : Queue(id)
    BY <1>8
  <2>2. votesAt' = votesAt
    BY <2>1 DEF Queue, chainVars
  <2>3. /\ UNCHANGED <<block, votesAt>> /\ Existing' = Existing
        /\ \A i \in Ids : i # id => proposals'[i] = proposals[i]
    BY <1>a, <2>1, <2>2, QueueOne
  <2>4. /\ proposals'[id].tally = proposals[id].tally
        /\ proposals'[id].receipts = proposals[id].receipts
        /\ proposals'[id].startBlock = proposals[id].startBlock
    BY <1>a, <2>1, QueueOne DEF Proposal
  <2> QED
    BY <1>7, <2>3, <2>4
<1>9. CASE \E id \in Ids : Execute(id)
  <2>1. PICK id \in Ids : Execute(id)
    BY <1>9
  <2>2. votesAt' = votesAt
    BY <2>1 DEF Execute, chainVars
  <2>3. /\ UNCHANGED <<block, votesAt>> /\ Existing' = Existing
        /\ \A i \in Ids : i # id => proposals'[i] = proposals[i]
    BY <1>a, <2>1, <2>2, ExecuteOne
  <2>4. /\ proposals'[id].tally = proposals[id].tally
        /\ proposals'[id].receipts = proposals[id].receipts
        /\ proposals'[id].startBlock = proposals[id].startBlock
    BY <1>a, <2>1, ExecuteOne DEF Proposal
  <2> QED
    BY <1>7, <2>3, <2>4
<1>10. CASE \E sender \in Account, id \in Ids : Cancel(sender, id)
  <2>1. PICK sender \in Account, id \in Ids : Cancel(sender, id)
    BY <1>10
  <2>2. votesAt' = votesAt
    BY <2>1 DEF Cancel, chainVars
  <2>3. /\ UNCHANGED <<block, votesAt>> /\ Existing' = Existing
        /\ \A i \in Ids : i # id => proposals'[i] = proposals[i]
    BY <1>a, <2>1, <2>2, CancelOne
  <2>4. /\ proposals'[id].tally = proposals[id].tally
        /\ proposals'[id].receipts = proposals[id].receipts
        /\ proposals'[id].startBlock = proposals[id].startBlock
    BY <1>a, <2>1, CancelOne, ZenonT(40) DEF Proposal
  <2> QED
    BY <1>7, <2>3, <2>4
<1> QED
  BY <1>1, <1>2, <1>3, <1>4, <1>5, <1>6, <1>8, <1>9, <1>10, StepKinds

\* A vote's weight is looked up at the proposal's start block, which is over: however
\* power moves while the vote is open and whoever votes with it, the tally of a
\* proposal never exceeds the power there was.
THEOREM VotesOnce == Spec => []VotesCountOnce
<1>1. Init => AllWeighed
  BY InitCounts DEF AllWeighed
<1>2. IInv /\ AllWeighed => VotesCountOnce
  <2> SUFFICES ASSUME IInv, AllWeighed, NEW id \in Existing
               PROVE  SumFunction(proposals[id].tally)
                        <= IF proposals[id].startBlock < block
                           THEN SumFunction(votesAt[proposals[id].startBlock]) ELSE 0
    BY DEF VotesCountOnce
  <2> DEFINE p == proposals[id]
             start == p.startBlock
             f == Power(p)
             g == votesAt[start]
  <2>1. /\ start \in Nat /\ 1 <= start /\ SumFunction(p.tally) = SumFunction(f)
        /\ block <= start => \A a \in Account : ~ p.receipts[a].hasVoted
        /\ block \in Nat /\ block <= MaxBlock /\ MaxBlock \in Nat /\ IsFiniteSet(Account)
    BY Fields, Constants, AccountsFinite DEF IInv, AllWeighed, Weighed, TypeOK, Existing, Blocks
  <2>2. \A a \in Account : PriorVotes(a, start) \in Nat
    BY PowerType DEF IInv
  <2>3. f = [a \in Account |-> IF p.receipts[a].hasVoted THEN PriorVotes(a, start) ELSE 0]
    BY DEF Power
  <2>4. CASE start < block
    <3>1. start \in Blocks /\ g \in [Account -> Nat]
      BY <2>1, <2>4 DEF Blocks, IInv, TypeOK
    <3>2. \A a \in Account : PriorVotes(a, start) = g[a]
      BY <3>1 DEF PriorVotes
    <3> HIDE DEF f, g, p, start
    <3>3. /\ f \in [Account -> Int] /\ g \in [Account -> Int]
          /\ \A a \in Account : f[a] <= g[a]
      BY <2>2, <2>3, <3>1, <3>2
    <3>4. SumFunction(f) <= SumFunction(g)
      BY <2>1, <3>3, SumFunctionLeq
    <3> QED
      BY <2>1, <2>4, <3>4 DEF g, p, start
  <2>5. CASE ~ (start < block)
    <3>1. f = [a \in Account |-> 0]
      BY <2>1, <2>3, <2>5
    <3>2. SumFunction([a \in Account |-> 0]) = 0
      BY <2>1, SumFunctionZero
    <3> QED
      BY <2>1, <2>5, <3>1, <3>2
  <2> QED
    BY <2>4, <2>5
<1>3. IInv /\ AllWeighed /\ [Next]_vars => IInv' /\ AllWeighed'
  BY StepIInv, WeighedKept
<1> QED
  BY <1>1, <1>2, <1>3, InitIInv, PTL DEF Spec

-----------------------------------------------------------------------------
(* The governor implements the life cycle. *)

LEMMA StatusType ==
  ASSUME IInv
  PROVE  /\ Status \in [Ids -> Lifecycle!Statuses]
         /\ \A id \in Ids : Status[id] = "None" <=> id \notin Existing
         /\ \A id \in Existing : Status[id] = StateOf(id)
<1>1. \A id \in Existing : id \in Ids /\ Status[id] = StateOf(id)
  BY DEF Status, Existing
<1>2. \A id \in Ids : id \notin Existing => Status[id] = "None"
  BY DEF Status, Existing
<1>3. \A id \in Existing : StateOf(id) \in {"Canceled", "Pending", "Active", "Defeated",
                                "Succeeded", "Executed", "Expired", "Queued"}
  BY StatusOf DEF IInv, AllSound
<1>4. \A id \in Ids : Status[id] \in Lifecycle!Statuses
  BY <1>1, <1>2, <1>3 DEF Lifecycle!Statuses
<1>5. Status = [id \in Ids |-> Status[id]]
  BY DEF Status
<1> QED
  BY <1>1, <1>2, <1>3, <1>4, <1>5

\* The statuses after a step.
LEMMA StatusNext ==
  /\ Status' = [id \in Ids |-> Status'[id]]
  /\ \A id \in Existing' : Status'[id] = StateOf(id)'
  /\ \A id \in Ids : id \notin Existing' => Status'[id] = "None"
<1>1. Status' = [id \in Ids |-> IF Exists(id)' THEN StateOf(id)' ELSE "None"]
  BY DEF Status, Exists, StateOf, Ids
<1>2. Existing' = {id \in Ids : Exists(id)'}
  BY DEF Existing, Exists, Ids
<1> QED
  BY <1>1, <1>2

\* Status is unchanged when existence and every status is.
LEMMA SameStatus ==
  ASSUME IInv, Existing' = Existing, \A id \in Existing : StateOf(id)' = StateOf(id)
  PROVE  Status' = Status
<1>1. \A id \in Ids : Status'[id] = Status[id]
  BY StatusNext, StatusType
<1> QED
  BY <1>1, StatusNext, StatusType

LEMMA SameState ==
  ASSUME NEW id, proposals'[id] = proposals[id], UNCHANGED <<block, now>>
  PROVE  StateOf(id)' = StateOf(id)
BY DEF StateOf

\* A call that moves one proposal along an edge of the life cycle.
LEMMA OneMoves ==
  ASSUME IInv, NEW id \in Ids, Existing' = Existing \cup {id},
         \A i \in Existing \ {id} : StateOf(i)' = StateOf(i),
         NEW to \in Lifecycle!Statuses, StateOf(id)' = to,
         <<Status[id], to>> \in Lifecycle!ByCall
  PROVE  Lifecycle!Call
<1>1. Status'[id] = to
  BY StatusNext
<1>2. \A i \in Ids : i # id => Status'[i] = Status[i]
  BY StatusNext, StatusType
<1>3. Status' = [Status EXCEPT ![id] = to]
  BY <1>1, <1>2, StatusNext, StatusType
<1> QED
  BY <1>3 DEF Lifecycle!Call

\* A block moves a proposal along one edge of time at most.
LEMMA OneElapses ==
  ASSUME IInv, Time, NEW id \in Existing
  PROVE  /\ StateOf(id)' \in Lifecycle!Statuses
         /\ StateOf(id)' # StateOf(id) => <<StateOf(id), StateOf(id)'>> \in Lifecycle!ByTime
<1> DEFINE p == proposals[id]
<1>1. TypeOK /\ Sound(id)
  BY DEF IInv, AllSound
<1>2. /\ p.eta \in Nat /\ p.startBlock \in Nat /\ p.endBlock \in Nat
      /\ p.tally["for"] \in Nat /\ p.tally["against"] \in Nat
      /\ p.canceled \in BOOLEAN /\ p.executed \in BOOLEAN
  BY <1>1, Fields DEF TypeOK, Existing, Supports
<1>3. /\ block' = block + 1 /\ block \in Nat /\ now \in Nat /\ now' \in Nat /\ now' > now
      /\ GracePeriod \in Nat /\ QuorumVotes \in Nat
  BY <1>1, TimeEffect, Constants, GovernorAssumption
<1>4. /\ p.startBlock < p.endBlock
      /\ p.executed => p.eta # 0
      /\ p.eta # 0 => block > p.endBlock /\ Won(p)
  BY <1>1 DEF Sound
<1>5. StateOf(id)' = IF p.canceled THEN "Canceled"
      ELSE IF block' <= p.startBlock THEN "Pending"
      ELSE IF block' <= p.endBlock THEN "Active"
      ELSE IF p.tally["for"] <= p.tally["against"] \/ p.tally["for"] < QuorumVotes
           THEN "Defeated"
      ELSE IF p.eta = 0 THEN "Succeeded"
      ELSE IF p.executed THEN "Executed"
      ELSE IF now' >= p.eta + GracePeriod THEN "Expired"
      ELSE "Queued"
  BY <1>1, TimeEffect DEF StateOf
<1>6. StateOf(id) = IF p.canceled THEN "Canceled"
      ELSE IF block <= p.startBlock THEN "Pending"
      ELSE IF block <= p.endBlock THEN "Active"
      ELSE IF p.tally["for"] <= p.tally["against"] \/ p.tally["for"] < QuorumVotes
           THEN "Defeated"
      ELSE IF p.eta = 0 THEN "Succeeded"
      ELSE IF p.executed THEN "Executed"
      ELSE IF now >= p.eta + GracePeriod THEN "Expired"
      ELSE "Queued"
  BY DEF StateOf
<1> HIDE DEF p
<1>7. StateOf(id)' \in Lifecycle!Statuses
  BY <1>5 DEF Lifecycle!Statuses
<1>8. CASE p.canceled
  BY <1>5, <1>6, <1>7, <1>8
<1>9. CASE ~ p.canceled /\ p.eta = 0
  BY <1>2, <1>3, <1>4, <1>5, <1>6, <1>7, <1>9 DEF Lifecycle!ByTime
<1>10. CASE ~ p.canceled /\ p.eta # 0
  <2>1. block > p.endBlock /\ ~ (p.tally["for"] <= p.tally["against"] \/ p.tally["for"] < QuorumVotes)
    BY <1>2, <1>3, <1>4, <1>10 DEF Won
  <2>2. ~ (block <= p.startBlock) /\ ~ (block <= p.endBlock)
        /\ ~ (block' <= p.startBlock) /\ ~ (block' <= p.endBlock)
    BY <1>2, <1>3, <1>4, <2>1
  <2> QED
    BY <1>2, <1>3, <1>5, <1>6, <1>7, <1>10, <2>1, <2>2 DEF Lifecycle!ByTime
<1> QED
  BY <1>2, <1>8, <1>9, <1>10

LEMMA TimeElapses ==
  ASSUME IInv, Time
  PROVE  Lifecycle!Elapse
<1>1. Existing' = Existing
  BY TimeEffect DEF IInv
<1>2. \A id \in Ids : /\ Status'[id] \in Lifecycle!Statuses
                      /\ Status'[id] # Status[id] => <<Status[id], Status'[id]>> \in Lifecycle!ByTime
  <2> SUFFICES ASSUME NEW id \in Ids
               PROVE  /\ Status'[id] \in Lifecycle!Statuses
                      /\ Status'[id] # Status[id] => <<Status[id], Status'[id]>> \in Lifecycle!ByTime
    OBVIOUS
  <2>1. CASE id \in Existing
    <3>1. Status'[id] = StateOf(id)' /\ Status[id] = StateOf(id)
      BY <1>1, <2>1, StatusNext, StatusType
    <3> QED
      BY <2>1, <3>1, OneElapses
  <2>2. CASE id \notin Existing
    <3>1. Status'[id] = "None" /\ Status[id] = "None"
      BY <1>1, <2>2, StatusNext, StatusType
    <3> QED
      BY <3>1 DEF Lifecycle!Statuses
  <2> QED
    BY <2>1, <2>2
<1>3. Status' \in [Ids -> Lifecycle!Statuses]
  BY <1>2, StatusNext
<1> QED
  BY <1>2, <1>3 DEF Lifecycle!Elapse

LEMMA ProposeMoves ==
  ASSUME IInv, NEW proposer \in Voters, NEW actions \in Actions, Propose(proposer, actions)
  PROVE  Lifecycle!Call
<1>1. PICK id, start, end :
        /\ id \in Ids /\ id \notin Existing /\ Existing' = Existing \cup {id}
        /\ proposals'[id] = NewProposal(proposer, actions, start, end)
        /\ \A i \in Ids : i # id => proposals'[i] = proposals[i]
        /\ start = block + votingDelay
        /\ UNCHANGED <<block, now>>
  BY ProposeEffect DEF IInv
<1>2. \A i \in Existing \ {id} : StateOf(i)' = StateOf(i)
  BY <1>1, SameState DEF Existing
<1>3. block <= start
  BY <1>1, Constants DEF IInv, TypeOK, SettingsTypeOK, Blocks
<1>4. StateOf(id)' = "Pending"
  <2>1. ~ proposals'[id].canceled /\ proposals'[id].startBlock = start
    BY <1>1 DEF NewProposal
  <2> QED
    BY <1>1, <1>3, <2>1 DEF StateOf
<1>5. Status[id] = "None"
  BY <1>1, StatusType
<1>6. <<Status[id], "Pending">> \in Lifecycle!ByCall /\ "Pending" \in Lifecycle!Statuses
  BY <1>5 DEF Lifecycle!ByCall, Lifecycle!Statuses
<1> QED
  BY <1>1, <1>2, <1>4, <1>6, OneMoves

LEMMA VoteMovesNothing ==
  ASSUME IInv, NEW voter \in Voters, NEW id \in Ids, NEW support \in Ballots,
         CastVote(voter, id, support)
  PROVE  Status' = Status
<1>1. \A i \in Existing : i # id => StateOf(i)' = StateOf(i)
  BY CastVoteOne, SameState DEF Existing, IInv
<1>2. StateOf(id) = "Active" /\ id \in Existing
  BY CastVoteOne DEF CastVote, Is, IInv
<1>3. StateOf(id)' = "Active"
  <2>1. ~ proposals[id].canceled /\ ~ (block <= proposals[id].startBlock) /\ block <= proposals[id].endBlock
    BY <1>2 DEF StateOf
  <2>2. ~ proposals'[id].canceled /\ block' = block
        /\ proposals'[id].startBlock = proposals[id].startBlock
        /\ proposals'[id].endBlock = proposals[id].endBlock
    BY <2>1, CastVoteOne DEF Carried, IInv
  <2> QED
    BY <2>1, <2>2 DEF StateOf
<1>4. Existing' = Existing
  BY CastVoteOne DEF IInv
<1> QED
  BY <1>1, <1>2, <1>3, <1>4, SameStatus

LEMMA QueueMoves ==
  ASSUME IInv, NEW id \in Ids, Queue(id)
  PROVE  Lifecycle!Call
<1>1. TypeOK /\ id \in Existing /\ Sound(id) /\ StateOf(id) = "Succeeded" /\ Existing' = Existing
  BY QueueOne DEF IInv, AllSound
<1>2. \A i \in Existing \ {id} : StateOf(i)' = StateOf(i)
  BY <1>1, QueueOne, SameState DEF Existing
<1> DEFINE p == proposals[id]
<1>3. /\ ~ p.canceled /\ ~ (block <= p.startBlock) /\ ~ (block <= p.endBlock) /\ p.eta = 0
      /\ ~ (p.tally["for"] <= p.tally["against"] \/ p.tally["for"] < QuorumVotes)
  BY <1>1 DEF StateOf
<1>4. ~ p.executed
  BY <1>1, <1>3 DEF Sound
<1>5. PICK eta \in Nat : eta = now + delay /\ eta > now /\ eta # 0
  <2>1. now + delay \in Nat /\ now + delay > now /\ now \in Nat
    BY <1>1, QueueOne DEF TypeOK, TimelockTypeOK
  <2>2. now + delay # 0
    BY <2>1
  <2> QED
    BY <2>1, <2>2
<1>6. /\ proposals'[id].canceled = p.canceled /\ proposals'[id].executed = p.executed
      /\ proposals'[id].startBlock = p.startBlock /\ proposals'[id].endBlock = p.endBlock
      /\ proposals'[id].tally = p.tally /\ proposals'[id].eta = eta
      /\ UNCHANGED <<block, now>>
  BY <1>1, <1>5, QueueOne DEF Proposal
<1>7. ~ (now >= eta + GracePeriod)
  BY <1>1, <1>5, Constants DEF TypeOK, TimelockTypeOK
<1>8. StateOf(id)' = "Queued"
  BY <1>3, <1>4, <1>5, <1>6, <1>7 DEF StateOf
<1>9. Status[id] = "Succeeded"
  BY <1>1, StatusType
<1>10. <<Status[id], "Queued">> \in Lifecycle!ByCall /\ "Queued" \in Lifecycle!Statuses
  BY <1>9 DEF Lifecycle!ByCall, Lifecycle!Statuses
<1> QED
  BY <1>1, <1>2, <1>8, <1>10, OneMoves

LEMMA ExecuteMoves ==
  ASSUME IInv, NEW id \in Ids, Execute(id)
  PROVE  Lifecycle!Call
<1>1. TypeOK /\ id \in Existing /\ StateOf(id) = "Queued" /\ Existing' = Existing
  BY ExecuteOne DEF IInv
<1>2. \A i \in Existing \ {id} : StateOf(i)' = StateOf(i)
  BY <1>1, ExecuteOne, SameState DEF Existing
<1> DEFINE p == proposals[id]
<1>3. /\ ~ p.canceled /\ ~ (block <= p.startBlock) /\ ~ (block <= p.endBlock) /\ p.eta # 0
      /\ ~ (p.tally["for"] <= p.tally["against"] \/ p.tally["for"] < QuorumVotes)
  BY <1>1 DEF StateOf
<1>4. /\ proposals'[id].canceled = p.canceled /\ proposals'[id].executed
      /\ proposals'[id].startBlock = p.startBlock /\ proposals'[id].endBlock = p.endBlock
      /\ proposals'[id].tally = p.tally /\ proposals'[id].eta = p.eta
      /\ UNCHANGED <<block, now>>
  BY <1>1, ExecuteOne DEF Proposal
<1>5. StateOf(id)' = "Executed"
  BY <1>3, <1>4 DEF StateOf
<1>6. Status[id] = "Queued"
  BY <1>1, StatusType
<1>7. <<Status[id], "Executed">> \in Lifecycle!ByCall /\ "Executed" \in Lifecycle!Statuses
  BY <1>6 DEF Lifecycle!ByCall, Lifecycle!Statuses
<1> QED
  BY <1>1, <1>2, <1>5, <1>7, OneMoves

LEMMA CancelMoves ==
  ASSUME IInv, NEW sender, NEW id \in Ids, Cancel(sender, id)
  PROVE  Lifecycle!Call \/ Status' = Status
<1>1. TypeOK /\ id \in Existing /\ StateOf(id) # "Executed" /\ Existing' = Existing
  BY CancelOne DEF IInv
<1>2. \A i \in Existing \ {id} : StateOf(i)' = StateOf(i)
  BY <1>1, CancelOne, SameState DEF Existing
<1>3. proposals'[id].canceled
  BY <1>1, CancelOne DEF Proposal
<1>4. StateOf(id)' = "Canceled"
  BY <1>3 DEF StateOf
<1>5. CASE StateOf(id) = "Canceled"
  BY <1>1, <1>2, <1>4, <1>5, SameStatus
<1>6. CASE StateOf(id) # "Canceled"
  <2>1. Status[id] = StateOf(id) /\ Status[id] \in Lifecycle!Statuses /\ Status[id] # "None"
    BY <1>1, StatusType DEF Existing
  <2>2. <<Status[id], "Canceled">> \in Lifecycle!ByCall /\ "Canceled" \in Lifecycle!Statuses
    BY <1>1, <1>6, <2>1 DEF Lifecycle!ByCall, Lifecycle!Statuses
  <2> QED
    BY <1>1, <1>2, <1>4, <2>2, OneMoves
<1> QED
  BY <1>5, <1>6

LEMMA NothingMoves ==
  ASSUME IInv, Quiet \/ Initiation \/ UNCHANGED vars
  PROVE  Status' = Status
<1>1. ASSUME Existing' = Existing, UNCHANGED <<proposals, block, now>>
      PROVE  Status' = Status
  <2>1. \A i \in Existing : StateOf(i)' = StateOf(i)
    BY <1>1, SameState
  <2> QED
    BY <1>1, <2>1, SameStatus
<1>2. CASE Quiet
  BY <1>2, <1>1, QuietEffect DEF proposalVars, IInv
<1>3. CASE Initiation
  <2>1. Existing = {} /\ Existing' = {}
    BY <1>3, InitiateEmpty DEF Initiation, IInv
  <2> QED
    BY <2>1, SameStatus
<1>4. CASE UNCHANGED vars
  BY <1>4, <1>1, Unchanged
<1> QED
  BY <1>2, <1>3, <1>4

LEMMA StepFollows ==
  ASSUME IInv, [Next]_vars
  PROVE  [Lifecycle!Next]_Status
BY StepKinds, NothingMoves, TimeElapses, ProposeMoves, VoteMovesNothing, QueueMoves, ExecuteMoves,
   CancelMoves DEF Lifecycle!Next

\* The governor with its timelock implements ProposalLifecycle: whoever calls
\* what, and however the rules change meanwhile, no proposal skips a vote, a
\* queue or a wait, and none comes back from an end.
THEOREM ImplementsLifecycle == Spec => FollowsLifecycle
<1>1. Init => Lifecycle!Init
  <2> SUFFICES ASSUME Init PROVE Status = [id \in Ids |-> "None"]
    BY DEF Lifecycle!Init
  <2>1. \A id \in Ids : ~ Exists(id)
    BY InitCounts DEF Existing
  <2> QED
    BY <2>1 DEF Status
<1>2. IInv /\ [Next]_vars => [Lifecycle!Next]_Status
  BY StepFollows
<1> QED
  BY <1>1, <1>2, GovernorInvariant, PTL DEF Spec, FollowsLifecycle
=============================================================================
