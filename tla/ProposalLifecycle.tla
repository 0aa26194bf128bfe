-------------------------- MODULE ProposalLifecycle --------------------------
(***************************************************************************)
(* What the governor promises about a proposal, whoever calls what and     *)
(* whenever: the statuses it can pass through (the enum ProposalState of   *)
(* GovernorBravoInterfaces.sol), which of them time alone changes, which   *)
(* one call changes, and that a vote and a queued proposal do not stay     *)
(* open for ever.                                                          *)
(***************************************************************************)
EXTENDS Integers

CONSTANT Ids

VARIABLE status

Statuses == {"None", "Pending", "Active", "Canceled", "Defeated",
             "Succeeded", "Queued", "Expired", "Executed"}

\* Edges of time: a block starts or ends a vote, a timestamp ends the grace period.
ByTime == {<<"Pending", "Active">>, <<"Active", "Defeated">>,
           <<"Active", "Succeeded">>, <<"Queued", "Expired">>}

\* Edges of a call: propose, queue, execute; cancel unless executed.
ByCall == {<<"None", "Pending">>, <<"Succeeded", "Queued">>, <<"Queued", "Executed">>}
            \cup ((Statuses \ {"None", "Executed", "Canceled"}) \X {"Canceled"})

Init == status = [id \in Ids |-> "None"]

\* A block passes: any number of proposals move, each along one edge.
Elapse ==
  /\ status' \in [Ids -> Statuses]
  /\ \A id \in Ids : status'[id] # status[id] => <<status[id], status'[id]>> \in ByTime

\* A call moves one proposal.
Call == \E id \in Ids, to \in Statuses :
  /\ <<status[id], to>> \in ByCall
  /\ status' = [status EXCEPT ![id] = to]

Next == Elapse \/ Call

\* The statuses in which the clock runs are left sooner or later.
Running == {"Pending", "Active", "Queued"}
Resolves == \A id \in Ids : status[id] \in Running ~> status[id] \notin Running

Spec == Init /\ [][Next]_status /\ Resolves
=============================================================================
