------------------------------ MODULE Timelock ------------------------------
(***************************************************************************)
(* The timelock (Timelock.sol): its admin queues a transaction for a time  *)
(* at least `delay` away; from then on, for the grace period, the admin    *)
(* may execute it.  The timelock changes its own settings only by a        *)
(* transaction to itself.                                                  *)
(*                                                                         *)
(* The governor queues, executes and cancels all actions of a proposal in  *)
(* one transaction, so the operations here take a sequence of calls.       *)
(***************************************************************************)
EXTENDS Integers, Sequences, FiniteSets, FiniteSetsExt

CONSTANTS
  Account,           \* addresses that send transactions
  Nobody,            \* address(0)
  TimelockAddress,   \* address(this) of the timelock
  Calls,             \* calls that may be queued: [method |-> string, arg |-> value]
  MinimumDelay, MaximumDelay, GracePeriod,
  FirstAdmin, FirstPendingAdmin, FirstDelay   \* what the deployment leaves behind

ASSUME TimelockAssumption ==
  /\ Nobody \notin Account
  /\ TimelockAddress \in Account
  /\ MinimumDelay \in Nat \ {0} /\ MaximumDelay \in Nat /\ GracePeriod \in Nat
  /\ FirstAdmin \in Account
  /\ FirstPendingAdmin \in Account \cup {Nobody}
  /\ FirstDelay \in MinimumDelay..MaximumDelay
  /\ \A call \in Calls : call.method = "setPendingAdmin" => call.arg \in Account \cup {Nobody}

VARIABLES
  now,                  \* block.timestamp
  admin, pendingAdmin, delay,
  queuedTransactions    \* the set of <<call, eta>> whose hash maps to true

timelockVars == <<admin, pendingAdmin, delay, queuedTransactions>>

Entries(calls, eta) == {<<calls[i], eta>> : i \in DOMAIN calls}

TimelockTypeOK ==
  /\ now \in Nat
  /\ admin \in Account
  /\ pendingAdmin \in Account \cup {Nobody}
  /\ delay \in MinimumDelay..MaximumDelay
  /\ queuedTransactions \subseteq Calls \X Nat

TimelockInit(firstAdmin, firstPendingAdmin) ==
  /\ now = 1
  /\ admin = firstAdmin
  /\ pendingAdmin = firstPendingAdmin
  /\ delay = FirstDelay
  /\ queuedTransactions = {}

\* What the calls leave in a cell that the given methods write.
Written(calls, methods, old) ==
  LET writes == {i \in DOMAIN calls : calls[i].method \in methods}
  IN  IF writes = {} THEN old ELSE calls[Max(writes)].arg

-----------------------------------------------------------------------------

QueueTransactions(sender, calls, eta) ==
  /\ sender = admin
  /\ eta >= now + delay
  /\ queuedTransactions' = queuedTransactions \cup Entries(calls, eta)
  /\ UNCHANGED <<admin, pendingAdmin, delay>>

\* Mutant of CancelTransactions: the time is not part of an entry's identity.
CancelAtAnyTime(sender, calls, eta) ==
  /\ sender = admin
  /\ queuedTransactions' = {entry \in queuedTransactions : \A i \in DOMAIN calls : entry[1] # calls[i]}
  /\ UNCHANGED <<admin, pendingAdmin, delay>>

CancelTransactions(sender, calls, eta) ==
  /\ sender = admin
  /\ queuedTransactions' = queuedTransactions \ Entries(calls, eta)
  /\ UNCHANGED <<admin, pendingAdmin, delay>>

\* setDelay and setPendingAdmin accept calls of the timelock itself only.
SelfCallAllowed(sender, call) ==
  /\ call.method \in {"setDelay", "setPendingAdmin"} => sender = TimelockAddress
  /\ call.method = "setDelay" => call.arg \in MinimumDelay..MaximumDelay

\* Mutant of ExecuteTransactions: an entry is not cleared when it has run.
ExecuteTransactionsAgain(sender, calls, eta) ==
  /\ sender = admin
  /\ Entries(calls, eta) \subseteq queuedTransactions
  /\ now >= eta
  /\ now <= eta + GracePeriod
  /\ \A i \in DOMAIN calls : SelfCallAllowed(TimelockAddress, calls[i])
  /\ delay' = Written(calls, {"setDelay"}, delay)
  /\ pendingAdmin' = Written(calls, {"setPendingAdmin"}, pendingAdmin)
  /\ UNCHANGED <<admin, queuedTransactions>>

ExecuteTransactions(sender, calls, eta) ==
  /\ sender = admin
  /\ Entries(calls, eta) \subseteq queuedTransactions
  /\ now >= eta
  /\ now <= eta + GracePeriod
  /\ queuedTransactions' = queuedTransactions \ Entries(calls, eta)
  /\ \A i \in DOMAIN calls : SelfCallAllowed(TimelockAddress, calls[i])
  /\ delay' = Written(calls, {"setDelay"}, delay)
  /\ pendingAdmin' = Written(calls, {"setPendingAdmin"}, pendingAdmin)
  /\ UNCHANGED admin

AcceptTimelockAdmin(sender) ==
  /\ sender = pendingAdmin
  /\ admin' = sender
  /\ pendingAdmin' = Nobody
  /\ UNCHANGED <<delay, queuedTransactions>>
=============================================================================
