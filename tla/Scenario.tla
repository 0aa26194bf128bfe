------------------------------ MODULE Scenario ------------------------------
(***************************************************************************)
(* The scenario runner (src/scenario/src): a prompt or a script runs lines *)
(* of events against a chain.  The world a line builds is kept only when   *)
(* the whole line succeeds; what is outside the world stays as it is: the  *)
(* chain, the network files, the settings, and the holds on invariants,    *)
(* whose objects the worlds share.  The process may stop at any point and  *)
(* be started again from its files.                                        *)
(***************************************************************************)
EXTENDS MarketCommands, TokenCommands, GovernanceCommands, FiniteSets, FiniteSetsExt

CONSTANTS
  \* Lines of events a user enters, first and later on: bounds of the model.
  FirstLines, LaterLines,
  Contracts,         \* names of contracts
  Proxy, Target,     \* a proxy, and the name its ABI merged with another's gets
  Root,              \* the account of a network, or NoAccount
  \* Bounds of the model: transactions and deployments, sessions, the lines and the
  \* invariants of a session.
  MaxSent, MaxDeployed, MaxStarts, MaxLines, MaxInvariants

NoAccount == "no account"
NoContract == 0
Fake == -1           \* the random address a dry run gives

\* The parts of an event that wrap the rest of it.
Wraps == {"From", "Trx", "Gate", "Given", "Block"}

\* An event, as it is parsed: its wrappers and the command they are about.
IsEvent(e) ==
  /\ e \in Seq(Seq(STRING)) /\ e # <<>>
  /\ \A k \in DOMAIN e : e[k] # <<>> /\ (e[k][1] \in Wraps <=> k < Len(e))

ASSUME ScenarioAssumption ==
  /\ {Proxy, Target} \subseteq Contracts
  /\ {MaxSent, MaxDeployed, MaxStarts, MaxLines, MaxInvariants} \subseteq Nat

ASSUME LinesAssumption ==
  \A line \in FirstLines \cup LaterLines :
    line \in Seq(Seq(Seq(STRING))) /\ line # <<>> /\ \A i \in DOMAIN line : IsEvent(line[i])

VARIABLES
  \* The process: what it is doing, its mode, and the world the prompt holds.
  pc, script, dryRun, base,
  \* The line being run: its world, the events after this one, the event as it
  \* was typed, what is left of it, the table it has reached or what its command
  \* does, and its sender.
  world, queue, typed, event, handler, from,
  \* What is shared by the worlds: the invariants' objects and the alias Me.
  objects, me,
  \* A contract being saved, and an ABI merge nobody waits for.
  save, task,
  \* Beyond the process.
  chain, file,
  \* History: HoldInvariants commands, whether a success invariant ever went, lines
  \* taken back in this session and in all, saves cut short, merges not waited for.
  holds, cleared, takenBack, rollbacks, interrupted, merges,
  lines, starts

processVars == <<pc, script, dryRun, base>>
lineVars == <<world, queue, typed, event, handler, from>>
sharedVars == <<objects, me>>
outsideVars == <<chain, file>>
historyVars == <<holds, cleared, takenBack, rollbacks, interrupted, merges, lines, starts>>
vars == <<processVars, lineVars, sharedVars, save, task, outsideVars, historyVars>>

-----------------------------------------------------------------------------
(* The tables of the runner's own commands *)

CoreRows1 == <<
  View("History", 0, <<Opt>>, "quiet"),
  View("SleepSeconds", 0, <<One>>, "quiet"),
  View("SleepUntilTimestamp", 0, <<One>>, "quiet"),
  View("SleepBlocks", 0, <<One>>, "quiet"),
  View("SleepUntilBlock", 0, <<One>>, "quiet"),
  View("Throw", 0, <<One>>, "throw"),
  View("Read", 0, <<Rest>>, "quiet"),
  View("Print", 0, <<One>>, "quiet") >>

CoreRows2 == <<
  View("PrintTransactionLogs", 0, <<>>, "quiet"),
  View("Web3Fork", 0, <<One, Opt>>, "elsewhere"),
  View("UseConfigs", 0, <<One>>, "elsewhere"),
  View("MyAddress", 0, <<One>>, "myAddress"),
  View("Alias", 0, <<One, One>>, "quiet"),
  View("Aliases", 0, <<>>, "quiet"),
  View("IncreaseTime", 0, <<One>>, "quiet") >>

CoreRows3 == <<
  View("SetTime", 0, <<One>>, "quiet"),
  View("FreezeTime", 0, <<One>>, "quiet"),
  View("MineBlock", 0, <<>>, "quiet"),
  Cmd("SetBlockNumber", 0, <<One>>, "quiet"),
  Cmd("Block", 0, <<One, One>>, "block"),
  Cmd("AdvanceBlocks", 0, <<One>>, "quiet"),
  View("Inspect", 0, <<>>, "quiet"),
  View("Debug", 0, <<One>>, "quiet"),
  View("From", 0, <<One, One>>, "from"),
  Cmd("Trx", 0, <<Rest>>, "Trx"),
  Cmd("Invariant", 0, <<Rest>>, "Invariant") >>

CoreRows4 == <<
  Cmd("Expect", 0, <<Rest>>, "Expectation"),
  View("HoldInvariants", 0, <<Opt>>, "hold"),
  View("ClearInvariants", 0, <<Opt>>, "clear"),
  Cmd("Assert", 0, <<Rest>>, "Assertion"),
  Cmd("Gate", 0, <<One, One>>, "gate"),
  Cmd("Given", 0, <<One, One>>, "given"),
  Cmd("Send", 0, <<One, One>>, "send"),
  Cmd("Unitroller", 0, <<Rest>>, "Unitroller"),
  Cmd("Comptroller", 0, <<Rest>>, "Comptroller"),
  Cmd("ComptrollerImpl", 0, <<Rest>>, "ComptrollerImpl") >>

CoreRows5 == <<
  Cmd("BAIUnitroller", 0, <<Rest>>, "BAIUnitroller"),
  Cmd("BAIController", 0, <<Rest>>, "BAIController"),
  Cmd("BAIControllerImpl", 0, <<Rest>>, "BAIControllerImpl"),
  Cmd("BRToken", 0, <<Rest>>, "BRToken"),
  Cmd("BRTokenDelegate", 0, <<Rest>>, "BRTokenDelegate"),
  Cmd("Erc20", 0, <<Rest>>, "Erc20"),
  Cmd("InterestRateModel", 0, <<Rest>>, "InterestRateModel"),
  Cmd("PriceOracle", 0, <<Rest>>, "PriceOracle"),
  Cmd("PriceOracleProxy", 0, <<Rest>>, "PriceOracleProxy"),
  Cmd("Maximillion", 0, <<Rest>>, "Maximillion"),
  Cmd("Liquidator", 0, <<Rest>>, "Liquidator") >>

CoreRows6 == <<
  Cmd("Timelock", 0, <<Rest>>, "Timelock"),
  Cmd("BRN", 0, <<Rest>>, "BRN"),
  Cmd("BRNVault", 0, <<Rest>>, "BRNVault"),
  Cmd("BRNVaultImpl", 0, <<Rest>>, "BRNVaultImpl"),
  Cmd("BRNVaultProxy", 0, <<Rest>>, "BRNVaultProxy"),
  Cmd("SXP", 0, <<Rest>>, "SXP"),
  Cmd("BAI", 0, <<Rest>>, "BAI"),
  Cmd("Governor", 0, <<Rest>>, "Governor"),
  Cmd("GovernorBravo", 0, <<Rest>>, "GovernorBravo"),
  Cmd("Counter", 0, <<Rest>>, "Counter"),
  Cmd("BrainiacLens", 0, <<Rest>>, "Counter"),
  Cmd("Reservoir", 0, <<Rest>>, "Reservoir"),
  Cmd("BRNStore", 0, <<Rest>>, "Reservoir"),
  Cmd("ComptrollerLens", 0, <<Rest>>, "Reservoir"),
  View("Help", 0, <<Rest>>, "quiet") >>

CoreTable == Table(CoreRows1 \o CoreRows2 \o CoreRows3 \o CoreRows4 \o CoreRows5 \o CoreRows6,
                   NoFunctions)

TrxTable == Table(<< Cmd("Value", 0, <<One, One>>, "value"),
                     Cmd("GasPrice", 0, <<One, One>>, "gasPrice") >>, NoFunctions)

InvariantTable == Table(<< View("Static", 0, <<One>>, "static"),
                           View("Remains", 0, <<One, One>>, "remains"),
                           View("Success", 0, <<>>, "success") >>, NoFunctions)

ExpectationTable == Table(<< View("Changes", 0, <<One, One, Opt>>, "changes"),
                             View("Remains", 0, <<One, One>>, "expectRemains") >>, NoFunctions)

\* Comparisons may fail or not, whatever the world; the rest ask how the last
\* invokation went.
AssertionFunctions ==
  On({"assertApprox", "assertEqual", "assertLessThan", "assertGreaterThan",
      "assertReadError", "assertLog"}, "compare")
  @@ On({"assertFailure", "assertRevertFailure", "assertError", "assertRevert"}, "failed")
  @@ On({"assertSuccess"}, "succeeded")

AssertionRows1 == <<
  View("Approx", 0, <<One, One, Opt>>, "assertApprox"),
  View("Equal", 0, <<One, One>>, "assertEqual"),
  View("LessThan", 1, <<One, One>>, "assertLessThan"),
  View("GreaterThan", 1, <<One, One>>, "assertGreaterThan"),
  View("True", 0, <<One>>, "assertEqual"),
  View("False", 0, <<One>>, "assertEqual"),
  View("ReadRevert", 0, <<One, One>>, "assertReadError"),
  View("ReadError", 0, <<One, One>>, "assertReadError"),
  View("Failure", 0, <<One, One, Opt>>, "assertFailure"),
  View("RevertFailure", 0, <<One, One>>, "assertRevertFailure") >>

AssertionRows2 == <<
  View("Revert", 0, <<Opt>>, "assertRevert"),
  View("Error", 0, <<One>>, "assertError"),
  View("Success", 0, <<>>, "assertSuccess"),
  View("Log", 0, <<One, Rest>>, "assertLog") >>

AssertionTable == Table(AssertionRows1 \o AssertionRows2, AssertionFunctions)

\* The commands made from a contract's ABI: every function of it is sent, a view
\* too, so one row stands for them all.  The contract is named in the event, or
\* implicit.
ContractTable(implicit) ==
  Table(<< IF implicit THEN Cmd("Call", 0, <<Impl>>, "send") ELSE Cmd("Call", 1, <<One>>, "send"),
           Cmd("Deploy", 0, <<Rest>>, "build") >>, NoFunctions)

RunnerTables ==
  [Core |-> CoreTable, Trx |-> TrxTable, Invariant |-> InvariantTable,
   Expectation |-> ExpectationTable, Assertion |-> AssertionTable,
   Counter |-> ContractTable(FALSE), Reservoir |-> ContractTable(TRUE)]

Tables ==
  [t \in DOMAIN RunnerTables \cup DOMAIN MarketTables \cup DOMAIN TokenTables
           \cup DOMAIN GovernanceTables |->
     IF t \in DOMAIN RunnerTables THEN RunnerTables[t]
     ELSE IF t \in DOMAIN MarketTables THEN MarketTables[t]
     ELSE IF t \in DOMAIN TokenTables THEN TokenTables[t]
     ELSE GovernanceTables[t]]

-----------------------------------------------------------------------------
(* Worlds *)

\* Actions with their outcome and the value read after them, the invariants (by
\* the place of their object), the expectations, those ever made (history), the
\* contracts known by name, whether the last invokation is still unchecked, and
\* the value of a transaction.
NewWorld ==
  [actions |-> <<>>, invariants |-> {1}, expectations |-> {}, promised |-> {},
   contracts |-> [n \in Contracts |-> NoContract], newInvokation |-> TRUE, trxValue |-> 0]

Success == [kind |-> "success", value |-> 0, held |-> FALSE]

\* Mutant of LoadContracts: a process starts without its networks file.
LoadNothing(w) == w

LoadContracts(w) == [w EXCEPT !.contracts = file.networks]

AddAction(w, ok, value) ==
  [w EXCEPT !.actions = Append(@, [ok |-> ok, after |-> value]), !.newInvokation = TRUE]

StoreContract(w, name, address) == [w EXCEPT !.contracts[name] = address]

AddExpectation(w, total) ==
  LET e == [at |-> Len(w.actions), total |-> total]
  IN  [w EXCEPT !.expectations = @ \cup {e},
                \* The first event of a session checks what it expects at once.
                !.promised = IF w.newInvokation THEN @ ELSE @ \cup {e}]

InvariantTypes == {"all", "success", "remains", "static"}

\* The invariants left: all of them, or those of any other type.
InvariantFilter(type, i) == type = "all" \/ objects[i].kind # type

Broken(i) ==
  \/ objects[i].kind = "success" /\ world.actions # <<>> /\ ~Last(world.actions).ok
  \/ objects[i].kind # "success" /\ objects[i].value # chain.value

InvariantsHold == \A i \in world.invariants : objects[i].held \/ ~Broken(i)

ExpectationsHold == \A e \in world.expectations : e.total = chain.value

\* Mutant of Released: the holds stay.
ReleasedNone(objs, w) == objs

Released(objs, w) ==
  [i \in DOMAIN objs |-> IF i \in w.invariants THEN [objs[i] EXCEPT !.held = FALSE] ELSE objs[i]]

\* Objects no world reaches are forgotten.
Reachable(objs) == SubSeq(objs, 1, Max(base.invariants \cup {0}))

DefaultFrom == IF me # NoAccount THEN me ELSE Root

NoSave == [kind |-> "none"]
NoTask == [stage |-> "none"]

Init ==
  /\ pc = "off" /\ script = FALSE /\ dryRun = FALSE
  /\ base = NewWorld /\ world = NewWorld
  /\ queue = <<>> /\ typed = <<>> /\ event = <<>> /\ handler = "Core" /\ from = NoAccount
  /\ objects = <<Success>> /\ me = NoAccount
  /\ save = NoSave /\ task = NoTask
  /\ chain = [value |-> 0, deployed |-> <<>>, sent |-> 0, last |-> [from |-> NoAccount, value |-> 0]]
  /\ file = [networks |-> [n \in Contracts |-> NoContract], abi |-> {}, me |-> NoAccount]
  /\ holds = 0 /\ cleared = FALSE /\ takenBack = FALSE /\ rollbacks = 0
  /\ interrupted = 0 /\ merges = 0 /\ lines = 0 /\ starts = 0

-----------------------------------------------------------------------------
(* The process and its lines *)

Saving == pc \in {"reading", "writing", "writingABI"}

\* A process starts with what its files hold, at a prompt or with a script.
Start(asScript, dry) ==
  /\ pc = "off" /\ starts < MaxStarts
  /\ starts' = starts + 1
  /\ pc' = "prompt" /\ script' = asScript /\ dryRun' = dry
  /\ base' = LoadContracts(NewWorld) /\ world' = base'
  /\ objects' = <<Success>> /\ me' = file.me
  /\ holds' = 0 /\ cleared' = FALSE /\ takenBack' = FALSE /\ lines' = 0
  /\ UNCHANGED <<queue, typed, event, handler, from, save, task, outsideVars,
                 rollbacks, interrupted, merges>>

\* The process ends: what it has in memory is gone.
Stop ==
  /\ pc' = "off" /\ script' = FALSE /\ dryRun' = FALSE
  /\ base' = NewWorld /\ world' = NewWorld
  /\ queue' = <<>> /\ typed' = <<>> /\ event' = <<>> /\ handler' = "Core" /\ from' = NoAccount
  /\ objects' = <<Success>> /\ me' = NoAccount
  /\ save' = NoSave /\ task' = NoTask

Crash ==
  /\ pc # "off"
  /\ Stop
  /\ interrupted' = interrupted + (IF Saving THEN 1 ELSE 0)
  /\ UNCHANGED <<outsideVars, holds, cleared, takenBack, rollbacks, merges, lines, starts>>

\* The next event of a line, by the alias Me or the network's own account.
Begin(events) ==
  /\ typed' = Head(events) /\ event' = Head(events) /\ queue' = Tail(events)
  /\ handler' = "Core" /\ from' = DefaultFrom
  /\ pc' = "running"

RunCommand(line) ==
  /\ pc = "prompt" /\ lines < MaxLines
  /\ lines' = lines + 1
  /\ world' = base
  /\ Begin(line)
  /\ UNCHANGED <<script, dryRun, base, sharedVars, save, task, outsideVars,
                 holds, cleared, takenBack, rollbacks, interrupted, merges, starts>>

\* An error ends a script; the prompt goes on with the world it had.
Fail(objs) ==
  IF script
  THEN Stop /\ UNCHANGED historyVars
  ELSE /\ pc' = "prompt" /\ world' = base
       /\ queue' = <<>> /\ typed' = <<>> /\ event' = <<>> /\ handler' = "Core" /\ from' = NoAccount
       /\ objects' = Reachable(objs) /\ save' = NoSave
       /\ takenBack' = TRUE /\ rollbacks' = rollbacks + 1
       /\ UNCHANGED <<script, dryRun, base, me, task, holds, cleared, interrupted,
                      merges, lines, starts>>

-----------------------------------------------------------------------------
(* Finding the command *)

Words == Head(event)
Row == FirstMatch(Tables[handler], Words)

\* The event is in a table, its command not yet found.
Searching == pc = "running" /\ handler \in DOMAIN Tables

Refused ==
  \/ ~Known(Tables[handler], Words)
  \/ ~Accepts(Row, Words)
  \/ Row.requireFrom /\ from = NoAccount

\* An event may also fail because the value of an argument cannot be read.
Refuse ==
  /\ Searching
  /\ Refused \/ Row.args # <<>>
  /\ Fail(objects)
  /\ UNCHANGED outsideVars

\* The command is found, or the event goes on to the table its row names.
PassOn ==
  /\ Searching /\ ~Refused
  /\ handler' = Effect(Tables[handler], Row)
  /\ event' = IF handler' \in DOMAIN Tables THEN <<PassedOn(Row, Words)>> \o Tail(event) ELSE event
  /\ UNCHANGED <<processVars, world, queue, typed, from, sharedVars, save, task,
                 outsideVars, historyVars>>

Runs(what) == pc = "running" /\ handler \in what

\* A command about the rest of the event runs it, or leaves it out.
RunInner(w, sender) ==
  /\ Len(event) > 1
  /\ event' = Tail(event) /\ handler' = "Core"
  /\ world' = w /\ from' = sender
  /\ UNCHANGED <<processVars, queue, typed, sharedVars, save, task, outsideVars, historyVars>>

Done(w) ==
  /\ pc' = "checking" /\ world' = w
  /\ event' = <<>> /\ handler' = "Core" /\ from' = NoAccount
  /\ UNCHANGED <<script, dryRun, base, queue, typed, task, merges, lines, starts,
                 takenBack, rollbacks, interrupted>>

Quiet(w) ==
  /\ Done(w)
  /\ UNCHANGED <<sharedVars, save, outsideVars, holds, cleared>>

Exists == Words[2] \in Contracts /\ world.contracts[Words[2]] # NoContract

Wrapped ==
  \/ Runs({"from"}) /\ RunInner(world, Words[2])
  \/ Runs({"value"}) /\ RunInner([world EXCEPT !.trxValue = 1], from)
  \/ Runs({"gasPrice", "block"}) /\ RunInner(world, from)
  \/ Runs({"gate"}) /\ ~Exists /\ RunInner(world, from)
  \/ Runs({"given"}) /\ Exists /\ RunInner(world, from)
  \/ Runs({"gate"}) /\ Exists /\ Quiet(world)
  \/ Runs({"given"}) /\ ~Exists /\ Quiet(world)

-----------------------------------------------------------------------------
(* What commands do *)

\* A command without effect; one that sends is left out when nothing must be sent.
Observe == Runs(IF dryRun THEN {"quiet", "sendLive"} ELSE {"quiet"}) /\ Quiet(world)

Throw == Runs({"throw"}) /\ Fail(objects) /\ UNCHANGED outsideVars

\* An assertion holds, or fails the line.
Judge(holdsNow) ==
  IF holdsNow THEN Quiet(world) ELSE Fail(objects) /\ UNCHANGED outsideVars

Asserted ==
  \/ \E result \in BOOLEAN : Runs({"compare"}) /\ Judge(result)
  \/ Runs({"succeeded"}) /\ Judge(world.actions = <<>> \/ Last(world.actions).ok)
  \/ Runs({"failed"}) /\ Judge(world.actions # <<>> /\ ~Last(world.actions).ok)

\* The alias Me is set in the settings, which are shared, and saved at once.
MyAddress ==
  /\ Runs({"myAddress"})
  /\ Done(world)
  /\ me' = Words[2] /\ file' = [file EXCEPT !.me = Words[2]]
  /\ UNCHANGED <<objects, save, chain, holds, cleared>>

AddInvariant(kind) ==
  /\ Len(objects) < MaxInvariants
  /\ objects' = Append(objects, [kind |-> kind, value |-> chain.value, held |-> FALSE])
  /\ Done([world EXCEPT !.invariants = @ \cup {Len(objects) + 1}])
  /\ UNCHANGED <<me, save, outsideVars, holds, cleared>>

Invariant == \E kind \in {"static", "remains", "success"} : Runs({kind}) /\ AddInvariant(kind)

Expect ==
  \/ Runs({"changes"}) /\ Quiet(AddExpectation(world, chain.value + 1))
  \/ Runs({"expectRemains"}) /\ Quiet(AddExpectation(world, chain.value))

\* toLowerCase, on the spellings the help texts use.
LowerCase(word) ==
  CASE word = "All" -> "all"
    [] word = "Success" -> "success"
    [] word = "Remains" -> "remains"
    [] word = "Static" -> "static"
    [] OTHER -> word

TypeIn(words) == IF Len(words) = 1 THEN "all" ELSE LowerCase(words[2])
TypeOf == TypeIn(Words)

UnknownType ==
  /\ Runs({"hold", "clear"}) /\ TypeOf \notin InvariantTypes
  /\ Fail(objects)
  /\ UNCHANGED outsideVars

HoldInvariants ==
  /\ Runs({"hold"}) /\ TypeOf \in InvariantTypes
  /\ objects' = [i \in DOMAIN objects |->
                   IF i \in world.invariants /\ InvariantFilter(TypeOf, i)
                   THEN [objects[i] EXCEPT !.held = TRUE] ELSE objects[i]]
  /\ holds' = holds + 1
  /\ Done(world)
  /\ UNCHANGED <<me, save, outsideVars, cleared>>

ClearInvariants ==
  /\ Runs({"clear"}) /\ TypeOf \in InvariantTypes
  /\ cleared' = (cleared \/ \E i \in world.invariants :
                              objects[i].kind = "success" /\ ~InvariantFilter(TypeOf, i))
  /\ Done([world EXCEPT !.invariants = {i \in @ : InvariantFilter(TypeOf, i)}])
  /\ UNCHANGED <<sharedVars, save, outsideVars, holds>>

-----------------------------------------------------------------------------
(* Transactions, deployments and the network files *)

\* Mutant of Invoke: a dry run sends.
InvokeAlways(ok) ==
  /\ chain.sent < MaxSent
  /\ chain' = [chain EXCEPT !.value = @ + (IF ok THEN 1 ELSE 0), !.sent = @ + 1,
                            !.last = [from |-> from, value |-> world.trxValue]]

\* invoke: what is sent, with which sender and value, and how it ends.  A dry
\* run sends nothing and takes the transaction for a success.  The options a network
\* may have in the environment (${network}_opts) are taken to be unset.
Invoke(ok) ==
  /\ chain.sent < MaxSent
  /\ IF dryRun
     THEN ok /\ UNCHANGED chain
     ELSE chain' = [chain EXCEPT !.value = @ + (IF ok THEN 1 ELSE 0), !.sent = @ + 1,
                                 !.last = [from |-> from, value |-> world.trxValue]]

Send(ok) ==
  /\ Runs(IF dryRun THEN {"send"} ELSE {"send", "sendLive"})
  /\ Invoke(ok)
  /\ Done(AddAction(world, ok, chain'.value))
  /\ UNCHANGED <<sharedVars, save, file, holds, cleared>>

\* sendAny goes to the chain past invoke, with its sender only; a failure is an
\* error and a success leaves no action.
SendAny(ok) ==
  /\ Runs({"bypass"}) /\ chain.sent < MaxSent
  /\ chain' = [chain EXCEPT !.value = @ + (IF ok THEN 1 ELSE 0), !.sent = @ + 1]
  /\ UNCHANGED file
  /\ IF ok THEN Done(world) /\ UNCHANGED <<sharedVars, save, holds, cleared>> ELSE Fail(objects)

BeginSave(w, s) ==
  /\ pc' = "reading" /\ world' = w /\ save' = s
  /\ UNCHANGED <<script, dryRun, base, queue, typed, event, handler, from, sharedVars, task, file,
                 holds, cleared, takenBack, rollbacks, interrupted, lines, starts>>

\* A deployment that fails is an error; one that succeeds is kept in the world
\* first, then saved, then becomes an action.
Build(ok) ==
  LET name == Last(Words)
      address == Len(chain.deployed) + 1
  IN  /\ Runs({"build"}) /\ address <= MaxDeployed
      /\ IF dryRun
         THEN /\ ok
              /\ Done(AddAction(StoreContract(world, name, Fake), TRUE, chain.value))
              /\ UNCHANGED <<sharedVars, save, outsideVars, holds, cleared>>
         ELSE IF ok
         THEN /\ chain' = [chain EXCEPT !.deployed = Append(@, name)]
              /\ BeginSave(StoreContract(world, name, address),
                           [kind |-> "store", name |-> name, action |-> TRUE, ok |-> TRUE])
              /\ UNCHANGED merges
         ELSE Fail(objects) /\ UNCHANGED outsideVars

\* PriceOracle Set: a contract that is there already, kept and saved.
Adopt(address) ==
  LET name == Last(Words)
      w == StoreContract(world, name, address)
  IN  /\ Runs({"adopt"})
      /\ IF dryRun
         THEN Quiet(w)
         ELSE /\ BeginSave(w, [kind |-> "store", name |-> name, action |-> FALSE, ok |-> TRUE])
              /\ UNCHANGED <<chain, merges>>

\* The contract a merge takes the ABI of, next to the proxy's.
Delegate == CHOOSE n \in Contracts \ {Proxy} : n \in Range(Words)

BothKnown ==
  /\ \E n \in Contracts \ {Proxy} : n \in Range(Words)
  /\ NoContract \notin {world.contracts[Proxy], world.contracts[Delegate]}

Merge(action, ok) == [kind |-> "merge", name |-> Delegate, action |-> action, ok |-> ok]

\* The implementation becomes the proxy's; the ABIs are merged however that went.
Become(ok) ==
  /\ Runs({"become"}) /\ BothKnown
  /\ Invoke(ok)
  /\ IF dryRun
     THEN Done(AddAction(world, ok, chain'.value)) /\ UNCHANGED <<sharedVars, save, file, holds, cleared>>
     ELSE BeginSave(world, Merge(TRUE, ok)) /\ UNCHANGED merges

MergeABI ==
  /\ Runs({"merge"}) /\ BothKnown
  /\ IF dryRun
     THEN Quiet(world)
     ELSE BeginSave(world, Merge(FALSE, TRUE)) /\ UNCHANGED <<chain, merges>>

UnknownContract ==
  /\ Runs({"become", "merge", "mergeLater"}) /\ ~BothKnown
  /\ Fail(objects)
  /\ UNCHANGED outsideVars

\* GovernorBravo SetImplementation does not wait for the merge it starts, nor
\* takes the world it makes.
SetImplementation(ok) ==
  /\ Runs({"mergeLater"}) /\ BothKnown /\ task = NoTask
  /\ Invoke(ok)
  /\ pc' = "checking" /\ world' = AddAction(world, ok, chain'.value)
  /\ event' = <<>> /\ handler' = "Core" /\ from' = NoAccount
  /\ task' = IF dryRun THEN NoTask
             ELSE [stage |-> "reading", name |-> Delegate, address |-> world.contracts[Proxy]]
  /\ merges' = merges + (IF dryRun THEN 0 ELSE 1)
  /\ UNCHANGED <<script, dryRun, base, queue, typed, sharedVars, save, file,
                 holds, cleared, takenBack, rollbacks, interrupted, lines, starts>>

MergedNetworks(address) == [file.networks EXCEPT ![Target] = address]

\* Both files as they will be, and what remains to be done after.
ToWrite(networks, abi) ==
  [kind |-> save.kind, action |-> save.action, ok |-> save.ok, networks |-> networks, abi |-> abi]

\* saveContract and mergeContractABI read both files before they write them.
ReadFiles ==
  /\ pc = "reading"
  /\ UNCHANGED outsideVars
  /\ IF save.kind = "merge" /\ ~{Proxy, save.name} \subseteq file.abi
     THEN Fail(objects)
     ELSE /\ pc' = "writing"
          /\ IF save.kind = "merge"
             THEN /\ world' = StoreContract(world, Target, world.contracts[Proxy])
                  /\ save' = ToWrite(MergedNetworks(world.contracts[Proxy]), file.abi \cup {Target})
             ELSE /\ save' = ToWrite([file.networks EXCEPT ![save.name] = world.contracts[save.name]],
                                     file.abi \cup {save.name})
                  /\ UNCHANGED world
          /\ UNCHANGED <<script, dryRun, base, queue, typed, event, handler, from, sharedVars, task,
                         historyVars>>

\* Mutant of WriteNetworks: the file is not written.
WriteNetworksNot ==
  /\ pc = "writing"
  /\ pc' = "writingABI"
  /\ UNCHANGED <<script, dryRun, base, lineVars, sharedVars, save, task, outsideVars, historyVars>>

WriteNetworks ==
  /\ pc = "writing"
  /\ pc' = "writingABI"
  /\ file' = [file EXCEPT !.networks = save.networks]
  /\ UNCHANGED <<script, dryRun, base, lineVars, sharedVars, save, task, chain, historyVars>>

\* Mutant of WriteABI: the ABI of a merged contract is not written.
WriteABIOfStored ==
  /\ pc = "writingABI"
  /\ file' = [file EXCEPT !.abi = IF save.kind = "store" THEN save.abi ELSE @]
  /\ Done(IF save.action THEN AddAction(world, save.ok, chain.value) ELSE world)
  /\ save' = NoSave
  /\ UNCHANGED <<sharedVars, chain, holds, cleared>>

\* The second file, and the end of the command.
WriteABI ==
  /\ pc = "writingABI"
  /\ file' = [file EXCEPT !.abi = save.abi]
  /\ Done(IF save.action THEN AddAction(world, save.ok, chain.value) ELSE world)
  /\ save' = NoSave
  /\ UNCHANGED <<sharedVars, chain, holds, cleared>>

TaskStep(new, f) ==
  /\ task' = new /\ file' = f
  /\ UNCHANGED <<processVars, lineVars, sharedVars, save, chain, historyVars>>

TaskReads ==
  /\ task.stage = "reading" /\ {Proxy, task.name} \subseteq file.abi
  /\ TaskStep([stage |-> "writing", networks |-> MergedNetworks(task.address),
               abi |-> file.abi \cup {Target}], file)

TaskWritesNetworks ==
  /\ task.stage = "writing"
  /\ TaskStep([task EXCEPT !.stage = "writingABI"], [file EXCEPT !.networks = task.networks])

TaskWritesABI ==
  /\ task.stage = "writingABI"
  /\ TaskStep(NoTask, [file EXCEPT !.abi = task.abi])

\* A merge that fails rejects a promise nobody handles: a warning, or the end
\* of the process, by the version of Node.
TaskFails ==
  /\ task.stage = "reading" /\ ~{Proxy, task.name} \subseteq file.abi
  /\ \/ TaskStep(NoTask, file)
     \/ /\ Stop
        /\ interrupted' = interrupted + (IF Saving THEN 1 ELSE 0)
        /\ UNCHANGED <<outsideVars, holds, cleared, takenBack, rollbacks, merges, lines, starts>>

-----------------------------------------------------------------------------
(* The end of an event *)

\* A recorded transaction is checked against the invariants, which lets go of
\* every hold, then against the expectations, which are then forgotten.
CheckInvariants == ~world.newInvokation \/ InvariantsHold

CheckExpectations == ~world.newInvokation \/ ExpectationsHold

\* Mutant of Checked: the transaction's options stay.
CheckedKeepsTrx ==
  [world EXCEPT !.expectations = IF world.newInvokation THEN {} ELSE @, !.newInvokation = FALSE]

\* Mutant of Checked: expectations are forgotten with every event.
CheckedForgets ==
  [world EXCEPT !.expectations = {}, !.trxValue = 0, !.newInvokation = FALSE]

Checked ==
  [world EXCEPT !.expectations = IF world.newInvokation THEN {} ELSE @,
                !.trxValue = 0, !.newInvokation = FALSE]

ReleasedObjects == IF world.newInvokation THEN Released(objects, world) ELSE objects

CheckFails ==
  /\ pc = "checking"
  /\ ~(CheckInvariants /\ CheckExpectations)
  /\ Fail(IF CheckInvariants THEN ReleasedObjects ELSE objects)
  /\ UNCHANGED outsideVars

\* The world goes on to the line's next event, or becomes the prompt's.
CheckPasses ==
  /\ pc = "checking"
  /\ CheckInvariants /\ CheckExpectations
  /\ world' = Checked
  /\ IF queue # <<>>
     THEN objects' = ReleasedObjects /\ Begin(queue) /\ UNCHANGED base
     ELSE /\ pc' = "prompt" /\ base' = Checked
          /\ typed' = <<>> /\ objects' = ReleasedObjects
          /\ UNCHANGED <<queue, event, handler, from>>
  /\ UNCHANGED <<script, dryRun, me, save, task, outsideVars, historyVars>>

Next ==
  \/ \E asScript, dry \in BOOLEAN : Start(asScript, dry)
  \/ Crash
  \/ \E line \in FirstLines : starts = 1 /\ lines = 0 /\ RunCommand(line)
  \/ \E line \in LaterLines : RunCommand(line)
  \/ Refuse \/ PassOn \/ Wrapped
  \/ Observe \/ Throw \/ Asserted \/ MyAddress \/ Invariant \/ Expect
  \/ HoldInvariants \/ ClearInvariants \/ UnknownType
  \/ \E ok \in BOOLEAN : Send(ok) \/ SendAny(ok) \/ Build(ok) \/ Become(ok) \/ SetImplementation(ok)
  \/ \E address \in DOMAIN chain.deployed : Adopt(address)
  \/ MergeABI \/ UnknownContract
  \/ ReadFiles \/ WriteNetworks \/ WriteABI
  \/ TaskReads \/ TaskWritesNetworks \/ TaskWritesABI \/ TaskFails
  \/ CheckFails \/ CheckPasses

Spec == Init /\ [][Next]_vars

-----------------------------------------------------------------------------
(* Properties *)

\* A hold excuses one transaction: as long as no Success invariant has gone, a
\* session keeps no more failed transactions than it ran HoldInvariants, of any type
\* and also in lines that were taken back (holdInvariants, checkInvariants).
HoldExcusesOne ==
  ~cleared => Cardinality({k \in DOMAIN base.actions : ~base.actions[k].ok}) <= holds

\* What a kept line expected was true right after the next recorded transaction
\* that was kept, however many lines lie between (checkExpectations).
ExpectationsMet ==
  \A e \in base.promised : Len(base.actions) > e.at => base.actions[e.at + 1].after = e.total

\* A transaction goes out with the sender and the value its own event asks for:
\* the innermost From or the default, and a value only under Trx Value; never
\* with those of an event before it, kept or taken back (invoke, processEvents).
Senders == {k \in DOMAIN typed : typed[k][1] = "From"}
AskedFrom == IF Senders = {} THEN DefaultFrom ELSE typed[Max(Senders)][2]
SetsValue(part) == Len(part) > 1 /\ part[1] = "Trx" /\ part[2] = "Value"
AskedValue == IF \E k \in DOMAIN typed : SetsValue(typed[k]) THEN 1 ELSE 0

SentAsAsked ==
  [][chain'.sent # chain.sent /\ ~Runs({"bypass"}) =>
       chain'.last = [from |-> AskedFrom, value |-> AskedValue]]_vars

\* The invariants a type names are those it is about, and all are without a type:
\* "HoldInvariants Success" skips success invariants and "ClearInvariants All" removes
\* all, as their help texts say (getInvariantFilter).
FilteredAsNamed ==
  pc = "checking" /\ Len(typed) = 1 =>
    \A i \in world.invariants :
      TypeIn(typed[1]) \in {"all", objects[i].kind} =>
        /\ typed[1][1] = "HoldInvariants" => objects[i].held
        /\ typed[1][1] # "ClearInvariants"

\* What a dry run may change beyond the process is the chain, by sendAny alone,
\* and the saved alias: no deployment, no other transaction, no contract saved
\* (World.dryRun).
DryRunLeavesAll ==
  [][dryRun /\ dryRun' => /\ file'.networks = file.networks /\ file'.abi = file.abi
                          /\ chain' # chain => Runs({"bypass"})]_vars

\* While no merge runs unwaited for, the contracts the prompt knows are in the
\* networks file, at the same address unless a line was taken back after it
\* saved: a restart finds what the session had (storeAndSaveContract).
KnownOnDisk ==
  ~dryRun /\ merges = 0 =>
    \A n \in Contracts : base.contracts[n] # NoContract =>
      /\ file.networks[n] # NoContract
      /\ file.networks[n] = base.contracts[n] \/ takenBack \/ pc # "prompt"

\* A contract in the networks file has its ABI in the other file, but for those
\* whose saving was cut short (saveContract writes two files).
AbiLossNeedsACrash ==
  merges = 0 /\ ~Saving =>
    Cardinality({n \in Contracts : file.networks[n] # NoContract /\ n \notin file.abi}) <= interrupted

\* Gate makes deployments idempotent: when every event that deploys names contracts
\* inside gates for them alone, a contract is deployed again only after a save was
\* cut short or a line was taken back at the prompt (Gate, loadContracts).
Deploying ==
  UNION {{row.name : row \in {r \in Range(Tables[t].rows) : Effect(Tables[t], r) = "build"}} :
           t \in DOMAIN Tables}

IsGate(part, n) == Len(part) > 1 /\ part[1] = "Gate" /\ part[2] = n

GatedEvent(e) ==
  \A k \in DOMAIN e :
    Range(e[k]) \cap Deploying # {} =>
      \A n \in Range(e[k]) \cap Contracts : \E j \in 1..(k - 1) : IsGate(e[j], n)

DeploysAreGated ==
  \A line \in FirstLines \cup LaterLines : \A i \in DOMAIN line : GatedEvent(line[i])

GatedDeploysOnce ==
  DeploysAreGated /\ merges = 0 =>
    \A n \in Contracts :
      Cardinality({k \in DOMAIN chain.deployed : chain.deployed[k] = n}) <= 1 + interrupted + rollbacks

\* No two rows of a table would take the same event (processCommandEvent takes
\* the first that matches).
OneCommandAnswers ==
  Searching /\ Known(Tables[handler], Words) =>
    \A i \in DOMAIN Tables[handler].rows :
      LET row == Tables[handler].rows[i]
      IN  Matches(row, Words) /\ Accepts(row, Words) => row = Row
=============================================================================
