--------------------------- MODULE ScenarioProofs ---------------------------
(***************************************************************************)
(* What is proved of Scenario for any lines of events, contracts and       *)
(* bounds, with the process stopping at any point: a dry run changes       *)
(* nothing outside but by sendAny and the alias, what the prompt knows is  *)
(* in the networks file, the ABI file misses a contract only where the     *)
(* process died between the two writes, every expectation that was due is  *)
(* met, a hold of the success invariant excuses one failed command, a      *)
(* transaction has the sender and the value its own event asks for, and a  *)
(* gated deployment happens once but for saves cut short and lines taken   *)
(* back.                                                                   *)
(***************************************************************************)
EXTENDS Scenario, Sums, FiniteSetTheorems, TLAPS

-----------------------------------------------------------------------------
(* Fields of the records that steps update one by one *)

Shapes == /\ "contracts" \in DOMAIN world /\ "contracts" \in DOMAIN base
          /\ {"networks", "abi"} \subseteq DOMAIN file
          /\ "deployed" \in DOMAIN chain

LEMMA NewWorldShape ==
  "contracts" \in DOMAIN NewWorld /\ NewWorld.contracts = [n \in Contracts |-> NoContract]
BY DEF NewWorld

LEMMA LoadedShape ==
  /\ "contracts" \in DOMAIN LoadContracts(NewWorld)
  /\ LoadContracts(NewWorld).contracts = file.networks
BY NewWorldShape DEF LoadContracts

LEMMA AddActionShape ==
  ASSUME NEW w, "contracts" \in DOMAIN w, NEW ok, NEW value
  PROVE  /\ "contracts" \in DOMAIN AddAction(w, ok, value)
         /\ AddAction(w, ok, value).contracts = w.contracts
BY DEF AddAction

LEMMA AddExpectationShape ==
  ASSUME NEW w, "contracts" \in DOMAIN w, NEW total
  PROVE  /\ "contracts" \in DOMAIN AddExpectation(w, total)
         /\ AddExpectation(w, total).contracts = w.contracts
BY DEF AddExpectation

LEMMA StoreShape ==
  ASSUME NEW w, "contracts" \in DOMAIN w, NEW name, NEW address
  PROVE  /\ "contracts" \in DOMAIN StoreContract(w, name, address)
         /\ StoreContract(w, name, address).contracts = [w.contracts EXCEPT ![name] = address]
BY DEF StoreContract

LEMMA CheckedShape ==
  ASSUME "contracts" \in DOMAIN world
  PROVE  "contracts" \in DOMAIN Checked /\ Checked.contracts = world.contracts
BY DEF Checked

-----------------------------------------------------------------------------
(* Kinds of steps *)

\* What a dry run may do to the chain.
DrySafe == dryRun /\ chain' # chain => Runs({"bypass"})

\* A step of a running event that stores no contract.
Stays ==
  /\ pc = "running" /\ pc' \in {"running", "checking"}
  /\ UNCHANGED <<dryRun, base, save, task, merges, takenBack, interrupted, rollbacks>>
  /\ world'.contracts = world.contracts
  /\ file'.networks = file.networks /\ file'.abi = file.abi
  /\ chain'.deployed = chain.deployed
  /\ DrySafe /\ Shapes'

\* Only a merge fails in the middle of a save.
FailsAtRest == Saving => pc = "reading" /\ save.kind = "merge"

\* The process is over.
Ends ==
  /\ pc' = "off" /\ ~ dryRun' /\ base' = NewWorld /\ world' = NewWorld /\ task' = NoTask
  /\ UNCHANGED <<file, merges, rollbacks>>
  /\ \/ interrupted' = interrupted + 1
     \/ interrupted' = interrupted /\ FailsAtRest
  /\ chain'.deployed = chain.deployed
  /\ DrySafe /\ Shapes'

\* The line is taken back.
TakesBack ==
  /\ pc' = "prompt" /\ world' = base /\ takenBack'
  /\ UNCHANGED <<dryRun, base, task, merges, file, interrupted>>
  /\ rollbacks' = rollbacks + 1
  /\ chain'.deployed = chain.deployed
  /\ DrySafe /\ Shapes'

LEMMA FailKind ==
  ASSUME Shapes, NEW objs, Fail(objs), UNCHANGED file, DrySafe, FailsAtRest,
         chain'.deployed = chain.deployed, "deployed" \in DOMAIN chain'
  PROVE  Ends \/ TakesBack
<1>1. CASE script
  BY <1>1, NewWorldShape DEF Fail, Stop, historyVars, Ends, Shapes
<1>2. CASE ~ script
  BY <1>2 DEF Fail, TakesBack, Shapes
<1> QED
  BY <1>1, <1>2

LEMMA FailHere ==
  ASSUME Shapes, NEW objs, Fail(objs), UNCHANGED outsideVars, FailsAtRest
  PROVE  Ends \/ TakesBack
BY FailKind DEF outsideVars, DrySafe, Shapes

LEMMA QuietKind ==
  ASSUME Shapes, pc = "running", NEW w, Quiet(w), w.contracts = world.contracts, "contracts" \in DOMAIN w
  PROVE  Stays
BY DEF Quiet, Done, Stays, outsideVars, DrySafe, Shapes

LEMMA InnerKind ==
  ASSUME Shapes, pc = "running", NEW w, NEW sender, RunInner(w, sender),
         w.contracts = world.contracts, "contracts" \in DOMAIN w
  PROVE  Stays
BY DEF RunInner, Stays, processVars, outsideVars, historyVars, DrySafe, Shapes

LEMMA WrappedKind == ASSUME Shapes, Wrapped PROVE Stays
<1>1. pc = "running"
  BY DEF Wrapped, Runs
<1>2. "contracts" \in DOMAIN world
  BY DEF Shapes
<1>3. LET w == [world EXCEPT !.trxValue = 1]
      IN  w.contracts = world.contracts /\ "contracts" \in DOMAIN w
  BY <1>2
<1>4. CASE \E sender : RunInner(world, sender) \/ RunInner([world EXCEPT !.trxValue = 1], sender)
  BY <1>1, <1>2, <1>3, <1>4, InnerKind
<1>5. CASE Quiet(world)
  BY <1>1, <1>2, <1>5, QuietKind
<1> QED
  BY <1>4, <1>5 DEF Wrapped

LEMMA JudgeKind ==
  ASSUME Shapes, pc = "running", NEW holdsNow, Judge(holdsNow)
  PROVE  Stays \/ Ends \/ TakesBack
<1>1. CASE holdsNow
  BY <1>1, QuietKind DEF Judge, Shapes
<1>2. CASE ~ holdsNow
  BY <1>2, FailHere DEF Judge, FailsAtRest, Saving
<1> QED
  BY <1>1, <1>2

LEMMA AssertedKind == ASSUME Shapes, Asserted PROVE Stays \/ Ends \/ TakesBack
<1>1. pc = "running" /\ \E holdsNow : Judge(holdsNow)
  BY DEF Asserted, Runs
<1> QED
  BY <1>1, JudgeKind

\* Events that only the process sees.
LEMMA InsideKind ==
  ASSUME Shapes,
         PassOn \/ Observe \/ MyAddress \/ Invariant \/ Expect \/ HoldInvariants \/ ClearInvariants
  PROVE  Stays
<1>1. CASE PassOn
  BY <1>1 DEF PassOn, Searching, Stays, processVars, outsideVars, historyVars, DrySafe, Shapes
<1>2. CASE Observe
  BY <1>2, QuietKind DEF Observe, Runs, Shapes
<1>3. CASE MyAddress
  BY <1>3 DEF MyAddress, Runs, Done, Stays, DrySafe, Shapes
<1>4. CASE Invariant
  <2>1. PICK kind : AddInvariant(kind) /\ pc = "running"
    BY <1>4 DEF Invariant, Runs
  <2> QED
    BY <2>1 DEF AddInvariant, Done, Stays, outsideVars, DrySafe, Shapes
<1>5. CASE Expect
  <2>1. PICK total : Quiet(AddExpectation(world, total)) /\ pc = "running"
    BY <1>5 DEF Expect, Runs
  <2> QED
    BY <2>1, QuietKind, AddExpectationShape DEF Shapes
<1>6. CASE HoldInvariants
  BY <1>6 DEF HoldInvariants, Runs, Done, Stays, outsideVars, DrySafe, Shapes
<1>7. CASE ClearInvariants
  BY <1>7 DEF ClearInvariants, Runs, Done, Stays, outsideVars, DrySafe, Shapes
<1> QED
  BY <1>1, <1>2, <1>3, <1>4, <1>5, <1>6, <1>7

LEMMA InvokeEffect ==
  ASSUME Shapes, NEW ok, Invoke(ok)
  PROVE  /\ dryRun => chain' = chain
         /\ chain'.deployed = chain.deployed /\ "deployed" \in DOMAIN chain'
BY DEF Invoke, Shapes

LEMMA SendKind == ASSUME Shapes, NEW ok, Send(ok) PROVE Stays
<1> DEFINE w == AddAction(world, ok, chain'.value)
<1>1. w.contracts = world.contracts /\ "contracts" \in DOMAIN w
  BY AddActionShape DEF Shapes
<1>2. pc = "running" /\ Invoke(ok) /\ Done(w) /\ UNCHANGED <<save, file>>
  BY DEF Send, Runs
<1> HIDE DEF w
<1> QED
  BY <1>1, <1>2, InvokeEffect DEF Done, Stays, DrySafe, Shapes

LEMMA SendAnyKind == ASSUME Shapes, NEW ok, SendAny(ok) PROVE Stays \/ Ends \/ TakesBack
<1>1. /\ pc = "running" /\ Runs({"bypass"}) /\ UNCHANGED file
      /\ chain'.deployed = chain.deployed /\ "deployed" \in DOMAIN chain'
  BY DEF SendAny, Runs, Shapes
<1>2. CASE ok
  BY <1>1, <1>2 DEF SendAny, Done, Stays, DrySafe, Shapes
<1>3. CASE ~ ok
  BY <1>1, <1>3, FailKind DEF SendAny, DrySafe, FailsAtRest, Saving
<1> QED
  BY <1>2, <1>3

LEMMA BackKind ==
  ASSUME Shapes, Refuse \/ Throw \/ UnknownType \/ UnknownContract \/ CheckFails
  PROVE  Ends \/ TakesBack
BY FailHere DEF Refuse, Throw, UnknownType, UnknownContract, CheckFails, Searching, Runs, FailsAtRest, Saving

LEMMA StopKind ==
  ASSUME Shapes, Stop, UNCHANGED <<outsideVars, merges, rollbacks>>, interrupted \in Nat,
         interrupted' = interrupted + (IF Saving THEN 1 ELSE 0)
  PROVE  Ends
BY NewWorldShape DEF Stop, Ends, outsideVars, DrySafe, Shapes, FailsAtRest

-----------------------------------------------------------------------------
(* A dry run *)

\* A dry run saves nothing and starts no merge, and nothing runs while the process
\* is off.
Dry ==
  /\ Shapes
  /\ dryRun => ~ Saving /\ task = NoTask
  /\ pc = "off" => ~ dryRun /\ task = NoTask

\* What a dry run leaves alone in a step.
DryLeaves ==
  dryRun /\ dryRun' => file'.networks = file.networks /\ file'.abi = file.abi /\ DrySafe

\* A contract is kept in the world of a dry run only.
DryStores ==
  /\ pc = "running" /\ pc' = "checking" /\ dryRun
  /\ UNCHANGED <<dryRun, base, task, merges, takenBack, file, chain, interrupted, rollbacks>>
  /\ Shapes'

LEMMA DryOfKinds ==
  ASSUME Dry, Stays \/ Ends \/ TakesBack \/ DryStores
  PROVE  Dry' /\ DryLeaves
<1>1. CASE Stays
  BY <1>1 DEF Stays, Dry, DryLeaves, Saving
<1>2. CASE Ends
  BY <1>2 DEF Ends, Dry, DryLeaves
<1>3. CASE TakesBack
  BY <1>3 DEF TakesBack, Dry, DryLeaves, Saving
<1>4. CASE DryStores
  BY <1>4 DEF DryStores, Dry, DryLeaves, DrySafe, Saving
<1> QED
  BY <1>1, <1>2, <1>3, <1>4

\* A process starts, from what the files hold.
Starts ==
  /\ pc = "off" /\ pc' = "prompt" /\ base'.contracts = file.networks /\ world' = base'
  /\ UNCHANGED <<task, merges, file, chain, interrupted, rollbacks>>
  /\ Shapes'

LEMMA StartKind ==
  ASSUME Shapes, NEW asScript, NEW dry, Start(asScript, dry)
  PROVE  Starts
BY LoadedShape DEF Start, Starts, outsideVars, Shapes

\* A line begins.
RunsLine ==
  /\ pc = "prompt" /\ pc' = "running" /\ world' = base
  /\ UNCHANGED <<dryRun, base, task, merges, file, chain, takenBack, interrupted, rollbacks>>
  /\ Shapes'

LEMMA RunCommandKind ==
  ASSUME Shapes, NEW line, RunCommand(line)
  PROVE  RunsLine
BY DEF RunCommand, Begin, RunsLine, outsideVars, Shapes

\* An event ends well, and its line goes on or its world becomes the prompt's.
GoesOn ==
  /\ pc = "checking" /\ "contracts" \in DOMAIN world'
  /\ world'.contracts = world.contracts
  /\ \/ pc' = "running" /\ UNCHANGED base
     \/ pc' = "prompt" /\ base' = world'
  /\ UNCHANGED <<dryRun, task, merges, file, chain, takenBack, interrupted, rollbacks>>
  /\ Shapes'

LEMMA CheckPassesKind == ASSUME Shapes, CheckPasses PROVE GoesOn
<1>1. "contracts" \in DOMAIN Checked /\ Checked.contracts = world.contracts
  BY CheckedShape DEF Shapes
<1>2. world' = Checked /\ pc = "checking"
      /\ UNCHANGED <<dryRun, task, merges, file, chain, takenBack, interrupted, rollbacks>>
  BY DEF CheckPasses, outsideVars, historyVars
<1>3. \/ pc' = "running" /\ UNCHANGED base
      \/ pc' = "prompt" /\ base' = Checked
  BY DEF CheckPasses, Begin
<1> QED
  BY <1>1, <1>2, <1>3 DEF GoesOn, Shapes

\* A command goes on to save what it made: a contract under its name, or the
\* ABIs it merges.
SavesContract ==
  /\ pc = "running" /\ pc' = "reading" /\ ~ dryRun
  /\ UNCHANGED <<dryRun, base, task, merges, file, takenBack, interrupted, rollbacks>>
  /\ save'.kind = "store"
  /\ \E address :
       /\ world'.contracts = [world.contracts EXCEPT ![save'.name] = address]
       /\ \/ address \in DOMAIN chain.deployed /\ UNCHANGED chain
          \/ /\ address = Len(chain.deployed) + 1
             /\ Runs({"build"}) /\ save'.name = Last(Words)
             /\ chain'.deployed = Append(chain.deployed, save'.name)
  /\ Shapes'

SavesMerge ==
  /\ pc = "running" /\ pc' = "reading" /\ ~ dryRun
  /\ UNCHANGED <<dryRun, base, task, merges, file, takenBack, world, interrupted, rollbacks>>
  /\ chain'.deployed = chain.deployed
  /\ save'.kind = "merge"
  /\ world.contracts[Proxy] # NoContract
  /\ Shapes'

LEMMA BeginSaveEffect ==
  ASSUME NEW w, NEW s, BeginSave(w, s)
  PROVE  /\ pc' = "reading" /\ world' = w /\ save' = s
         /\ UNCHANGED <<dryRun, base, task, file, takenBack, interrupted, rollbacks>>
BY DEF BeginSave

LEMMA BuildKind ==
  ASSUME Shapes, NEW ok, Build(ok)
  PROVE  DryStores \/ SavesContract \/ Ends \/ TakesBack
<1> DEFINE name == Last(Words)
           address == Len(chain.deployed) + 1
           w == StoreContract(world, name, address)
           s == [kind |-> "store", name |-> name, action |-> TRUE, ok |-> TRUE]
<1>1. CASE dryRun
  <2> DEFINE d == StoreContract(world, name, Fake)
             a == AddAction(d, TRUE, chain.value)
  <2>1. "contracts" \in DOMAIN a
    BY StoreShape, AddActionShape DEF Shapes
  <2>2. pc = "running" /\ Done(a) /\ UNCHANGED outsideVars
    BY <1>1 DEF Build, Runs
  <2> HIDE DEF a
  <2> QED
    BY <1>1, <2>1, <2>2 DEF Done, DryStores, outsideVars, Shapes
<1>2. CASE ~ dryRun /\ ok
  <2>1. /\ Runs({"build"})
        /\ chain' = [chain EXCEPT !.deployed = Append(@, name)]
        /\ BeginSave(w, s) /\ UNCHANGED merges
    BY <1>2 DEF Build
  <2>2. "contracts" \in DOMAIN w /\ w.contracts = [world.contracts EXCEPT ![name] = address]
    BY StoreShape, ZenonT(40) DEF Shapes
  <2>3. s.kind = "store" /\ s.name = name
    OBVIOUS
  <2>4. chain'.deployed = Append(chain.deployed, name) /\ "deployed" \in DOMAIN chain'
    BY <2>1 DEF Shapes
  <2>5. /\ pc' = "reading" /\ world' = w /\ save' = s
        /\ UNCHANGED <<dryRun, base, task, file, takenBack, interrupted, rollbacks>>
    BY <2>1, BeginSaveEffect
  <2> HIDE DEF w, s, name, address
  <2>6. address = Len(chain.deployed) + 1 /\ name = Last(Words) /\ pc = "running"
    BY <2>1 DEF address, name, Runs
  <2>7. Shapes'
    BY <2>2, <2>4, <2>5 DEF Shapes
  <2> QED
    BY <1>2, <2>1, <2>2, <2>3, <2>4, <2>5, <2>6, <2>7 DEF SavesContract
<1>3. CASE ~ dryRun /\ ~ ok
  BY <1>3, FailHere DEF Build, Runs, FailsAtRest, Saving
<1> QED
  BY <1>1, <1>2, <1>3

LEMMA AdoptKind ==
  ASSUME Shapes, NEW address \in DOMAIN chain.deployed, Adopt(address)
  PROVE  DryStores \/ SavesContract
<1> DEFINE name == Last(Words)
           w == StoreContract(world, name, address)
           s == [kind |-> "store", name |-> name, action |-> FALSE, ok |-> TRUE]
<1>1. "contracts" \in DOMAIN w /\ w.contracts = [world.contracts EXCEPT ![name] = address]
  BY StoreShape DEF Shapes
<1>2. CASE dryRun
  <2>1. pc = "running" /\ Quiet(w)
    BY <1>2 DEF Adopt, Runs
  <2> HIDE DEF w
  <2> QED
    BY <1>1, <1>2, <2>1 DEF Quiet, Done, DryStores, outsideVars, Shapes
<1>3. CASE ~ dryRun
  <2>1. pc = "running" /\ BeginSave(w, s) /\ UNCHANGED <<chain, merges>>
    BY <1>3 DEF Adopt, Runs
  <2>2. s.kind = "store" /\ s.name = name
    OBVIOUS
  <2>3. /\ pc' = "reading" /\ world' = w /\ save' = s
        /\ UNCHANGED <<dryRun, base, task, file, takenBack, interrupted, rollbacks>>
    BY <2>1, BeginSaveEffect
  <2> HIDE DEF w, s, name
  <2>4. Shapes'
    BY <1>1, <2>1, <2>3 DEF Shapes
  <2> QED
    BY <1>1, <1>3, <2>1, <2>2, <2>3, <2>4 DEF SavesContract
<1> QED
  BY <1>2, <1>3

LEMMA MergeShape ==
  ASSUME NEW action, NEW ok
  PROVE  LET s == Merge(action, ok)
         IN  s.kind = "merge"
BY DEF Merge

LEMMA BecomeKind == ASSUME Shapes, NEW ok, Become(ok) PROVE Stays \/ SavesMerge
<1>1. pc = "running" /\ BothKnown /\ Invoke(ok)
  BY DEF Become, Runs
<1>2. /\ dryRun => chain' = chain
      /\ chain'.deployed = chain.deployed /\ "deployed" \in DOMAIN chain'
  BY <1>1, InvokeEffect
<1>3. CASE dryRun
  <2> DEFINE w == AddAction(world, ok, chain'.value)
  <2>1. w.contracts = world.contracts /\ "contracts" \in DOMAIN w
    BY AddActionShape DEF Shapes
  <2>2. Done(w) /\ UNCHANGED <<save, file>>
    BY <1>3 DEF Become
  <2> HIDE DEF w
  <2> QED
    BY <1>1, <1>2, <1>3, <2>1, <2>2 DEF Done, Stays, DrySafe, Shapes
<1>4. CASE ~ dryRun
  <2> DEFINE s == Merge(TRUE, ok)
  <2>1. BeginSave(world, s) /\ UNCHANGED merges
    BY <1>4 DEF Become
  <2>2. s.kind = "merge"
    BY MergeShape
  <2>3. /\ pc' = "reading" /\ world' = world /\ save' = s
        /\ UNCHANGED <<dryRun, base, task, file, takenBack, interrupted, rollbacks>>
    BY <2>1, BeginSaveEffect
  <2> HIDE DEF s
  <2>4. world.contracts[Proxy] # NoContract
    BY <1>1 DEF BothKnown
  <2> QED
    BY <1>1, <1>2, <1>4, <2>1, <2>2, <2>3, <2>4 DEF SavesMerge, Shapes
<1> QED
  BY <1>3, <1>4

LEMMA MergeABIKind == ASSUME Shapes, MergeABI PROVE Stays \/ SavesMerge
<1>1. pc = "running" /\ BothKnown
  BY DEF MergeABI, Runs
<1>2. CASE dryRun
  BY <1>1, <1>2, QuietKind DEF MergeABI, Shapes
<1>3. CASE ~ dryRun
  <2> DEFINE s == Merge(FALSE, TRUE)
  <2>1. BeginSave(world, s) /\ UNCHANGED <<chain, merges>>
    BY <1>3 DEF MergeABI
  <2>2. s.kind = "merge"
    BY MergeShape
  <2>3. /\ pc' = "reading" /\ world' = world /\ save' = s
        /\ UNCHANGED <<dryRun, base, task, file, takenBack, interrupted, rollbacks>>
    BY <2>1, BeginSaveEffect
  <2> HIDE DEF s
  <2>4. world.contracts[Proxy] # NoContract
    BY <1>1 DEF BothKnown
  <2> QED
    BY <1>1, <1>3, <2>1, <2>2, <2>3, <2>4 DEF SavesMerge, Shapes
<1> QED
  BY <1>2, <1>3

\* A merge starts that nobody waits for.
LetsMerge ==
  /\ pc = "running" /\ pc' = "checking" /\ ~ dryRun /\ merges' = merges + 1
  /\ UNCHANGED <<dryRun, base, file, interrupted, rollbacks>>
  /\ chain'.deployed = chain.deployed
  /\ Shapes'

LEMMA SetImplementationKind ==
  ASSUME Shapes, dryRun => task = NoTask, merges \in Nat, NEW ok, SetImplementation(ok)
  PROVE  Stays \/ LetsMerge
<1> DEFINE w == AddAction(world, ok, chain'.value)
<1>1. w.contracts = world.contracts /\ "contracts" \in DOMAIN w
  BY AddActionShape DEF Shapes
<1>2. /\ pc = "running" /\ pc' = "checking" /\ world' = w /\ Invoke(ok)
      /\ merges' = merges + (IF dryRun THEN 0 ELSE 1)
      /\ dryRun => task' = NoTask
      /\ UNCHANGED <<dryRun, base, save, file, takenBack, interrupted, rollbacks>>
  BY DEF SetImplementation, Runs
<1>3. /\ dryRun => chain' = chain
      /\ chain'.deployed = chain.deployed /\ "deployed" \in DOMAIN chain'
  BY <1>2, InvokeEffect
<1> HIDE DEF w
<1>4. CASE dryRun
  BY <1>1, <1>2, <1>3, <1>4 DEF Stays, DrySafe, Shapes
<1>5. CASE ~ dryRun
  BY <1>1, <1>2, <1>3, <1>5 DEF LetsMerge, Shapes
<1> QED
  BY <1>4, <1>5

\* What is to be written is made from what both files hold.
Reads ==
  /\ pc = "reading" /\ pc' = "writing"
  /\ UNCHANGED <<dryRun, base, task, merges, file, chain, takenBack, interrupted, rollbacks>>
  /\ \/ /\ save.kind # "merge" /\ UNCHANGED world
        /\ save'.networks = [file.networks EXCEPT ![save.name] = world.contracts[save.name]]
     \/ /\ save.kind = "merge"
        /\ world'.contracts = [world.contracts EXCEPT ![Target] = world.contracts[Proxy]]
        /\ save'.networks = [file.networks EXCEPT ![Target] = world.contracts[Proxy]]
  /\ Shapes'

LEMMA ReadFilesKind == ASSUME Shapes, ReadFiles PROVE Reads \/ Ends \/ TakesBack
<1> DEFINE lost == save.kind = "merge" /\ ~ ({Proxy, save.name} \subseteq file.abi)
           w == StoreContract(world, Target, world.contracts[Proxy])
<1>1. "contracts" \in DOMAIN w
      /\ w.contracts = [world.contracts EXCEPT ![Target] = world.contracts[Proxy]]
  BY StoreShape DEF Shapes
<1>2. CASE lost
  BY <1>2, FailHere DEF ReadFiles, FailsAtRest
<1>3. CASE ~ lost /\ save.kind = "merge"
  <2>1. /\ pc = "reading" /\ pc' = "writing" /\ world' = w
        /\ save'.networks = [file.networks EXCEPT ![Target] = world.contracts[Proxy]]
        /\ UNCHANGED <<dryRun, base, task, merges, file, chain, takenBack, interrupted, rollbacks>>
    BY <1>3 DEF ReadFiles, MergedNetworks, ToWrite, outsideVars, historyVars
  <2> HIDE DEF w, lost
  <2> QED
    BY <1>1, <1>3, <2>1 DEF Reads, Shapes
<1>4. CASE ~ lost /\ save.kind # "merge"
  <2>1. /\ pc = "reading" /\ pc' = "writing" /\ UNCHANGED world
        /\ save'.networks = [file.networks EXCEPT ![save.name] = world.contracts[save.name]]
        /\ UNCHANGED <<dryRun, base, task, merges, file, chain, takenBack, interrupted, rollbacks>>
    BY <1>4 DEF ReadFiles, ToWrite, outsideVars, historyVars
  <2> HIDE DEF w, lost
  <2> QED
    BY <1>4, <2>1 DEF Reads, Shapes
<1> QED
  BY <1>2, <1>3, <1>4

Writes ==
  /\ pc = "writing" /\ pc' = "writingABI"
  /\ UNCHANGED <<dryRun, base, world, save, task, merges, chain, takenBack, interrupted, rollbacks>>
  /\ file'.networks = save.networks
  /\ Shapes'

LEMMA WriteNetworksKind == ASSUME Shapes, WriteNetworks PROVE Writes
BY DEF WriteNetworks, Writes, lineVars, historyVars, Shapes

WritesABI ==
  /\ pc = "writingABI" /\ pc' = "checking"
  /\ UNCHANGED <<dryRun, base, task, merges, chain, takenBack, interrupted, rollbacks>>
  /\ world'.contracts = world.contracts
  /\ file'.networks = file.networks
  /\ Shapes'

LEMMA WriteABIKind == ASSUME Shapes, WriteABI PROVE WritesABI
<1> DEFINE w == IF save.action THEN AddAction(world, save.ok, chain.value) ELSE world
<1>1. "contracts" \in DOMAIN w /\ w.contracts = world.contracts
  BY AddActionShape DEF Shapes
<1>2. Done(w) /\ pc = "writingABI" /\ UNCHANGED chain /\ file' = [file EXCEPT !.abi = save.abi]
  BY DEF WriteABI
<1> HIDE DEF w
<1> QED
  BY <1>1, <1>2 DEF Done, WritesABI, Shapes

\* A merge nobody waits for goes on.
MergesOn ==
  /\ task # NoTask
  /\ UNCHANGED <<pc, dryRun, base, world, save, merges, chain, takenBack, interrupted, rollbacks>>
  /\ Shapes'

LEMMA TaskKind ==
  ASSUME Shapes, interrupted \in Nat, TaskReads \/ TaskWritesNetworks \/ TaskWritesABI \/ TaskFails
  PROVE  MergesOn \/ Ends
<1>1. task # NoTask
  BY DEF TaskReads, TaskWritesNetworks, TaskWritesABI, TaskFails, NoTask
<1>2. ASSUME NEW new, NEW f, TaskStep(new, f), {"networks", "abi"} \subseteq DOMAIN f
      PROVE  MergesOn
  BY <1>1, <1>2 DEF TaskStep, MergesOn, processVars, lineVars, historyVars, Shapes
<1>3. CASE TaskReads
  BY <1>2, <1>3 DEF TaskReads, Shapes
<1>4. CASE TaskWritesNetworks
  <2> DEFINE f == [file EXCEPT !.networks = task.networks]
  <2>1. {"networks", "abi"} \subseteq DOMAIN f
    BY DEF Shapes
  <2>2. TaskStep([task EXCEPT !.stage = "writingABI"], f)
    BY <1>4 DEF TaskWritesNetworks
  <2> QED
    BY <1>2, <2>1, <2>2
<1>5. CASE TaskWritesABI
  <2> DEFINE f == [file EXCEPT !.abi = task.abi]
  <2>1. {"networks", "abi"} \subseteq DOMAIN f
    BY DEF Shapes
  <2>2. TaskStep(NoTask, f)
    BY <1>5 DEF TaskWritesABI
  <2> QED
    BY <1>2, <2>1, <2>2
<1>6. CASE TaskFails
  <2>1. CASE TaskStep(NoTask, file)
    BY <1>2, <2>1 DEF Shapes
  <2>2. CASE /\ Stop /\ UNCHANGED <<outsideVars, merges, rollbacks>>
             /\ interrupted' = interrupted + (IF Saving THEN 1 ELSE 0)
    BY <2>2, StopKind
  <2> QED
    BY <1>6, <2>1, <2>2 DEF TaskFails
<1> QED
  BY <1>3, <1>4, <1>5, <1>6

-----------------------------------------------------------------------------
(* Every step is of one of these kinds *)

Still ==
  UNCHANGED <<pc, dryRun, base, world, save, task, chain, file, takenBack, merges, interrupted,
              rollbacks>>

AnyKind ==
  \/ Starts \/ RunsLine \/ GoesOn \/ Stays \/ Ends \/ TakesBack \/ DryStores
  \/ SavesContract \/ SavesMerge \/ LetsMerge \/ Reads \/ Writes \/ WritesABI \/ MergesOn

LEMMA EveryStep ==
  ASSUME Dry, merges \in Nat, interrupted \in Nat, [Next]_vars
  PROVE  AnyKind \/ Still
<1>1. Shapes /\ (dryRun => task = NoTask)
  BY DEF Dry
<1>2. CASE UNCHANGED vars
  BY <1>2 DEF vars, Still, processVars, lineVars, outsideVars, historyVars
<1>3. CASE \E asScript, dry \in BOOLEAN : Start(asScript, dry)
  BY <1>1, <1>3, StartKind DEF AnyKind
<1>4. CASE Crash
  BY <1>1, <1>4, StopKind DEF Crash, AnyKind
<1>5. CASE \E line : RunCommand(line)
  BY <1>1, <1>5, RunCommandKind DEF AnyKind
<1>6. CASE Refuse \/ Throw \/ UnknownType \/ UnknownContract \/ CheckFails
  BY <1>1, <1>6, BackKind DEF AnyKind
<1>7. CASE PassOn \/ Observe \/ MyAddress \/ Invariant \/ Expect \/ HoldInvariants
           \/ ClearInvariants
  BY <1>1, <1>7, InsideKind DEF AnyKind
<1>8. CASE Wrapped \/ Asserted
  BY <1>1, <1>8, WrappedKind, AssertedKind DEF AnyKind
<1>9. CASE \E ok : Send(ok) \/ SendAny(ok)
  BY <1>1, <1>9, SendKind, SendAnyKind DEF AnyKind
<1>10. CASE \E ok : Build(ok) \/ Become(ok)
  BY <1>1, <1>10, BuildKind, BecomeKind DEF AnyKind
<1>11. CASE \E ok : SetImplementation(ok)
  BY <1>1, <1>11, SetImplementationKind DEF AnyKind
<1>12. CASE \E address \in DOMAIN chain.deployed : Adopt(address)
  BY <1>1, <1>12, AdoptKind DEF AnyKind
<1>13. CASE MergeABI \/ ReadFiles \/ WriteNetworks \/ WriteABI
  BY <1>1, <1>13, MergeABIKind, ReadFilesKind, WriteNetworksKind, WriteABIKind DEF AnyKind
<1>14. CASE TaskReads \/ TaskWritesNetworks \/ TaskWritesABI \/ TaskFails
  BY <1>1, <1>14, TaskKind DEF AnyKind
<1>15. CASE CheckPasses
  BY <1>1, <1>15, CheckPassesKind DEF AnyKind
<1> QED
  BY <1>2, <1>3, <1>4, <1>5, <1>6, <1>7, <1>8, <1>9, <1>10, <1>11, <1>12, <1>13, <1>14, <1>15
  DEF Next

-----------------------------------------------------------------------------
(* The theorem about dry runs *)

DryInv == Dry /\ merges \in Nat /\ interrupted \in Nat

LEMMA DryStart == Init => DryInv
BY NewWorldShape DEF Init, DryInv, Dry, Shapes, Saving

LEMMA DryStep ==
  ASSUME DryInv, [Next]_vars
  PROVE  DryInv' /\ DryLeaves
<1>1. AnyKind \/ Still
  BY EveryStep DEF DryInv
<1>2. CASE Stays \/ Ends \/ TakesBack \/ DryStores
  BY <1>2, DryOfKinds DEF DryInv, Stays, Ends, TakesBack, DryStores
<1>3. CASE Starts \/ RunsLine \/ GoesOn \/ Still
  BY <1>3 DEF DryInv, Dry, DryLeaves, DrySafe, Starts, RunsLine, GoesOn, Still, Saving, Shapes
<1>4. CASE SavesContract \/ SavesMerge \/ LetsMerge
  BY <1>4 DEF DryInv, Dry, DryLeaves, SavesContract, SavesMerge, LetsMerge
<1>5. CASE Reads \/ Writes \/ WritesABI
  BY <1>5 DEF DryInv, Dry, DryLeaves, Reads, Writes, WritesABI, Saving
<1>6. CASE MergesOn
  BY <1>6 DEF DryInv, Dry, DryLeaves, MergesOn, Saving
<1> QED
  BY <1>1, <1>2, <1>3, <1>4, <1>5, <1>6 DEF AnyKind

\* In any reachable state a dry run is saving nothing and has no merge under way
\* (storeAndSaveContract, mergeContractABI).
THEOREM DryHolds == Spec => []DryInv
<1>1. DryInv /\ [Next]_vars => DryInv'
  BY DryStep
<1> QED
  BY <1>1, DryStart, PTL DEF Spec

\* However long the session and whatever its lines, a dry run changes no networks
\* file and no ABI file, and the chain by sendAny alone (World.dryRun, invoke,
\* storeAndSaveContract).
THEOREM DryRunChangesNothing == Spec => DryRunLeavesAll
<1>1. DryInv /\ [Next]_vars
        => [dryRun /\ dryRun' =>
              /\ file'.networks = file.networks /\ file'.abi = file.abi
              /\ chain' # chain => Runs({"bypass"})]_vars
  BY DryStep DEF DryLeaves, DrySafe
<1> QED
  BY <1>1, DryHolds, PTL DEF Spec, DryRunLeavesAll

-----------------------------------------------------------------------------
(* What the prompt knows is on disk *)

IsMap(c) == c = [n \in Contracts |-> c[n]]

\* Every contract of c is in d.
Within(c, d) == \A n \in Contracts : c[n] # NoContract => d[n] # NoContract

\* The contracts c of a line are those of d, but for what was saved by lines
\* taken back.
Matched(c, d) == Within(c, d) /\ (takenBack \/ c = d)

\* A contract is stored in the world and not yet in the file.
AheadByOne ==
  /\ \A n \in Contracts \ {save.name} :
       /\ world.contracts[n] # NoContract => file.networks[n] # NoContract
       /\ takenBack \/ world.contracts[n] = file.networks[n]
  /\ save.name \in Contracts => world.contracts[save.name] # NoContract

\* What is about to be written is what the world knows, and drops nothing.
ReadyToWrite ==
  /\ IsMap(save.networks)
  /\ Matched(world.contracts, save.networks)
  /\ Within(file.networks, save.networks)

InStep ==
  /\ IsMap(base.contracts) /\ IsMap(world.contracts)
  /\ Within(base.contracts, file.networks)
  /\ pc = "prompt" => Matched(base.contracts, file.networks)
  /\ pc \in {"running", "checking", "writingABI"} => Matched(world.contracts, file.networks)
  /\ pc = "reading" /\ save.kind # "merge" => AheadByOne
  /\ pc = "reading" /\ save.kind = "merge" =>
       Matched(world.contracts, file.networks) /\ world.contracts[Proxy] # NoContract
  /\ pc = "writing" => ReadyToWrite

KnownInv ==
  /\ DryInv
  /\ \E S : chain.deployed \in Seq(S)
  /\ merges = 0 => task = NoTask /\ IsMap(file.networks)
  /\ merges = 0 /\ ~ dryRun => InStep

LEMMA NewMap == IsMap(NewWorld.contracts) /\ (\A d : Within(NewWorld.contracts, d))
BY NewWorldShape DEF IsMap, Within

LEMMA KnownStart == Init => KnownInv
<1> SUFFICES ASSUME Init PROVE KnownInv
  OBVIOUS
<1>1. DryInv
  BY DryStart
<1>2. chain.deployed \in Seq({})
  BY DEF Init
<1>3. task = NoTask /\ IsMap(file.networks)
  BY DEF Init, IsMap
<1>4. InStep
  BY NewMap DEF Init, InStep
<1> QED
  BY <1>1, <1>2, <1>3, <1>4 DEF KnownInv

LEMMA DeployedStep ==
  ASSUME KnownInv, AnyKind \/ Still
  PROVE  \E S : chain'.deployed \in Seq(S)
<1>1. PICK S : chain.deployed \in Seq(S)
  BY DEF KnownInv
<1>2. CASE \E name : chain'.deployed = Append(chain.deployed, name)
  <2>1. PICK name : chain'.deployed = Append(chain.deployed, name)
    BY <1>2
  <2>2. Append(chain.deployed, name) \in Seq(S \cup {name})
    <3>1. chain.deployed \in Seq(S \cup {name})
      BY <1>1
    <3> QED
      BY <3>1
  <2> QED
    BY <2>1, <2>2
<1>3. CASE chain'.deployed = chain.deployed
  BY <1>1, <1>3
<1>4. \/ chain'.deployed = chain.deployed
      \/ \E name : chain'.deployed = Append(chain.deployed, name)
  BY DEF AnyKind, Still, Starts, RunsLine, GoesOn, Stays, Ends, TakesBack, DryStores,
     SavesContract, SavesMerge, LetsMerge, Reads, Writes, WritesABI, MergesOn
<1> QED
  BY <1>2, <1>3, <1>4

\* Steps that leave the network files, the world's contracts and the prompt's.
LEMMA InStepSame ==
  ASSUME InStep, Stays \/ WritesABI
  PROVE  InStep'
BY DEF InStep, IsMap, Within, Matched, Stays, WritesABI

LEMMA InStepLine ==
  ASSUME InStep, RunsLine \/ GoesOn \/ TakesBack
  PROVE  InStep'
<1>1. CASE RunsLine
  BY <1>1 DEF InStep, IsMap, Within, Matched, RunsLine
<1>2. CASE GoesOn
  BY <1>2 DEF InStep, IsMap, Within, Matched, GoesOn
<1>3. CASE TakesBack
  BY <1>3 DEF InStep, IsMap, Within, Matched, TakesBack
<1> QED
  BY <1>1, <1>2, <1>3

LEMMA InStepStarts ==
  ASSUME IsMap(file.networks), Starts
  PROVE  InStep'
BY DEF InStep, IsMap, Within, Matched, Starts

LEMMA InStepEnds ==
  ASSUME Ends
  PROVE  InStep'
<1>1. base' = NewWorld /\ world' = NewWorld /\ pc' = "off"
  BY DEF Ends
<1>2. IsMap(base.contracts)' /\ IsMap(world.contracts)' /\ Within(base.contracts, file.networks)'
  BY <1>1, NewMap DEF IsMap, Within
<1> QED
  BY <1>1, <1>2 DEF InStep

LEMMA InStepSavesMerge ==
  ASSUME InStep, SavesMerge
  PROVE  InStep'
BY DEF InStep, IsMap, Within, Matched, SavesMerge

LEMMA InStepSavesContract ==
  ASSUME InStep, SavesContract, NEW S, chain.deployed \in Seq(S)
  PROVE  InStep'
<1>1. PICK address :
         /\ world'.contracts = [world.contracts EXCEPT ![save'.name] = address]
         /\ address \in DOMAIN chain.deployed \/ address = Len(chain.deployed) + 1
  BY DEF SavesContract
<1>2. address # NoContract
  <2>1. Len(chain.deployed) \in Nat /\ DOMAIN chain.deployed = 1 .. Len(chain.deployed)
    OBVIOUS
  <2> QED
    BY <1>1, <2>1 DEF NoContract
<1>3. /\ pc = "running" /\ pc' = "reading" /\ save'.kind = "store"
      /\ UNCHANGED <<base, file, takenBack>>
     
  BY DEF SavesContract
<1>4. IsMap(world.contracts) /\ Matched(world.contracts, file.networks)
  BY <1>3 DEF InStep
<1>5. IsMap(world.contracts)'
  BY <1>1, <1>4 DEF IsMap
<1>6. AheadByOne'
  BY <1>1, <1>2, <1>3, <1>4 DEF AheadByOne, IsMap, Within, Matched
<1> QED
  BY <1>3, <1>5, <1>6 DEF InStep, IsMap, Within

LEMMA InStepReads ==
  ASSUME InStep, Reads, IsMap(file.networks)
  PROVE  InStep'
<1>1. /\ pc = "reading" /\ pc' = "writing" /\ UNCHANGED <<base, file, takenBack>>
  BY DEF Reads, InStep
<1>2. IsMap(world.contracts)
  BY DEF InStep
<1>3. IsMap(world.contracts)' /\ ReadyToWrite'
  <2>1. CASE save.kind # "merge"
    <3>1. /\ UNCHANGED world
          /\ save'.networks = [file.networks EXCEPT ![save.name] = world.contracts[save.name]]
      BY <1>1, <2>1 DEF Reads
    <3>2. AheadByOne
      BY <1>1, <2>1 DEF InStep
    <3>3. \A n \in Contracts : save'.networks[n]
                               = IF n = save.name THEN world.contracts[n] ELSE file.networks[n]
      BY <3>1 DEF IsMap
    <3>4. IsMap(save.networks)'
      BY <3>1 DEF IsMap
    <3>5. Within(world.contracts, save.networks)' /\ Within(file.networks, save.networks)'
      BY <1>1, <3>1, <3>2, <3>3 DEF Within, AheadByOne
    <3>6. (takenBack \/ world.contracts = save.networks)'
      BY <1>1, <1>2, <3>1, <3>2, <3>3, <3>4 DEF AheadByOne, IsMap
    <3> QED
      BY <1>2, <3>1, <3>4, <3>5, <3>6 DEF ReadyToWrite, Matched, IsMap
  <2>2. CASE save.kind = "merge"
    <3>1. /\ world'.contracts = [world.contracts EXCEPT ![Target] = world.contracts[Proxy]]
          /\ save'.networks = [file.networks EXCEPT ![Target] = world.contracts[Proxy]]
      BY <1>1, <2>2 DEF Reads
    <3>2. Matched(world.contracts, file.networks) /\ world.contracts[Proxy] # NoContract
      BY <1>1, <2>2 DEF InStep
    <3>3. \A n \in Contracts :
            /\ save'.networks[n] = IF n = Target THEN world.contracts[Proxy] ELSE file.networks[n]
            /\ world'.contracts[n] = IF n = Target THEN world.contracts[Proxy] ELSE world.contracts[n]
      BY <1>2, <3>1 DEF IsMap
    <3>4. IsMap(save.networks)' /\ IsMap(world.contracts)'
      BY <1>2, <3>1 DEF IsMap
    <3>5. Within(world.contracts, save.networks)' /\ Within(file.networks, save.networks)'
      BY <1>1, <3>2, <3>3 DEF Within, Matched
    <3>6. (takenBack \/ world.contracts = save.networks)'
      BY <1>1, <3>1, <3>2 DEF Matched
    <3> QED
      BY <3>4, <3>5, <3>6 DEF ReadyToWrite, Matched
  <2> QED
    BY <2>1, <2>2
<1> QED
  BY <1>1, <1>3 DEF InStep, IsMap, Within

LEMMA InStepWrites ==
  ASSUME InStep, Writes
  PROVE  InStep' /\ IsMap(file.networks)'
<1>1. /\ pc = "writing" /\ pc' = "writingABI" /\ file'.networks = save.networks
      /\ UNCHANGED <<base, world, takenBack>>
  BY DEF Writes
<1>2. ReadyToWrite
  BY <1>1 DEF InStep
<1>3. IsMap(file.networks)' /\ Matched(world.contracts, file.networks)'
  BY <1>1, <1>2 DEF ReadyToWrite, IsMap, Matched, Within
<1>4. Within(base.contracts, file.networks)'
  BY <1>1, <1>2 DEF ReadyToWrite, Within, InStep
<1> QED
  BY <1>1, <1>3, <1>4 DEF InStep, IsMap

LEMMA KnownStep ==
  ASSUME KnownInv, [Next]_vars
  PROVE  KnownInv'
<1>1. DryInv' /\ (AnyKind \/ Still)
  BY DryStep, EveryStep DEF KnownInv, DryInv
<1>2. \E S : chain'.deployed \in Seq(S)
  BY <1>1, DeployedStep
<1>3. merges \in Nat /\ (merges' = 0 => merges = 0)
  BY <1>1 DEF KnownInv, DryInv, AnyKind, Still, Starts, RunsLine, GoesOn, Stays, Ends, TakesBack,
     DryStores, SavesContract, SavesMerge, LetsMerge, Reads, Writes, WritesABI, MergesOn
<1>4. ASSUME merges' = 0
      PROVE  task' = NoTask /\ IsMap(file.networks)' /\ (~ dryRun' => InStep')
  <2>1. merges = 0 /\ task = NoTask /\ IsMap(file.networks) /\ (~ dryRun => InStep)
    BY <1>3, <1>4 DEF KnownInv
  <2>2. CASE Starts
    BY <2>1, <2>2, InStepStarts DEF Starts, IsMap
  <2>3. CASE Ends
    BY <2>1, <2>3, InStepEnds DEF Ends, IsMap
  <2>4. CASE RunsLine \/ GoesOn \/ TakesBack
    BY <2>1, <2>4, InStepLine DEF RunsLine, GoesOn, TakesBack, IsMap
  <2>5. CASE Stays \/ WritesABI
    BY <2>1, <2>5, InStepSame DEF Stays, WritesABI, IsMap
  <2>6. CASE DryStores
    BY <2>1, <2>6 DEF DryStores, IsMap
  <2>7. CASE SavesContract
    BY <2>1, <2>7, InStepSavesContract DEF KnownInv, SavesContract, IsMap
  <2>8. CASE SavesMerge
    BY <2>1, <2>8, InStepSavesMerge DEF SavesMerge, IsMap
  <2>9. CASE LetsMerge
    BY <2>1, <2>9, <1>4 DEF LetsMerge
  <2>10. CASE Reads \/ Writes
    <3>1. ~ dryRun
      BY <2>10 DEF KnownInv, DryInv, Dry, Saving, Reads, Writes
    <3> QED
      BY <2>1, <2>10, <3>1, InStepReads, InStepWrites DEF Reads, Writes, IsMap
  <2>11. CASE MergesOn
    BY <2>1, <2>11 DEF MergesOn
  <2>12. CASE Still
    BY <2>1, <2>12 DEF Still, IsMap, InStep, Within, Matched, AheadByOne, ReadyToWrite
  <2> QED
    BY <1>1, <2>2, <2>3, <2>4, <2>5, <2>6, <2>7, <2>8, <2>9, <2>10, <2>11, <2>12 DEF AnyKind
<1> QED
  BY <1>1, <1>2, <1>4 DEF KnownInv

\* While no merge runs unwaited for, every contract the prompt knows is in the
\* networks file, at the address it knows unless a line was taken back after it
\* saved, wherever the process stopped before (storeAndSaveContract, saveContract,
\* loadContracts).
THEOREM KnownIsOnDisk == Spec => []KnownOnDisk
<1>1. KnownInv /\ [Next]_vars => KnownInv'
  BY KnownStep
<1>2. KnownInv => KnownOnDisk
  BY DEF KnownInv, KnownOnDisk, InStep, Within, Matched
<1> QED
  BY <1>1, <1>2, KnownStart, PTL DEF Spec

-----------------------------------------------------------------------------
(* What is in the networks file has its ABI. *)

\* The contracts saved without their ABI.
Lost == {n \in Contracts : file.networks[n] # NoContract /\ n \notin file.abi}

AtMost(S, k) == IsFiniteSet(S) /\ Cardinality(S) <= k

\* What is to be written is one contract, and its ABI.
OneMore(n) ==
  /\ n \in save.abi /\ file.abi \subseteq save.abi
  /\ \A m \in Contracts \ {n} : save.networks[m] = file.networks[m]

AbiInv ==
  /\ KnownInv
  /\ merges = 0 =>
       /\ interrupted \in Nat
       /\ pc # "writingABI" => AtMost(Lost, interrupted)
       /\ pc = "writing" => \E n : OneMore(n)
       /\ pc = "writingABI" => /\ file.abi \subseteq save.abi
                               /\ \E n \in save.abi : AtMost(Lost \ {n}, interrupted)

\* Both files stay, outside the writing of one.
FilesStay ==
  /\ pc # "writingABI" /\ pc' \notin {"writing", "writingABI"}
  /\ file'.networks = file.networks /\ file'.abi = file.abi
  /\ UNCHANGED interrupted

\* The process ends, perhaps in the middle of a save.
CutShort ==
  /\ pc' = "off" /\ UNCHANGED file
  /\ interrupted' = interrupted + (IF Saving THEN 1 ELSE 0)

FilesRead ==
  /\ pc = "reading" /\ pc' = "writing" /\ UNCHANGED <<file, interrupted>>
  /\ \E n, address : /\ save'.networks = [file.networks EXCEPT ![n] = address]
                     /\ save'.abi = file.abi \cup {n}

NetworksWritten ==
  /\ pc = "writing" /\ pc' = "writingABI" /\ UNCHANGED <<save, interrupted>>
  /\ file'.networks = save.networks /\ file'.abi = file.abi

AbiWritten ==
  /\ pc = "writingABI" /\ pc' = "checking" /\ UNCHANGED interrupted
  /\ file'.networks = file.networks /\ file'.abi = save.abi

FilesAsTheyWere == UNCHANGED <<pc, save, file, interrupted>>

FileKind ==
  FilesStay \/ CutShort \/ FilesRead \/ NetworksWritten \/ AbiWritten \/ FilesAsTheyWere

LEMMA FailFiles ==
  ASSUME NEW objs, Fail(objs), UNCHANGED file, pc # "writingABI"
  PROVE  FilesStay
BY DEF Fail, Stop, FilesStay, historyVars

LEMMA DoneFiles ==
  ASSUME NEW w, Done(w), pc = "running",
         file'.networks = file.networks, file'.abi = file.abi
  PROVE  FilesStay
BY DEF Done, FilesStay

LEMMA SaveFiles ==
  ASSUME pc = "running", NEW w, NEW s, BeginSave(w, s)
  PROVE  FilesStay
BY DEF BeginSave, FilesStay

LEMMA LineFiles ==
  ASSUME Shapes,
         \/ PassOn \/ Wrapped \/ Observe \/ MyAddress \/ Invariant \/ Expect
         \/ HoldInvariants \/ ClearInvariants \/ Asserted \/ CheckPasses
         \/ Refuse \/ Throw \/ UnknownType \/ UnknownContract \/ CheckFails
  PROVE  FilesStay
<1>1. CASE PassOn
  BY <1>1 DEF PassOn, Searching, processVars, outsideVars, historyVars, FilesStay
<1>2. ASSUME NEW w, NEW sender, RunInner(w, sender), pc = "running" PROVE FilesStay
  BY <1>2 DEF RunInner, processVars, outsideVars, historyVars, FilesStay
<1>3. ASSUME NEW w, Quiet(w), pc = "running" PROVE FilesStay
  BY <1>3, DoneFiles DEF Quiet, outsideVars
<1>4. CASE Wrapped
  BY <1>2, <1>3, <1>4 DEF Wrapped, Runs
<1>5. CASE Observe \/ Expect
  BY <1>3, <1>5 DEF Observe, Expect, Runs
<1>6. CASE MyAddress
  BY <1>6, DoneFiles DEF MyAddress, Runs, Shapes
<1>7. CASE Invariant
  BY <1>7, DoneFiles DEF Invariant, AddInvariant, Runs, outsideVars
<1>8. CASE HoldInvariants \/ ClearInvariants
  BY <1>8, DoneFiles DEF HoldInvariants, ClearInvariants, Runs, outsideVars
<1>9. CASE Asserted
  <2>1. PICK result : Judge(result) /\ pc = "running"
    BY <1>9 DEF Asserted, Runs
  <2> QED
    BY <1>3, <2>1, FailFiles DEF Judge, outsideVars
<1>10. CASE CheckPasses
  BY <1>10 DEF CheckPasses, Begin, outsideVars, historyVars, FilesStay
<1>11. CASE Refuse \/ Throw \/ UnknownType \/ UnknownContract \/ CheckFails
  BY <1>11, FailFiles DEF Refuse, Throw, UnknownType, UnknownContract, CheckFails, Searching, Runs, outsideVars
<1> QED
  BY <1>1, <1>4, <1>5, <1>6, <1>7, <1>8, <1>9, <1>10, <1>11

LEMMA ChainFiles ==
  ASSUME Shapes,
         \/ \E ok : Send(ok) \/ SendAny(ok) \/ Build(ok) \/ Become(ok) \/ SetImplementation(ok)
         \/ \E address : Adopt(address)
         \/ MergeABI
  PROVE  FilesStay
<1>1. ASSUME NEW ok, Send(ok) PROVE FilesStay
  BY <1>1, DoneFiles DEF Send, Runs
<1>2. ASSUME NEW ok, SendAny(ok) PROVE FilesStay
  BY <1>2, DoneFiles, FailFiles DEF SendAny, Runs
<1>3. ASSUME NEW ok, Build(ok) PROVE FilesStay
  <2>1. pc = "running"
    BY <1>3 DEF Build, Runs
  <2>2. \/ Fail(objects) /\ UNCHANGED file
        \/ \E w : Done(w) /\ UNCHANGED file
        \/ \E w, s : BeginSave(w, s)
    BY <1>3 DEF Build, outsideVars
  <2> QED
    BY <2>1, <2>2, DoneFiles, FailFiles, SaveFiles
<1>4. ASSUME NEW ok, Become(ok) PROVE FilesStay
  <2>1. pc = "running" /\ \/ \E w : Done(w) /\ UNCHANGED file
                          \/ \E w, s : BeginSave(w, s)
    BY <1>4 DEF Become, Runs
  <2> QED
    BY <2>1, DoneFiles, SaveFiles
<1>5. ASSUME NEW ok, SetImplementation(ok) PROVE FilesStay
  BY <1>5 DEF SetImplementation, Runs, FilesStay
<1>6. ASSUME NEW w, Quiet(w), pc = "running" PROVE FilesStay
  BY <1>6, DoneFiles DEF Quiet, outsideVars
<1>7. CASE MergeABI \/ \E address : Adopt(address)
  <2>1. pc = "running" /\ \/ \E w : Quiet(w)
                          \/ \E w, s : BeginSave(w, s)
    BY <1>7 DEF MergeABI, Adopt, Runs
  <2> QED
    BY <1>6, <2>1, SaveFiles
<1> QED
  BY <1>1, <1>2, <1>3, <1>4, <1>5, <1>7

LEMMA ProcessFiles ==
  ASSUME \/ \E asScript, dry : Start(asScript, dry)
         \/ Crash \/ \E line : RunCommand(line)
  PROVE  FilesStay \/ CutShort
BY DEF Start, Crash, Stop, RunCommand, Begin, outsideVars, FilesStay, CutShort

LEMMA SavedFiles ==
  ASSUME Shapes, ReadFiles \/ WriteNetworks \/ WriteABI
  PROVE  FilesStay \/ FilesRead \/ NetworksWritten \/ AbiWritten
<1>1. CASE ReadFiles
  <2>1. CASE save.kind = "merge" /\ ~ {Proxy, save.name} \subseteq file.abi
    BY <1>1, <2>1, FailFiles DEF ReadFiles, outsideVars
  <2>2. CASE ~ (save.kind = "merge" /\ ~ {Proxy, save.name} \subseteq file.abi)
    <3>1. /\ pc = "reading" /\ pc' = "writing" /\ UNCHANGED <<file, interrupted>>
          /\ \/ save' = ToWrite([file.networks EXCEPT ![Target] = world.contracts[Proxy]],
                                file.abi \cup {Target})
             \/ save' = ToWrite([file.networks EXCEPT ![save.name] = world.contracts[save.name]],
                                file.abi \cup {save.name})
      BY <1>1, <2>2 DEF ReadFiles, MergedNetworks, outsideVars, historyVars
    <3>2. \A networks, abi : /\ ToWrite(networks, abi).networks = networks
                             /\ ToWrite(networks, abi).abi = abi
      BY DEF ToWrite
    <3> DEFINE merged == [file.networks EXCEPT ![Target] = world.contracts[Proxy]]
               saved == [file.networks EXCEPT ![save.name] = world.contracts[save.name]]
    <3>3. /\ merged = [file.networks EXCEPT ![Target] = world.contracts[Proxy]]
          /\ saved = [file.networks EXCEPT ![save.name] = world.contracts[save.name]]
      OBVIOUS
    <3>4. \/ save' = ToWrite(merged, file.abi \cup {Target})
          \/ save' = ToWrite(saved, file.abi \cup {save.name})
      BY <3>1
    <3> HIDE DEF merged, saved
    <3>5. \/ save'.networks = merged /\ save'.abi = file.abi \cup {Target}
          \/ save'.networks = saved /\ save'.abi = file.abi \cup {save.name}
      BY <3>2, <3>4
    <3>6. \E n, address : /\ save'.networks = [file.networks EXCEPT ![n] = address]
                          /\ save'.abi = file.abi \cup {n}
      BY <3>3, <3>5
    <3> QED
      BY <3>1, <3>6 DEF FilesRead
  <2> QED
    BY <2>1, <2>2
<1>2. CASE WriteNetworks
  BY <1>2 DEF WriteNetworks, historyVars, NetworksWritten, Shapes
<1>3. CASE WriteABI
  BY <1>3 DEF WriteABI, Done, AbiWritten, Shapes
<1> QED
  BY <1>1, <1>2, <1>3

LEMMA EveryFile ==
  ASSUME Shapes, task = NoTask, [Next]_vars
  PROVE  FileKind
<1>1. CASE UNCHANGED vars
  BY <1>1 DEF vars, processVars, outsideVars, historyVars, FileKind, FilesAsTheyWere
<1>2. ~ (TaskReads \/ TaskWritesNetworks \/ TaskWritesABI \/ TaskFails)
  BY DEF TaskReads, TaskWritesNetworks, TaskWritesABI, TaskFails, NoTask
<1>3. CASE Next
  BY <1>2, <1>3, LineFiles, ChainFiles, ProcessFiles, SavedFiles DEF Next, FileKind
<1> QED
  BY <1>1, <1>3

LEMMA FewerAtMost ==
  ASSUME NEW S, NEW k \in Nat, AtMost(S, k), NEW T, T \subseteq S, NEW l \in Nat, k <= l
  PROVE  AtMost(T, l)
<1>1. IsFiniteSet(T) /\ Cardinality(T) <= Cardinality(S)
  BY FS_Subset DEF AtMost
<1>2. Cardinality(T) \in Nat /\ Cardinality(S) \in Nat
  BY <1>1, FS_CardinalityType DEF AtMost
<1> QED
  BY <1>1, <1>2 DEF AtMost

LEMMA OneMoreAtMost ==
  ASSUME NEW S, NEW k \in Nat, NEW x, AtMost(S \ {x}, k)
  PROVE  AtMost(S, k + 1)
<1>1. /\ IsFiniteSet((S \ {x}) \cup {x})
      /\ Cardinality((S \ {x}) \cup {x}) = Cardinality(S \ {x}) + 1
      /\ Cardinality(S \ {x}) \in Nat
  BY FS_AddElement, FS_CardinalityType DEF AtMost
<1>2. AtMost((S \ {x}) \cup {x}, k + 1)
  BY <1>1 DEF AtMost
<1> QED
  BY <1>2, FewerAtMost

LEMMA AbiStart == Init => AbiInv
<1> SUFFICES ASSUME Init PROVE AbiInv
  OBVIOUS
<1>1. Lost = {}
  BY DEF Init, Lost
<1>2. AtMost(Lost, 0)
  BY <1>1, FS_EmptySet DEF AtMost
<1> QED
  BY <1>2, KnownStart DEF Init, AbiInv

LEMMA MergesGrow ==
  ASSUME KnownInv, [Next]_vars, merges' = 0
  PROVE  merges = 0
<1>1. merges \in Nat /\ (AnyKind \/ Still)
  BY EveryStep DEF KnownInv, DryInv
<1> QED
  BY <1>1 DEF AnyKind, Still, Starts, RunsLine, GoesOn, Stays, Ends, TakesBack,
     DryStores, SavesContract, SavesMerge, LetsMerge, Reads, Writes, WritesABI, MergesOn

LEMMA AbiStep ==
  ASSUME AbiInv, [Next]_vars
  PROVE  AbiInv'
<1>1. KnownInv'
  BY KnownStep DEF AbiInv
<1> SUFFICES ASSUME merges' = 0
             PROVE  /\ interrupted' \in Nat
                    /\ pc' # "writingABI" => AtMost(Lost', interrupted')
                    /\ pc' = "writing" => \E n : OneMore(n)'
                    /\ pc' = "writingABI" => /\ file'.abi \subseteq save'.abi
                                             /\ \E n \in save'.abi : AtMost(Lost' \ {n}, interrupted')
  BY <1>1 DEF AbiInv, AtMost
<1>2. merges = 0 /\ FileKind
  <2>1. merges = 0
    BY MergesGrow DEF AbiInv
  <2>2. Shapes /\ task = NoTask
    BY <2>1 DEF AbiInv, KnownInv, DryInv, Dry
  <2> QED
    BY <2>1, <2>2, EveryFile
<1>3. /\ interrupted \in Nat
      /\ pc # "writingABI" => AtMost(Lost, interrupted)
      /\ pc = "writing" => \E n : OneMore(n)
      /\ pc = "writingABI" => /\ file.abi \subseteq save.abi
                              /\ \E n \in save.abi : AtMost(Lost \ {n}, interrupted)
  BY <1>2 DEF AbiInv
<1>4. CASE FilesStay
  <2>1. Lost' = Lost
    BY <1>4 DEF FilesStay, Lost
  <2> QED
    BY <1>3, <1>4, <2>1 DEF FilesStay
<1>5. CASE CutShort
  <2>1. Lost' = Lost
    BY <1>5 DEF CutShort, Lost
  <2>2. interrupted' \in Nat /\ interrupted <= interrupted'
    BY <1>3, <1>5 DEF CutShort
  <2>3. CASE pc # "writingABI"
    <3>1. AtMost(Lost, interrupted')
      BY <1>3, <2>2, <2>3, FewerAtMost
    <3> QED
      BY <1>5, <2>1, <2>2, <3>1 DEF CutShort
  <2>4. CASE pc = "writingABI"
    <3>1. interrupted' = interrupted + 1
      BY <1>5, <2>4 DEF CutShort, Saving
    <3>2. AtMost(Lost, interrupted + 1)
      BY <1>3, <2>4, OneMoreAtMost
    <3> QED
      BY <1>5, <2>1, <2>2, <3>1, <3>2 DEF CutShort
  <2> QED
    BY <2>3, <2>4
<1>6. CASE FilesRead
  <2>1. Lost' = Lost /\ interrupted' = interrupted /\ pc = "reading" /\ pc' = "writing"
    BY <1>6 DEF FilesRead, Lost
  <2>2. PICK n, address : /\ save'.networks = [file.networks EXCEPT ![n] = address]
                          /\ save'.abi = file.abi \cup {n} /\ file' = file
    BY <1>6 DEF FilesRead
  <2>3. IsMap(file.networks)
    BY <1>2 DEF AbiInv, KnownInv
  <2>4. OneMore(n)'
    BY <2>2, <2>3 DEF OneMore, IsMap
  <2> QED
    BY <1>3, <2>1, <2>4
<1>7. CASE NetworksWritten
  <2>1. /\ pc = "writing" /\ pc' = "writingABI" /\ save' = save /\ interrupted' = interrupted
        /\ file'.networks = save.networks /\ file'.abi = file.abi
    BY <1>7 DEF NetworksWritten
  <2>2. PICK n : OneMore(n)
    BY <1>3, <2>1
  <2>3. Lost' \ {n} \subseteq Lost
    BY <2>1, <2>2 DEF Lost, OneMore
  <2>4. AtMost(Lost' \ {n}, interrupted)
    BY <1>3, <2>1, <2>3, FewerAtMost
  <2> QED
    BY <1>3, <2>1, <2>2, <2>4 DEF OneMore
<1>8. CASE AbiWritten
  <2>1. /\ pc = "writingABI" /\ pc' = "checking" /\ interrupted' = interrupted
        /\ file'.networks = file.networks /\ file'.abi = save.abi
    BY <1>8 DEF AbiWritten
  <2>2. PICK n \in save.abi : AtMost(Lost \ {n}, interrupted)
    BY <1>3, <2>1
  <2>3. Lost' \subseteq Lost \ {n}
    BY <1>3, <2>1, <2>2 DEF Lost
  <2>4. AtMost(Lost', interrupted)
    BY <1>3, <2>2, <2>3, FewerAtMost
  <2> QED
    BY <1>3, <2>1, <2>4
<1>9. CASE FilesAsTheyWere
  <2>1. Lost' = Lost /\ (\A n : OneMore(n)' <=> OneMore(n))
    BY <1>9 DEF FilesAsTheyWere, Lost, OneMore
  <2> QED
    BY <1>3, <1>9, <2>1 DEF FilesAsTheyWere
<1> QED
  BY <1>2, <1>4, <1>5, <1>6, <1>7, <1>8, <1>9 DEF FileKind

\* While no merge runs unwaited for, the networks file names a contract without
\* its ABI at most once for every save the end of the process cut short
\* (saveContract, mergeContractABI).
THEOREM AbiIsLostToCrashes == Spec => []AbiLossNeedsACrash
<1>1. AbiInv /\ [Next]_vars => AbiInv'
  BY AbiStep
<1>2. AbiInv => AbiLossNeedsACrash
  BY DEF AbiInv, AbiLossNeedsACrash, Saving, AtMost, Lost
<1> QED
  BY <1>1, <1>2, AbiStart, PTL DEF Spec

-----------------------------------------------------------------------------
(* What a world records *)

IsWorld(w) ==
  /\ "actions" \in DOMAIN w /\ "invariants" \in DOMAIN w /\ "expectations" \in DOMAIN w
  /\ "promised" \in DOMAIN w /\ "newInvokation" \in DOMAIN w /\ "trxValue" \in DOMAIN w

Worlds == IsWorld(base) /\ IsWorld(world)

\* w records what v does.
Records(w, v) ==
  /\ w.actions = v.actions /\ w.invariants = v.invariants
  /\ w.expectations = v.expectations /\ w.promised = v.promised
  /\ w.newInvokation = v.newInvokation

LEMMA NewIsWorld == IsWorld(NewWorld) /\ IsWorld(LoadContracts(NewWorld))
                    /\ Records(LoadContracts(NewWorld), NewWorld)
BY DEF IsWorld, NewWorld, LoadContracts, Records

LEMMA ValueIsWorld ==
  ASSUME NEW w, IsWorld(w)
  PROVE  LET v == [w EXCEPT !.trxValue = 1] IN IsWorld(v) /\ Records(v, w)
BY DEF IsWorld, Records

LEMMA StoredIsWorld ==
  ASSUME NEW w, IsWorld(w), NEW name, NEW address
  PROVE  IsWorld(StoreContract(w, name, address)) /\ Records(StoreContract(w, name, address), w)
BY DEF IsWorld, StoreContract, Records

LEMMA ActedIsWorld ==
  ASSUME NEW w, IsWorld(w), NEW ok, NEW value
  PROVE  LET v == AddAction(w, ok, value)
         IN  /\ IsWorld(v)
             /\ v.actions = Append(w.actions, [ok |-> ok, after |-> value])
             /\ v.invariants = w.invariants /\ v.expectations = w.expectations
             /\ v.promised = w.promised /\ v.newInvokation
BY DEF IsWorld, AddAction

LEMMA ExpectingIsWorld ==
  ASSUME NEW w, IsWorld(w), NEW total
  PROVE  LET v == AddExpectation(w, total)
             e == [at |-> Len(w.actions), total |-> total]
         IN  /\ IsWorld(v) /\ v.actions = w.actions /\ v.invariants = w.invariants
             /\ v.expectations = w.expectations \cup {e}
             /\ v.promised = IF w.newInvokation THEN w.promised ELSE w.promised \cup {e}
             /\ v.newInvokation = w.newInvokation
BY DEF IsWorld, AddExpectation

LEMMA InventingIsWorld ==
  ASSUME NEW w, IsWorld(w), NEW S
  PROVE  LET v == [w EXCEPT !.invariants = S]
         IN  /\ IsWorld(v) /\ v.actions = w.actions /\ v.invariants = S
             /\ v.expectations = w.expectations /\ v.promised = w.promised
             /\ v.newInvokation = w.newInvokation
BY DEF IsWorld

LEMMA CheckedIsWorld ==
  ASSUME IsWorld(world)
  PROVE  /\ IsWorld(Checked) /\ Checked.actions = world.actions
         /\ Checked.invariants = world.invariants
         /\ Checked.expectations = IF world.newInvokation THEN {} ELSE world.expectations
         /\ Checked.promised = world.promised /\ ~ Checked.newInvokation
BY DEF IsWorld, Checked

-----------------------------------------------------------------------------
(* Kinds of steps, by what they do to the records *)

Working == {"running", "reading", "writing", "writingABI"}

\* What only a hold, a new invariant and a check change.
SameHolds == UNCHANGED <<base, objects, holds, cleared>>

\* The process ends.
IsOver ==
  /\ pc' = "off" /\ base' = NewWorld /\ world' = NewWorld /\ objects' = <<Success>>
  /\ UNCHANGED <<holds, cleared>>

\* It starts.
IsNew ==
  /\ pc' = "prompt" /\ base' = LoadContracts(NewWorld) /\ world' = base'
  /\ objects' = <<Success>> /\ holds' = 0 /\ ~ cleared'

\* A line is taken back.
IsBack ==
  /\ pc' = "prompt" /\ world' = base
  /\ objects' = Reachable(objects) \/ objects' = Reachable(Released(objects, world))
  /\ UNCHANGED <<base, holds, cleared>>

\* A line begins.
IsLine == pc = "prompt" /\ pc' = "running" /\ world' = base /\ SameHolds

\* A line works on without a record.
IsWork ==
  /\ pc \in Working /\ pc' \in Working \cup {"checking"}
  /\ IsWorld(world') /\ Records(world', world)
  /\ SameHolds

\* An action is recorded.
IsAct ==
  /\ pc \in Working /\ pc' = "checking"
  /\ \E w, ok : /\ IsWorld(w) /\ Records(w, world)
               /\ world' = AddAction(w, ok, chain'.value)
  /\ SameHolds

\* An expectation is.
IsExpecting ==
  /\ pc \in Working /\ pc' = "checking"
  /\ \E total : world' = AddExpectation(world, total)
  /\ SameHolds

\* An invariant is.
IsInventing ==
  /\ pc \in Working /\ pc' = "checking"
  /\ \E kind, value : objects' = Append(objects, [kind |-> kind, value |-> value, held |-> FALSE])
  /\ world' = [world EXCEPT !.invariants = world.invariants \cup {Len(objects) + 1}]
  /\ UNCHANGED <<base, holds, cleared>>

\* Invariants are held.
IsHolding ==
  /\ pc \in Working /\ pc' = "checking" /\ world' = world
  /\ \E type :
       /\ objects' = [i \in DOMAIN objects |->
                        IF i \in world.invariants /\ InvariantFilter(type, i)
                        THEN [objects[i] EXCEPT !.held = TRUE] ELSE objects[i]]
  /\ holds' = holds + 1
  /\ UNCHANGED <<base, cleared>>

\* Invariants are cleared.
IsClearing ==
  /\ pc \in Working /\ pc' = "checking"
  /\ \E type :
       /\ world' = [world EXCEPT !.invariants = {i \in world.invariants : InvariantFilter(type, i)}]
       /\ cleared' = (cleared \/ \E i \in world.invariants :
                                   objects[i].kind = "success" /\ ~InvariantFilter(type, i))
  /\ UNCHANGED <<base, objects, holds>>

\* The check passes.
IsPassed ==
  /\ pc = "checking" /\ CheckInvariants /\ CheckExpectations
  /\ world' = Checked /\ objects' = ReleasedObjects
  /\ \/ pc' = "running" /\ UNCHANGED base
     \/ pc' = "prompt" /\ base' = Checked
  /\ UNCHANGED <<holds, cleared>>

\* Something else runs, or nothing does.
IsAside == UNCHANGED <<pc, world, chain>> /\ SameHolds

RecordKind ==
  \/ IsOver \/ IsNew \/ IsBack \/ IsLine \/ IsWork \/ IsAct \/ IsExpecting \/ IsInventing
  \/ IsHolding \/ IsClearing \/ IsPassed \/ IsAside

LEMMA StopIsOver == ASSUME Stop, UNCHANGED <<holds, cleared>> PROVE IsOver
BY DEF Stop, IsOver

LEMMA FailIsBack ==
  ASSUME NEW objs, Fail(objs), objs = objects \/ objs = Released(objects, world)
  PROVE  IsOver \/ IsBack
<1>1. CASE script
  BY <1>1, StopIsOver DEF Fail, historyVars
<1>2. CASE ~ script
  BY <1>2 DEF Fail, IsBack
<1> QED
  BY <1>1, <1>2

LEMMA QuietIsWork ==
  ASSUME pc = "running", NEW w, Quiet(w), IsWorld(w), Records(w, world)
  PROVE  IsWork
BY DEF Quiet, Done, IsWork, Working, SameHolds, sharedVars

LEMMA InnerIsWork ==
  ASSUME pc = "running", NEW w, NEW sender, RunInner(w, sender), IsWorld(w), Records(w, world)
  PROVE  IsWork
BY DEF RunInner, IsWork, Working, SameHolds, processVars, sharedVars, historyVars

LEMMA SelfRecords == ASSUME Worlds PROVE IsWorld(world) /\ Records(world, world)
BY DEF Worlds, Records

LEMMA SaveIsWork ==
  ASSUME pc = "running", NEW w, NEW s, BeginSave(w, s), IsWorld(w), Records(w, world)
  PROVE  IsWork
BY DEF BeginSave, IsWork, Working, SameHolds, sharedVars

LEMMA DoneIsAct ==
  ASSUME pc \in Working, NEW w, IsWorld(w), Records(w, world), NEW ok,
         Done(AddAction(w, ok, chain'.value)), UNCHANGED <<objects, holds, cleared>>
  PROVE  IsAct
BY DEF Done, IsAct, SameHolds

\* Events that begin, go on or end without a record.
LEMMA LineRecords ==
  ASSUME Worlds, PassOn \/ Wrapped \/ Observe \/ MyAddress
  PROVE  RecordKind
<1>1. CASE PassOn
  BY <1>1, SelfRecords DEF PassOn, Searching, RecordKind, IsWork, Working, SameHolds,
     processVars, sharedVars, historyVars
<1>2. CASE Wrapped
  <2>1. pc = "running"
    BY <1>2 DEF Wrapped, Runs
  <2>2. CASE \E sender : RunInner(world, sender)
    BY <2>1, <2>2, InnerIsWork, SelfRecords DEF RecordKind
  <2>3. CASE \E sender : RunInner([world EXCEPT !.trxValue = 1], sender)
    BY <2>1, <2>3, InnerIsWork, ValueIsWorld DEF RecordKind, Worlds
  <2>4. CASE Quiet(world)
    BY <2>1, <2>4, QuietIsWork, SelfRecords DEF RecordKind
  <2> QED
    BY <1>2, <2>2, <2>3, <2>4 DEF Wrapped
<1>3. CASE Observe
  BY <1>3, QuietIsWork, SelfRecords DEF Observe, Runs, RecordKind
<1>4. CASE MyAddress
  BY <1>4, SelfRecords DEF MyAddress, Runs, Done, RecordKind, IsWork, Working, SameHolds
<1> QED
  BY <1>1, <1>2, <1>3, <1>4

LEMMA BackRecords ==
  ASSUME Worlds, Refuse \/ Throw \/ UnknownType \/ UnknownContract \/ CheckFails \/ Asserted
  PROVE  RecordKind
<1>1. CASE Refuse \/ Throw \/ UnknownType \/ UnknownContract
  BY <1>1, FailIsBack DEF Refuse, Throw, UnknownType, UnknownContract, RecordKind
<1>2. CASE CheckFails
  BY <1>2, FailIsBack DEF CheckFails, ReleasedObjects, RecordKind
<1>3. CASE Asserted
  <2>1. PICK result : Judge(result) /\ pc = "running"
    BY <1>3 DEF Asserted, Runs
  <2>2. CASE result
    BY <2>1, <2>2, QuietIsWork, SelfRecords DEF Judge, RecordKind
  <2>3. CASE ~ result
    BY <2>1, <2>3, FailIsBack DEF Judge, RecordKind
  <2> QED
    BY <2>2, <2>3
<1> QED
  BY <1>1, <1>2, <1>3

\* Events that change the invariants and the expectations.
LEMMA RulesRecords ==
  ASSUME Worlds, Invariant \/ Expect \/ HoldInvariants \/ ClearInvariants
  PROVE  RecordKind
<1>1. CASE Invariant
  <2>1. PICK kind : AddInvariant(kind) /\ pc = "running"
    BY <1>1 DEF Invariant, Runs
  <2> QED
    BY <2>1 DEF AddInvariant, Done, RecordKind, IsInventing, Working
<1>2. CASE Expect
  <2>1. PICK total : Quiet(AddExpectation(world, total)) /\ pc = "running"
    BY <1>2 DEF Expect, Runs
  <2> QED
    BY <2>1 DEF Quiet, Done, RecordKind, IsExpecting, Working, SameHolds, sharedVars
<1>3. CASE HoldInvariants
  <2>1. IsHolding
    <3> DEFINE type == TypeOf
    <3>1. /\ pc = "running" /\ pc' = "checking" /\ world' = world /\ UNCHANGED <<base, cleared>>
          /\ objects' = [i \in DOMAIN objects |->
                        IF i \in world.invariants /\ InvariantFilter(type, i)
                        THEN [objects[i] EXCEPT !.held = TRUE] ELSE objects[i]]
          /\ holds' = holds + 1
      BY <1>3 DEF HoldInvariants, Done, Runs
    <3> HIDE DEF type
    <3> QED
      BY <3>1 DEF IsHolding, Working
  <2> QED
    BY <2>1 DEF RecordKind
<1>4. CASE ClearInvariants
  <2>1. IsClearing
    <3> DEFINE type == TypeOf
    <3>1. /\ pc = "running" /\ pc' = "checking" /\ UNCHANGED <<base, objects, holds>>
          /\ world' = [world EXCEPT !.invariants = {i \in world.invariants : InvariantFilter(type, i)}]
          /\ cleared' = (cleared \/ \E i \in world.invariants :
                                      objects[i].kind = "success" /\ ~InvariantFilter(type, i))
      BY <1>4 DEF ClearInvariants, Done, Runs, sharedVars
    <3> HIDE DEF type
    <3> QED
      BY <3>1 DEF IsClearing, Working
  <2> QED
    BY <2>1 DEF RecordKind
<1> QED
  BY <1>1, <1>2, <1>3, <1>4

\* Transactions and deployments.
LEMMA SendRecords ==
  ASSUME Worlds, NEW ok, Send(ok) \/ SendAny(ok) \/ SetImplementation(ok)
  PROVE  RecordKind
<1>1. CASE Send(ok)
  BY <1>1, DoneIsAct, SelfRecords DEF Send, Runs, RecordKind, Working, sharedVars
<1>2. CASE SendAny(ok) /\ ok
  BY <1>2, SelfRecords DEF SendAny, Runs, Done, RecordKind, IsWork, Working, SameHolds, sharedVars
<1>3. CASE SendAny(ok) /\ ~ ok
  BY <1>3, FailIsBack DEF SendAny, RecordKind
<1>4. CASE SetImplementation(ok)
  BY <1>4, SelfRecords DEF SetImplementation, Runs, RecordKind, IsAct, Working, SameHolds, sharedVars
<1> QED
  BY <1>1, <1>2, <1>3, <1>4

LEMMA BuildRecords ==
  ASSUME Worlds, NEW ok, Build(ok)
  PROVE  RecordKind
<1> DEFINE name == Last(Words)
           address == Len(chain.deployed) + 1
           w == StoreContract(world, name, address)
           s == [kind |-> "store", name |-> name, action |-> TRUE, ok |-> TRUE]
           d == StoreContract(world, name, Fake)
<1>0. pc = "running"
  BY DEF Build, Runs
<1>1. CASE dryRun
  <2>1. /\ Done(AddAction(d, TRUE, chain'.value))
        /\ UNCHANGED <<objects, holds, cleared>>
    BY <1>1 DEF Build, outsideVars, sharedVars
  <2>2. IsWorld(d) /\ Records(d, world)
    BY StoredIsWorld DEF Worlds
  <2> HIDE DEF d
  <2> QED
    BY <1>0, <2>1, <2>2, DoneIsAct DEF Working, RecordKind
<1>2. CASE ~ dryRun /\ ok
  <2>1. BeginSave(w, s)
    BY <1>2 DEF Build
  <2>2. IsWorld(w) /\ Records(w, world)
    BY StoredIsWorld DEF Worlds
  <2> HIDE DEF w, s
  <2> QED
    BY <1>0, <2>1, <2>2, SaveIsWork DEF RecordKind
<1>3. CASE ~ dryRun /\ ~ ok
  BY <1>3, FailIsBack DEF Build, RecordKind
<1> QED
  BY <1>1, <1>2, <1>3

LEMMA AdoptRecords ==
  ASSUME Worlds, NEW address, Adopt(address)
  PROVE  RecordKind
<1> DEFINE name == Last(Words)
           w == StoreContract(world, name, address)
<1>1. IsWorld(w) /\ Records(w, world) /\ pc = "running"
  BY StoredIsWorld DEF Worlds, Adopt, Runs
<1>2. Quiet(w) \/ \E s : BeginSave(w, s)
  BY DEF Adopt
<1> HIDE DEF w
<1> QED
  BY <1>1, <1>2, QuietIsWork, SaveIsWork DEF RecordKind

LEMMA MergeRecords ==
  ASSUME Worlds, MergeABI \/ \E ok : Become(ok)
  PROVE  RecordKind
<1>1. pc = "running"
  BY DEF MergeABI, Become, Runs
<1>2. CASE MergeABI
  <2>1. Quiet(world) \/ BeginSave(world, Merge(FALSE, TRUE))
    BY <1>2 DEF MergeABI
  <2> QED
    BY <1>1, <2>1, QuietIsWork, SaveIsWork, SelfRecords DEF RecordKind
<1>3. ASSUME NEW ok, Become(ok) PROVE RecordKind
  <2>1. CASE dryRun
    <3>1. /\ Done(AddAction(world, ok, chain'.value))
          /\ UNCHANGED <<objects, holds, cleared>>
      BY <1>3, <2>1 DEF Become, sharedVars
    <3> QED
      BY <1>1, <3>1, DoneIsAct, SelfRecords DEF Working, RecordKind
  <2>2. CASE ~ dryRun
    <3>1. BeginSave(world, Merge(TRUE, ok))
      BY <1>3, <2>2 DEF Become
    <3> QED
      BY <1>1, <3>1, SaveIsWork, SelfRecords DEF RecordKind
  <2> QED
    BY <2>1, <2>2
<1> QED
  BY <1>2, <1>3

LEMMA FileRecords ==
  ASSUME Worlds, ReadFiles \/ WriteNetworks \/ WriteABI
  PROVE  RecordKind
<1>1. CASE ReadFiles
  <2> DEFINE w == StoreContract(world, Target, world.contracts[Proxy])
  <2>1. IsWorld(w) /\ Records(w, world) /\ IsWorld(world) /\ Records(world, world)
    BY StoredIsWorld, SelfRecords DEF Worlds
  <2>2. \/ Fail(objects)
        \/ /\ pc = "reading" /\ pc' = "writing" /\ SameHolds
           /\ world' = w \/ world' = world
    BY <1>1 DEF ReadFiles, SameHolds, sharedVars, historyVars
  <2> HIDE DEF w
  <2> QED
    BY <2>1, <2>2, FailIsBack DEF RecordKind, IsWork, Working
<1>2. CASE WriteNetworks
  BY <1>2, SelfRecords DEF WriteNetworks, RecordKind, IsWork, Working, SameHolds,
     lineVars, sharedVars, historyVars
<1>3. CASE WriteABI
  <2>1. /\ pc = "writingABI" /\ UNCHANGED <<objects, holds, cleared, chain>>
        /\ Done(IF save.action THEN AddAction(world, save.ok, chain.value) ELSE world)
    BY <1>3 DEF WriteABI, sharedVars
  <2>2. CASE save.action
    <3>1. Done(AddAction(world, save.ok, chain'.value))
      BY <2>1, <2>2
    <3> QED
      BY <2>1, <3>1, DoneIsAct, SelfRecords DEF Working, RecordKind
  <2>3. CASE ~ save.action
    BY <2>1, <2>3, SelfRecords DEF Done, RecordKind, IsWork, Working, SameHolds
  <2> QED
    BY <2>2, <2>3
<1> QED
  BY <1>1, <1>2, <1>3

LEMMA TaskRecords ==
  ASSUME TaskReads \/ TaskWritesNetworks \/ TaskWritesABI \/ TaskFails
  PROVE  RecordKind
<1>1. CASE \E new, f : TaskStep(new, f)
  BY <1>1 DEF TaskStep, RecordKind, IsAside, SameHolds, processVars, lineVars, sharedVars,
     historyVars
<1>2. CASE Stop /\ UNCHANGED <<holds, cleared>>
  BY <1>2, StopIsOver DEF RecordKind
<1> QED
  BY <1>1, <1>2 DEF TaskReads, TaskWritesNetworks, TaskWritesABI, TaskFails

LEMMA ProcessRecords ==
  ASSUME Worlds,
         \/ \E asScript, dry : Start(asScript, dry)
         \/ Crash \/ CheckPasses
         \/ \E line : RunCommand(line)
  PROVE  RecordKind
<1>1. CASE \E asScript, dry : Start(asScript, dry)
  BY <1>1 DEF Start, RecordKind, IsNew
<1>2. CASE Crash
  BY <1>2, StopIsOver DEF Crash, RecordKind
<1>3. CASE CheckPasses
  <2>1. /\ pc = "checking" /\ CheckInvariants /\ CheckExpectations
        /\ world' = Checked /\ objects' = ReleasedObjects /\ UNCHANGED <<holds, cleared>>
    BY <1>3 DEF CheckPasses, historyVars
  <2>2. \/ pc' = "running" /\ UNCHANGED base
        \/ pc' = "prompt" /\ base' = Checked
    BY <1>3 DEF CheckPasses, Begin
  <2> QED
    BY <2>1, <2>2 DEF RecordKind, IsPassed
<1>4. CASE \E line : RunCommand(line)
  BY <1>4 DEF RunCommand, Begin, RecordKind, IsLine, SameHolds, sharedVars
<1> QED
  BY <1>1, <1>2, <1>3, <1>4

LEMMA EveryRecord ==
  ASSUME Worlds, [Next]_vars
  PROVE  RecordKind
<1>1. CASE UNCHANGED vars
  BY <1>1 DEF vars, processVars, lineVars, sharedVars, outsideVars, historyVars, RecordKind,
     IsAside, SameHolds
<1>2. CASE Next
  BY <1>2, LineRecords, BackRecords, RulesRecords, SendRecords, BuildRecords, AdoptRecords,
     MergeRecords, FileRecords, TaskRecords, ProcessRecords DEF Next
<1> QED
  BY <1>1, <1>2

LEMMA WorldsKept ==
  ASSUME Worlds, RecordKind
  PROVE  Worlds'
<1>1. CASE IsOver \/ IsNew
  BY <1>1, NewIsWorld DEF IsOver, IsNew, Worlds
<1>2. CASE IsBack \/ IsLine \/ IsHolding \/ IsAside
  <2>1. base' = base /\ world' \in {world, base}
    BY <1>2 DEF IsBack, IsLine, IsHolding, IsAside, SameHolds
  <2> QED
    BY <2>1 DEF Worlds
<1>3. CASE IsWork
  BY <1>3 DEF IsWork, SameHolds, Worlds, IsWorld
<1>4. CASE IsAct
  <2>1. PICK w, ok : IsWorld(w) /\ world' = AddAction(w, ok, chain'.value)
    BY <1>4 DEF IsAct
  <2>2. IsWorld(world') /\ base' = base
    BY <1>4, <2>1, ActedIsWorld DEF IsAct, SameHolds
  <2> QED
    BY <2>2 DEF Worlds, IsWorld
<1>5. CASE IsExpecting
  BY <1>5, ExpectingIsWorld DEF IsExpecting, SameHolds, Worlds
<1>6. CASE IsInventing
  BY <1>6, InventingIsWorld DEF IsInventing, Worlds
<1>7. CASE IsClearing
  BY <1>7, InventingIsWorld DEF IsClearing, Worlds
<1>8. CASE IsPassed
  BY <1>8, CheckedIsWorld DEF IsPassed, Worlds
<1> QED
  BY <1>1, <1>2, <1>3, <1>4, <1>5, <1>6, <1>7, <1>8 DEF RecordKind

-----------------------------------------------------------------------------
(* What was expected is what was found. *)

IsSeq(s) == \E S : s \in Seq(S)

\* An expectation of a kept event was found true after its transaction, or waits for one.
FoundOrWaits(w, e) ==
  /\ e.at \in Nat
  /\ \/ e.at < Len(w.actions) /\ w.actions[e.at + 1].after = e.total
     \/ e.at = Len(w.actions) /\ e \in w.expectations

\* Nothing is unchecked, but for a world nothing has happened to.
AtRest(w) ==
  /\ w.newInvokation => w.promised = {} /\ w.actions = <<>>
  /\ \A e \in w.promised : FoundOrWaits(w, e)

\* The last action is unchecked: what it was to bring about is still expected.
Acted(w) ==
  /\ w.newInvokation /\ Len(w.actions) > 0
  /\ w.actions[Len(w.actions)].after = chain.value
  /\ \A e \in w.promised :
       /\ e.at \in Nat
       /\ \/ e.at + 1 < Len(w.actions) /\ w.actions[e.at + 1].after = e.total
          \/ e.at + 1 = Len(w.actions) /\ e \in w.expectations

ExpectInv ==
  /\ Worlds /\ IsSeq(base.actions) /\ IsSeq(world.actions)
  /\ AtRest(base)
  /\ pc \in Working => AtRest(world)
  /\ pc = "checking" => AtRest(world) \/ Acted(world)

LEMMA SeqAppend ==
  ASSUME NEW s, IsSeq(s), NEW x
  PROVE  /\ IsSeq(Append(s, x)) /\ Len(s) \in Nat
         /\ Len(Append(s, x)) = Len(s) + 1
         /\ Append(s, x)[Len(s) + 1] = x
         /\ \A k \in 1..Len(s) : Append(s, x)[k] = s[k]
         /\ DOMAIN s = 1..Len(s) /\ DOMAIN Append(s, x) = 1..(Len(s) + 1)
<1>1. PICK S : s \in Seq(S)
  BY DEF IsSeq
<1>2. s \in Seq(S \cup {x}) /\ x \in S \cup {x}
  BY <1>1
<1>3. Append(s, x) \in Seq(S \cup {x})
  BY <1>2
<1> QED
  BY <1>2, <1>3 DEF IsSeq

LEMMA NothingExpected ==
  /\ AtRest(NewWorld) /\ AtRest(LoadContracts(NewWorld))
  /\ IsSeq(NewWorld.actions) /\ IsSeq(LoadContracts(NewWorld).actions)
<1>1. NewWorld.actions = <<>> /\ NewWorld.promised = {}
  BY DEF NewWorld
<1>2. LoadContracts(NewWorld).actions = <<>> /\ LoadContracts(NewWorld).promised = {}
  BY <1>1, NewIsWorld DEF Records
<1>3. <<>> \in Seq({})
  OBVIOUS
<1> QED
  BY <1>1, <1>2, <1>3 DEF AtRest, IsSeq

LEMMA RestOfRecords ==
  ASSUME NEW w, NEW v, Records(v, w), AtRest(w)
  PROVE  AtRest(v)
BY DEF Records, AtRest, FoundOrWaits

LEMMA ExpectStart == Init => ExpectInv
BY NothingExpected, NewIsWorld DEF Init, ExpectInv, Worlds, Working

LEMMA ExpectAct ==
  ASSUME ExpectInv, IsAct
  PROVE  Acted(world)' /\ IsSeq(world.actions)'
<1>1. PICK w, ok : IsWorld(w) /\ Records(w, world) /\ world' = AddAction(w, ok, chain'.value)
  BY DEF IsAct
<1> DEFINE acts == world.actions
           new == Append(acts, [ok |-> ok, after |-> chain'.value])
<1>2. /\ world'.actions = new /\ world'.promised = world.promised
      /\ world'.expectations = world.expectations /\ world'.newInvokation
  BY <1>1, ActedIsWorld DEF Records
<1>3. AtRest(world) /\ IsSeq(acts)
  BY DEF ExpectInv, IsAct
<1>4. /\ IsSeq(new) /\ Len(acts) \in Nat /\ Len(new) = Len(acts) + 1
      /\ new[Len(new)].after = chain'.value
      /\ \A k \in 1..Len(acts) : new[k] = acts[k]
  <2>1. [ok |-> ok, after |-> chain'.value].after = chain'.value
    OBVIOUS
  <2> QED
    BY <1>3, <2>1, SeqAppend
<1>5. ASSUME NEW e \in world.promised
      PROVE  /\ e.at \in Nat
             /\ \/ e.at + 1 < Len(new) /\ new[e.at + 1].after = e.total
                \/ e.at + 1 = Len(new) /\ e \in world.expectations
  <2>1. FoundOrWaits(world, e)
    BY <1>3 DEF AtRest
  <2> HIDE DEF new
  <2> QED
    BY <1>4, <2>1 DEF FoundOrWaits
<1> HIDE DEF new
<1> QED
  BY <1>2, <1>4, <1>5 DEF Acted

LEMMA ExpectExpecting ==
  ASSUME ExpectInv, IsExpecting
  PROVE  AtRest(world)' /\ IsSeq(world.actions)'
<1>1. PICK total : world' = AddExpectation(world, total)
  BY DEF IsExpecting
<1> DEFINE e == [at |-> Len(world.actions), total |-> total]
<1>2. /\ world'.actions = world.actions /\ world'.newInvokation = world.newInvokation
      /\ world'.expectations = world.expectations \cup {e}
      /\ world'.promised = IF world.newInvokation THEN world.promised ELSE world.promised \cup {e}
  BY <1>1, ExpectingIsWorld DEF ExpectInv, Worlds
<1>3. AtRest(world) /\ IsSeq(world.actions) /\ Len(world.actions) \in Nat
  BY SeqAppend DEF ExpectInv, IsExpecting
<1>4. e.at = Len(world.actions)
  OBVIOUS
<1> HIDE DEF e
<1>5. \A x \in world'.promised : FoundOrWaits(world', x)
  BY <1>2, <1>3, <1>4 DEF AtRest, FoundOrWaits
<1> QED
  BY <1>2, <1>3, <1>5 DEF AtRest

LEMMA ExpectPassed ==
  ASSUME ExpectInv, IsPassed
  PROVE  AtRest(Checked) /\ IsSeq(Checked.actions)
<1>1. /\ Checked.actions = world.actions /\ Checked.promised = world.promised
      /\ Checked.expectations = (IF world.newInvokation THEN {} ELSE world.expectations)
      /\ ~ Checked.newInvokation
  BY CheckedIsWorld DEF ExpectInv, Worlds
<1>2. AtRest(world) \/ Acted(world)
  BY DEF ExpectInv, IsPassed
<1>3. ASSUME AtRest(world) PROVE AtRest(Checked)
  <2>1. CASE world.newInvokation
    BY <1>1, <1>3, <2>1 DEF AtRest
  <2>2. CASE ~ world.newInvokation
    <3>1. Checked.expectations = world.expectations
      BY <1>1, <2>2
    <3>2. ASSUME NEW e \in Checked.promised PROVE FoundOrWaits(Checked, e)
      <4>1. FoundOrWaits(world, e)
        BY <1>1, <1>3, <3>2 DEF AtRest
      <4> QED
        BY <1>1, <3>1, <4>1 DEF FoundOrWaits
    <3> QED
      BY <1>1, <3>2 DEF AtRest
  <2> QED
    BY <2>1, <2>2
<1>4. ASSUME Acted(world) PROVE AtRest(Checked)
  <2>1. \A e \in world.expectations : e.total = chain.value
    BY <1>4 DEF IsPassed, CheckExpectations, ExpectationsHold, Acted
  <2>2. Len(world.actions) \in Nat
    BY SeqAppend DEF ExpectInv
  <2>3. world.actions[Len(world.actions)].after = chain.value
    BY <1>4 DEF Acted
  <2>4. ASSUME NEW e \in Checked.promised PROVE FoundOrWaits(Checked, e)
    <3>1. /\ e.at \in Nat
          /\ \/ e.at + 1 < Len(world.actions) /\ world.actions[e.at + 1].after = e.total
             \/ e.at + 1 = Len(world.actions) /\ e \in world.expectations
      BY <1>1, <1>4, <2>4 DEF Acted
    <3>2. e.at < Len(world.actions) /\ world.actions[e.at + 1].after = e.total
      BY <2>1, <2>2, <2>3, <3>1
    <3> QED
      BY <1>1, <3>1, <3>2 DEF FoundOrWaits
  <2> QED
    BY <1>1, <2>4 DEF AtRest
<1>5. IsSeq(Checked.actions)
  BY <1>1 DEF ExpectInv
<1> QED
  BY <1>2, <1>3, <1>4, <1>5

LEMMA ExpectStep ==
  ASSUME ExpectInv, [Next]_vars
  PROVE  ExpectInv'
<1>1. RecordKind /\ Worlds'
  BY EveryRecord, WorldsKept DEF ExpectInv
<1>2. CASE IsOver \/ IsNew
  BY <1>1, <1>2, NothingExpected DEF IsOver, IsNew, ExpectInv, Working
<1>3. CASE IsBack
  BY <1>1, <1>3 DEF IsBack, ExpectInv, Working
<1>4. CASE IsLine
  BY <1>1, <1>4 DEF IsLine, SameHolds, ExpectInv, Working
<1>5. CASE IsWork
  <2>1. AtRest(world) /\ Records(world', world) /\ base' = base
    BY <1>5 DEF IsWork, ExpectInv, SameHolds
  <2>2. AtRest(world') /\ world'.actions = world.actions
    BY <2>1, RestOfRecords DEF Records
  <2>3. AtRest(world)' /\ IsSeq(world.actions)' /\ IsSeq(base.actions)' /\ AtRest(base)'
    BY <2>1, <2>2 DEF ExpectInv, AtRest, FoundOrWaits
  <2> QED
    BY <1>1, <2>3 DEF ExpectInv
<1>6. CASE IsAct
  BY <1>1, <1>6, ExpectAct DEF IsAct, SameHolds, ExpectInv, Working
<1>7. CASE IsExpecting
  BY <1>1, <1>7, ExpectExpecting DEF IsExpecting, SameHolds, ExpectInv, Working
<1>8. CASE IsInventing \/ IsClearing
  <2>1. PICK S : world' = [world EXCEPT !.invariants = S]
    BY <1>8 DEF IsInventing, IsClearing
  <2>2. /\ world'.actions = world.actions /\ world'.promised = world.promised
        /\ world'.expectations = world.expectations /\ world'.newInvokation = world.newInvokation
    BY <2>1, InventingIsWorld DEF ExpectInv, Worlds, Records
  <2>3. AtRest(world)' /\ IsSeq(world.actions)'
    BY <1>8, <2>2 DEF ExpectInv, AtRest, FoundOrWaits, IsInventing, IsClearing
  <2> QED
    BY <1>1, <1>8, <2>3 DEF IsInventing, IsClearing, ExpectInv, Working
<1>9. CASE IsHolding
  BY <1>1, <1>9 DEF IsHolding, ExpectInv, Working
<1>10. CASE IsPassed
  BY <1>1, <1>10, ExpectPassed DEF IsPassed, ExpectInv, Working
<1>11. CASE IsAside
  BY <1>1, <1>11 DEF IsAside, SameHolds, ExpectInv, Acted
<1> QED
  BY <1>1, <1>2, <1>3, <1>4, <1>5, <1>6, <1>7, <1>8, <1>9, <1>10, <1>11 DEF RecordKind

\* However many lines lie between an expectation and the next transaction that is
\* kept, and whatever was taken back meanwhile, what was expected was true right
\* after it (addExpectation, checkExpectations).
THEOREM ExpectationsAreMet == Spec => []ExpectationsMet
<1>1. ExpectInv /\ [Next]_vars => ExpectInv'
  BY ExpectStep
<1>2. ExpectInv => ExpectationsMet
  BY SeqAppend DEF ExpectInv, AtRest, FoundOrWaits, ExpectationsMet
<1> QED
  BY <1>1, <1>2, ExpectStart, PTL DEF Spec

-----------------------------------------------------------------------------
(* A hold excuses one transaction. *)

Failed(actions) == {k \in DOMAIN actions : ~ actions[k].ok}

\* How many failed, and one more while the success invariant is held.
Excuses(actions) == Cardinality(Failed(actions)) + (IF objects[1].held THEN 1 ELSE 0)

\* The invariants of w have their objects, the success invariant the first.
HasSuccess(w) == 1 \in w.invariants /\ w.invariants \subseteq 1..Len(objects)

SuccessFirst ==
  /\ IsSeq(objects) /\ Len(objects) > 0
  /\ objects[1].kind = "success" /\ "held" \in DOMAIN objects[1] /\ "kind" \in DOMAIN objects[1]
  /\ HasSuccess(base) /\ HasSuccess(world)

\* An unchecked failure was not yet excused.
FailedUnchecked ==
  /\ world.newInvokation /\ Len(world.actions) > 0
  /\ ~ world.actions[Len(world.actions)].ok
  /\ Excuses(world.actions) <= holds + 1

HoldInv ==
  /\ Worlds /\ IsSeq(base.actions) /\ IsSeq(world.actions)
  /\ holds \in Nat
  /\ ~ cleared =>
       /\ SuccessFirst
       /\ Excuses(base.actions) <= holds
       /\ pc \in Working => Excuses(world.actions) <= holds
       /\ pc = "checking" => Excuses(world.actions) <= holds \/ FailedUnchecked

LEMMA LastPlace ==
  ASSUME NEW n \in Nat, NEW S \in SUBSET (0..n), S # {}
  PROVE  Max(S) \in S /\ \A x \in S : x <= Max(S)
<1> DEFINE below == {n - x : x \in S}
<1>1. below \in SUBSET Nat /\ below # {}
  <2>1. \A x \in S : n - x \in Nat
    OBVIOUS
  <2> QED
    BY <2>1
<1>2. PICK m \in below : \A y \in below : m <= y
  BY <1>1, SmallestNumber
<1>3. PICK last \in S : m = n - last
  BY <1>2
<1>4. \A x \in S : last >= x
  <2> SUFFICES ASSUME NEW x \in S PROVE last >= x
    OBVIOUS
  <2>1. m <= n - x
    BY <1>2
  <2> QED
    BY <1>3, <2>1
<1>5. \E y \in S : \A x \in S : y >= x
  BY <1>4
<1> QED
  BY <1>5 DEF Max

LEMMA FailedFinite ==
  ASSUME NEW actions, IsSeq(actions)
  PROVE  IsFiniteSet(Failed(actions)) /\ Cardinality(Failed(actions)) \in Nat
<1>1. IsFiniteSet(1..Len(actions)) /\ DOMAIN actions = 1..Len(actions)
  BY SeqAppend, FS_Interval
<1>2. Failed(actions) \subseteq 1..Len(actions)
  BY <1>1 DEF Failed
<1>3. IsFiniteSet(Failed(actions))
  BY <1>1, <1>2, FS_Subset
<1> QED
  BY <1>3, FS_CardinalityType

LEMMA FailedAppend ==
  ASSUME NEW actions, IsSeq(actions), NEW ok, NEW value
  PROVE  Cardinality(Failed(Append(actions, [ok |-> ok, after |-> value])))
           = Cardinality(Failed(actions)) + (IF ok THEN 0 ELSE 1)
<1> DEFINE x == [ok |-> ok, after |-> value]
           new == Append(actions, x)
           n == Len(actions)
<1>1. /\ n \in Nat /\ new[n + 1] = x
      /\ \A k \in 1..n : new[k] = actions[k]
      /\ DOMAIN actions = 1..n /\ DOMAIN new = 1..(n + 1)
  BY SeqAppend
<1>2. x.ok = ok
  OBVIOUS
<1>3. IsFiniteSet(Failed(actions)) /\ n + 1 \notin Failed(actions)
  BY <1>1, FailedFinite DEF Failed
<1> HIDE DEF x, new, n
<1>4. CASE ok
  <2>1. \A k \in 1..(n + 1) : ~ new[k].ok <=> k \in 1..n /\ ~ actions[k].ok
    <3> SUFFICES ASSUME NEW k \in 1..(n + 1)
                 PROVE  ~ new[k].ok <=> k \in 1..n /\ ~ actions[k].ok
      OBVIOUS
    <3>1. CASE k = n + 1
      BY <1>1, <1>2, <1>4, <3>1
    <3>2. CASE k # n + 1
      BY <1>1, <3>2
    <3> QED
      BY <3>1, <3>2
  <2>2. Failed(new) = Failed(actions)
    BY <1>1, <2>1 DEF Failed
  <2> QED
    BY <1>3, <1>4, <2>2, FS_CardinalityType DEF new, x
<1>5. CASE ~ ok
  <2>1. Failed(new) = Failed(actions) \cup {n + 1}
    BY <1>1, <1>2, <1>5 DEF Failed
  <2>2. Cardinality(Failed(new)) = Cardinality(Failed(actions)) + 1
    BY <1>3, <2>1, FS_AddElement
  <2> QED
    BY <1>5, <2>2 DEF new, x
<1> QED
  BY <1>4, <1>5

\* Every process starts with the success invariant and nothing done.
LEMMA NewHolds ==
  ASSUME NEW w \in {NewWorld, LoadContracts(NewWorld)}
  PROVE  /\ w.actions = <<>> /\ w.invariants = {1} /\ IsSeq(w.actions)
<1>1. NewWorld.actions = <<>> /\ NewWorld.invariants = {1}
  BY DEF NewWorld
<1>2. <<>> \in Seq({})
  OBVIOUS
<1> QED
  BY <1>1, <1>2, NewIsWorld DEF Records, IsSeq

LEMMA HoldFresh ==
  ASSUME base' \in {NewWorld, LoadContracts(NewWorld)}, world' = base', objects' = <<Success>>,
         holds' \in Nat, pc' \in {"off", "prompt"}, Worlds'
  PROVE  HoldInv'
<1>1. /\ base'.actions = <<>> /\ base'.invariants = {1}
      /\ world'.actions = <<>> /\ world'.invariants = {1} /\ IsSeq(<<>>)
  BY NewHolds
<1>2. <<Success>> \in Seq({Success})
  OBVIOUS
<1>3. /\ IsSeq(objects)' /\ Len(objects') = 1 /\ objects'[1].kind = "success"
      /\ "held" \in DOMAIN objects'[1] /\ "kind" \in DOMAIN objects'[1] /\ ~ objects'[1].held
  BY <1>2 DEF IsSeq, Success
<1>4. Excuses(base.actions)' = 0
  <2>1. Failed(base'.actions) = {}
    BY <1>1 DEF Failed
  <2> QED
    BY <1>3, <2>1, FS_EmptySet, SMTT(30) DEF Excuses, Failed
<1>5. SuccessFirst'
  BY <1>1, <1>3 DEF SuccessFirst, HasSuccess
<1>6. Excuses(base.actions)' <= holds'
  BY <1>4
<1> QED
  BY <1>1, <1>3, <1>5, <1>6 DEF HoldInv, Working

LEMMA HoldStart == Init => HoldInv
<1> SUFFICES ASSUME Init PROVE HoldInv
  OBVIOUS
<1>1. base = NewWorld /\ world = NewWorld /\ objects = <<Success>> /\ holds = 0 /\ pc = "off"
  BY DEF Init
<1>2. base.actions = <<>> /\ base.invariants = {1} /\ IsSeq(<<>>)
  BY <1>1, NewHolds
<1>3. <<Success>> \in Seq({Success})
  OBVIOUS
<1>4. /\ IsSeq(objects) /\ Len(objects) = 1 /\ objects[1].kind = "success"
      /\ "held" \in DOMAIN objects[1] /\ "kind" \in DOMAIN objects[1] /\ ~ objects[1].held
  BY <1>1, <1>3 DEF IsSeq, Success
<1>5. Excuses(base.actions) = 0
  <2>1. Failed(base.actions) = {}
    BY <1>2 DEF Failed
  <2> QED
    BY <1>4, <2>1, FS_EmptySet DEF Excuses
<1> QED
  BY <1>1, <1>2, <1>4, <1>5, NewIsWorld DEF HoldInv, SuccessFirst, HasSuccess, Worlds, Working

\* What stays of the objects when the line is taken back.
LEMMA ReachableKeeps ==
  ASSUME NEW objs, IsSeq(objs), HasSuccess(base), Len(objs) = Len(objects), Len(objects) \in Nat
  PROVE  /\ IsSeq(Reachable(objs)) /\ Reachable(objs)[1] = objs[1]
         /\ base.invariants \subseteq 1..Len(Reachable(objs)) /\ Len(Reachable(objs)) > 0
<1> DEFINE S == base.invariants \cup {0}
<1>1. S \in SUBSET (0..Len(objects)) /\ S # {} /\ 1 \in S
  BY DEF HasSuccess
<1>2. Max(S) \in S /\ \A x \in S : x <= Max(S)
  BY <1>1, LastPlace
<1>3. Max(S) \in 1..Len(objs)
  <2> HIDE DEF S
  <2>1. Max(S) \in 0..Len(objects) /\ 1 <= Max(S)
    BY <1>1, <1>2
  <2> QED
    BY <2>1
<1>4. PICK T : objs \in Seq(T)
  BY DEF IsSeq
<1> DEFINE m == Max(S)
<1>5. Reachable(objs) = SubSeq(objs, 1, m)
  BY DEF Reachable
<1> HIDE DEF m, S
<1>6. m \in 1..Len(objs) /\ \A x \in base.invariants : x <= m
  BY <1>2, <1>3 DEF m, S
<1>7. /\ SubSeq(objs, 1, m) \in Seq(T) /\ Len(SubSeq(objs, 1, m)) = m
      /\ SubSeq(objs, 1, m)[1] = objs[1]
  BY <1>4, <1>6
<1> QED
  BY <1>5, <1>6, <1>7 DEF IsSeq, HasSuccess

LEMMA ReleasedKeeps ==
  ASSUME NEW objs, IsSeq(objs), Len(objs) > 0, "held" \in DOMAIN objs[1],
         "kind" \in DOMAIN objs[1], NEW w
  PROVE  LET new == Released(objs, w)
         IN  /\ IsSeq(new) /\ Len(new) = Len(objs)
             /\ new[1].kind = objs[1].kind /\ "held" \in DOMAIN new[1] /\ "kind" \in DOMAIN new[1]
             /\ new[1].held => objs[1].held
             /\ 1 \in w.invariants => ~ new[1].held
<1> DEFINE f(i) == IF i \in w.invariants THEN [objs[i] EXCEPT !.held = FALSE] ELSE objs[i]
           new == [i \in DOMAIN objs |-> f(i)]
<1>1. Len(objs) \in Nat /\ DOMAIN objs = 1..Len(objs)
  BY SeqAppend
<1>2. new = Released(objs, w)
  BY DEF Released
<1>3. new[1] = f(1)
  <2> HIDE DEF f
  <2> QED
    BY <1>1
<1>4. /\ f(1).kind = objs[1].kind /\ "held" \in DOMAIN f(1) /\ "kind" \in DOMAIN f(1)
      /\ f(1).held => objs[1].held
      /\ 1 \in w.invariants => ~ f(1).held
  OBVIOUS
<1>5. new \in Seq({f(i) : i \in 1..Len(objs)}) /\ Len(new) = Len(objs)
  <2> HIDE DEF f
  <2> QED
    BY <1>1
<1> HIDE DEF f, new
<1> QED
  BY <1>2, <1>3, <1>4, <1>5 DEF IsSeq

LEMMA HoldBack ==
  ASSUME HoldInv, IsBack, Worlds'
  PROVE  HoldInv'
<1>1. /\ pc' = "prompt" /\ world' = base /\ base' = base /\ holds' = holds /\ cleared' = cleared
      /\ objects' = Reachable(objects) \/ objects' = Reachable(Released(objects, world))
  BY DEF IsBack
<1>2. ASSUME ~ cleared
      PROVE  SuccessFirst' /\ Excuses(base.actions)' <= holds
  <2>1. SuccessFirst /\ IsSeq(objects) /\ Len(objects) \in Nat
    BY <1>2, SeqAppend DEF HoldInv, SuccessFirst
  <2>2. PICK objs : /\ objects' = Reachable(objs) /\ IsSeq(objs) /\ Len(objs) = Len(objects)
                    /\ objs[1].kind = "success"
                    /\ "held" \in DOMAIN objs[1] /\ "kind" \in DOMAIN objs[1]
                    /\ objs[1].held => objects[1].held
    <3>1. /\ IsSeq(Released(objects, world)) /\ Len(Released(objects, world)) = Len(objects)
          /\ Released(objects, world)[1].kind = "success"
          /\ "held" \in DOMAIN Released(objects, world)[1]
          /\ "kind" \in DOMAIN Released(objects, world)[1]
          /\ Released(objects, world)[1].held => objects[1].held
      BY <2>1, ReleasedKeeps DEF SuccessFirst
    <3> QED
      BY <1>1, <2>1, <3>1 DEF SuccessFirst
  <2>3. /\ IsSeq(objects') /\ objects'[1] = objs[1] /\ Len(objects') > 0
        /\ base.invariants \subseteq 1..Len(objects')
    BY <2>1, <2>2, ReachableKeeps DEF SuccessFirst
  <2>4. SuccessFirst'
    BY <1>1, <2>1, <2>2, <2>3 DEF SuccessFirst, HasSuccess
  <2>5. Excuses(base.actions)' <= holds
    <3>1. Excuses(base.actions) <= holds /\ holds \in Nat
      BY <1>2 DEF HoldInv
    <3>2. Cardinality(Failed(base.actions)) \in Nat
      BY FailedFinite DEF HoldInv
    <3>3. Excuses(base.actions)' = Cardinality(Failed(base.actions)) + (IF objs[1].held THEN 1 ELSE 0)
      BY <1>1, <2>3 DEF Excuses, Failed
    <3> QED
      BY <2>2, <3>1, <3>2, <3>3 DEF Excuses
  <2> QED
    BY <2>4, <2>5
<1> QED
  BY <1>1, <1>2 DEF HoldInv, Working

\* The objects and the prompt's world stay, and what the line records.
LEMMA HoldSame ==
  ASSUME HoldInv, Worlds', SameHolds,
         world'.actions = world.actions, world'.invariants = world.invariants,
         \/ pc \in Working /\ pc' \in Working \cup {"checking"}
         \/ pc' = pc /\ world' = world
  PROVE  HoldInv'
<1>1. UNCHANGED <<base, objects, holds, cleared>>
  BY DEF SameHolds
<1>2. SuccessFirst => SuccessFirst'
  BY <1>1 DEF SuccessFirst, HasSuccess
<1>3. Excuses(world.actions)' = Excuses(world.actions) /\ Excuses(base.actions)' = Excuses(base.actions)
  BY <1>1 DEF Excuses, Failed
<1> QED
  BY <1>1, <1>2, <1>3 DEF HoldInv, FailedUnchecked, Working

LEMMA HoldLine ==
  ASSUME HoldInv, IsLine, Worlds'
  PROVE  HoldInv'
<1>1. UNCHANGED <<base, objects, holds, cleared>> /\ world' = base /\ pc' = "running"
  BY DEF IsLine, SameHolds
<1>2. SuccessFirst => SuccessFirst'
  BY <1>1 DEF SuccessFirst, HasSuccess
<1>3. Excuses(world.actions)' = Excuses(base.actions) /\ Excuses(base.actions)' = Excuses(base.actions)
  BY <1>1 DEF Excuses, Failed
<1> QED
  BY <1>1, <1>2, <1>3 DEF HoldInv

\* An action is not yet checked.
LEMMA HoldAct ==
  ASSUME HoldInv, IsAct, Worlds'
  PROVE  HoldInv'
<1>1. PICK w, ok : IsWorld(w) /\ Records(w, world) /\ world' = AddAction(w, ok, chain'.value)
  BY DEF IsAct
<1> DEFINE acts == world.actions
           new == Append(acts, [ok |-> ok, after |-> chain'.value])
<1>2. world'.actions = new /\ world'.invariants = world.invariants /\ world'.newInvokation
  BY <1>1, ActedIsWorld, SMTT(30) DEF Records
<1>3. UNCHANGED <<base, objects, holds, cleared>> /\ pc \in Working /\ pc' = "checking"
  BY DEF IsAct, SameHolds
<1>4. IsSeq(acts) /\ holds \in Nat
  BY DEF HoldInv
<1>5. /\ IsSeq(new) /\ Len(acts) \in Nat /\ Len(new) = Len(acts) + 1
      /\ new[Len(new)].ok = ok
  <2>1. [ok |-> ok, after |-> chain'.value].ok = ok
    OBVIOUS
  <2> QED
    BY <1>4, <2>1, SeqAppend
<1>6. /\ Cardinality(Failed(new)) = Cardinality(Failed(acts)) + (IF ok THEN 0 ELSE 1)
      /\ Cardinality(Failed(acts)) \in Nat
  BY <1>4, FailedAppend, FailedFinite
<1> HIDE DEF new
<1>7. /\ Excuses(world.actions)' = Cardinality(Failed(new)) + (IF objects[1].held THEN 1 ELSE 0)
      /\ Excuses(base.actions)' = Excuses(base.actions)
  BY <1>2, <1>3 DEF Excuses, Failed
<1>8. SuccessFirst => SuccessFirst'
  BY <1>2, <1>3 DEF SuccessFirst, HasSuccess
<1>9. ASSUME ~ cleared PROVE (Excuses(world.actions) <= holds \/ FailedUnchecked)'
  <2>1. Excuses(acts) <= holds
    BY <1>3, <1>9 DEF HoldInv
  <2>2. CASE ok
    BY <1>3, <1>4, <1>6, <1>7, <2>1, <2>2 DEF Excuses
  <2>3. CASE ~ ok
    <3>1. Excuses(world.actions)' <= holds + 1
      BY <1>4, <1>6, <1>7, <2>1, <2>3 DEF Excuses
    <3> QED
      BY <1>2, <1>3, <1>5, <2>3, <3>1 DEF FailedUnchecked
  <2> QED
    BY <2>2, <2>3
<1> QED
  BY <1>2, <1>3, <1>4, <1>5, <1>7, <1>8, <1>9 DEF HoldInv, Working

LEMMA HoldInventing ==
  ASSUME HoldInv, IsInventing, Worlds'
  PROVE  HoldInv'
<1>1. PICK x : objects' = Append(objects, x)
  BY DEF IsInventing
<1>2. /\ world'.actions = world.actions
      /\ world'.invariants = world.invariants \cup {Len(objects) + 1}
  BY InventingIsWorld DEF IsInventing, HoldInv, Worlds
<1>3. UNCHANGED <<base, holds, cleared>> /\ pc \in Working /\ pc' = "checking"
  BY DEF IsInventing
<1>4. ASSUME ~ cleared
      PROVE  SuccessFirst' /\ objects'[1].held = objects[1].held
  <2>1. SuccessFirst /\ IsSeq(objects) /\ Len(objects) \in Nat /\ Len(objects) > 0
    BY <1>4, SeqAppend DEF HoldInv, SuccessFirst
  <2>2. /\ IsSeq(objects') /\ Len(objects') = Len(objects) + 1 /\ objects'[1] = objects[1]
    BY <1>1, <2>1, SeqAppend
  <2>3. HasSuccess(base)' /\ HasSuccess(world)'
    BY <1>2, <1>3, <2>1, <2>2 DEF SuccessFirst, HasSuccess
  <2> QED
    BY <2>1, <2>2, <2>3 DEF SuccessFirst
<1>5. ASSUME ~ cleared
      PROVE  /\ Excuses(world.actions)' = Excuses(world.actions)
             /\ Excuses(base.actions)' = Excuses(base.actions)
  BY <1>2, <1>3, <1>4, <1>5 DEF Excuses, Failed
<1> QED
  BY <1>2, <1>3, <1>4, <1>5 DEF HoldInv, Working

LEMMA HoldExpecting ==
  ASSUME HoldInv, IsExpecting, Worlds'
  PROVE  HoldInv'
<1>1. PICK total : world' = AddExpectation(world, total)
  BY DEF IsExpecting
<1>2. world'.actions = world.actions /\ world'.invariants = world.invariants
  BY <1>1, ExpectingIsWorld DEF HoldInv, Worlds
<1> QED
  BY <1>2, HoldSame DEF IsExpecting

\* Clearing keeps the success invariant unless one is what goes.
LEMMA HoldClearing ==
  ASSUME HoldInv, IsClearing, Worlds'
  PROVE  HoldInv'
<1>1. PICK type :
        /\ world' = [world EXCEPT !.invariants = {i \in world.invariants : InvariantFilter(type, i)}]
        /\ cleared' = (cleared \/ \E i \in world.invariants :
                                    objects[i].kind = "success" /\ ~InvariantFilter(type, i))
  BY DEF IsClearing
<1>2. /\ world'.actions = world.actions
      /\ world'.invariants = {i \in world.invariants : InvariantFilter(type, i)}
  BY <1>1, InventingIsWorld DEF HoldInv, Worlds
<1>3. UNCHANGED <<base, objects, holds>> /\ pc \in Working /\ pc' = "checking"
  BY DEF IsClearing
<1>4. ASSUME ~ cleared' PROVE ~ cleared /\ SuccessFirst'
  <2>1. /\ ~ cleared
        /\ \A i \in world.invariants : objects[i].kind = "success" => InvariantFilter(type, i)
    BY <1>1, <1>4
  <2>2. SuccessFirst
    BY <2>1 DEF HoldInv
  <2>3. HasSuccess(world)'
    BY <1>2, <1>3, <2>1, <2>2 DEF SuccessFirst, HasSuccess
  <2> QED
    BY <1>3, <2>1, <2>2, <2>3 DEF SuccessFirst, HasSuccess
<1>5. /\ Excuses(world.actions)' = Excuses(world.actions)
      /\ Excuses(base.actions)' = Excuses(base.actions)
  BY <1>2, <1>3 DEF Excuses, Failed
<1> QED
  BY <1>2, <1>3, <1>4, <1>5 DEF HoldInv, Working

\* Every hold is counted, those on the success invariant with them.
LEMMA HoldHolding ==
  ASSUME HoldInv, IsHolding, Worlds'
  PROVE  HoldInv'
<1>1. PICK type :
       /\ objects' = [i \in DOMAIN objects |->
                        IF i \in world.invariants /\ InvariantFilter(type, i)
                        THEN [objects[i] EXCEPT !.held = TRUE] ELSE objects[i]]
       /\ holds' = holds + 1
  BY DEF IsHolding
<1>2. UNCHANGED <<base, world, cleared>> /\ pc \in Working /\ pc' = "checking" /\ holds \in Nat
  BY DEF IsHolding, HoldInv
<1> DEFINE f(i) == IF i \in world.invariants /\ InvariantFilter(type, i)
                   THEN [objects[i] EXCEPT !.held = TRUE] ELSE objects[i]
<1>3. ASSUME ~ cleared
      PROVE  SuccessFirst'
  <2>1. SuccessFirst /\ IsSeq(objects) /\ Len(objects) \in Nat /\ DOMAIN objects = 1..Len(objects)
    BY <1>3, SeqAppend DEF HoldInv, SuccessFirst
  <2>2. f(1).kind = objects[1].kind /\ "held" \in DOMAIN f(1) /\ "kind" \in DOMAIN f(1)
    BY <2>1 DEF SuccessFirst
  <2>3. objects' = [i \in 1..Len(objects) |-> f(i)]
    BY <1>1, <2>1
  <2> HIDE DEF f
  <2>4. objects' \in Seq({f(i) : i \in 1..Len(objects)}) /\ Len(objects') = Len(objects)
        /\ objects'[1] = f(1)
    BY <2>1, <2>3 DEF SuccessFirst
  <2> QED
    BY <1>2, <2>1, <2>2, <2>4 DEF SuccessFirst, HasSuccess, IsSeq
<1>4. IsSeq(base.actions) /\ IsSeq(world.actions) /\ holds' \in Nat
  BY <1>1, <1>2 DEF HoldInv
<1>5. ASSUME ~ cleared
      PROVE  Excuses(base.actions)' <= holds' /\ Excuses(world.actions)' <= holds'
  <2>1. Excuses(base.actions) <= holds /\ Excuses(world.actions) <= holds
    BY <1>2, <1>5 DEF HoldInv
  <2>2. base' = base /\ world' = world
    BY <1>2
  <2>3. Cardinality(Failed(base.actions)) \in Nat /\ Cardinality(Failed(world.actions)) \in Nat
    BY <1>4, FailedFinite
  <2>4. ASSUME NEW n \in Nat, n + (IF objects[1].held THEN 1 ELSE 0) <= holds
        PROVE  n + (IF objects'[1].held THEN 1 ELSE 0) <= holds'
    BY <1>1, <1>2, <2>4
  <2>5. /\ Excuses(base.actions)' = Cardinality(Failed(base.actions))
                                        + (IF objects'[1].held THEN 1 ELSE 0)
        /\ Excuses(world.actions)' = Cardinality(Failed(world.actions))
                                        + (IF objects'[1].held THEN 1 ELSE 0)
    BY <2>2 DEF Excuses, Failed
  <2> QED
    BY <2>1, <2>3, <2>4, <2>5 DEF Excuses
<1> QED
  BY <1>2, <1>3, <1>4, <1>5 DEF HoldInv, Working

\* A check that passes found the failure held, and lets go of the hold.
LEMMA HoldPassed ==
  ASSUME HoldInv, IsPassed, Worlds'
  PROVE  HoldInv'
<1>1. /\ pc = "checking" /\ CheckInvariants /\ world' = Checked /\ objects' = ReleasedObjects
      /\ UNCHANGED <<holds, cleared>> /\ holds \in Nat
      /\ \/ pc' = "running" /\ base' = base
         \/ pc' = "prompt" /\ base' = Checked
  BY DEF IsPassed, HoldInv
<1>2. Checked.actions = world.actions /\ Checked.invariants = world.invariants
  BY CheckedIsWorld DEF HoldInv, Worlds
<1>3. ASSUME ~ cleared
      PROVE  /\ SuccessFirst'
             /\ objects'[1].held => objects[1].held
             /\ world.newInvokation => ~ objects'[1].held
  <2>1. SuccessFirst
    BY <1>3 DEF HoldInv
  <2>2. /\ IsSeq(Released(objects, world)) /\ Len(Released(objects, world)) = Len(objects)
        /\ Released(objects, world)[1].kind = objects[1].kind
        /\ "held" \in DOMAIN Released(objects, world)[1]
        /\ "kind" \in DOMAIN Released(objects, world)[1]
        /\ Released(objects, world)[1].held => objects[1].held
        /\ ~ Released(objects, world)[1].held
    BY <2>1, ReleasedKeeps DEF SuccessFirst, HasSuccess
  <2>3. /\ IsSeq(objects') /\ Len(objects') = Len(objects)
        /\ objects'[1].kind = objects[1].kind
        /\ "held" \in DOMAIN objects'[1] /\ "kind" \in DOMAIN objects'[1]
        /\ objects'[1].held => objects[1].held
        /\ world.newInvokation => ~ objects'[1].held
    BY <1>1, <2>1, <2>2 DEF ReleasedObjects, SuccessFirst
  <2>4. HasSuccess(base)' /\ HasSuccess(world)'
    BY <1>1, <1>2, <2>1, <2>3 DEF SuccessFirst, HasSuccess
  <2> QED
    BY <2>1, <2>3, <2>4 DEF SuccessFirst
<1>4. Cardinality(Failed(base.actions)) \in Nat /\ Cardinality(Failed(world.actions)) \in Nat
  BY FailedFinite DEF HoldInv
<1>5. ASSUME ~ cleared
      PROVE  /\ Cardinality(Failed(world.actions)) + (IF objects'[1].held THEN 1 ELSE 0) <= holds
             /\ Cardinality(Failed(base.actions)) + (IF objects'[1].held THEN 1 ELSE 0) <= holds
  <2>1. Excuses(base.actions) <= holds /\ (Excuses(world.actions) <= holds \/ FailedUnchecked)
    BY <1>1, <1>5 DEF HoldInv
  <2> DEFINE before == IF objects[1].held THEN 1 ELSE 0
             after == IF objects'[1].held THEN 1 ELSE 0
  <2>4. /\ before \in 0..1 /\ after \in 0..1 /\ after <= before
        /\ Excuses(base.actions) = Cardinality(Failed(base.actions)) + before
        /\ Excuses(world.actions) = Cardinality(Failed(world.actions)) + before
    <3>1. objects'[1].held => objects[1].held
      BY <1>3, <1>5
    <3>2. before \in 0..1 /\ after \in 0..1 /\ after <= before
      BY <3>1
    <3> QED
      BY <3>2 DEF Excuses
  <2>2. CASE Excuses(world.actions) <= holds
    <3> HIDE DEF before, after
    <3>1. /\ Cardinality(Failed(world.actions)) + after <= holds
          /\ Cardinality(Failed(base.actions)) + after <= holds
      BY <1>1, <1>4, <2>1, <2>2, <2>4
    <3> QED
      BY <3>1 DEF after
  <2>3. CASE FailedUnchecked
    <3>1. SuccessFirst
      BY <1>5 DEF HoldInv
    <3>2. 1 \in world.invariants /\ InvariantsHold
      BY <1>1, <2>3, <3>1 DEF SuccessFirst, HasSuccess, CheckInvariants, FailedUnchecked
    <3>3. Broken(1)
      <4>1. world.actions # <<>> /\ Last(world.actions) = world.actions[Len(world.actions)]
        BY <2>3 DEF FailedUnchecked, Last
      <4> QED
        BY <2>3, <3>1, <4>1 DEF Broken, FailedUnchecked, SuccessFirst
    <3>4. objects[1].held
      BY <3>2, <3>3 DEF InvariantsHold
    <3>5. ~ objects'[1].held /\ Excuses(world.actions) <= holds + 1
      BY <1>3, <1>5, <2>3 DEF FailedUnchecked
    <3> QED
      BY <1>1, <1>3, <1>4, <1>5, <2>1, <3>4, <3>5 DEF Excuses
  <2> QED
    BY <2>1, <2>2, <2>3
<1>6. /\ Excuses(world.actions)' = Cardinality(Failed(world.actions))
                                      + (IF objects'[1].held THEN 1 ELSE 0)
      /\ \/ Excuses(base.actions)' = Cardinality(Failed(world.actions))
                                         + (IF objects'[1].held THEN 1 ELSE 0)
         \/ Excuses(base.actions)' = Cardinality(Failed(base.actions))
                                         + (IF objects'[1].held THEN 1 ELSE 0)
  BY <1>1, <1>2 DEF Excuses, Failed
<1>7. IsSeq(base.actions)' /\ IsSeq(world.actions)' /\ holds' \in Nat
  BY <1>1, <1>2 DEF HoldInv
<1>8. ASSUME ~ cleared'
      PROVE  SuccessFirst' /\ Excuses(base.actions)' <= holds' /\ Excuses(world.actions)' <= holds'
  <2>1. ~ cleared /\ holds' = holds
    BY <1>1, <1>8
  <2>2. SuccessFirst'
    BY <1>3, <2>1
  <2> DEFINE after == IF objects'[1].held THEN 1 ELSE 0
  <2>3. /\ Cardinality(Failed(world.actions)) + after <= holds
        /\ Cardinality(Failed(base.actions)) + after <= holds
    BY <1>5, <2>1
  <2> HIDE DEF after
  <2>4. Excuses(base.actions)' <= holds' /\ Excuses(world.actions)' <= holds'
    BY <1>6, <2>1, <2>3 DEF after
  <2> QED
    BY <2>2, <2>4
<1> QED
  BY <1>7, <1>8 DEF HoldInv

LEMMA HoldStep ==
  ASSUME HoldInv, [Next]_vars
  PROVE  HoldInv'
<1>1. RecordKind /\ Worlds'
  BY EveryRecord, WorldsKept DEF HoldInv
<1>2. CASE IsOver \/ IsNew
  <2>1. holds' \in Nat
    BY <1>2 DEF IsOver, IsNew, HoldInv
  <2> QED
    BY <1>1, <1>2, <2>1, HoldFresh DEF IsOver, IsNew
<1>3. CASE IsWork \/ IsAside
  <2>1. world'.actions = world.actions /\ world'.invariants = world.invariants
    BY <1>3 DEF IsWork, IsAside, Records
  <2> QED
    BY <1>1, <1>3, <2>1, HoldSame DEF IsWork, IsAside
<1> QED
  BY <1>1, <1>2, <1>3, HoldBack, HoldLine, HoldAct, HoldExpecting, HoldInventing,
     HoldHolding, HoldClearing, HoldPassed DEF RecordKind

\* As long as no Success invariant goes, a session keeps no more failed transactions
\* than it ran HoldInvariants, in lines that were kept or taken back (holdInvariants,
\* checkInvariants).
THEOREM HoldsExcuse == Spec => []HoldExcusesOne
<1>1. HoldInv /\ [Next]_vars => HoldInv'
  BY HoldStep
<1>2. HoldInv => HoldExcusesOne
  <2> SUFFICES ASSUME HoldInv, ~ cleared
               PROVE  Cardinality(Failed(base.actions)) <= holds
    BY DEF HoldExcusesOne, Failed
  <2>1. Cardinality(Failed(base.actions)) \in Nat
    BY FailedFinite DEF HoldInv
  <2> QED
    BY <2>1 DEF HoldInv, Excuses
<1> QED
  BY <1>1, <1>2, HoldStart, PTL DEF Spec

-----------------------------------------------------------------------------
(* The tables of commands *)

\* A tuple is a sequence of its own elements.
RowsIn(rows) == {rows[i] : i \in DOMAIN rows}
IsTuple(s) == s \in Seq(RowsIn(s))
HasRows(t) == IsSeq(t.rows)

LEMMA TupleIsSeq == ASSUME NEW s, IsTuple(s) PROVE IsSeq(s)
BY DEF IsTuple, IsSeq

LEMMA TuplesJoin ==
  ASSUME NEW r, NEW s, IsSeq(r) \/ IsTuple(r), IsSeq(s) \/ IsTuple(s)
  PROVE  IsSeq(r \o s)
<1>1. PICK R, S : r \in Seq(R) /\ s \in Seq(S)
  BY DEF IsTuple, IsSeq
<1>2. r \in Seq(R \cup S) /\ s \in Seq(R \cup S)
  BY <1>1
<1> QED
  BY <1>2 DEF IsSeq

LEMMA MarketRows == \A t \in DOMAIN MarketTables : HasRows(MarketTables[t])
<1>1. /\ IsTuple(BRTokenDelegateRows) /\ IsTuple(UnitrollerRows)
      /\ IsTuple(InterestRateModelRows) /\ IsTuple(PriceOracleRows)
      /\ IsTuple(PriceOracleProxyRows) /\ IsTuple(MaximillionRows)
      /\ IsTuple(LiquidatorRows) /\ IsTuple(BRTokenRows1) /\ IsTuple(BRTokenRows2)
      /\ IsTuple(BRTokenRows3) /\ IsTuple(ComptrollerRows1)
      /\ IsTuple(ComptrollerRows2) /\ IsTuple(ComptrollerRows3)
      /\ IsTuple(ComptrollerImplRows1) /\ IsTuple(ComptrollerImplRows2)
  BY DEF IsTuple, RowsIn, BRTokenDelegateRows, UnitrollerRows, InterestRateModelRows,
     PriceOracleRows, PriceOracleProxyRows, MaximillionRows, LiquidatorRows, BRTokenRows1,
     BRTokenRows2, BRTokenRows3, ComptrollerRows1, ComptrollerRows2, ComptrollerRows3,
     ComptrollerImplRows1, ComptrollerImplRows2
<1>2. /\ HasRows(BRTokenTable) /\ HasRows(BRTokenDelegateTable)
      /\ HasRows(ComptrollerTable) /\ HasRows(ComptrollerImplTable)
      /\ HasRows(UnitrollerTable) /\ HasRows(InterestRateModelTable)
      /\ HasRows(PriceOracleTable) /\ HasRows(PriceOracleProxyTable)
      /\ HasRows(MaximillionTable) /\ HasRows(LiquidatorTable)
  BY <1>1, TuplesJoin, TupleIsSeq
  DEF HasRows, Table, BRTokenTable, BRTokenDelegateTable, ComptrollerTable,
     ComptrollerImplTable, UnitrollerTable, InterestRateModelTable, PriceOracleTable,
     PriceOracleProxyTable, MaximillionTable, LiquidatorTable
<1> QED
  BY <1>2 DEF MarketTables

LEMMA TokenRows == \A t \in DOMAIN TokenTables : HasRows(TokenTables[t])
<1>1. /\ IsTuple(Erc20Rows) /\ IsTuple(BRNRows) /\ IsTuple(SXPRows)
      /\ IsTuple(BAIRows) /\ IsTuple(BRNVaultImplRows) /\ IsTuple(BRNVaultProxyRows)
      /\ IsTuple(BAIControllerRows) /\ IsTuple(BAIControllerImplRows)
      /\ IsTuple(BAIUnitrollerRows) /\ IsTuple(BRNVaultRows1)
      /\ IsTuple(BRNVaultRows2)
  BY DEF IsTuple, RowsIn, Erc20Rows, BRNRows, SXPRows, BAIRows, BRNVaultImplRows,
     BRNVaultProxyRows, BAIControllerRows, BAIControllerImplRows, BAIUnitrollerRows,
     BRNVaultRows1, BRNVaultRows2
<1>2. /\ HasRows(Erc20Table) /\ HasRows(BRNTable) /\ HasRows(SXPTable)
      /\ HasRows(BAITable) /\ HasRows(BRNVaultTable) /\ HasRows(BRNVaultImplTable)
      /\ HasRows(BRNVaultProxyTable) /\ HasRows(BAIControllerTable)
      /\ HasRows(BAIControllerImplTable) /\ HasRows(BAIUnitrollerTable)
  BY <1>1, TuplesJoin, TupleIsSeq
  DEF HasRows, Table, Erc20Table, BRNTable, SXPTable, BAITable, BRNVaultTable,
     BRNVaultImplTable, BRNVaultProxyTable, BAIControllerTable, BAIControllerImplTable,
     BAIUnitrollerTable
<1> QED
  BY <1>2 DEF TokenTables

LEMMA GovernanceRows == \A t \in DOMAIN GovernanceTables : HasRows(GovernanceTables[t])
<1>1. /\ IsTuple(GovernorRows) /\ IsTuple(ProposalRows) /\ IsTuple(GuardianRows)
      /\ IsTuple(GovernorBravoRows1) /\ IsTuple(GovernorBravoRows2)
      /\ IsTuple(BravoProposalRows1) /\ IsTuple(BravoProposalRows2)
      /\ IsTuple(TimelockRows1) /\ IsTuple(TimelockRows2)
  BY DEF IsTuple, RowsIn, GovernorRows, ProposalRows, GuardianRows, GovernorBravoRows1,
     GovernorBravoRows2, BravoProposalRows1, BravoProposalRows2, TimelockRows1,
     TimelockRows2
<1>2. /\ HasRows(GovernorTable) /\ HasRows(ProposalTable) /\ HasRows(GuardianTable)
      /\ HasRows(GovernorBravoTable) /\ HasRows(BravoProposalTable)
      /\ HasRows(TimelockTable)
  BY <1>1, TuplesJoin, TupleIsSeq
  DEF HasRows, Table, GovernorTable, ProposalTable, GuardianTable, GovernorBravoTable,
     BravoProposalTable, TimelockTable
<1> QED
  BY <1>2 DEF GovernanceTables

LEMMA RunnerRows == \A t \in DOMAIN RunnerTables : HasRows(RunnerTables[t])
<1>1. /\ IsTuple(CoreRows1) /\ IsTuple(CoreRows2) /\ IsTuple(CoreRows3) /\ IsTuple(CoreRows4)
      /\ IsTuple(CoreRows5) /\ IsTuple(CoreRows6)
      /\ IsTuple(AssertionRows1) /\ IsTuple(AssertionRows2)
  BY DEF IsTuple, RowsIn, CoreRows1, CoreRows2, CoreRows3, CoreRows4, CoreRows5, CoreRows6,
     AssertionRows1, AssertionRows2
<1>2. HasRows(CoreTable) /\ HasRows(AssertionTable)
  BY <1>1, TuplesJoin DEF HasRows, Table, CoreTable, AssertionTable
<1>3. /\ IsTuple(TrxTable.rows) /\ IsTuple(InvariantTable.rows) /\ IsTuple(ExpectationTable.rows)
      /\ IsTuple(ContractTable(FALSE).rows) /\ IsTuple(ContractTable(TRUE).rows)
  BY DEF IsTuple, RowsIn, Table, TrxTable, InvariantTable, ExpectationTable, ContractTable
<1>4. /\ HasRows(TrxTable) /\ HasRows(InvariantTable) /\ HasRows(ExpectationTable)
      /\ HasRows(ContractTable(FALSE)) /\ HasRows(ContractTable(TRUE))
  BY <1>3, TupleIsSeq DEF HasRows
<1>5. /\ DOMAIN RunnerTables = {"Core", "Trx", "Invariant", "Expectation", "Assertion", "Counter",
                                "Reservoir"}
      /\ RunnerTables["Core"] = CoreTable /\ RunnerTables["Trx"] = TrxTable
      /\ RunnerTables["Invariant"] = InvariantTable
      /\ RunnerTables["Expectation"] = ExpectationTable
      /\ RunnerTables["Assertion"] = AssertionTable
      /\ RunnerTables["Counter"] = ContractTable(FALSE)
      /\ RunnerTables["Reservoir"] = ContractTable(TRUE)
  BY DEF RunnerTables
<1> QED
  BY <1>2, <1>4, <1>5

LEMMA EveryTable == ASSUME NEW t \in DOMAIN Tables PROVE HasRows(Tables[t])
<1>1. CASE t \in DOMAIN RunnerTables
  BY <1>1, RunnerRows DEF Tables
<1>2. CASE t \notin DOMAIN RunnerTables /\ t \in DOMAIN MarketTables
  BY <1>2, MarketRows DEF Tables
<1>3. CASE t \notin DOMAIN RunnerTables /\ t \notin DOMAIN MarketTables /\ t \in DOMAIN TokenTables
  BY <1>3, TokenRows DEF Tables
<1>4. CASE /\ t \notin DOMAIN RunnerTables /\ t \notin DOMAIN MarketTables
           /\ t \notin DOMAIN TokenTables
  BY <1>4, GovernanceRows DEF Tables
<1> QED
  BY <1>1, <1>2, <1>3, <1>4

\* The first row that matches is a row that matches.
LEMMA FoundFirst ==
  ASSUME NEW t \in DOMAIN Tables, NEW words, Known(Tables[t], words)
  PROVE  /\ \E i \in DOMAIN Tables[t].rows : FirstMatch(Tables[t], words) = Tables[t].rows[i]
         /\ Matches(FirstMatch(Tables[t], words), words)
<1> DEFINE rows == Tables[t].rows
           I == {i \in 1..Len(rows) : Matches(rows[i], words)}
<1>1. DOMAIN rows = 1..Len(rows) /\ Len(rows) \in Nat
  BY EveryTable DEF HasRows, IsSeq
<1>2. I # {}
  BY <1>1 DEF Known
<1>3. PICK m \in I : \A y \in I : m <= y
  <2>1. I \in SUBSET Nat
    OBVIOUS
  <2> HIDE DEF I
  <2> QED
    BY <1>2, <2>1, SmallestNumber
<1>4. Min(I) \in I
  BY <1>3 DEF Min
<1>5. FirstMatch(Tables[t], words) = rows[Min(I)]
  BY <1>2 DEF FirstMatch, SelectInSeq
<1> QED
  BY <1>1, <1>4, <1>5

\* What the rows of the first table say of the words that wrap an event.
CoreRow(r) ==
  /\ r.namePos = 0
  /\ r.name = "From" => r.run = "from"
  /\ r.name = "Gate" => r.run = "gate"
  /\ r.name = "Given" => r.run = "given"
  /\ r.name = "Block" => r.run = "block"
  /\ r.name = "Trx" => r.run = "Trx" /\ r.args = <<Rest>>

AreCoreRows(s) == \E S : s \in Seq(S) /\ \A r \in S : CoreRow(r)

LEMMA TupleOfCoreRows ==
  ASSUME NEW s, IsTuple(s), \A i \in DOMAIN s : CoreRow(s[i])
  PROVE  AreCoreRows(s)
BY DEF IsTuple, RowsIn, AreCoreRows

LEMMA CoreRowsJoin ==
  ASSUME NEW r, NEW s, AreCoreRows(r), AreCoreRows(s)
  PROVE  AreCoreRows(r \o s)
<1>1. PICK R, S : /\ r \in Seq(R) /\ s \in Seq(S)
                  /\ \A x \in R \cup S : CoreRow(x)
  BY DEF AreCoreRows
<1>2. r \in Seq(R \cup S) /\ s \in Seq(R \cup S)
  BY <1>1
<1>3. r \o s \in Seq(R \cup S)
  BY <1>2
<1> QED
  BY <1>1, <1>3 DEF AreCoreRows

LEMMA CoreTableRows ==
  /\ AreCoreRows(CoreTable.rows)
  /\ \A r : Effect(CoreTable, r) = r.run
  /\ Tables["Core"] = CoreTable /\ "Core" \in DOMAIN Tables
<1>1. AreCoreRows(CoreRows1)
  <2>1. ASSUME NEW i \in DOMAIN CoreRows1 PROVE CoreRow(CoreRows1[i])
    BY SMTT(30) DEF CoreRows1, CoreRow, Cmd, View, One, Opt, Rest
  <2>2. IsTuple(CoreRows1)
    BY DEF CoreRows1, IsTuple, RowsIn
  <2> QED
    BY <2>1, <2>2, TupleOfCoreRows
<1>2. AreCoreRows(CoreRows2)
  <2>1. ASSUME NEW i \in DOMAIN CoreRows2 PROVE CoreRow(CoreRows2[i])
    BY SMTT(30) DEF CoreRows2, CoreRow, Cmd, View, One, Opt, Rest
  <2>2. IsTuple(CoreRows2)
    BY DEF CoreRows2, IsTuple, RowsIn
  <2> QED
    BY <2>1, <2>2, TupleOfCoreRows
<1>3. AreCoreRows(CoreRows3)
  <2>1. ASSUME NEW i \in DOMAIN CoreRows3 PROVE CoreRow(CoreRows3[i])
    BY SMTT(30) DEF CoreRows3, CoreRow, Cmd, View, One, Opt, Rest
  <2>2. IsTuple(CoreRows3)
    BY DEF CoreRows3, IsTuple, RowsIn
  <2> QED
    BY <2>1, <2>2, TupleOfCoreRows
<1>4. AreCoreRows(CoreRows4)
  <2>1. ASSUME NEW i \in DOMAIN CoreRows4 PROVE CoreRow(CoreRows4[i])
    BY SMTT(30) DEF CoreRows4, CoreRow, Cmd, View, One, Opt, Rest
  <2>2. IsTuple(CoreRows4)
    BY DEF CoreRows4, IsTuple, RowsIn
  <2> QED
    BY <2>1, <2>2, TupleOfCoreRows
<1>5. AreCoreRows(CoreRows5)
  <2>1. ASSUME NEW i \in DOMAIN CoreRows5 PROVE CoreRow(CoreRows5[i])
    BY SMTT(30) DEF CoreRows5, CoreRow, Cmd, View, One, Opt, Rest
  <2>2. IsTuple(CoreRows5)
    BY DEF CoreRows5, IsTuple, RowsIn
  <2> QED
    BY <2>1, <2>2, TupleOfCoreRows
<1>6. AreCoreRows(CoreRows6)
  <2>1. ASSUME NEW i \in DOMAIN CoreRows6 PROVE CoreRow(CoreRows6[i])
    BY SMTT(30) DEF CoreRows6, CoreRow, Cmd, View, One, Opt, Rest
  <2>2. IsTuple(CoreRows6)
    BY DEF CoreRows6, IsTuple, RowsIn
  <2> QED
    BY <2>1, <2>2, TupleOfCoreRows
<1>7. AreCoreRows(CoreRows1 \o CoreRows2 \o CoreRows3 \o CoreRows4 \o CoreRows5 \o CoreRows6)
  BY <1>1, <1>2, <1>3, <1>4, <1>5, <1>6, CoreRowsJoin
<1>8. AreCoreRows(CoreTable.rows) /\ CoreTable.functions = [f \in {} |-> "quiet"]
  BY <1>7 DEF CoreTable, Table, NoFunctions, On
<1>9. \A r : Effect(CoreTable, r) = r.run
  BY <1>8 DEF Effect
<1>10. "Core" \in DOMAIN RunnerTables /\ RunnerTables["Core"] = CoreTable
  BY DEF RunnerTables
<1>11. Tables["Core"] = CoreTable /\ "Core" \in DOMAIN Tables
  BY <1>10 DEF Tables
<1> QED
  BY <1>8, <1>9, <1>11

LEMMA TrxTableRows ==
  /\ \A i \in DOMAIN TrxTable.rows :
       LET r == TrxTable.rows[i]
       IN  /\ r.namePos = 0 /\ r.name \in {"Value", "GasPrice"}
           /\ Effect(TrxTable, r) = IF r.name = "Value" THEN "value" ELSE "gasPrice"
  /\ Tables["Trx"] = TrxTable /\ "Trx" \in DOMAIN Tables
<1>1. "Trx" \in DOMAIN RunnerTables /\ RunnerTables["Trx"] = TrxTable
  BY DEF RunnerTables
<1>2. Tables["Trx"] = TrxTable /\ "Trx" \in DOMAIN Tables
  BY <1>1 DEF Tables
<1>3. \A i \in DOMAIN TrxTable.rows :
       LET r == TrxTable.rows[i]
       IN  /\ r.namePos = 0 /\ r.name \in {"Value", "GasPrice"}
           /\ Effect(TrxTable, r) = IF r.name = "Value" THEN "value" ELSE "gasPrice"
  BY DEF TrxTable, Table, Cmd, One, NoFunctions, On, Effect
<1> QED
  BY <1>2, <1>3

\* What a row does is not the name of a table, for the words that wrap an event.
LEMMA EffectsAreNoTables ==
  {"from", "gate", "given", "block", "value", "gasPrice", "build", "send", "sendLive",
   "become", "mergeLater"}
    \cap DOMAIN Tables = {}
BY DEF Tables, RunnerTables, MarketTables, TokenTables, GovernanceTables

-----------------------------------------------------------------------------
(* The words an event passes on *)

LEMMA ArgsWords ==
  ASSUME NEW S, NEW words \in Seq(S), NEW row, Matches(row, words)
  PROVE  /\ ArgsOf(row, words) \in Seq(S)
         /\ \A i \in DOMAIN ArgsOf(row, words) : \E j \in DOMAIN words :
              ArgsOf(row, words)[i] = words[j]
<1> DEFINE k == row.namePos + 1
           before == SubSeq(words, 1, k - 1)
           after == SubSeq(words, k + 1, Len(words))
<1>1. k \in 1..Len(words)
  BY DEF Matches
<1> HIDE DEF k
<1>2. /\ before \in Seq(S) /\ after \in Seq(S)
      /\ Len(before) = k - 1 /\ Len(after) = Len(words) - k
      /\ \A i \in 1..(k - 1) : before[i] = words[i]
      /\ \A i \in 1..(Len(words) - k) : after[i] = words[k + i]
  BY <1>1
<1>3. ArgsOf(row, words) = before \o after
  BY DEF ArgsOf, RemoveAt, k
<1> HIDE DEF before, after
<1>4. /\ before \o after \in Seq(S) /\ DOMAIN (before \o after) = 1..(Len(words) - 1)
      /\ \A i \in 1..(Len(words) - 1) :
           (before \o after)[i] = IF i < k THEN before[i] ELSE after[i - k + 1]
  BY <1>1, <1>2
<1>5. ASSUME NEW i \in 1..(Len(words) - 1)
      PROVE  \E j \in 1..Len(words) : (before \o after)[i] = words[j]
  <2> i \in Nat /\ k \in Nat /\ Len(words) \in Nat /\ i <= Len(words) - 1
    BY <1>1
  <2>1. CASE i < k
    <3>1. (before \o after)[i] = words[i]
      BY <1>1, <1>2, <1>4, <2>1
    <3> QED
      BY <3>1
  <2>2. CASE i >= k
    <3>1. (before \o after)[i] = words[i + 1]
      BY <1>1, <1>2, <1>4, <2>2, SMTT(30)
    <3> QED
      BY <3>1
  <2>3. i < k \/ i >= k
    OBVIOUS
  <2> QED
    BY <2>1, <2>2, <2>3
<1>6. DOMAIN words = 1..Len(words)
  OBVIOUS
<1>7. ASSUME NEW i \in DOMAIN (before \o after)
      PROVE  \E j \in DOMAIN words : (before \o after)[i] = words[j]
  BY <1>4, <1>5, <1>6
<1> QED
  BY <1>3, <1>4, <1>7

LEMMA TakenFinite ==
  ASSUME NEW S, NEW words \in Seq(S), NEW row
  PROVE  Cardinality(WordsTaken(row, words)) \in Nat
<1>1. WordsTaken(row, words) \subseteq 1..Len(words) /\ IsFiniteSet(1..Len(words))
  BY FS_Interval DEF WordsTaken
<1> QED
  BY <1>1, FS_Subset, FS_CardinalityType

\* The words passed on are words of the event.
LEMMA PassedOnWords ==
  ASSUME NEW S, NEW words \in Seq(S), NEW row, Matches(row, words)
  PROVE  /\ PassedOn(row, words) \in Seq(S)
         /\ \A i \in DOMAIN PassedOn(row, words) : \E j \in DOMAIN words :
              PassedOn(row, words)[i] = words[j]
<1> DEFINE args == ArgsOf(row, words)
           c == Cardinality(WordsTaken(row, words))
<1>1. /\ args \in Seq(S)
      /\ \A i \in DOMAIN args : \E j \in DOMAIN words : args[i] = words[j]
  BY ArgsWords
<1>2. c \in Nat
  BY TakenFinite
<1>3. PassedOn(row, words) = SubSeq(args, c + 1, Len(args))
  BY DEF PassedOn
<1> HIDE DEF args, c
<1>4. /\ SubSeq(args, c + 1, Len(args)) \in Seq(S)
      /\ \A i \in DOMAIN SubSeq(args, c + 1, Len(args)) :
           i + c \in DOMAIN args /\ SubSeq(args, c + 1, Len(args))[i] = args[i + c]
  BY <1>1, <1>2
<1> QED
  BY <1>1, <1>3, <1>4

\* A row that takes every word passes on all but its own name.
LEMMA RestPassedOn ==
  ASSUME NEW S, NEW words \in Seq(S), NEW row, Matches(row, words), row.namePos = 0,
         row.args = <<Rest>>
  PROVE  PassedOn(row, words) = Tail(words)
<1>1. WordsTaken(row, words) = {}
  BY DEF WordsTaken
<1>2. Cardinality(WordsTaken(row, words)) = 0
  BY <1>1, FS_EmptySet
<1>3. Len(words) \in Nat \ {0}
  BY DEF Matches
<1>4. ArgsOf(row, words) = SubSeq(words, 1, 0) \o SubSeq(words, 2, Len(words))
  BY DEF ArgsOf, RemoveAt
<1>5. ArgsOf(row, words) = Tail(words)
  BY <1>3, <1>4
<1>6. Tail(words) \in Seq(S) /\ SubSeq(Tail(words), 1, Len(Tail(words))) = Tail(words)
  BY <1>3
<1> QED
  BY <1>2, <1>5, <1>6 DEF PassedOn

-----------------------------------------------------------------------------
(* Reading an event *)

Events == {e \in Seq(Seq(STRING)) : IsEvent(e) /\ (DeploysAreGated => GatedEvent(e))}

\* What a table, or a command, makes of a part that wraps the rest.
WrapDoes(name, does) ==
  \/ name = "From" /\ does = "from"
  \/ name = "Gate" /\ does = "gate"
  \/ name = "Given" /\ does = "given"
  \/ name = "Block" /\ does = "block"

WrapRead(part, words, does) ==
  \/ does = "Core" /\ words = part
  \/ does = "Trx" /\ part[1] = "Trx" /\ words = Tail(part)
  \/ part[1] = "Trx" /\ does = IF SetsValue(part) THEN "value" ELSE "gasPrice"
  \/ words = part /\ WrapDoes(part[1], does)

Understood(part, words, does) ==
  /\ words \in Seq(STRING)
  /\ \A i \in DOMAIN words : \E j \in DOMAIN part : words[i] = part[j]
  /\ part[1] \in Wraps => WrapRead(part, words, does)
  /\ does = "build" => words # <<>> /\ Range(part) \cap Deploying # {}

LEMMA FirstUnderstood ==
  ASSUME NEW part \in Seq(STRING)
  PROVE  Understood(part, part, "Core")
BY DEF Understood, WrapRead

\* The first table goes on with a wrapper as its row says.
LEMMA CoreUnderstood ==
  ASSUME NEW part \in Seq(STRING), part # <<>>, part[1] \in Wraps,
         Known(Tables["Core"], part)
  PROVE  LET row == FirstMatch(Tables["Core"], part)
             does == Effect(Tables["Core"], row)
         IN  IF does \in DOMAIN Tables THEN WrapRead(part, PassedOn(row, part), does)
                                       ELSE WrapRead(part, part, does)
<1> DEFINE row == FirstMatch(Tables["Core"], part)
           does == Effect(Tables["Core"], row)
<1>1. /\ \E i \in DOMAIN CoreTable.rows : row = CoreTable.rows[i]
      /\ Matches(row, part)
  BY FoundFirst, CoreTableRows
<1>2. CoreRow(row)
  BY <1>1, CoreTableRows DEF AreCoreRows
<1>3. does = row.run
  BY CoreTableRows
<1> HIDE DEF row, does
<1> SUFFICES IF does \in DOMAIN Tables THEN WrapRead(part, PassedOn(row, part), does)
                                      ELSE WrapRead(part, part, does)
  BY DEF row, does
<1>4. part[1] = row.name
  BY <1>1, <1>2 DEF Matches, CoreRow
<1>5. CASE part[1] = "Trx"
  <2>1. does = "Trx" /\ PassedOn(row, part) = Tail(part) /\ does \in DOMAIN Tables
    BY <1>1, <1>2, <1>3, <1>4, <1>5, RestPassedOn, TrxTableRows DEF CoreRow
  <2> QED
    BY <1>5, <2>1 DEF WrapRead
<1>6. CASE part[1] # "Trx"
  <2>1. WrapDoes(part[1], does)
    BY <1>2, <1>3, <1>4, <1>6 DEF CoreRow, Wraps, WrapDoes
  <2>2. does \notin DOMAIN Tables
    BY <2>1, EffectsAreNoTables DEF WrapDoes
  <2> QED
    BY <2>1, <2>2 DEF WrapRead
<1> QED
  BY <1>5, <1>6

LEMMA TrxUnderstood ==
  ASSUME NEW part \in Seq(STRING), part # <<>>, part[1] = "Trx",
         Known(Tables["Trx"], Tail(part))
  PROVE  LET row == FirstMatch(Tables["Trx"], Tail(part))
             does == Effect(Tables["Trx"], row)
         IN  does \notin DOMAIN Tables /\ does = IF SetsValue(part) THEN "value" ELSE "gasPrice"
<1> DEFINE row == FirstMatch(Tables["Trx"], Tail(part))
           does == Effect(Tables["Trx"], row)
<1>1. /\ \E i \in DOMAIN TrxTable.rows : row = TrxTable.rows[i]
      /\ Matches(row, Tail(part))
  BY FoundFirst, TrxTableRows
<1>2. /\ row.namePos = 0 /\ row.name \in {"Value", "GasPrice"}
      /\ does = IF row.name = "Value" THEN "value" ELSE "gasPrice"
  BY <1>1, TrxTableRows
<1> HIDE DEF row, does
<1>3. Len(part) > 1 /\ part[2] = row.name
  BY <1>1, <1>2 DEF Matches
<1>4. does = IF SetsValue(part) THEN "value" ELSE "gasPrice"
  BY <1>2, <1>3 DEF SetsValue
<1>5. does \notin DOMAIN Tables
  BY <1>4, EffectsAreNoTables
<1> QED
  BY <1>4, <1>5 DEF row, does

LEMMA DeployingNamed ==
  ASSUME NEW t \in DOMAIN Tables, NEW i \in DOMAIN Tables[t].rows,
         Effect(Tables[t], Tables[t].rows[i]) = "build"
  PROVE  Tables[t].rows[i].name \in Deploying
<1>1. Tables[t].rows[i] \in {r \in Range(Tables[t].rows) : Effect(Tables[t], r) = "build"}
  BY DEF Range
<1> QED
  BY <1>1 DEF Deploying

LEMMA StillUnderstood ==
  ASSUME NEW part \in Seq(STRING), part # <<>>, NEW words, NEW t \in DOMAIN Tables,
         Understood(part, words, t), Known(Tables[t], words)
  PROVE  LET row == FirstMatch(Tables[t], words)
             does == Effect(Tables[t], row)
         IN  Understood(part, IF does \in DOMAIN Tables THEN PassedOn(row, words) ELSE words, does)
<1> DEFINE row == FirstMatch(Tables[t], words)
           does == Effect(Tables[t], row)
           left == IF does \in DOMAIN Tables THEN PassedOn(row, words) ELSE words
<1>1. PICK i \in DOMAIN Tables[t].rows : row = Tables[t].rows[i]
  BY FoundFirst
<1>2. Matches(row, words)
  BY FoundFirst
<1>3. /\ words \in Seq(STRING)
      /\ \A k \in DOMAIN words : \E j \in DOMAIN part : words[k] = part[j]
  BY DEF Understood
<1>4. /\ left \in Seq(STRING)
      /\ \A k \in DOMAIN left : \E j \in DOMAIN part : left[k] = part[j]
  <2>1. /\ PassedOn(row, words) \in Seq(STRING)
        /\ \A k \in DOMAIN PassedOn(row, words) : \E j \in DOMAIN words :
             PassedOn(row, words)[k] = words[j]
    BY <1>2, <1>3, PassedOnWords
  <2> HIDE DEF row, does
  <2> QED
    BY <1>3, <2>1
<1>5. ASSUME part[1] \in Wraps PROVE WrapRead(part, left, does)
  <2>1. WrapRead(part, words, t)
    BY <1>5 DEF Understood
  <2>2. t \notin {"from", "gate", "given", "block", "value", "gasPrice"}
    BY EffectsAreNoTables
  <2>3. \/ t = "Core" /\ words = part
        \/ t = "Trx" /\ part[1] = "Trx" /\ words = Tail(part)
    BY <2>1, <2>2 DEF WrapRead, WrapDoes
  <2>4. CASE t = "Core" /\ words = part
    BY <1>5, <2>4, CoreUnderstood
  <2>5. CASE t = "Trx" /\ part[1] = "Trx" /\ words = Tail(part)
    <3>1. does \notin DOMAIN Tables /\ does = IF SetsValue(part) THEN "value" ELSE "gasPrice"
      BY <2>5, TrxUnderstood
    <3> HIDE DEF does, left
    <3> QED
      BY <2>5, <3>1 DEF WrapRead
  <2> QED
    BY <2>3, <2>4, <2>5
<1>6. ASSUME does = "build" PROVE left # <<>> /\ Range(part) \cap Deploying # {}
  <2>1. left = words
    BY <1>6, EffectsAreNoTables
  <2>2. row.namePos + 1 \in DOMAIN words /\ words[row.namePos + 1] = row.name
    BY <1>2 DEF Matches
  <2>3. row.name \in Deploying
    BY <1>1, <1>6, DeployingNamed
  <2>4. row.name \in Range(part)
    BY <1>3, <2>2 DEF Range
  <2> HIDE DEF row, does, left
  <2> QED
    BY <1>3, <2>1, <2>2, <2>3, <2>4
<1> HIDE DEF row, does, left
<1>7. Understood(part, left, does)
  BY <1>4, <1>5, <1>6 DEF Understood
<1> QED
  BY <1>7 DEF row, does, left

\* The part being read, and what the parts before it ask for.
Part == Len(typed) - Len(event) + 1

SenderOf(e, k, default) ==
  LET S == {i \in 1..k : e[i][1] = "From"}
  IN  IF S = {} THEN default ELSE e[Max(S)][2]

ValueOf(e, k) == IF \E i \in 1..k : SetsValue(e[i]) THEN 1 ELSE 0

GatesOpen(e, k, contracts) ==
  \A n \in Contracts : (\E i \in 1..k : IsGate(e[i], n)) => contracts[n] = NoContract

\* What is left of an event is its last parts, the first of them read so far.
ReadsTyped ==
  /\ typed \in Events /\ event \in Seq(Seq(STRING))
  /\ Len(event) \in 1..Len(typed)
  /\ \A i \in 2..Len(event) : event[i] = typed[Part + i - 1]
  /\ Understood(typed[Part], Words, handler)

ReadsOptions ==
  /\ from = SenderOf(typed, Part - 1, DefaultFrom)
  /\ world.trxValue = ValueOf(typed, Part - 1)
  /\ GatesOpen(typed, Part - 1, world.contracts)

ReadInv ==
  /\ DryInv /\ Worlds /\ base.trxValue = 0
  /\ queue \in Seq(Events)
  /\ pc = "running" => ReadsTyped /\ ReadsOptions

LEMMA NextSender ==
  ASSUME NEW e, NEW k \in Nat, NEW default
  PROVE  SenderOf(e, k + 1, default)
           = IF e[k + 1][1] = "From" THEN e[k + 1][2] ELSE SenderOf(e, k, default)
<1> DEFINE S(j) == {i \in 1..j : e[i][1] = "From"}
<1>1. CASE e[k + 1][1] = "From"
  <2>1. k + 1 \in S(k + 1) /\ \A y \in S(k + 1) : k + 1 >= y
    BY <1>1
  <2>2. \A x \in S(k + 1) : (\A y \in S(k + 1) : x >= y) => x = k + 1
    BY <2>1
  <2>3. Max(S(k + 1)) = k + 1
    BY <2>1, <2>2 DEF Max
  <2>4. S(k + 1) # {}
    BY <2>1
  <2> QED
    BY <1>1, <2>3, <2>4 DEF SenderOf
<1>2. CASE e[k + 1][1] # "From"
  <2>1. S(k + 1) = S(k)
    BY <1>2
  <2> QED
    BY <1>2, <2>1 DEF SenderOf
<1> QED
  BY <1>1, <1>2

LEMMA NextValue ==
  ASSUME NEW e, NEW k \in Nat
  PROVE  ValueOf(e, k + 1) = IF SetsValue(e[k + 1]) THEN 1 ELSE ValueOf(e, k)
<1>1. (\E i \in 1..(k + 1) : SetsValue(e[i]))
        <=> (SetsValue(e[k + 1]) \/ \E i \in 1..k : SetsValue(e[i]))
  OBVIOUS
<1> QED
  BY <1>1 DEF ValueOf

LEMMA NextGates ==
  ASSUME NEW e, NEW k \in Nat, NEW contracts, GatesOpen(e, k, contracts),
         \A n \in Contracts : IsGate(e[k + 1], n) => contracts[n] = NoContract
  PROVE  GatesOpen(e, k + 1, contracts)
<1>1. \A n : (\E i \in 1..(k + 1) : IsGate(e[i], n))
               => (IsGate(e[k + 1], n) \/ \E i \in 1..k : IsGate(e[i], n))
  OBVIOUS
<1> QED
  BY <1>1 DEF GatesOpen

LEMMA NothingAsked ==
  ASSUME NEW e, NEW default, NEW contracts
  PROVE  /\ SenderOf(e, 0, default) = default /\ ValueOf(e, 0) = 0
         /\ GatesOpen(e, 0, contracts)
BY DEF SenderOf, ValueOf, GatesOpen

-----------------------------------------------------------------------------
(* Kinds of steps, by what they read *)

\* No event is being read.
Away == pc' # "running" /\ queue' \in {queue, <<>>}

\* An event is left as it is.
Waits == UNCHANGED <<pc, world, queue, typed, event, handler, from, me>>

\* A wrapper gives way to what it wraps.
Unwraps ==
  \/ Runs({"from"}) /\ RunInner(world, Words[2])
  \/ Runs({"value"}) /\ RunInner([world EXCEPT !.trxValue = 1], from)
  \/ Runs({"gasPrice", "block"}) /\ RunInner(world, from)
  \/ Runs({"gate"}) /\ ~ Exists /\ RunInner(world, from)
  \/ Runs({"given"}) /\ Exists /\ RunInner(world, from)

\* The next event of a line.
ReadsOn ==
  \E events \in Seq(Events) :
    events # <<>> /\ Begin(events) /\ UNCHANGED me /\ world'.trxValue = 0

LEMMA FailAway == ASSUME NEW objs, Fail(objs) PROVE Away
BY DEF Fail, Stop, Away

LEMMA DoneAway == ASSUME NEW w, Done(w) PROVE Away
BY DEF Done, Away

LEMMA SaveAway == ASSUME NEW w, NEW s, BeginSave(w, s) PROVE Away
BY DEF BeginSave, Away

LEMMA QuietAway == ASSUME NEW w, Quiet(w) PROVE Away
BY DoneAway DEF Quiet

LEMMA RulesAway ==
  ASSUME \/ Refuse \/ Observe \/ Throw \/ Asserted \/ MyAddress \/ Invariant \/ Expect
         \/ HoldInvariants \/ ClearInvariants \/ UnknownType
  PROVE  Away
<1>1. CASE Refuse \/ Throw \/ UnknownType
  BY <1>1, FailAway DEF Refuse, Throw, UnknownType
<1>2. CASE Observe \/ Expect
  BY <1>2, QuietAway DEF Observe, Expect
<1>3. CASE Asserted
  BY <1>3, QuietAway, FailAway DEF Asserted, Judge
<1>4. CASE MyAddress \/ Invariant \/ HoldInvariants \/ ClearInvariants
  BY <1>4, DoneAway DEF MyAddress, Invariant, AddInvariant, HoldInvariants, ClearInvariants
<1> QED
  BY <1>1, <1>2, <1>3, <1>4

LEMMA ChainAway ==
  ASSUME \/ \E ok : Send(ok) \/ SendAny(ok) \/ Build(ok) \/ Become(ok) \/ SetImplementation(ok)
         \/ \E address : Adopt(address)
         \/ MergeABI \/ UnknownContract
  PROVE  Away
<1>1. ASSUME NEW ok, Send(ok) \/ SendAny(ok) PROVE Away
  BY <1>1, DoneAway, FailAway DEF Send, SendAny
<1>2. ASSUME NEW ok, Build(ok) PROVE Away
  <2>1. Fail(objects) \/ (\E w : Done(w)) \/ \E w, s : BeginSave(w, s)
    BY <1>2 DEF Build
  <2> QED
    BY <2>1, DoneAway, FailAway, SaveAway
<1>3. ASSUME NEW ok, Become(ok) PROVE Away
  <2>1. (\E w : Done(w)) \/ \E w, s : BeginSave(w, s)
    BY <1>3 DEF Become
  <2> QED
    BY <2>1, DoneAway, SaveAway
<1>4. ASSUME NEW ok, SetImplementation(ok) PROVE Away
  BY <1>4 DEF SetImplementation, Away
<1>5. CASE MergeABI \/ \E address : Adopt(address)
  <2>1. (\E w : Quiet(w)) \/ \E w, s : BeginSave(w, s)
    BY <1>5 DEF MergeABI, Adopt
  <2> QED
    BY <2>1, QuietAway, SaveAway
<1>6. CASE UnknownContract
  BY <1>6, FailAway DEF UnknownContract
<1> QED
  BY <1>1, <1>2, <1>3, <1>4, <1>5, <1>6

LEMMA FilesAway ==
  ASSUME ReadFiles \/ WriteNetworks \/ WriteABI \/ CheckFails
  PROVE  Away
<1>1. CASE ReadFiles
  <2>1. Fail(objects) \/ (pc' = "writing" /\ queue' = queue)
    BY <1>1 DEF ReadFiles
  <2> QED
    BY <2>1, FailAway DEF Away
<1>2. CASE WriteNetworks
  BY <1>2 DEF WriteNetworks, lineVars, Away
<1>3. CASE WriteABI
  BY <1>3, DoneAway DEF WriteABI
<1>4. CASE CheckFails
  BY <1>4, FailAway DEF CheckFails
<1> QED
  BY <1>1, <1>2, <1>3, <1>4

LEMMA ProcessReads ==
  ASSUME Worlds, base.trxValue = 0, queue \in Seq(Events),
         \/ \E asScript, dry : Start(asScript, dry)
         \/ Crash \/ \E line \in FirstLines \cup LaterLines : RunCommand(line)
         \/ TaskReads \/ TaskWritesNetworks \/ TaskWritesABI \/ TaskFails \/ CheckPasses
  PROVE  Away \/ Waits \/ ReadsOn
<1>1. CASE \/ \E asScript, dry : Start(asScript, dry)
           \/ Crash
  BY <1>1 DEF Start, Crash, Stop, Away
<1>2. ASSUME NEW line \in FirstLines \cup LaterLines, RunCommand(line) PROVE ReadsOn
  <2>1. line \in Seq(Seq(Seq(STRING))) /\ line # <<>> /\ \A i \in DOMAIN line : IsEvent(line[i])
    BY LinesAssumption
  <2>2. DeploysAreGated => \A i \in DOMAIN line : GatedEvent(line[i])
    BY DEF DeploysAreGated
  <2>3. line \in Seq(Events)
    <3>1. \A i \in DOMAIN line : line[i] \in Events
      BY <2>1, <2>2 DEF Events
    <3> QED
      BY <2>1, <3>1
  <2> QED
    BY <1>2, <2>1, <2>3 DEF RunCommand, ReadsOn, sharedVars
<1>3. ASSUME NEW new, NEW f, TaskStep(new, f) PROVE Waits
  BY <1>3 DEF TaskStep, Waits, processVars, lineVars, sharedVars
<1>4. CASE TaskReads \/ TaskWritesNetworks \/ TaskWritesABI \/ TaskFails
  <2>1. Stop \/ \E new, f : TaskStep(new, f)
    BY <1>4 DEF TaskReads, TaskWritesNetworks, TaskWritesABI, TaskFails
  <2> QED
    BY <1>3, <2>1 DEF Stop, Away
<1>5. CASE CheckPasses
  <2>1. CASE queue # <<>>
    <3>1. Begin(queue) /\ UNCHANGED me /\ world' = Checked
      BY <1>5, <2>1 DEF CheckPasses
    <3>2. Checked.trxValue = 0
      BY DEF Checked, Worlds, IsWorld
    <3> QED
      BY <2>1, <3>1, <3>2 DEF ReadsOn
  <2>2. CASE queue = <<>>
    BY <1>5, <2>2 DEF CheckPasses, Away
  <2> QED
    BY <2>1, <2>2
<1> QED
  BY <1>1, <1>2, <1>4, <1>5

LEMMA EveryReading ==
  ASSUME ReadInv, [Next]_vars
  PROVE  Away \/ Waits \/ ReadsOn \/ PassOn \/ Unwraps
<1>1. CASE UNCHANGED vars
  BY <1>1 DEF vars, processVars, lineVars, sharedVars, Waits
<1>2. CASE Wrapped
  <2>1. Unwraps \/ Quiet(world)
    BY <1>2 DEF Wrapped, Unwraps
  <2> QED
    BY <2>1, QuietAway
<1>3. CASE Next /\ ~ Wrapped
  BY <1>3, RulesAway, ChainAway, FilesAway, ProcessReads DEF ReadInv, Next
<1> QED
  BY <1>1, <1>2, <1>3

LEMMA ReadStart == Init => ReadInv
<1> SUFFICES ASSUME Init PROVE ReadInv
  OBVIOUS
<1>1. DryInv
  BY DryStart
<1>2. Worlds
  BY NewIsWorld DEF Init, Worlds
<1>3. base.trxValue = 0
  BY DEF Init, NewWorld
<1>4. queue \in Seq(Events) /\ pc # "running"
  BY DEF Init
<1> QED
  BY <1>1, <1>2, <1>3, <1>4 DEF ReadInv

LEMMA BaseNoValue ==
  ASSUME Worlds, base.trxValue = 0, RecordKind
  PROVE  base'.trxValue = 0
<1>1. NewWorld.trxValue = 0 /\ LoadContracts(NewWorld).trxValue = 0
  BY DEF NewWorld, LoadContracts
<1>2. Checked.trxValue = 0
  BY DEF Checked, Worlds, IsWorld
<1>3. base' \in {base, NewWorld, LoadContracts(NewWorld), Checked}
  BY DEF RecordKind, IsOver, IsNew, IsBack, IsLine, IsWork, IsAct, IsExpecting, IsInventing,
     IsHolding, IsClearing, IsPassed, IsAside, SameHolds
<1> QED
  BY <1>1, <1>2, <1>3

LEMMA QueueStays ==
  ASSUME ReadInv, Away \/ Waits \/ ReadsOn \/ PassOn \/ Unwraps
  PROVE  queue' \in Seq(Events)
<1>1. CASE Away \/ Waits
  <2>1. queue \in Seq(Events) /\ <<>> \in Seq(Events)
    BY DEF ReadInv
  <2>2. queue' = queue \/ queue' = <<>>
    BY <1>1 DEF Away, Waits
  <2> QED
    BY <2>1, <2>2
<1>2. CASE ReadsOn
  BY <1>2 DEF ReadsOn, Begin
<1>3. CASE PassOn \/ Unwraps
  BY <1>3 DEF ReadInv, PassOn, Unwraps, RunInner
<1> QED
  BY <1>1, <1>2, <1>3

LEMMA WaitsReads ==
  ASSUME ReadInv, Waits
  PROVE  (pc = "running" => ReadsTyped /\ ReadsOptions)'
BY DEF ReadInv, Waits, ReadsTyped, ReadsOptions, Part, Words, DefaultFrom

LEMMA ReadsOnReads ==
  ASSUME ReadInv, ReadsOn
  PROVE  (ReadsTyped /\ ReadsOptions)'
<1>1. PICK events \in Seq(Events) :
        events # <<>> /\ Begin(events) /\ UNCHANGED me /\ world'.trxValue = 0
  BY DEF ReadsOn
<1>2. /\ typed' \in Events /\ event' = typed' /\ handler' = "Core" /\ from' = DefaultFrom'
  BY <1>1 DEF Begin, DefaultFrom
<1>3. /\ typed' \in Seq(Seq(STRING)) /\ Len(typed') \in Nat /\ Len(typed') >= 1
  BY <1>2 DEF Events, IsEvent
<1>4. Part' = 1
  BY <1>2, <1>3 DEF Part
<1>5. typed'[1] \in Seq(STRING) /\ Words' = typed'[1]
  BY <1>2, <1>3 DEF Words
<1>6. ReadsTyped'
  BY <1>2, <1>3, <1>4, <1>5, FirstUnderstood DEF ReadsTyped
<1>7. Part' - 1 = 0
  BY <1>4
<1>8. ReadsOptions'
  BY <1>1, <1>2, <1>7, NothingAsked DEF ReadsOptions
<1> QED
  BY <1>6, <1>8

\* The part being read is not empty, and wraps what follows if something does.
LEMMA PartOfEvent ==
  ASSUME ReadsTyped
  PROVE  /\ Part \in 1..Len(typed) /\ Len(typed) \in Nat /\ Len(event) \in Nat
         /\ typed[Part] \in Seq(STRING) /\ typed[Part] # <<>>
         /\ typed[Part][1] \in Wraps <=> Part < Len(typed)
         /\ Part < Len(typed) <=> Len(event) > 1
<1>1. typed \in Seq(Seq(STRING)) /\ IsEvent(typed) /\ Len(event) \in 1..Len(typed)
  BY DEF ReadsTyped, Events
<1>2. Part \in 1..Len(typed) /\ Len(typed) \in Nat /\ (Part < Len(typed) <=> Len(event) > 1)
  BY <1>1 DEF Part
<1>3. typed[Part] # <<>> /\ (typed[Part][1] \in Wraps <=> Part < Len(typed))
  BY <1>1, <1>2 DEF IsEvent
<1> QED
  BY <1>1, <1>2, <1>3

LEMMA PassOnReads ==
  ASSUME ReadInv, PassOn
  PROVE  (ReadsTyped /\ ReadsOptions)'
<1> DEFINE does == Effect(Tables[handler], Row)
           left == IF does \in DOMAIN Tables THEN PassedOn(Row, Words) ELSE Words
<1>1. /\ handler \in DOMAIN Tables /\ Known(Tables[handler], Words)
      /\ handler' = does
      /\ event' = IF does \in DOMAIN Tables THEN <<PassedOn(Row, Words)>> \o Tail(event) ELSE event
      /\ UNCHANGED <<world, typed, from, me>>
  BY DEF PassOn, Searching, Refused, sharedVars
<1>2. ReadsTyped /\ ReadsOptions
  BY DEF PassOn, Searching, ReadInv
<1>3. Understood(typed[Part], left, does)
  BY <1>1, <1>2, PartOfEvent, StillUnderstood DEF ReadsTyped, Row
<1> HIDE DEF does, left
<1>4. left \in Seq(STRING)
  BY <1>3 DEF Understood
<1>5. /\ event' \in Seq(Seq(STRING)) /\ Len(event') = Len(event) /\ event'[1] = left
      /\ \A i \in 2..Len(event) : event'[i] = event[i]
  <2>1. event \in Seq(Seq(STRING)) /\ Len(event) >= 1
    BY <1>2, PartOfEvent DEF ReadsTyped
  <2>2. CASE does \in DOMAIN Tables
    <3>1. event' = <<left>> \o Tail(event)
      BY <1>1, <2>2 DEF left
    <3>2. <<left>> \in Seq(Seq(STRING)) /\ Tail(event) \in Seq(Seq(STRING))
      BY <1>4, <2>1
    <3> QED
      BY <2>1, <3>1, <3>2
  <2>3. CASE does \notin DOMAIN Tables
    BY <1>1, <2>1, <2>3 DEF left, Words
  <2> QED
    BY <2>2, <2>3
<1>6. Part' = Part /\ Words' = left
  <2>1. event' # <<>>
    BY <1>2, <1>5, PartOfEvent DEF ReadsTyped
  <2>2. Words' = left
    BY <1>5, <2>1 DEF Words
  <2> QED
    BY <1>1, <1>5, <2>2 DEF Part
<1>7. ReadsTyped'
  BY <1>1, <1>2, <1>3, <1>5, <1>6 DEF ReadsTyped
<1>8. ReadsOptions'
  BY <1>1, <1>2, <1>6 DEF ReadsOptions, DefaultFrom
<1> QED
  BY <1>7, <1>8

LEMMA InnerReads ==
  ASSUME ReadsTyped, NEW w, NEW sender, RunInner(w, sender)
  PROVE  /\ ReadsTyped' /\ Part' = Part + 1 /\ Part \in Nat
         /\ typed[Part][1] \in Wraps
<1>1. /\ Len(event) > 1 /\ event' = Tail(event) /\ handler' = "Core" /\ typed' = typed
  BY DEF RunInner
<1>2. /\ event \in Seq(Seq(STRING)) /\ typed \in Seq(Seq(STRING))
      /\ Len(event) \in 1..Len(typed)
      /\ \A i \in 2..Len(event) : event[i] = typed[Part + i - 1]
  BY DEF ReadsTyped, Events
<1>3. /\ Part \in 1..Len(typed) /\ Part < Len(typed) /\ typed[Part][1] \in Wraps
  BY <1>1, PartOfEvent
<1>4. /\ event' \in Seq(Seq(STRING)) /\ Len(event') = Len(event) - 1
      /\ \A i \in 1..Len(event') : event'[i] = event[i + 1]
  BY <1>1, <1>2
<1>5. Part' = Part + 1
  BY <1>1, <1>2, <1>4 DEF Part
<1>6. Words' = typed[Part + 1] /\ typed[Part + 1] \in Seq(STRING)
  <2>1. Words' = event[2]
    <3>1. Len(event) \in Nat /\ 1 \in 1..Len(event')
      BY <1>1, <1>2, <1>4
    <3>2. event'[1] = event[1 + 1]
      BY <1>4, <3>1
    <3>3. event' # <<>>
      BY <3>1
    <3> QED
      BY <1>4, <3>2, <3>3 DEF Words
  <2>2. event[2] = typed[Part + 1]
    <3>1. Len(event) \in Nat /\ 2 \in 2..Len(event)
      BY <1>1, <1>2
    <3>2. event[2] = typed[Part + 2 - 1]
      BY <1>2, <3>1
    <3>3. Part + 2 - 1 = Part + 1
      BY <1>3
    <3> QED
      BY <3>2, <3>3
  <2> QED
    BY <1>2, <1>3, <2>1, <2>2
<1>7. \A i \in 2..Len(event') : event'[i] = typed[Part' + i - 1]
  <2> SUFFICES ASSUME NEW i \in 2..Len(event') PROVE event'[i] = typed[Part' + i - 1]
    OBVIOUS
  <2>1. event'[i] = event[i + 1] /\ i + 1 \in 2..Len(event)
    BY <1>2, <1>4
  <2>2. event[i + 1] = typed[Part + (i + 1) - 1]
    BY <1>2, <2>1
  <2>3. Part + (i + 1) - 1 = Part' + i - 1
    BY <1>3, <1>5
  <2> QED
    BY <2>1, <2>2, <2>3
<1>8. Understood(typed[Part], Words, handler)'
  BY <1>1, <1>5, <1>6, FirstUnderstood
<1>9. ReadsTyped'
  BY <1>1, <1>2, <1>4, <1>7, <1>8 DEF ReadsTyped
<1> QED
  BY <1>3, <1>5, <1>9

\* Each wrapper changes the option it is for.
LEMMA OptionsOfPart ==
  ASSUME ReadInv, Unwraps
  PROVE  /\ from' = IF typed[Part][1] = "From" THEN typed[Part][2] ELSE from
         /\ world'.trxValue = IF SetsValue(typed[Part]) THEN 1 ELSE world.trxValue
         /\ world'.contracts = world.contracts
         /\ \A n \in Contracts : IsGate(typed[Part], n) => world.contracts[n] = NoContract
<1>1. ReadsTyped /\ handler \in {"from", "value", "gasPrice", "block", "gate", "given"}
  BY DEF Unwraps, Runs, ReadInv
<1>2. typed[Part][1] \in Wraps
  BY <1>1, InnerReads DEF Unwraps
<1>3. WrapRead(typed[Part], Words, handler)
  BY <1>1, <1>2 DEF ReadsTyped, Understood
<1>4. \/ Words = typed[Part] /\ WrapDoes(typed[Part][1], handler)
      \/ /\ typed[Part][1] = "Trx"
         /\ handler = IF SetsValue(typed[Part]) THEN "value" ELSE "gasPrice"
  BY <1>1, <1>3 DEF WrapRead
<1>5. "trxValue" \in DOMAIN world /\ "contracts" \in DOMAIN world
  BY DEF ReadInv, Worlds, IsWorld, DryInv, Dry, Shapes
<1>6. CASE handler = "from"
  <2>1. /\ Words = typed[Part] /\ typed[Part][1] = "From"
        /\ world' = world /\ from' = Words[2]
    BY <1>4, <1>6 DEF WrapDoes, Unwraps, Runs, RunInner
  <2> QED
    BY <2>1 DEF SetsValue, IsGate
<1>7. CASE handler = "value"
  <2>1. /\ typed[Part][1] = "Trx" /\ SetsValue(typed[Part])
        /\ world' = [world EXCEPT !.trxValue = 1] /\ from' = from
    BY <1>4, <1>7 DEF WrapDoes, Unwraps, Runs, RunInner
  <2> QED
    BY <1>5, <2>1 DEF IsGate
<1>8. CASE handler = "gasPrice"
  <2>1. /\ typed[Part][1] = "Trx" /\ ~ SetsValue(typed[Part])
        /\ world' = world /\ from' = from
    BY <1>4, <1>8 DEF WrapDoes, Unwraps, Runs, RunInner
  <2> QED
    BY <2>1 DEF IsGate
<1>9. CASE handler = "block"
  <2>1. typed[Part][1] = "Block" /\ world' = world /\ from' = from
    BY <1>4, <1>9 DEF WrapDoes, Unwraps, Runs, RunInner
  <2> QED
    BY <2>1 DEF SetsValue, IsGate
<1>10. CASE handler = "gate"
  <2>1. /\ Words = typed[Part] /\ typed[Part][1] = "Gate" /\ ~ Exists
        /\ world' = world /\ from' = from
    BY <1>4, <1>10 DEF WrapDoes, Unwraps, Runs, RunInner
  <2> QED
    BY <2>1 DEF SetsValue, IsGate, Exists
<1>11. CASE handler = "given"
  <2>1. typed[Part][1] = "Given" /\ world' = world /\ from' = from
    BY <1>4, <1>11 DEF WrapDoes, Unwraps, Runs, RunInner
  <2> QED
    BY <2>1 DEF SetsValue, IsGate
<1> QED
  BY <1>1, <1>6, <1>7, <1>8, <1>9, <1>10, <1>11

LEMMA UnwrapsReads ==
  ASSUME ReadInv, Unwraps
  PROVE  (ReadsTyped /\ ReadsOptions)'
<1>1. ReadsTyped /\ ReadsOptions
  BY DEF Unwraps, Runs, ReadInv
<1>2. PICK w, sender : RunInner(w, sender)
  BY DEF Unwraps
<1>3. ReadsTyped' /\ Part' = Part + 1 /\ Part \in Nat /\ typed' = typed /\ me' = me
  BY <1>1, <1>2, InnerReads DEF RunInner, sharedVars
<1>4. Part \in 1..Len(typed)
  BY <1>1, PartOfEvent
<1> DEFINE k == Part - 1
<1>5. k \in Nat /\ k + 1 = Part /\ Part' - 1 = Part
  BY <1>3, <1>4
<1> HIDE DEF k
<1>6. /\ from = SenderOf(typed, k, DefaultFrom) /\ world.trxValue = ValueOf(typed, k)
      /\ GatesOpen(typed, k, world.contracts)
  BY <1>1 DEF ReadsOptions, k
<1>7. /\ SenderOf(typed, Part, DefaultFrom)
           = IF typed[Part][1] = "From" THEN typed[Part][2] ELSE SenderOf(typed, k, DefaultFrom)
      /\ ValueOf(typed, Part) = IF SetsValue(typed[Part]) THEN 1 ELSE ValueOf(typed, k)
  BY <1>5, NextSender, NextValue
<1>8. /\ from' = SenderOf(typed, Part, DefaultFrom) /\ world'.trxValue = ValueOf(typed, Part)
  BY <1>6, <1>7, OptionsOfPart
<1>9. GatesOpen(typed, Part, world'.contracts)
  BY <1>5, <1>6, OptionsOfPart, NextGates
<1>10. ReadsOptions'
  BY <1>3, <1>5, <1>8, <1>9 DEF ReadsOptions, DefaultFrom
<1> QED
  BY <1>3, <1>10

LEMMA ReadStep ==
  ASSUME ReadInv, [Next]_vars
  PROVE  ReadInv'
<1>1. DryInv'
  BY DryStep DEF ReadInv
<1>2. Worlds' /\ base'.trxValue = 0
  BY EveryRecord, WorldsKept, BaseNoValue DEF ReadInv
<1>3. Away \/ Waits \/ ReadsOn \/ PassOn \/ Unwraps
  BY EveryReading
<1>4. queue' \in Seq(Events)
  BY <1>3, QueueStays
<1>5. (pc = "running" => ReadsTyped /\ ReadsOptions)'
  BY <1>3, WaitsReads, ReadsOnReads, PassOnReads, UnwrapsReads DEF Away
<1> QED
  BY <1>1, <1>2, <1>4, <1>5 DEF ReadInv

-----------------------------------------------------------------------------
(* What is sent is what was asked for *)

HasLast == "last" \in DOMAIN chain /\ "sent" \in DOMAIN chain

\* No transaction goes out through invoke.
NoneSent == HasLast' /\ (chain'.sent = chain.sent \/ Runs({"bypass"}))

\* One does, with the sender and the value of the world.
OneSent ==
  /\ HasLast' /\ Runs({"send", "sendLive", "become", "mergeLater"})
  /\ chain'.last = [from |-> from, value |-> world.trxValue]

LEMMA InvokeSends ==
  ASSUME HasLast, NEW ok, Invoke(ok), Runs({"send", "sendLive", "become", "mergeLater"})
  PROVE  NoneSent \/ OneSent
<1>1. CASE dryRun
  BY <1>1 DEF Invoke, NoneSent, HasLast
<1>2. CASE ~ dryRun
  BY <1>2 DEF Invoke, OneSent, HasLast
<1> QED
  BY <1>1, <1>2

LEMMA SameChain == ASSUME HasLast, UNCHANGED chain PROVE NoneSent
BY DEF NoneSent, HasLast

LEMMA SendsOrNot ==
  ASSUME HasLast,
         \/ \E ok : Send(ok) \/ SendAny(ok) \/ Build(ok) \/ Become(ok) \/ SetImplementation(ok)
         \/ \E address : Adopt(address)
         \/ MergeABI
  PROVE  NoneSent \/ OneSent
<1>1. ASSUME NEW ok, Send(ok) \/ Become(ok) \/ SetImplementation(ok)
      PROVE  NoneSent \/ OneSent
  <2>1. Invoke(ok) /\ Runs({"send", "sendLive", "become", "mergeLater"})
    BY <1>1 DEF Send, Become, SetImplementation, Runs
  <2> QED
    BY <2>1, InvokeSends
<1>2. ASSUME NEW ok, SendAny(ok) PROVE NoneSent
  BY <1>2 DEF SendAny, NoneSent, HasLast
<1>3. ASSUME NEW ok, Build(ok) PROVE NoneSent
  <2>1. chain' = [chain EXCEPT !.deployed = Append(chain.deployed, Last(Words))] \/ UNCHANGED chain
    BY <1>3 DEF Build, outsideVars
  <2> QED
    BY <2>1, SameChain DEF NoneSent, HasLast
<1>4. CASE MergeABI \/ \E address : Adopt(address)
  BY <1>4, SameChain DEF MergeABI, Adopt, Quiet, outsideVars
<1> QED
  BY <1>1, <1>2, <1>3, <1>4

LEMMA RulesSendNothing ==
  ASSUME HasLast,
         \/ Refuse \/ Observe \/ Throw \/ Asserted \/ MyAddress \/ Invariant \/ Expect
         \/ HoldInvariants \/ ClearInvariants \/ UnknownType \/ UnknownContract \/ PassOn \/ Wrapped
  PROVE  NoneSent
<1>1. UNCHANGED chain
  BY DEF Refuse, Observe, Throw, Asserted, Judge, MyAddress, Invariant, AddInvariant, Expect,
     HoldInvariants, ClearInvariants, UnknownType, UnknownContract, PassOn, Wrapped, RunInner, Quiet, outsideVars
<1> QED
  BY <1>1, SameChain

LEMMA ProcessSendsNothing ==
  ASSUME HasLast,
         \/ \E asScript, dry : Start(asScript, dry)
         \/ Crash \/ \E line : RunCommand(line)
         \/ ReadFiles \/ WriteNetworks \/ WriteABI
         \/ TaskReads \/ TaskWritesNetworks \/ TaskWritesABI \/ TaskFails
         \/ CheckFails \/ CheckPasses \/ UNCHANGED vars
  PROVE  NoneSent
<1>1. UNCHANGED chain
  BY DEF Start, Crash, RunCommand, ReadFiles, WriteNetworks, WriteABI, TaskReads,
     TaskWritesNetworks, TaskWritesABI, TaskFails, TaskStep, CheckFails, CheckPasses, vars, outsideVars
<1> QED
  BY <1>1, SameChain

LEMMA EverySend ==
  ASSUME HasLast, [Next]_vars
  PROVE  NoneSent \/ OneSent
<1>1. CASE Next
  BY <1>1, SendsOrNot, RulesSendNothing, ProcessSendsNothing DEF Next
<1> QED
  BY <1>1, ProcessSendsNothing

LEMMA AskedIsRead ==
  ASSUME ReadsTyped, ReadsOptions, handler \in {"send", "sendLive", "become", "mergeLater"}
  PROVE  from = AskedFrom /\ world.trxValue = AskedValue
<1>1. typed[Part][1] \notin Wraps
  <2>1. ~ WrapRead(typed[Part], Words, handler)
    BY DEF WrapRead, WrapDoes
  <2> QED
    BY <2>1 DEF ReadsTyped, Understood
<1>2. Part = Len(typed) /\ Part \in Nat \ {0} /\ typed[Part][1] \notin {"From", "Trx"}
  BY <1>1, PartOfEvent DEF Wraps
<1>3. DOMAIN typed = 1..Part
  BY <1>2 DEF ReadsTyped, Events
<1> DEFINE k == Part - 1
<1>4. k \in Nat /\ k + 1 = Part
  BY <1>2
<1>5. from = SenderOf(typed, k, DefaultFrom) /\ world.trxValue = ValueOf(typed, k)
  BY DEF ReadsOptions
<1> HIDE DEF k
<1>6. /\ SenderOf(typed, Part, DefaultFrom) = SenderOf(typed, k, DefaultFrom)
      /\ ValueOf(typed, Part) = ValueOf(typed, k)
  BY <1>2, <1>4, NextSender, NextValue DEF SetsValue
<1>7. AskedFrom = SenderOf(typed, Part, DefaultFrom) /\ AskedValue = ValueOf(typed, Part)
  BY <1>3 DEF AskedFrom, Senders, SenderOf, AskedValue, ValueOf
<1> QED
  BY <1>5, <1>6, <1>7

\* Whatever the lines, the tables they go through and the errors before it, a transaction goes
\* out with the sender of the innermost From around it, or the default, and with a value only
\* inside Trx Value (invoke, From, Trx, processEvents).
THEOREM TransactionsAreSentAsAsked == Spec => SentAsAsked
<1> DEFINE Inv == ReadInv /\ HasLast
<1>1. Init => Inv
  BY ReadStart DEF Init, HasLast
<1>2. Inv /\ [Next]_vars => Inv'
  BY ReadStep, EverySend DEF NoneSent, OneSent
<1>3. Inv /\ [Next]_vars
        => [chain'.sent # chain.sent /\ ~Runs({"bypass"})
              => chain'.last = [from |-> AskedFrom, value |-> AskedValue]]_vars
  <2> SUFFICES ASSUME Inv, [Next]_vars, chain'.sent # chain.sent, ~Runs({"bypass"})
               PROVE  chain'.last = [from |-> AskedFrom, value |-> AskedValue]
    OBVIOUS
  <2>1. OneSent
    BY EverySend DEF NoneSent
  <2>2. from = AskedFrom /\ world.trxValue = AskedValue
    BY <2>1, AskedIsRead DEF OneSent, Runs, ReadInv
  <2> QED
    BY <2>1, <2>2 DEF OneSent
<1> HIDE DEF Inv
<1> QED
  BY <1>1, <1>2, <1>3, PTL DEF Spec, SentAsAsked

-----------------------------------------------------------------------------
(* What is gated is deployed once. *)

\* The deployments of a contract, and those there were a reason for.
Copies(n) == {k \in DOMAIN chain.deployed : chain.deployed[k] = n}
Excused(n) == AtMost(Copies(n), interrupted + rollbacks)

\* A contract that is not known where it is looked for next has no deployment but
\* those excused: what a process starts from, what is about to be written, what the
\* prompt knows, and what the line does.
Counted(n) ==
  /\ AtMost(Copies(n), interrupted + rollbacks + 1)
  /\ pc \notin {"reading", "writing"} /\ file.networks[n] = NoContract => Excused(n)
  /\ pc = "reading" /\ file.networks[n] = NoContract /\ (save.kind # "merge" => n # save.name)
       => Excused(n)
  /\ pc = "writing" /\ save.networks[n] = NoContract => Excused(n)
  /\ ~ dryRun /\ pc = "prompt" /\ base.contracts[n] = NoContract => Excused(n)
  /\ ~ dryRun /\ pc \notin {"off", "prompt"} /\ world.contracts[n] = NoContract => Excused(n)

GatedInv ==
  /\ KnownInv /\ ReadInv /\ rollbacks \in Nat
  /\ DeploysAreGated /\ merges = 0 => \A n \in Contracts : Counted(n)

LEMMA GatedStart == Init => GatedInv
<1> SUFFICES ASSUME Init PROVE GatedInv
  OBVIOUS
<1>1. KnownInv /\ ReadInv /\ rollbacks = 0 /\ interrupted = 0
  BY KnownStart, ReadStart DEF Init
<1>2. ASSUME NEW n \in Contracts PROVE Counted(n)
  <2>1. Copies(n) = {}
    BY DEF Init, Copies
  <2>2. AtMost(Copies(n), 0)
    BY <2>1, FS_EmptySet DEF AtMost
  <2>3. AtMost(Copies(n), 1)
    BY <2>1, FS_EmptySet DEF AtMost
  <2> QED
    BY <1>1, <2>2, <2>3 DEF Counted, Excused
<1> QED
  BY <1>1, <1>2 DEF GatedInv

\* A deployment goes to a name no gate of its event has found.
LEMMA DeploysUnknown ==
  ASSUME ReadInv, DeploysAreGated, Runs({"build"}), Last(Words) \in Contracts
  PROVE  world.contracts[Last(Words)] = NoContract
<1>1. ReadsTyped /\ ReadsOptions /\ handler = "build"
  BY DEF Runs, ReadInv
<1>2. /\ Words \in Seq(STRING) /\ Words # <<>>
      /\ \A i \in DOMAIN Words : \E j \in DOMAIN typed[Part] : Words[i] = typed[Part][j]
      /\ Range(typed[Part]) \cap Deploying # {}
  BY <1>1 DEF ReadsTyped, Understood
<1>3. Last(Words) \in Range(typed[Part]) \cap Contracts
  <2>1. Len(Words) \in DOMAIN Words /\ Last(Words) = Words[Len(Words)]
    BY <1>2 DEF Last
  <2> QED
    BY <1>2, <2>1 DEF Range
<1>4. GatedEvent(typed) /\ Part \in DOMAIN typed
  <2>1. typed \in Seq(Seq(STRING)) /\ GatedEvent(typed)
    BY <1>1 DEF ReadsTyped, Events
  <2> QED
    BY <1>1, <2>1, PartOfEvent
<1>5. \E j \in 1..(Part - 1) : IsGate(typed[j], Last(Words))
  BY <1>2, <1>3, <1>4 DEF GatedEvent
<1> QED
  BY <1>1, <1>5 DEF ReadsOptions, GatesOpen

LEMMA CopiesSame ==
  ASSUME chain'.deployed = chain.deployed, NEW n
  PROVE  Copies(n)' = Copies(n)
BY DEF Copies

LEMMA CopiesAppend ==
  ASSUME NEW S, chain.deployed \in Seq(S), NEW name, NEW n, NEW k \in Nat,
         chain'.deployed = Append(chain.deployed, name), AtMost(Copies(n), k)
  PROVE  /\ n # name => Copies(n)' = Copies(n)
         /\ AtMost(Copies(n)', k + 1)
<1> DEFINE last == Len(chain.deployed) + 1
<1>1. /\ DOMAIN chain.deployed = 1..Len(chain.deployed) /\ Len(chain.deployed) \in Nat
      /\ DOMAIN chain'.deployed = 1..last
      /\ chain'.deployed[last] = name
      /\ \A i \in 1..Len(chain.deployed) : chain'.deployed[i] = chain.deployed[i]
  BY SeqAppend DEF IsSeq
<1>2. Copies(n)' \ {last} = Copies(n)
  BY <1>1 DEF Copies
<1>3. n # name => last \notin Copies(n)'
  BY <1>1 DEF Copies
<1>4. AtMost(Copies(n)', k + 1)
  BY <1>2, OneMoreAtMost
<1> QED
  BY <1>2, <1>3, <1>4

\* More excuses.
LEMMA StillAtMost ==
  ASSUME NEW n, NEW k \in Nat, NEW l \in Nat, AtMost(Copies(n), k), k <= l,
         chain'.deployed = chain.deployed
  PROVE  AtMost(Copies(n)', l)
BY FewerAtMost, CopiesSame

\* Steps with as many excuses and no deployment.
LEMMA CountedCalm ==
  ASSUME KnownInv, merges = 0, NEW n \in Contracts, Counted(n),
         \/ Starts \/ RunsLine \/ GoesOn \/ Stays \/ DryStores \/ SavesMerge \/ Writes
         \/ WritesABI \/ Still
  PROVE  Counted(n)'
<1>1. chain'.deployed = chain.deployed /\ UNCHANGED <<interrupted, rollbacks>>
  BY DEF Starts, RunsLine, GoesOn, Stays, DryStores, SavesMerge, Writes, WritesABI, Still
<1>2. Copies(n)' = Copies(n) /\ (Excused(n)' <=> Excused(n))
  BY <1>1, CopiesSame DEF Excused
<1>3. AtMost(Copies(n), interrupted + rollbacks + 1)'
  BY <1>1, <1>2 DEF Counted
<1>4. dryRun => ~ Saving
  BY DEF KnownInv, DryInv, Dry
<1>5. CASE Starts \/ RunsLine \/ Still
  BY <1>2, <1>3, <1>5 DEF Counted, Starts, RunsLine, Still
<1>6. CASE GoesOn
  BY <1>2, <1>3, <1>6 DEF Counted, GoesOn
<1>7. CASE Stays \/ DryStores
  BY <1>2, <1>3, <1>7 DEF Counted, Stays, DryStores
<1>8. CASE SavesMerge
  BY <1>2, <1>3, <1>8 DEF Counted, SavesMerge
<1>9. CASE Writes \/ WritesABI
  BY <1>2, <1>3, <1>4, <1>9 DEF Counted, Writes, WritesABI, Saving
<1> QED
  BY <1>5, <1>6, <1>7, <1>8, <1>9

LEMMA CountedBack ==
  ASSUME KnownInv, rollbacks \in Nat, NEW n \in Contracts, Counted(n), Ends \/ TakesBack
  PROVE  Counted(n)'
<1>1. interrupted \in Nat /\ chain'.deployed = chain.deployed
  BY DEF KnownInv, DryInv, Ends, TakesBack
<1>2. AtMost(Copies(n), interrupted + rollbacks + 1)
  BY DEF Counted
<1>3. CASE interrupted' + rollbacks' = interrupted + rollbacks + 1
  <2>1. AtMost(Copies(n)', interrupted' + rollbacks')
    BY <1>1, <1>2, <1>3, StillAtMost
  <2>2. AtMost(Copies(n)', interrupted' + rollbacks' + 1)
    BY <1>1, <1>2, <1>3, StillAtMost
  <2> QED
    BY <2>1, <2>2 DEF Counted, Excused
<1>4. CASE Ends /\ interrupted' = interrupted /\ FailsAtRest
  <2>1. /\ pc' = "off" /\ file' = file /\ rollbacks' = rollbacks
    BY <1>4 DEF Ends
  <2>2. file.networks[n] = NoContract => Excused(n)
    BY <1>4 DEF Counted, FailsAtRest, Saving
  <2>3. Copies(n)' = Copies(n)
    BY <1>1, CopiesSame
  <2> QED
    BY <1>2, <1>4, <2>1, <2>2, <2>3 DEF Counted, Excused
<1> QED
  BY <1>1, <1>3, <1>4 DEF Ends, TakesBack

LEMMA CountedReads ==
  ASSUME KnownInv, merges = 0, NEW n \in Contracts, Counted(n), Reads
  PROVE  Counted(n)'
<1>1. /\ pc = "reading" /\ pc' = "writing" /\ chain'.deployed = chain.deployed
      /\ UNCHANGED <<dryRun, interrupted, rollbacks>>
  BY DEF Reads
<1>2. Copies(n)' = Copies(n) /\ (Excused(n)' <=> Excused(n))
  BY <1>1, CopiesSame DEF Excused
<1>3. ~ dryRun
  BY <1>1 DEF KnownInv, DryInv, Dry, Saving
<1>4. IsMap(file.networks) /\ InStep
  BY <1>3 DEF KnownInv
<1>5. IsMap(world.contracts)
  BY <1>4 DEF InStep
<1>6. /\ save'.networks[n] = NoContract => Excused(n)
      /\ world'.contracts[n] = NoContract => Excused(n)
  <2>1. CASE save.kind # "merge"
    <3>1. AheadByOne
      BY <1>1, <1>4, <2>1 DEF InStep
    <3>2. /\ save'.networks = [file.networks EXCEPT ![save.name] = world.contracts[save.name]]
          /\ world' = world
      BY <2>1 DEF Reads
    <3>3. save'.networks[n] = IF n = save.name THEN world.contracts[n] ELSE file.networks[n]
      BY <1>4, <3>2 DEF IsMap
    <3> QED
      BY <1>1, <1>3, <2>1, <3>1, <3>2, <3>3 DEF AheadByOne, Counted
  <2>2. CASE save.kind = "merge"
    <3>1. world.contracts[Proxy] # NoContract
      BY <1>1, <1>4, <2>2 DEF InStep
    <3>2. /\ save'.networks = [file.networks EXCEPT ![Target] = world.contracts[Proxy]]
          /\ world'.contracts = [world.contracts EXCEPT ![Target] = world.contracts[Proxy]]
      BY <2>2 DEF Reads
    <3>3. /\ save'.networks[n] = IF n = Target THEN world.contracts[Proxy] ELSE file.networks[n]
          /\ world'.contracts[n] = IF n = Target THEN world.contracts[Proxy] ELSE world.contracts[n]
      BY <1>4, <1>5, <3>2 DEF IsMap
    <3> QED
      BY <1>1, <1>3, <2>2, <3>1, <3>3 DEF Counted
  <2> QED
    BY <2>1, <2>2
<1>7. AtMost(Copies(n), interrupted + rollbacks + 1)'
  BY <1>1, <1>2 DEF Counted
<1> QED
  BY <1>1, <1>2, <1>6, <1>7 DEF Counted

LEMMA CountedSaves ==
  ASSUME KnownInv, ReadInv, DeploysAreGated, merges = 0, rollbacks \in Nat,
         NEW n \in Contracts, Counted(n), SavesContract
  PROVE  Counted(n)'
<1>1. /\ pc = "running" /\ pc' = "reading" /\ ~ dryRun
      /\ UNCHANGED <<file, interrupted, rollbacks>> /\ save'.kind = "store"
  BY DEF SavesContract
<1>2. PICK address :
        /\ world'.contracts = [world.contracts EXCEPT ![save'.name] = address]
        /\ \/ address \in DOMAIN chain.deployed /\ UNCHANGED chain
           \/ /\ address = Len(chain.deployed) + 1
              /\ Runs({"build"}) /\ save'.name = Last(Words)
              /\ chain'.deployed = Append(chain.deployed, save'.name)
  BY DEF SavesContract
<1>3. PICK S : chain.deployed \in Seq(S)
  BY DEF KnownInv
<1>4. address # NoContract
  <2>1. Len(chain.deployed) \in Nat /\ DOMAIN chain.deployed = 1..Len(chain.deployed)
    BY <1>3
  <2> QED
    BY <1>2, <2>1 DEF NoContract
<1>5. IsMap(world.contracts) /\ interrupted \in Nat
  BY <1>1 DEF KnownInv, InStep, DryInv
<1>6. world'.contracts[n] = IF n = save'.name THEN address ELSE world.contracts[n]
  BY <1>2, <1>5 DEF IsMap
<1>7. /\ file.networks[n] = NoContract => Excused(n)
      /\ world.contracts[n] = NoContract => Excused(n)
  BY <1>1 DEF Counted
<1>8. CASE chain'.deployed = chain.deployed
  <2>1. Copies(n)' = Copies(n) /\ (Excused(n)' <=> Excused(n))
    BY <1>1, <1>8, CopiesSame DEF Excused
  <2> QED
    BY <1>1, <1>4, <1>6, <1>7, <2>1 DEF Counted
<1>9. CASE /\ Runs({"build"}) /\ save'.name = Last(Words)
           /\ chain'.deployed = Append(chain.deployed, save'.name)
  <2>1. CASE n # save'.name
    <3>1. AtMost(Copies(n), interrupted + rollbacks + 1)
      BY DEF Counted
    <3>2. Copies(n)' = Copies(n)
      BY <1>3, <1>5, <1>9, <2>1, <3>1, CopiesAppend
    <3> QED
      BY <1>1, <1>6, <1>7, <2>1, <3>1, <3>2 DEF Counted, Excused
  <2>2. CASE n = save'.name
    <3>1. world.contracts[n] = NoContract
      BY <1>9, <2>2, DeploysUnknown
    <3>2. AtMost(Copies(n), interrupted + rollbacks)
      BY <1>7, <3>1 DEF Excused
    <3>3. AtMost(Copies(n)', interrupted + rollbacks + 1)
      BY <1>3, <1>5, <1>9, <3>2, CopiesAppend
    <3> QED
      BY <1>1, <1>4, <1>6, <2>2, <3>3 DEF Counted
  <2> QED
    BY <2>1, <2>2
<1> QED
  BY <1>2, <1>8, <1>9

LEMMA GatedStep ==
  ASSUME GatedInv, [Next]_vars
  PROVE  GatedInv'
<1>1. KnownInv' /\ ReadInv'
  BY KnownStep, ReadStep DEF GatedInv
<1>2. AnyKind \/ Still
  BY EveryStep DEF GatedInv, KnownInv, DryInv
<1>3. rollbacks' \in Nat
  BY <1>2 DEF GatedInv, AnyKind, Still, Starts, RunsLine, GoesOn, Stays, Ends, TakesBack,
     DryStores, SavesContract, SavesMerge, LetsMerge, Reads, Writes, WritesABI, MergesOn
<1>4. ASSUME DeploysAreGated, merges' = 0, NEW n \in Contracts PROVE Counted(n)'
  <2>1. merges = 0
    BY <1>4, MergesGrow DEF GatedInv
  <2>2. Counted(n) /\ KnownInv /\ ReadInv /\ rollbacks \in Nat
    BY <1>4, <2>1 DEF GatedInv
  <2>3. CASE \/ Starts \/ RunsLine \/ GoesOn \/ Stays \/ DryStores \/ SavesMerge \/ Writes
             \/ WritesABI \/ Still
    BY <2>1, <2>2, <2>3, CountedCalm
  <2>4. CASE Ends \/ TakesBack
    BY <2>2, <2>4, CountedBack
  <2>5. CASE Reads
    BY <2>1, <2>2, <2>5, CountedReads
  <2>6. CASE SavesContract
    BY <1>4, <2>1, <2>2, <2>6, CountedSaves
  <2>7. CASE LetsMerge
    BY <1>4, <2>1, <2>7 DEF LetsMerge
  <2>8. CASE MergesOn
    BY <2>1, <2>2, <2>8 DEF MergesOn, KnownInv
  <2> QED
    BY <1>2, <2>3, <2>4, <2>5, <2>6, <2>7, <2>8 DEF AnyKind
<1> QED
  BY <1>1, <1>3, <1>4 DEF GatedInv

\* When every event that deploys is inside gates for the contracts it names, and no
\* merge runs unwaited for, a contract is deployed once more than saves were cut short
\* and lines taken back, whatever the sessions and wherever the process stops (Gate,
\* storeAndSaveContract, loadContracts).
THEOREM GatesDeployOnce == Spec => []GatedDeploysOnce
<1>1. GatedInv /\ [Next]_vars => GatedInv'
  BY GatedStep
<1>2. GatedInv => GatedDeploysOnce
  <2> SUFFICES ASSUME GatedInv, DeploysAreGated, merges = 0, NEW n \in Contracts
               PROVE  Cardinality(Copies(n)) <= 1 + interrupted + rollbacks
    BY DEF GatedDeploysOnce, Copies
  <2>1. AtMost(Copies(n), interrupted + rollbacks + 1)
    BY DEF GatedInv, Counted
  <2>2. interrupted \in Nat /\ rollbacks \in Nat
    BY DEF GatedInv, KnownInv, DryInv
  <2> QED
    BY <2>1, <2>2 DEF AtMost
<1> QED
  BY <1>1, <1>2, GatedStart, PTL DEF Spec
=============================================================================
