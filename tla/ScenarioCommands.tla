-------------------------- MODULE ScenarioCommands -------------------------
(***************************************************************************)
(* How the scenario runner finds the command an event is for and reads its *)
(* arguments (Command.ts).  An event is a sequence of words; a table is a  *)
(* sequence of rows, the first row that matches takes the event.           *)
(***************************************************************************)
EXTENDS Integers, SequencesExt, TLC

(***************************************************************************)
(* How an argument takes words: one word; one word or a default; one word  *)
(* or nothing; every word left; no word, its getter looks in the world.    *)
(***************************************************************************)
One == "one"
Opt == "default"
Null == "nullable"
Rest == "variadic"
Impl == "implicit"

\* A Command needs a sender, a View does not.  `run` is the function of the
\* file the row runs, the table the event goes on to, or what the row does.
Cmd(name, namePos, args, run) ==
  [name |-> name, namePos |-> namePos, args |-> args, run |-> run, requireFrom |-> TRUE]

View(name, namePos, args, run) ==
  [name |-> name, namePos |-> namePos, args |-> args, run |-> run, requireFrom |-> FALSE]

\* What the functions of a file do to the world and beyond it:
\*   send      invoke and addAction           bypass  a transaction past both
\*   build     deploy, store and save         adopt   store and save
\*   become    invoke, mergeContractABI       merge   mergeContractABI
\*   mergeLater  invoke, mergeContractABI not waited for
\*   quiet     nothing (print, verify)      sendLive  send, but nothing in a dry run
On(functions, does) == [f \in functions |-> does]
NoFunctions == On({}, "quiet")

Table(rows, functions) == [rows |-> rows, functions |-> functions]

Effect(table, row) ==
  IF row.run \in DOMAIN table.functions THEN table.functions[row.run] ELSE row.run

-----------------------------------------------------------------------------

\* The words left once the name of the command is taken out.
ArgsOf(row, words) == RemoveAt(words, row.namePos + 1)

\* Names are compared without regard to case or to blanks round them: a word here
\* stands for all the ways to write it.

\* Mutant of Matches: the name is looked for from its place on.
MatchesLater(row, words) == \E i \in (row.namePos + 1)..Len(words) : words[i] = row.name

Matches(row, words) ==
  row.namePos + 1 \in DOMAIN words /\ words[row.namePos + 1] = row.name

\* No command table has a row that takes every event, so an event no row
\* names is refused.
Known(table, words) == \E i \in DOMAIN table.rows : Matches(table.rows[i], words)

FirstMatch(table, words) ==
  table.rows[SelectInSeq(table.rows, LAMBDA row : Matches(row, words))]

\* getArgs: the arguments take their words in turn; -1 when one is missing.
Missing == -1

WordsLeft(left, arg) ==
  CASE left = Missing -> Missing
    [] arg = Impl -> left
    [] arg = Rest -> 0
    [] arg = One -> IF left = 0 THEN Missing ELSE left - 1
    [] OTHER -> IF left = 0 THEN 0 ELSE left - 1

Accepts(row, words) ==
  FoldLeft(WordsLeft, Len(ArgsOf(row, words)), row.args) = 0

\* What a row with a last argument of every word left passes on: what comes after
\* the words its other arguments took.
WordsTaken(row, words) ==
  {i \in DOMAIN words \cap DOMAIN row.args : row.args[i] \notin {Rest, Impl}}

PassedOn(row, words) ==
  LET args == ArgsOf(row, words)
  IN  SubSeq(args, Cardinality(WordsTaken(row, words)) + 1, Len(args))
=============================================================================
