----------------------------- MODULE MCScenario -----------------------------
(* Lines for the scenario runner: one event for every command there is, and *)
(* the lines a session goes on with.                                        *)
EXTENDS Scenario

Word == "it"

\* The words of an event for a row, every argument a Word.
WordsFor(row) ==
  LET needed == SelectSeq(row.args, LAMBDA arg : arg = One)
  IN  InsertAt([i \in DOMAIN needed |-> Word], row.namePos + 1, row.name)

Rows(name) == Range(Tables[name].rows)
EffectOf(name, row) == Effect(Tables[name], row)

TheSend == << <<"Send", Word, Word>> >>

\* Wrappers go round a transaction; a deployment gets a name, under a gate.
Event(name, row, words) ==
  CASE EffectOf(name, row) \in {"from", "value", "gasPrice", "block", "gate", "given"} ->
         <<words>> \o TheSend
    [] EffectOf(name, row) = "build" -> << <<"Gate", Proxy, Word>>, Append(words, Proxy) >>
    [] OTHER -> <<words>>

\* What the lines below have, and what the model leaves out.
Special == {"from", "myAddress", "adopt", "elsewhere"} \cup DOMAIN Tables

DirectEvents(name, before) ==
  { Event(name, row, before \o WordsFor(row)) :
      row \in {r \in Rows(name) : EffectOf(name, r) \notin Special} }

PassedTo(name) == {row \in Rows(name) : row.run \in DOMAIN Tables}

CommandEvents ==
  DirectEvents("Core", <<>>)
  \cup UNION { DirectEvents(core.run, <<core.name>>)
                 \cup UNION { DirectEvents(row.run, <<core.name>> \o WordsFor(row)) :
                                row \in PassedTo(core.run) } :
               core \in PassedTo("Core") }

Gated(name, words) == << <<"Gate", name, Word>>, words >>

Deploy(name) == Gated(name, <<"Comptroller", "Deploy", "Scenario", name>>)

MCLaterLines ==
  { <<TheSend>>,
    << Deploy("proxy") >>,
    << Deploy("impl"), << <<"ComptrollerImpl", "impl", "Become">> >> >>,
    << << <<"GovernorBravo", "proxy", "SetImplementation", "impl">> >>, Deploy("impl") >>,
    << << <<"GovernorBravo", "proxy", "MergeABI", "impl">> >> >>,
    << << <<"Comptroller", "Send", Word>> >> >>,
    << << <<"HoldInvariants">> >>, TheSend, TheSend >>,
    << << <<"HoldInvariants", "Success">> >> >>,
    << << <<"HoldInvariants", "Static">> >>, TheSend >>,
    << << <<"HoldInvariants", Word>> >> >>,
    << << <<"HoldInvariants">> >>, TheSend, << <<"Assert", "Failure">> >> >>,
    << << <<"Invariant", "Static", Word>> >>, << <<"ClearInvariants", "Success">> >> >>,
    << << <<"Expect", "Changes", Word, Word>> >> >>,
    << << <<"Expect", "Remains", Word, Word>> >>, TheSend >>,
    << << <<"From", "other", Word>>, <<"Trx", "Value", "1", Word>> >> \o TheSend, TheSend >>,
    << << <<"MyAddress", "me">> >> >>,
    << << <<"PriceOracle", "Set", "impl">> >> >>,
    << << <<"Given", "proxy", Word>> >> \o TheSend, << <<"Assert", "Success">> >> >> }

MCFirstLines == { <<e>> : e \in CommandEvents }

\* GatedDeploysOnce says something of these lines.
ASSUME AllGated == DeploysAreGated
=============================================================================
