------------------------------- MODULE MCCatch -------------------------------
(***************************************************************************)
(* Small suites and command lines for CatchCorrectness.                    *)
(***************************************************************************)
EXTENDS CatchCorrectness

MCLower == ("Server" :> "server") @@ ("FAST" :> "fast") @@ ("Fast" :> "fast") @@ ("Yes" :> "yes")
MCRank  == ("server" :> 5) @@ ("Server" :> 2) @@ ("client" :> 4) @@ ("utils" :> 6) @@ (" " :> 0)
             @@ ("Anonymous test case" :> 1) @@ ("1" :> 1) @@ ("[" :> 3) @@ ("@" :> 1) @@ ("quick" :> 5) @@ ("slow" :> 6)
             @@ ("]" :> 4) @@ ("." :> 0) @@ ("/" :> 0)
MCFiles == (<<"names">> :> <<(<<"#", " ", "tests">>), <<" ", "client">>, << >>, <<"\"", "utils", "\"">> >>)
MCUnopenable == {<<"locked">>}
MCNumber == (<<"0">> :> 0) @@ (<<"1">> :> 1) @@ (<<"2">> :> 2)
-----------------------------------------------------------------------------
(***************************************************************************)
(* Bodies.                                                                 *)
(***************************************************************************)
Sect(name, line, end) == [op |-> "section", name |-> name, line |-> line, end |-> end]
End   == [op |-> "end"]
Info  == [op |-> "info"]
Spawn_ == [op |-> "spawn"]
Join_  == [op |-> "join"]
Does(outcomes) == [op |-> "code", outcomes |-> outcomes]
Claim(macro, disposition, outcomes) ==
    [op |-> "assert", macro |-> macro, disposition |-> disposition, outcomes |-> outcomes]

Either == {"true", "false"}
REQUIRE(outcomes) == Claim("TEST", {"Normal"}, outcomes)
CHECK(outcomes)   == Claim("TEST", {"ContinueOnFailure"}, outcomes)

\* Like the repository's integration test: a server thread, and two sections with one name.
ServerBody == <<Spawn_, Sect("reply", 1, 4), REQUIRE(Either), End, Sect("reply", 2, 7), REQUIRE(Either), End, Join_>>

\* A section with two inside, one that holds nothing, and code that may fail anywhere.
NestedBody == <<Sect("A", 1, 8), Sect("A1", 2, 4), CHECK(Either), End,
                Sect("A2", 3, 7), REQUIRE(Either), End, End,
                Sect("B", 4, 10), End, CHECK({"true"})>>

FaultyBody == <<Does({"ok", "throws"}), Sect("A", 1, 7), Does({"ok", "throws", "signal"}),
                Sect("A1", 2, 6), Does({"ok", "throws", "signal"}), End, End,
                Sect("B", 3, 10), CHECK(Either), End>>

MessageBody == <<Info, Info, Claim("TEST", {"ContinueOnFailure", "SuppressFail"}, Either),
                 Claim("Warning", {"ContinueOnFailure"}, {"true"}),
                 Claim("TEST", {"Normal", "FalseTest"}, Either), Claim("ExplicitFailure", {"Normal"}, {"true"})>>

ThrowBody == <<Claim("NO_THROW", {"ContinueOnFailure"}, {"true", "throws"}),
               Claim("THROWS", {"ContinueOnFailure"}, {"true", "throws", "throwsOther"}),
               Claim("THROWS_AS", {"Normal"}, {"true", "throws", "throwsOther"}),
               Claim("THAT", {"ContinueOnFailure"}, {"true", "false", "throws"})>>

Case(name, tags, body) == [name |-> name, tags |-> tags, file |-> "sys_info_tests", body |-> body]
Tagged(tag) == <<"[">> \o tag \o <<"]">>
Suite(cases, aliases) == [tests |-> cases, aliases |-> aliases]
Quick == [alias |-> <<"[", "@", "quick", "]">>, tag |-> Tagged(<<"fast">>)]
Slow  == [alias |-> <<"[", "@", "slow", "]">>, tag |-> Tagged(<<"slow">>)]

Tiny == <<CHECK(Either)>>

\* Test cases to choose from: tags in two spellings, hidden, failing as expected.
Choice == Suite(<<Case(<<"Server", " ", "client">>, Tagged(<<"FAST">>) \o Tagged(<<"!", "throws">>), Tiny),
                  Case(<<"client">>, Tagged(<<"fast">>) \o Tagged(<<"slow">>) \o Tagged(<<"!", "mayfail">>), Tiny),
                  Case(<<"utils">>, Tagged(<<"!", "shouldfail">>), Tiny),
                  Case(<< >>, Tagged(<<".", "slow">>), Tiny)>>, <<Slow, Quick>>)

Sections == Suite(<<Case(<<"Server">>, << >>, ServerBody), Case(<<"utils">>, << >>, NestedBody)>>, << >>)
Faults   == Suite(<<Case(<<"client">>, Tagged(<<"!", "mayfail">>), FaultyBody), Case(<<"utils">>, << >>, Tiny)>>, << >>)
Faults2  == Suite(<<Case(<<"client">>, << >>, FaultyBody), Case(<<".", "/", "utils">>, << >>, Tiny)>>, << >>)
Messages == Suite(<<Case(<<"client">>, << >>, MessageBody), Case(<<"utils">>, << >>, ThrowBody)>>, << >>)

\* A test without assertions.
Empty    == Suite(<<Case(<<"client">>, << >>, <<Info, Sect("A", 1, 3), End>>), Case(<<"utils">>, << >>, << >>)>>, << >>)

Twice    == Suite(<<Case(<<"client">>, << >>, Tiny), Case(<<"client">>, << >>, Tiny)>>, << >>)
Reserved == Suite(<<Case(<<"client">>, Tagged(<<"!", "odd">>), Tiny)>>, << >>)
BadAlias == Suite(<<Case(<<"client">>, << >>, Tiny)>>, <<[alias |-> <<"quick">>, tag |-> Tagged(<<"fast">>)]>>)
-----------------------------------------------------------------------------
(***************************************************************************)
(* Requests.                                                               *)
(***************************************************************************)
Opt(args, field, value) == [args |-> args, field |-> field, value |-> value]
Short(c) == <<"-", c>>
Long(w)  == <<"-", "-", w>>

One(c)       == <<Short(c)>>
With(c, v)   == <<Short(c), v>>
Equals(w, v) == <<(Long(w) \o <<"=">> \o v)>>

Reporting(k) == Opt(With("r", <<k>>), "reporterNames", <<(<<k>>)>>)

Is(kind, text) == [kind |-> kind, text |-> text, excluded |-> FALSE, mark |-> "~"]
Not(kind, text, mark) == [kind |-> kind, text |-> text, excluded |-> TRUE, mark |-> mark]

Ask(options, selection) == [options |-> options, selection |-> selection, file |-> << >>]

\* The tests that the file names.
AskFile(options) ==
    [options |-> options, file |-> <<"names">>,
     selection |-> <<(<<Is("Quoted", <<"client">>)>>), <<Is("Quoted", <<"utils">>)>> >>]

Selections ==
    {<< >>,
     <<(<<Not("Tag", <<"fast">>, "~")>>)>>,
     <<(<<Not("Tag", <<"slow">>, "~"), Is("Tag", <<"Fast">>)>>)>>,
     <<(<<Not("Tag", <<"slow">>, "exclude:"), Is("Alias", <<"quick">>)>>)>>,
     <<(<<Is("Tag", <<"FAST">>), Not("Quoted", <<"client">>, "~")>>), <<Is("Name", <<"util">>)>> >>,
     <<(<<Is("Name", <<"*", "client">>)>>), <<Is("Quoted", <<"utils">>)>> >>,
     <<(<<Is("Name", <<"server", "*">>), Is("Tag", <<"fast">>)>>)>>,
     <<(<<Not("Name", <<"*", "client", "*">>, "exclude:")>>), <<Is("Alias", <<"slow">>), Is("Tag", <<".">>)>> >>,
     <<(<<Is("Name", <<"*">>)>>)>>}

\* Options that change which tests are run, listed or refused.
Settings ==
    {<< >>,
     <<Opt(One("e"), "noThrow", TRUE)>>,
     <<Opt(One("l"), "listTests", TRUE)>>,
     <<Opt(<<Long("order"), <<"rand">> >>, "runOrder", "InRandomOrder"),
       Opt(Equals("order", <<"lex">>), "runOrder", "InLexicographicalOrder")>>,
     <<Opt(One("#"), "filenamesAsTags", TRUE), Opt(<<Long("order"), <<"rand">> >>, "runOrder", "InRandomOrder")>>}

\* Each option once, and what is wrong with a command line.
Odd ==
    {<<Opt(<<Short("t"), Long("list-reporters"), Long("list-test-names-only")>>, "listTags", TRUE)>>,
     <<Opt(One("?"), "showHelp", TRUE)>>,
     <<Opt(<<(<<"-", "s", "b">>), Long("force-colour")>>, "useColour", "Yes"), Opt(With("o", <<"out">>), "outputFilename", <<"out">>)>>,
     <<Opt(With("d", <<"Yes">>), "showDurations", "Always"), Opt(Equals("use-colour", <<"no">>), "useColour", "No"),
       Opt(With("n", <<"nightly">>), "name", <<"nightly">>), Opt(Equals("rng-seed", <<"time">>), "rngSeed", <<"time">>)>>,
     <<Opt(With("d", <<"off">>), "showDurations", "Never"), Opt(Equals("use-colour", <<"auto">>), "useColour", "Auto"),
       Opt(Equals("order", <<"decl">>), "runOrder", "InDeclarationOrder"), Opt(One("i"), "showInvisibles", TRUE)>>,
     <<Opt(With("f", <<"nowhere">>), "error", "")>>,
     <<Opt(With("x", <<"0">>), "error", "")>>,
     <<Opt(With("x", <<"many">>), "error", "")>>,
     <<Opt(With("w", <<"Everything">>), "error", "")>>,
     <<Opt(With("d", <<"maybe">>), "error", "")>>,
     <<Opt(Equals("use-colour", <<"maybe">>), "error", "")>>,
     <<Opt(Equals("order", <<"up">>), "error", "")>>,
     <<Opt(Equals("rng-seed", <<"many">>), "error", "")>>,
     <<Opt(One("z"), "error", "")>>,
     <<Opt(One("r"), "error", "")>>,
     <<Opt(With("o", <<"%", "nowhere">>), "outputFilename", <<"%", "nowhere">>)>>,
     <<Opt(With("o", <<"locked">>), "outputFilename", <<"locked">>)>>,
     <<Opt(With("o", <<"%", "debug">>), "outputFilename", <<"%", "debug">>)>>,
     <<Reporting("teamcity")>>}

\* Options for how tests are run.
Limits ==
    {<< >>, <<Opt(One("a"), "abortAfter", 1)>>, <<Opt(With("x", <<"2">>), "abortAfter", 2)>>,
     <<Opt(With("w", <<"NoAssertions">>), "warnings", {"NoAssertions"})>>,
     <<Opt(With("w", <<"NoAssertions">>), "warnings", {"NoAssertions"}), Opt(With("x", <<"2">>), "abortAfter", 2)>>,
     <<Opt(One("s"), "showSuccessfulTests", TRUE)>>}

Reports ==
    {<< >>, <<Reporting("compact")>>, <<Reporting("xml")>>, <<Reporting("junit")>>,
     <<Opt(<<Short("r"), <<"junit">>, Short("r"), <<"xml">> >>, "reporterNames", <<(<<"junit">>), <<"xml">> >>)>>}

MCRuns ==
    {[suite |-> Choice, request |-> Ask(o, s)] : o \in Settings, s \in Selections}
      \cup {[suite |-> Choice, request |-> AskFile(o)] : o \in Settings}
      \cup {[suite |-> Choice, request |-> Ask(o, << >>)] : o \in Odd}
      \cup {[suite |-> s, request |-> Ask(l \o r, << >>)] : s \in {Choice, Sections, Faults, Faults2, Messages, Empty}, l \in Limits, r \in Reports}
      \cup {[suite |-> s, request |-> Ask(o, << >>)] :
              s \in {Twice, Reserved, BadAlias}, o \in {<< >>, <<Reporting("xml")>>, <<Opt(One("l"), "listTests", TRUE)>>}}
=============================================================================
