--------------------------- MODULE CatchCorrectness ---------------------------
(***************************************************************************)
(* What the test executable promises to those who run it: the requests     *)
(* they can make and the properties of the run that follows.               *)
(***************************************************************************)
EXTENDS CatchSession

CONSTANTS
    Runs          \* the suites and the requests made of them

VARIABLE
    request       \* what the user asked for

(***************************************************************************)
(* A request is a sequence of options and a selection of tests.  An option *)
(* is written as its arguments and asks that a field of the configuration  *)
(* has a value, or is a mistake.  The selection is a sequence of           *)
(* alternatives, each of which is a sequence of conditions; it is written  *)
(* as an argument, or is the list of names in a file.                      *)
(***************************************************************************)
WrittenCondition(c) ==
    (IF c.excluded THEN <<c.mark>> ELSE << >>)
        \o (CASE c.kind = "Name"   -> c.text
              [] c.kind = "Quoted" -> <<"\"">> \o c.text \o <<"\"">>
              [] c.kind = "Tag"    -> <<"[">> \o c.text \o <<"]">>
              [] c.kind = "Alias"  -> <<"[", "@">> \o c.text \o <<"]">>)

WrittenSelection(selection) ==
    FoldDomain(LAMBDA text, i : text \o (IF i = 1 THEN << >> ELSE <<",">>)
                                         \o FlattenSeq([j \in DOMAIN selection[i] |-> WrittenCondition(selection[i][j])]),
                   << >>, selection)

Written(r) ==
    <<(<<"tests">>)>> \o FlattenSeq([i \in DOMAIN r.options |-> r.options[i].args])
                      \o (CASE r.file # << >>      -> <<(<<"-", "f">>), r.file>>
                            [] r.selection = << >> -> << >>
                            [] OTHER               -> <<WrittenSelection(r.selection)>>)

\* A command line is a sequence of texts that starts with the program's name.
ASSUME RunsAssumption ==
    \A r \in Runs : Written(r.request) \in Seq(Seq(STRING)) /\ Written(r.request) # << >>

\* The places of the sections of a body.
SectionsOf(body) == {i \in DOMAIN body : body[i].op = "section"}

\* The scopes of C++: every section has its end, ends no other section and is inside
\* of another one or beside it; names and lines tell them apart.
WellNested(body) ==
    /\ Len(body) \in Nat /\ DOMAIN body = 1..Len(body)
    /\ \A i \in SectionsOf(body) : body[i].end \in (i + 1)..Len(body) /\ body[body[i].end].op = "end"
    /\ \A e \in DOMAIN body : body[e].op = "end" => \E i \in SectionsOf(body) : body[i].end = e
    /\ \A i, j \in SectionsOf(body) :
          i < j => /\ body[i].end < j \/ body[j].end < body[i].end
                   /\ body[i].name # body[j].name \/ body[i].line # body[j].line

\* The test cases of every suite have such bodies.
ASSUME BodiesAssumption ==
    \A r \in Runs : /\ Len(r.suite.tests) \in Nat
                    /\ \A i \in 1..Len(r.suite.tests) : WellNested(r.suite.tests[i].body)

Mistaken(r) == \E i \in DOMAIN r.options : r.options[i].field = "error"

\* Whatever the stars stand for.
NameDenotes(pattern, name) ==
    LET p == toLower(pattern)
        n == toLower(name)
        core == SelectSeq(p, LAMBDA c : c # "*")
    IN  \E i \in 0..(Len(n) - Len(core)) :
            /\ SubSeq(n, i + 1, i + Len(core)) = core
            /\ Head(p) = "*" \/ i = 0
            /\ Last(p) = "*" \/ i + Len(core) = Len(n)

Meets(test, c) ==
    c.excluded # (CASE c.kind \in {"Name", "Quoted"} -> NameDenotes(c.text, test.name)
                    [] c.kind = "Tag"                -> toLower(c.text) \in {toLower(t) : t \in test.tags}
                    [] c.kind = "Alias" ->
                         \E i \in DOMAIN suite.aliases :
                             /\ suite.aliases[i].alias = WrittenCondition([c EXCEPT !.excluded = FALSE])
                             /\ \A t \in ParsedTags(suite.aliases[i].tag) : toLower(t) \in {toLower(u) : u \in test.tags})

Hidden(test) == \E t \in test.tags : Head(t) = "." \/ t = <<"hide">>

Wanted(test) ==
    /\ IF request.selection = << >> THEN listing \/ ~Hidden(test)
       ELSE \E i \in DOMAIN request.selection : \A j \in DOMAIN request.selection[i] : Meets(test, request.selection[i][j])
    /\ ~(throws(test) /\ \E i \in DOMAIN request.options : request.options[i].field = "noThrow")
-----------------------------------------------------------------------------
RunInit == \E r \in Runs : request = r.request /\ Init({r.suite}, {Written(r.request)})

\* The process has ended, by itself or by an assert, or is stuck in a loop.
Over == pc \in {"Exited", "Aborted", "Hung"}

RunNext == (Next \/ (Over /\ UNCHANGED vars)) /\ UNCHANGED request

(***************************************************************************)
(* One thread runs the tests, and nothing but its own code keeps it from   *)
(* the next step.  This is weak fairness of Next: it is enabled until the  *)
(* process is over, or TLC would report a deadlock.                        *)
(***************************************************************************)
RunSpec == RunInit /\ [][RunNext]_<<vars, request>> /\ ([]<>Over \/ []<><<Next>>_vars)
-----------------------------------------------------------------------------
(***************************************************************************)
(* The command line is refused exactly when it holds a mistake.  Otherwise *)
(* every option has the effect asked for (the last one, for an option      *)
(* given again), and the tests that match the parsed specification are     *)
(* those the request describes: an exclusion reaches one condition, a      *)
(* comma separates alternatives, case is ignored and hidden tests are left *)
(* out unless the request names some (Clara's parser, TestSpecParser).     *)
(***************************************************************************)
RequestHonoured ==
    /\ pc = "Configured" => ~Mistaken(request)
    /\ pc \in {"Configured", "RunTests"} =>
          \A i \in DOMAIN request.options :
             LET o == request.options[i]
             IN  (\A j \in DOMAIN request.options : j > i => request.options[j].field # o.field)
                    => config[o.field] = o.value
    /\ pc = "Exited" /\ Mistaken(request) => exitCode # 0
    /\ pc = "Selecting" => \A i \in DOMAIN tests : matchTest(tests[i], filters, ~config.noThrow) <=> Wanted(tests[i])
    /\ pc = "Exited" /\ config.listTests /\ ~config.error /\ exitCode # IntMax
          => exitCode = Cardinality({i \in DOMAIN tests : Wanted(tests[i])})

(***************************************************************************)
(* While a test case is run pass after pass, no innermost section is       *)
(* entered twice and the tracker never meets a state it cannot have; the   *)
(* passes are at most one more than the sections.  When the test case is   *)
(* over, every innermost section has been entered, even where another one  *)
(* failed or threw: only an exception outside of the innermost sections,   *)
(* or the limit on failures, keeps a section from being run.               *)
(***************************************************************************)
SectionsRunOnce ==
    /\ ~context.tracker.illogical
    /\ IsInjective(history.visits)
    /\ pc \in {"Cycle", "Body", "TestEnd"} => history.cycles <= Cardinality(SectionsOf(Body)) + 1
    /\ pc = "TestEnd" /\ ~history.unwound /\ ~aborting(context) => ToSet(history.visits) = Leaves(Body)

(***************************************************************************)
(* The process ends with 0 only if nothing went wrong: no test case failed *)
(* that may not, none passed that should fail.  If it ran the tests to     *)
(* their end it ends with something else only if something did go wrong.   *)
(* The console says that all tests passed only if so does the exit code.   *)
(***************************************************************************)
ExitCodeTellsFailures ==
    pc = "Exited" =>
        /\ exitCode = 0 => ~history.bad /\ signal = 0
        /\ context.reporters # << >> /\ signal = 0 /\ ~HasDuplicates(tests) => (exitCode # 0 <=> history.bad)
        /\ \A i \in DOMAIN context.reporters :
              context.reporters[i].verdict = "All tests passed" => exitCode = 0

(***************************************************************************)
(* With -a or -x the failures never exceed the limit, whatever reports     *)
(* them: the comparison in aborting() is for equality, and one failure too *)
(* many would switch the limit off.  Not promised with the warning about   *)
(* missing assertions, which counts failures of its own, nor after a       *)
(* signal.                                                                 *)
(***************************************************************************)
AbortLimitKept ==
    "NoAssertions" \notin config.warnings /\ signal = 0
        => context.totals.assertions.failed <= config.abortAfter

(***************************************************************************)
(* No assert of a reporter fails while tests are run.  At the end every    *)
(* reporter has seen each section end and each XML element has been closed *)
(* in its place, and every failing result has been written (the XML        *)
(* reporter writes those of CHECK_NOFAIL too).  After a signal this holds  *)
(* if it struck in at most one open section, and for the JUnit reporter.   *)
(***************************************************************************)
ReportComplete ==
    /\ pc # "Aborted"
    /\ pc = "Exited" /\ ~HasDuplicates(tests) =>
          \A i \in DOMAIN context.reporters :
             LET r == context.reporters[i]
             IN  /\ r.failures = context.failing + (IF r.kind = "xml" THEN context.suppressed ELSE 0)
                 /\ signal = 0 => r.stack = << >> /\ r.late = << >>
                 /\ signal # 0 => r.tags = << >> \/ (r.kind = "xml" /\ history.depth > 1)

(***************************************************************************)
(* The executable ends, however its tests are passed over, throw or fail.  *)
(* It may stay in the compact reporter's loop over the messages of a       *)
(* warning, where successes are not shown, and nowhere else.               *)
(***************************************************************************)
RunEnds ==
    <>(\/ pc = "Exited"
       \/ /\ pc = "Hung" /\ ~config.showSuccessfulTests
          /\ \E i \in DOMAIN context.reporters : context.reporters[i].kind = "compact" /\ context.reporters[i].hung)
=============================================================================
