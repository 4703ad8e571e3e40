---------------------------- MODULE CatchReporters ----------------------------
(***************************************************************************)
(* The reporters of a Catch executable: what each one keeps while the      *)
(* events of a run reach it, and what it has written of the failures.      *)
(*                                                                         *)
(* An event is a record with a type and the fields its handler looks at.   *)
(* A section is known by its line, the section of a test case is line 0.   *)
(***************************************************************************)
EXTENDS CatchAssertions, SequencesExt, StepwiseFold

\* LazyStat: what the current run, group and test case are known to be.
Reporter(kind) ==
    [kind |-> kind,
     run |-> "none", group |-> "none", testCase |-> "none",
     stack |-> << >>,       \* m_sectionStack
     tags |-> << >>,        \* XmlWriter's m_tags
     late |-> << >>,        \* the tags that only XmlWriter's destructor closed
     depth |-> 0,           \* m_sectionDepth
     header |-> FALSE,      \* m_headerPrinted
     root |-> << >>,        \* m_rootSection: for each path of lines, the results recorded there
     cases |-> << >>,       \* m_testCases
     unexpected |-> 0,      \* unexpectedExceptions
     failures |-> 0,        \* the results written as failures
     verdict |-> "none",
     broken |-> FALSE,      \* an assert failed, or something absent was used
     hung |-> FALSE]

Break(r, when) == [r EXCEPT !.broken = @ \/ when]

StreamingReporterBase(r, e) ==
    CASE e.type = "testRunStarting"   -> [r EXCEPT !.run = "set"]
      [] e.type = "testGroupStarting" -> [r EXCEPT !.group = "set"]
      [] e.type = "testCaseStarting"  -> [r EXCEPT !.testCase = "set"]
      [] e.type = "sectionStarting"   -> [r EXCEPT !.stack = Append(@, e.line)]
      [] e.type = "sectionEnded"      ->
            IF r.stack = << >> THEN Break(r, TRUE) ELSE [r EXCEPT !.stack = Front(@)]
      [] e.type = "testCaseEnded"     -> [r EXCEPT !.testCase = "none"]
      [] e.type = "testGroupEnded"    -> [r EXCEPT !.group = "none"]
      [] e.type = "testRunEnded"      -> [r EXCEPT !.testCase = "none", !.group = "none", !.run = "none"]
      [] OTHER                        -> r

\* Sections with the same line under the same parent share a node.
CumulativeReporterBase(r, e) ==
    CASE e.type = "sectionStarting" ->
            LET path == Append(r.stack, e.line)
            IN  [r EXCEPT !.stack = path, !.root = IF path \in DOMAIN @ THEN @ ELSE @ @@ (path :> << >>)]
      [] e.type = "assertionEnded" ->
            IF r.stack = << >> THEN Break(r, TRUE)
            ELSE [r EXCEPT !.root = [@ EXCEPT ![r.stack] = Append(@, e.result)]]
      [] e.type = "sectionEnded" ->
            IF r.stack = << >> THEN Break(r, TRUE) ELSE [r EXCEPT !.stack = Front(@)]
      [] e.type = "testCaseEnded" ->
            IF r.stack # << >> THEN Break(r, TRUE)
            ELSE [r EXCEPT !.cases = Append(@, r.root), !.root = << >>]
      [] OTHER -> r
-----------------------------------------------------------------------------
(***************************************************************************)
(* XmlWriter and the two reporters that write with it.  The elements of    *)
(* one assertion or of the overall results are closed where they are       *)
(* opened (ScopedElement) and leave no tag behind.                         *)
(***************************************************************************)
startElement(r, name) == [r EXCEPT !.tags = Append(@, name)]

endElement(r) == IF r.tags = << >> THEN Break(r, TRUE) ELSE [r EXCEPT !.tags = Front(@)]

\* ~XmlWriter.
CloseTags(r) == [r EXCEPT !.tags = << >>, !.late = r.tags]

XmlReporter(r, e) ==
    LET base == StreamingReporterBase(r, e)
    IN  CASE e.type = "testRunStarting"   -> startElement(base, "Catch")
          [] e.type = "testGroupStarting" -> startElement(base, "Group")
          [] e.type = "testCaseStarting"  -> startElement(base, "TestCase")
          [] e.type = "sectionStarting"   ->
                IF r.depth > 0 THEN startElement([base EXCEPT !.depth = @ + 1], "Section")
                ELSE [base EXCEPT !.depth = @ + 1]
          [] e.type = "assertionEnded"    ->
                IF IsOkResult(e.result.type) THEN base ELSE [base EXCEPT !.failures = @ + 1]
          [] e.type = "sectionEnded"      ->
                IF r.depth > 1 THEN endElement([base EXCEPT !.depth = @ - 1])
                ELSE [base EXCEPT !.depth = @ - 1]
          [] e.type \in {"testCaseEnded", "testGroupEnded", "testRunEnded"} -> endElement(base)
          [] OTHER -> base

\* writeAssertion: an element for every result that is not ok.
writeSection(results) == Len(SelectSeq(results, LAMBDA res : ~isOk(res)))

\* One section node below every test case, and the nodes below that one.
writeTestCase(root) == FoldFunction(LAMBDA results, n : n + writeSection(results), 0, root)

\* "failures" is unsigned: it wraps when exceptions of a test that may fail
\* are taken off a count they are not in.
writeGroup(r, totals) ==
    [r EXCEPT !.failures = Fold(LAMBDA n, root : n + writeTestCase(root), 0, r.cases),
              !.verdict = IF r.unexpected > totals.assertions.failed THEN "wrapped" ELSE "counted"]

JunitReporter(r, e) ==
    LET base == CumulativeReporterBase(r, e)
    IN  CASE e.type = "testRunStarting"   -> startElement(base, "testsuites")
          [] e.type = "testGroupStarting" -> [base EXCEPT !.unexpected = 0]
          [] e.type = "assertionEnded"    ->
                IF e.result.type = "ThrewException" THEN [base EXCEPT !.unexpected = @ + 1] ELSE base
          [] e.type = "testGroupEnded"    -> writeGroup(base, e.totals)
          [] e.type = "testRunEnded"      -> endElement([base EXCEPT !.cases = << >>])
          [] OTHER -> base
-----------------------------------------------------------------------------
(***************************************************************************)
(* The console reporter and the compact one.                               *)
(***************************************************************************)
Quiet(result, config) == ~config.showSuccessfulTests /\ isOk(result)

\* The messages of an assertion: those in scope, and its own.
AssertionStats(e) ==
    [i \in 1..e.messages |-> "Info"]
        \o (IF e.result.type \in {"Warning", "ExplicitFailure", "ThrewException", "FatalErrorCondition"}
            THEN <<e.result.type>> ELSE << >>)

\* The heading of the section is printed before the first thing said of it.
lazyPrint(r) ==
    [Break(r, r.run = "none" \/ r.group = "none" \/ (~r.header /\ (r.stack = << >> \/ r.testCase = "none")))
        EXCEPT !.run = "used", !.header = TRUE]

\* ConsoleReporter::AssertionPrinter: nothing is said of a result while nothing has been counted.
ConsolePrint(r, e) ==
    IF total(e.totals.assertions) > 0 /\ ~isOk(e.result) THEN [r EXCEPT !.failures = @ + 1] ELSE r

ConsoleTotals(totals) ==
    CASE total(totals.testCases) = 0 -> "No tests ran"
      [] total(totals.testCases) > 0 /\ total(totals.assertions) > 0
            /\ totals.testCases.failed = 0 /\ totals.testCases.failedButOk = 0 -> "All tests passed"
      [] OTHER -> "summary"

ConsoleReporter(r, e, config) ==
    LET base == StreamingReporterBase(r, e)
    IN  CASE e.type = "assertionEnded" ->
                IF Quiet(e.result, config) /\ e.result.type # "Warning" THEN base
                ELSE ConsolePrint(lazyPrint(base), e)
          [] e.type = "sectionStarting" -> [base EXCEPT !.header = FALSE]
          [] e.type = "sectionEnded" ->
                [StreamingReporterBase(IF e.missing THEN lazyPrint(r) ELSE r, e) EXCEPT !.header = FALSE]
          [] e.type = "testCaseEnded" -> [base EXCEPT !.header = FALSE]
          [] e.type = "testRunEnded"  -> [base EXCEPT !.verdict = ConsoleTotals(e.totals)]
          [] OTHER -> base

\* Mutant of CompactPrint: the loop never moves on past an INFO, whatever is to be printed.
StayAtInfo(r, e, printInfoMessages) ==
    LET messages == AssertionStats(e)
    IN  [r EXCEPT !.failures = IF isOk(e.result) THEN @ ELSE @ + 1,
                  !.hung = Contains(IF messages = << >> THEN messages ELSE Tail(messages), "Info")]

\* CompactReporter::AssertionPrinter.  Its loop over the messages only moves on
\* past a message it prints.
CompactPrint(r, e, printInfoMessages) ==
    LET messages  == AssertionStats(e)
        remaining == IF e.result.type \in {"ThrewException", "FatalErrorCondition", "Info", "Warning"}
                     THEN Tail(messages) ELSE messages
    IN  [r EXCEPT !.failures = IF isOk(e.result) THEN @ ELSE @ + 1,
                  !.hung = ~printInfoMessages /\ Contains(remaining, "Info")]

CompactTotals(totals) ==
    CASE total(totals.testCases) = 0 -> "No tests ran"
      [] total(totals.testCases) > 0 /\ totals.testCases.failed = total(totals.testCases) -> "Failed all"
      [] total(totals.testCases) > totals.testCases.failed /\ total(totals.assertions) = 0 -> "Passed (no assertions)"
      [] total(totals.testCases) > totals.testCases.failed /\ totals.assertions.failed > 0 -> "Failed"
      [] OTHER -> "Passed"

CompactReporter(r, e, config) ==
    LET base == StreamingReporterBase(r, e)
    IN  CASE e.type = "assertionEnded" ->
                IF Quiet(e.result, config) /\ e.result.type # "Warning" THEN base
                ELSE CompactPrint(base, e, ~Quiet(e.result, config))
          [] e.type = "testRunEnded" -> [base EXCEPT !.verdict = CompactTotals(e.totals)]
          [] OTHER -> base
-----------------------------------------------------------------------------
(***************************************************************************)
(* The registry and MultipleReporters.  An assert that fails in one of     *)
(* them, or a loop that does not end, keeps the event from the rest.       *)
(***************************************************************************)
ReporterRegistry == {"console", "compact", "xml", "junit"}

\* createReporter throws for a name that is not registered.
Unregistered(names) == \E i \in DOMAIN names : names[i] \notin {<<kind>> : kind \in ReporterRegistry}

makeReporter(names) ==
    IF names = << >> THEN <<Reporter("console")>> ELSE [i \in DOMAIN names |-> Reporter(names[i][1])]

Stopped(reporters) == \E i \in DOMAIN reporters : reporters[i].broken \/ reporters[i].hung

Handle(r, e, config) ==
    CASE r.kind = "console" -> ConsoleReporter(r, e, config)
      [] r.kind = "compact" -> CompactReporter(r, e, config)
      [] r.kind = "xml"     -> XmlReporter(r, e)
      [] r.kind = "junit"   -> JunitReporter(r, e)

Forward(reporters, i, e, config) ==
    IF Stopped(reporters) THEN reporters ELSE [reporters EXCEPT ![i] = Handle(@, e, config)]

MultipleReporters(reporters, e, config) ==
    FoldDomain(LAMBDA rs, i : Forward(rs, i, e, config), reporters, reporters)

\* The value of assertionEnded: whether the messages have been used up.
ClearsMessages(reporters, result, config) ==
    \E i \in DOMAIN reporters :
        \/ reporters[i].kind \in {"xml", "junit"}
        \/ ~Quiet(result, config)
        \/ result.type = "Warning"
=============================================================================
