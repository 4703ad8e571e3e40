----------------------------- MODULE CatchSession -----------------------------
(***************************************************************************)
(* One process of the test executable: Session, runTests and RunContext,   *)
(* from the static registrars to the exit code.                            *)
(*                                                                         *)
(* The body of a test case is a sequence of instructions: what Catch sees  *)
(* of the test's code.  A section ends at the instruction with number      *)
(* "end"; "outcomes" is what an expression or a stretch of code may do.    *)
(* "spawn" and "join" stand for a local object that owns a running thread  *)
(* (server_service in the integration test): destroyed before the join it  *)
(* calls std::terminate.                                                   *)
(***************************************************************************)
EXTENDS CatchCommandLine, CatchReporters, CatchTracker

VARIABLES
    suite,        \* the declared test cases and tag aliases
    argv,         \* the command line, until it has been read
    pc,           \* where the process is
    config,       \* ConfigData
    filters,      \* the parsed test specification
    tests,        \* the registered test cases, in the order they are run
    next,         \* the test case at hand
    context,      \* RunContext's members
    before,       \* the totals when the test case was started
    sum,          \* the totals that runTests adds up
    frame,        \* the run of a test's body
    signal,       \* the signal being handled
    exitCode,
    history       \* what happened, for the properties

vars == <<suite, argv, pc, config, filters, tests, next, context, before, sum, frame, signal, exitCode, history>>

IntMax  == 2147483647
SIGABRT == 6
SIGSEGV == 11

Aliases == SortSeq(suite.aliases, LAMBDA a, b : Before(a.alias, b.alias))
Test    == tests[next]
Body    == Test.body
-----------------------------------------------------------------------------
(***************************************************************************)
(* RunContext.  Its members are the fields of a record c; "failing",       *)
(* "suppressed" and "missing" count what was reported, for the properties. *)
(***************************************************************************)
RunContext(reporters) ==
    [totals |-> Totals, messages |-> 0, tracker |-> startRun, active |-> << >>, unfinished |-> << >>,
     reporters |-> reporters, failing |-> 0, suppressed |-> 0, missing |-> 0]

Report(c, e) == [c EXCEPT !.reporters = MultipleReporters(@, e, config)]

aborting(c) == c.totals.assertions.failed = config.abortAfter

CountResult(counts, result) ==
    CASE result.type = "Ok" -> [counts EXCEPT !.passed = @ + 1]
      [] ~isOk(result)      -> [counts EXCEPT !.failed = @ + 1]
      [] OTHER              -> counts

assertionEnded(c, result) ==
    LET counted == [c EXCEPT !.totals.assertions = CountResult(@, result),
                             !.failing    = IF isOk(result) THEN @ ELSE @ + 1,
                             !.suppressed = IF isOk(result) /\ ~IsOkResult(result.type) THEN @ + 1 ELSE @]
        reported == Report(counted, [type |-> "assertionEnded", result |-> result, messages |-> c.messages,
                                     totals |-> counted.totals])
    IN  [reported EXCEPT !.messages = IF ClearsMessages(c.reporters, result, config) THEN 0 ELSE @]

\* Mutant of SectionKey: sections are told apart by their names alone.
NameAlone(info) == <<info.name>>

SectionKey(info) == <<info.name, info.line>>

\* Whether the section is entered, and the context after it was asked.
sectionStarted(c, info) ==
    LET path  == Append(c.tracker.current, SectionKey(info))
        asked == [c EXCEPT !.tracker = acquire(@, SectionKey(info))]
    IN  IF ~isOpen(asked.tracker, path) THEN [entered |-> FALSE, context |-> asked]
        ELSE [entered |-> TRUE,
              context |-> Report([asked EXCEPT !.active = Append(@, path)],
                                 [type |-> "sectionStarting", line |-> info.line])]

MissingAssertions(c, assertions) ==
    /\ total(assertions) = 0
    /\ "NoAssertions" \in config.warnings
    /\ ~hasChildren(c.tracker, c.tracker.current)

testForMissingAssertions(c, assertions) ==
    IF MissingAssertions(c, assertions)
    THEN [c EXCEPT !.totals.assertions.failed = @ + 1, !.missing = @ + 1] ELSE c

\* A section that ended is its line and the assertions counted before it.
sectionEnded(c, ended) ==
    LET assertions == Minus(c.totals.assertions, ended.prev)
        counted    == testForMissingAssertions(c, assertions)
        closed     == IF c.active = << >> THEN counted
                      ELSE [counted EXCEPT !.tracker = close(@, Last(c.active)), !.active = Front(@)]
    IN  [Report(closed, [type |-> "sectionEnded", missing |-> MissingAssertions(c, assertions)])
            EXCEPT !.messages = 0]

\* The innermost section fails, those around it are closed.
sectionEndedEarly(c, ended) ==
    [c EXCEPT !.tracker = IF c.unfinished = << >> THEN fail(@, Last(c.active)) ELSE close(@, Last(c.active)),
              !.active = Front(@),
              !.unfinished = Append(@, ended)]

\* Mutant of handleUnfinishedSections: the sections left by an exception are forgotten.
ForgetUnfinishedSections(c) == [c EXCEPT !.unfinished = << >>]

\* The outermost one first.
handleUnfinishedSections(c) ==
    [Fold(sectionEnded, c, Reverse(c.unfinished)) EXCEPT !.unfinished = << >>]

\* Mutant of handleResult: reaching the limit does not end the test.
OnlyNormalThrows(c, result) == ~isOk(result) /\ "Normal" \in result.disposition

\* ResultBuilder::handleResult: whether react() throws.
handleResult(c, result) == ~isOk(result) /\ (aborting(c) \/ "Normal" \in result.disposition)

\* Run in the signal handler, on whatever the context is then.
handleFatalErrorCondition(c) ==
    LET told == handleUnfinishedSections(assertionEnded(c, Result("FatalErrorCondition", {"Normal"})))
        left == Report(Report(told, [type |-> "sectionEnded", missing |-> FALSE]), [type |-> "testCaseEnded"])
        last == [left EXCEPT !.totals.testCases.failed = @ + 1]
    IN  IF Stopped(left.reporters) THEN left
        ELSE Report(Report(last, [type |-> "testGroupEnded", totals |-> last.totals]),
                    [type |-> "testRunEnded", totals |-> last.totals])
-----------------------------------------------------------------------------
(***************************************************************************)
(* Session.                                                                *)
(***************************************************************************)
NoFrame == [ip |-> 1, open |-> << >>, prev |-> Counts, thrown |-> "none", armed |-> -1]

\* Before main: the registrars run.
Init(Suites, CommandLines) ==
    /\ suite \in Suites
    /\ argv \in CommandLines
    /\ pc = "Registering"
    /\ config = ConfigData
    /\ filters = << >>
    /\ tests = << >>
    /\ next = 1
    /\ context = RunContext(<< >>)
    /\ before = Totals
    /\ sum = Totals
    /\ frame = NoFrame
    /\ signal = 0
    /\ exitCode = 0
    /\ history = [visits |-> << >>, cycles |-> 0, unwound |-> FALSE, before |-> 0, bad |-> FALSE, depth |-> 0]

Exit(code) == pc' = "Exited" /\ exitCode' = code

Register ==
    /\ pc = "Registering"
    /\ \/ RegistrationFails(suite) /\ Exit(1) /\ UNCHANGED tests
       \/ ~RegistrationFails(suite) /\ pc' = "Main" /\ tests' = registerTests(suite.tests) /\ UNCHANGED exitCode
    /\ UNCHANGED <<suite, argv, config, filters, next, context, before, sum, frame, signal, history>>

applyCommandLine ==
    /\ pc = "Main"
    /\ config' = parseInto(argv)
    /\ argv' = << >>
    /\ CASE config'.error                        -> Exit(IntMax)
         [] ~config'.error /\ config'.showHelp   -> Exit(0)
         [] OTHER                                -> pc' = "Configured" /\ UNCHANGED exitCode
    /\ UNCHANGED <<suite, filters, tests, next, context, before, sum, frame, signal, history>>

listing == config.listTests \/ config.listTestNamesOnly \/ config.listTags \/ config.listReporters

listReporters == Cardinality(ReporterRegistry)

list(fs, all) ==
    LET Count(asked, n) == IF asked THEN n ELSE 0
    IN  Count(config.listTests, listTests(all, fs, Aliases, ~config.noThrow))
          + Count(config.listTestNamesOnly, listTestsNamesOnly(all, fs, Aliases, ~config.noThrow))
          + Count(config.listTags, listTags(all, fs, Aliases, ~config.noThrow))
          + Count(config.listReporters, listReporters)

\* Duplicate names are noticed by whoever asks for the sorted tests first.
SortsTests == config.filenamesAsTags \/ config.listTests \/ config.listTestNamesOnly \/ config.listTags

run ==
    /\ pc = "Configured"
    /\ filters' = parseTestSpec(Aliases, config.testsOrTags)
    /\ \/ /\ ~StreamOpens(config) \/ (SortsTests /\ HasDuplicates(tests))
          /\ Exit(IntMax)
          /\ UNCHANGED tests
       \/ /\ StreamOpens(config)
          /\ SortsTests => ~HasDuplicates(tests)
          /\ \E sorted \in sortTests(config.runOrder, tests) :
                tests' = IF config.filenamesAsTags THEN applyFilenamesAsTags(sorted) ELSE sorted
          /\ IF listing THEN Exit(list(filters', tests')) ELSE pc' = "RunTests" /\ UNCHANGED exitCode
    /\ UNCHANGED <<suite, argv, config, next, context, before, sum, frame, signal, history>>
-----------------------------------------------------------------------------
(***************************************************************************)
(* runTests.                                                               *)
(***************************************************************************)
\* ~RunContext reports the end of the run; then the reporters are destroyed.
EndRun(c) ==
    LET ended == Report(c, [type |-> "testRunEnded", totals |-> c.totals])
    IN  [ended EXCEPT !.reporters = [i \in DOMAIN @ |-> CloseTags(@[i])]]

\* A reporter stuck in its loop or stopped by an assert keeps the process there.
Goto(c, label) ==
    LET hung   == \E i \in DOMAIN c.reporters : c.reporters[i].hung
        broken == \E i \in DOMAIN c.reporters : c.reporters[i].broken
    IN  pc' = CASE hung            -> "Hung"
                [] ~hung /\ broken -> "Aborted"
                [] OTHER           -> label

\* All tests that are not hidden, unless some were asked for.
DefaultSpec == <<(<<"~", "[", ".", "]">>)>>

runTests ==
    /\ pc = "RunTests"
    /\ LET fresh  == RunContext(makeReporter(config.reporterNames))
           opened == Report(Report(fresh, [type |-> "testRunStarting"]), [type |-> "testGroupStarting"])
       IN  \/ /\ Unregistered(config.reporterNames)
              /\ Exit(IntMax)
              /\ UNCHANGED <<context, filters>>
           \/ /\ ~Unregistered(config.reporterNames) /\ HasDuplicates(tests)
              /\ context' = EndRun(opened)
              /\ Exit(IntMax)
              /\ UNCHANGED filters
           \/ /\ ~Unregistered(config.reporterNames) /\ ~HasDuplicates(tests)
              /\ context' = opened
              /\ filters' = IF filters = << >> THEN parseTestSpec(Aliases, DefaultSpec) ELSE filters
              /\ pc' = "Selecting"
              /\ UNCHANGED exitCode
    /\ UNCHANGED <<suite, argv, config, tests, next, before, sum, frame, signal, history>>

Selected == ~aborting(context) /\ matchTest(Test, filters, ~config.noThrow)

runTest ==
    /\ pc = "Selecting" /\ next <= Len(tests) /\ Selected
    /\ context' = Report([context EXCEPT !.tracker = startRun], [type |-> "testCaseStarting"])
    /\ before' = context.totals
    /\ history' = [history EXCEPT !.visits = << >>, !.cycles = 0, !.unwound = FALSE,
                                  !.before = context.failing + context.missing]
    /\ pc' = "Cycle"
    /\ UNCHANGED <<suite, argv, config, filters, tests, next, sum, frame, signal, exitCode>>

skipTest ==
    /\ pc = "Selecting" /\ next <= Len(tests) /\ ~Selected
    /\ context' = Report(context, [type |-> "skipTest"])
    /\ next' = next + 1
    /\ UNCHANGED <<suite, argv, pc, config, filters, tests, before, sum, frame, signal, exitCode, history>>

\* The failed assertions are the process's exit code.
endTests ==
    /\ pc = "Selecting" /\ next > Len(tests)
    /\ context' = EndRun(Report(context, [type |-> "testGroupEnded", totals |-> sum]))
    /\ Exit(sum.assertions.failed)
    /\ UNCHANGED <<suite, argv, config, filters, tests, next, before, sum, frame, signal, history>>
-----------------------------------------------------------------------------
(***************************************************************************)
(* runTest and runCurrentTest: passes over the body until the tracker of   *)
(* the test case is complete.                                              *)
(***************************************************************************)
TestPath == <<(<<Test.name>>)>>

startPass ==
    /\ pc = "Cycle"
    /\ context' = Report([context EXCEPT !.tracker = acquire(startCycle(@), <<Test.name>>)],
                         [type |-> "sectionStarting", line |-> 0])
    /\ frame' = [NoFrame EXCEPT !.prev = context.totals.assertions]
    /\ history' = [history EXCEPT !.cycles = @ + 1]
    /\ pc' = "Body"
    /\ UNCHANGED <<suite, argv, config, filters, tests, next, before, sum, signal, exitCode>>

\* Mutant of okToFailSwap: the failures of a test that may fail are counted like any other.
KeepFailures(c, failed) == c

okToFailSwap(c, failed) ==
    IF okToFail(Test)
    THEN [c EXCEPT !.totals.assertions.failed = @ - failed, !.totals.assertions.failedButOk = @ + failed] ELSE c

\* Everything after the body was left, by its end or by an exception; the
\* messages in scope went with it.
endPass ==
    /\ pc = "Return"
    /\ LET left    == [context EXCEPT !.messages = 0]
           caught  == IF frame.thrown = "other" THEN assertionEnded(left, useActiveException({"Normal"})) ELSE left
           closed  == handleUnfinishedSections([caught EXCEPT !.tracker = close(@, TestPath)])
           missing == MissingAssertions(closed, Minus(closed.totals.assertions, frame.prev))
           counted == testForMissingAssertions(closed, Minus(closed.totals.assertions, frame.prev))
           swapped == okToFailSwap(counted, counted.totals.assertions.failed - frame.prev.failed)
           ended   == Report(swapped, [type |-> "sectionEnded", missing |-> missing])
       IN  /\ context' = ended
           /\ Goto(ended, IF ~isSuccessfullyCompleted(ended.tracker, TestPath) /\ ~aborting(ended)
                          THEN "Cycle" ELSE "TestEnd")
    /\ frame' = NoFrame
    /\ UNCHANGED <<suite, argv, config, filters, tests, next, before, sum, signal, exitCode, history>>

endTest ==
    /\ pc = "TestEnd"
    /\ LET done  == delta(context.totals, before)
           final == IF expectedToFail(Test) /\ done.testCases.passed > 0
                    THEN [done EXCEPT !.assertions.failed = @ + 1,
                                      !.testCases.passed = @ - 1, !.testCases.failed = @ + 1] ELSE done
           ended == Report([context EXCEPT !.totals.testCases = Plus(@, final.testCases)], [type |-> "testCaseEnded"])
           failed == context.failing + context.missing > history.before
       IN  /\ context' = ended
           /\ sum' = TotalsPlus(sum, final)
           /\ history' = [history EXCEPT !.bad = @ \/ (failed /\ ~okToFail(Test))
                                                   \/ (~failed /\ expectedToFail(Test))]
           /\ Goto(ended, "Selecting")
    /\ next' = next + 1
    /\ UNCHANGED <<suite, argv, config, filters, tests, before, frame, signal, exitCode>>
-----------------------------------------------------------------------------
(***************************************************************************)
(* The body of a test case.                                                *)
(***************************************************************************)
Instr   == Body[frame.ip]
At(op)  == pc = "Body" /\ frame.ip <= Len(Body) /\ Instr.op = op

\* Sections with no section inside, by the place of their instruction.
Leaves(body) == {i \in DOMAIN body : body[i].op = "section" /\ \A j \in (i + 1)..body[i].end : body[j].op # "section"}
InLeaf == \E i \in Leaves(Body) : i < frame.ip /\ frame.ip < Body[i].end

BodyUnchanged == UNCHANGED <<suite, argv, config, filters, tests, next, before, sum, exitCode>>

\* Section's constructor and its use as a condition.
Section ==
    /\ At("section")
    /\ LET s == sectionStarted(context, Instr)
       IN  /\ context' = s.context
           /\ frame' = IF s.entered
                       THEN [frame EXCEPT !.ip = @ + 1,
                                          !.open = Append(@, [line |-> Instr.line, prev |-> context.totals.assertions])]
                       ELSE [frame EXCEPT !.ip = Instr.end + 1]
           /\ history' = IF s.entered /\ frame.ip \in Leaves(Body) THEN [history EXCEPT !.visits = Append(@, frame.ip)] ELSE history
           /\ Goto(s.context, pc)
    /\ BodyUnchanged /\ UNCHANGED signal

\* Section's destructor, while nothing is thrown.
SectionEnd ==
    /\ At("end")
    /\ context' = sectionEnded(context, Last(frame.open))
    /\ frame' = [frame EXCEPT !.ip = @ + 1, !.open = Front(@)]
    /\ Goto(context', pc)
    /\ BodyUnchanged /\ UNCHANGED <<signal, history>>

Assertion ==
    /\ At("assert")
    /\ \E outcome \in Instr.outcomes :
          LET result == Asserted(Instr.macro, Instr.disposition, outcome, ~config.noThrow)
              ended  == assertionEnded(context, result)
              throwing == handleResult(ended, result)
          IN  /\ context' = ended
              /\ frame' = [frame EXCEPT !.ip = @ + 1, !.thrown = IF throwing THEN "TestFailureException" ELSE @]
              /\ history' = [history EXCEPT !.unwound = @ \/ (throwing /\ ~InLeaf)]
              /\ Goto(ended, IF throwing THEN "Unwinding" ELSE pc)
    /\ BodyUnchanged /\ UNCHANGED signal

\* INFO.
ScopedMessage ==
    /\ At("info")
    /\ context' = [context EXCEPT !.messages = @ + 1]
    /\ frame' = [frame EXCEPT !.ip = @ + 1]
    /\ BodyUnchanged /\ UNCHANGED <<pc, signal, history>>

\* The number of sections the reporters have been told of and have not seen end.
OpenSections == Len(context.active) + Len(context.unfinished)

Strike(sig) ==
    /\ pc' = "Fatal"
    /\ signal' = sig
    /\ history' = [history EXCEPT !.depth = OpenSections]

\* The test's own code: it goes on, throws, or is struck by a signal.
Code ==
    /\ At("code")
    /\ \E outcome \in Instr.outcomes :
          \/ /\ outcome = "ok"
             /\ frame' = [frame EXCEPT !.ip = @ + 1]
             /\ UNCHANGED <<pc, signal, history>>
          \/ /\ outcome = "throws"
             /\ frame' = [frame EXCEPT !.thrown = "other"]
             /\ pc' = "Unwinding"
             /\ history' = [history EXCEPT !.unwound = @ \/ ~InLeaf]
             /\ UNCHANGED signal
          \/ /\ outcome = "signal"
             /\ Strike(SIGSEGV)
             /\ UNCHANGED frame
    /\ BodyUnchanged /\ UNCHANGED context

\* service_thread is started, and joined.
Spawn ==
    /\ At("spawn")
    /\ frame' = [frame EXCEPT !.ip = @ + 1, !.armed = Len(frame.open)]
    /\ BodyUnchanged /\ UNCHANGED <<pc, context, signal, history>>

Join ==
    /\ At("join")
    /\ frame' = [frame EXCEPT !.ip = @ + 1, !.armed = -1]
    /\ BodyUnchanged /\ UNCHANGED <<pc, context, signal, history>>

BodyEnd ==
    /\ pc = "Body" /\ frame.ip > Len(Body)
    /\ pc' = "Return"
    /\ BodyUnchanged /\ UNCHANGED <<context, frame, signal, history>>

\* The exception leaves one scope: a running thread ends the process, a section
\* ends early, and outside of all of them the exception is caught.
Unwind ==
    /\ pc = "Unwinding"
    /\ \/ /\ frame.armed = Len(frame.open)
          /\ Strike(SIGABRT)
          /\ UNCHANGED <<context, frame>>
       \/ /\ frame.armed # Len(frame.open) /\ frame.open # << >>
          /\ context' = sectionEndedEarly(context, Last(frame.open))
          /\ frame' = [frame EXCEPT !.open = Front(@)]
          /\ UNCHANGED <<pc, signal, history>>
       \/ /\ frame.armed # Len(frame.open) /\ frame.open = << >>
          /\ pc' = "Return"
          /\ UNCHANGED <<context, frame, signal, history>>
    /\ BodyUnchanged

\* FatalConditionHandler::handleSignal and fatal.  An assert that fails in a
\* reporter raises SIGABRT, which is handled the same way.
handleSignal ==
    /\ pc = "Fatal"
    /\ LET told == handleFatalErrorCondition(context)
       IN  IF Stopped(told.reporters)
           THEN /\ context' = [told EXCEPT !.reporters = [i \in DOMAIN @ |-> [@[i] EXCEPT !.broken = FALSE]]]
                /\ signal' = SIGABRT
                /\ UNCHANGED <<pc, exitCode>>
           ELSE /\ context' = told
                /\ Exit(-signal)
                /\ UNCHANGED signal
    /\ UNCHANGED <<suite, argv, config, filters, tests, next, before, sum, frame, history>>
-----------------------------------------------------------------------------
Prepare == Register \/ applyCommandLine \/ run

Execute ==
    \/ runTests \/ runTest \/ skipTest \/ endTests
    \/ startPass \/ endPass \/ endTest
    \/ Section \/ SectionEnd \/ Assertion \/ ScopedMessage \/ Code \/ Spawn \/ Join \/ BodyEnd
    \/ Unwind \/ handleSignal

Next == Prepare \/ Execute
=============================================================================
