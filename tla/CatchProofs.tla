----------------------------- MODULE CatchProofs -----------------------------
(***************************************************************************)
(* The limit on failures and the exit code of the test executable, for     *)
(* every suite of tests, every command line and any reporters.             *)
(*                                                                         *)
(* Reporters, sections and the parsers of the command line are folds over  *)
(* sequences of any length.  Each of them is an instance of FoldInvariant, *)
(* which gives it one lemma: what the fold preserves.                      *)
(***************************************************************************)
EXTENDS CatchCorrectness, SequenceTheorems, NaturalsInduction, WellFoundedInduction, TLAPS

-----------------------------------------------------------------------------
(***************************************************************************)
(* What the reporters are told, and what they say.                         *)
(***************************************************************************)
\* What is needed of a reporter: which one it is, and its verdict.
IsReporter(r) == r.kind \in ReporterRegistry /\ "kind" \in DOMAIN r /\ "verdict" \in DOMAIN r

\* Nothing was said between r and q.
SameVoice(r, q) == DOMAIN q = DOMAIN r /\ q.kind = r.kind /\ q.verdict = r.verdict

\* The bookkeeping of StreamingReporterBase says nothing: kind and verdict stay.
LEMMA StreamingIsMute ==
    ASSUME NEW r, IsReporter(r), NEW e
    PROVE  SameVoice(r, StreamingReporterBase(r, e))
BY Zenon DEF IsReporter, SameVoice, StreamingReporterBase, Break

\* Nor does that of CumulativeReporterBase.
LEMMA CumulativeIsMute ==
    ASSUME NEW r, IsReporter(r), NEW e
    PROVE  SameVoice(r, CumulativeReporterBase(r, e))
BY Zenon DEF IsReporter, SameVoice, CumulativeReporterBase, Break

\* A reporter that has said nothing more is still a reporter.
LEMMA MuteMoves ==
    ASSUME NEW r, IsReporter(r), NEW q, SameVoice(r, q)
    PROVE  IsReporter(q)
BY DEF IsReporter, SameVoice

\* XmlReporter never gives a verdict.
LEMMA XmlIsMute ==
    ASSUME NEW r, IsReporter(r), NEW e
    PROVE  SameVoice(r, XmlReporter(r, e))
<1> DEFINE base == StreamingReporterBase(r, e)
<1>1. SameVoice(r, base) /\ IsReporter(base)
  BY StreamingIsMute, MuteMoves, Zenon
<1> HIDE DEF base
<1> QED  BY <1>1, Zenon DEF IsReporter, SameVoice, XmlReporter, startElement, endElement, Break, base


\* ConsoleReporter's verdict.
AllPassed == "All tests passed"

\* Whether the event lets the console say so.
MayPass(e) == e.type = "testRunEnded" /\ ConsoleTotals(e.totals) = AllPassed

\* What the event e made r say, if q is r after it.
Told(r, q, e) ==
    /\ DOMAIN q = DOMAIN r /\ q.kind = r.kind
    /\ q.verdict = AllPassed => r.verdict = AllPassed \/ MayPass(e)

\* JunitReporter's verdicts, in writeGroup, never are that all tests passed.
LEMMA JunitIsTold ==
    ASSUME NEW r, IsReporter(r), NEW e
    PROVE  Told(r, JunitReporter(r, e), e)
<1> DEFINE base == CumulativeReporterBase(r, e)
<1>1. SameVoice(r, base) /\ IsReporter(base)
  BY CumulativeIsMute, MuteMoves, Zenon
<1> HIDE DEF base
<1>2. base.verdict = AllPassed => r.verdict = AllPassed
  BY <1>1, Zenon DEF SameVoice
<1>3. "wrapped" # AllPassed /\ "counted" # AllPassed
  BY Zenon DEF AllPassed
<1>4. SameVoice(base, writeGroup(base, e.totals)) \/ writeGroup(base, e.totals).verdict # AllPassed
  BY <1>1, <1>3, Zenon DEF IsReporter, writeGroup
<1>5. DOMAIN writeGroup(base, e.totals) = DOMAIN base /\ writeGroup(base, e.totals).kind = base.kind
  BY <1>1, Zenon DEF IsReporter, writeGroup
<1>6. \/ SameVoice(base, JunitReporter(r, e)) \/ JunitReporter(r, e) = writeGroup(base, e.totals)
  BY <1>1, Zenon DEF IsReporter, SameVoice, JunitReporter, startElement, endElement, Break, base
<1> QED  BY <1>1, <1>2, <1>4, <1>5, <1>6, Zenon DEF Told, SameVoice

\* ConsoleReporter says that all tests passed only at the end of the run, in
\* printTotals, of totals that say so.
LEMMA ConsoleIsTold ==
    ASSUME NEW r, IsReporter(r), NEW e, NEW c
    PROVE  Told(r, ConsoleReporter(r, e, c), e)
<1> DEFINE base == StreamingReporterBase(r, e)
           late == StreamingReporterBase(IF e.missing THEN lazyPrint(r) ELSE r, e)
<1>1. SameVoice(r, base) /\ IsReporter(base)
  BY StreamingIsMute, MuteMoves, Zenon
<1>2. SameVoice(r, lazyPrint(r)) /\ IsReporter(lazyPrint(r))
  BY Zenon DEF IsReporter, SameVoice, lazyPrint, Break
<1>3. SameVoice(r, late) /\ IsReporter(late)
  <2>1. CASE e.missing
    BY <1>2, <2>1, StreamingIsMute, MuteMoves, Zenon DEF SameVoice
  <2>2. CASE ~ e.missing
    BY <2>2, StreamingIsMute, MuteMoves, Zenon
  <2> QED  BY <2>1, <2>2
<1> HIDE DEF base, late
<1>4. SameVoice(base, ConsolePrint(lazyPrint(base), e))
  BY <1>1, Zenon DEF IsReporter, SameVoice, ConsolePrint, lazyPrint, Break
<1>5. CASE e.type = "testRunEnded"
  <2>1. ConsoleReporter(r, e, c) = [base EXCEPT !.verdict = ConsoleTotals(e.totals)]
    BY <1>5, Zenon DEF ConsoleReporter, base
  <2> QED  BY <1>1, <1>5, <2>1, Zenon DEF IsReporter, SameVoice, Told, MayPass
<1>6. CASE e.type # "testRunEnded"
  <2>1. \/ SameVoice(base, ConsoleReporter(r, e, c)) \/ SameVoice(late, ConsoleReporter(r, e, c))
    BY <1>1, <1>3, <1>4, <1>6, Zenon DEF IsReporter, SameVoice, ConsoleReporter, base, late
  <2> QED  BY <1>1, <1>3, <2>1, Zenon DEF SameVoice, Told
<1> QED  BY <1>5, <1>6

\* CompactReporter's verdict is another text, in printTotals.
LEMMA CompactIsTold ==
    ASSUME NEW r, IsReporter(r), NEW e, NEW c
    PROVE  Told(r, CompactReporter(r, e, c), e)
<1> DEFINE base == StreamingReporterBase(r, e)
<1>1. SameVoice(r, base) /\ IsReporter(base)
  BY StreamingIsMute, MuteMoves, Zenon
<1> HIDE DEF base
<1>2. CompactTotals(e.totals) # AllPassed
  BY Zenon DEF CompactTotals, AllPassed
<1>3. SameVoice(base, CompactPrint(base, e, ~ Quiet(e.result, c)))
  BY <1>1, Zenon DEF IsReporter, SameVoice, CompactPrint
<1>4. \/ SameVoice(base, CompactReporter(r, e, c))
      \/ CompactReporter(r, e, c) = [base EXCEPT !.verdict = CompactTotals(e.totals)]
  BY <1>3, Zenon DEF SameVoice, CompactReporter, base
<1> QED  BY <1>1, <1>2, <1>4, Zenon DEF IsReporter, SameVoice, Told

\* The same for an event handled by any of the four reporters.
LEMMA HandleIsTold ==
    ASSUME NEW r, IsReporter(r), NEW e, NEW c
    PROVE  IsReporter(Handle(r, e, c)) /\ Told(r, Handle(r, e, c), e)
<1>1. CASE r.kind = "console"
  BY <1>1, ConsoleIsTold, Zenon DEF Handle, Told, IsReporter
<1>2. CASE r.kind = "compact"
  BY <1>2, CompactIsTold, Zenon DEF Handle, Told, IsReporter
<1>3. CASE r.kind = "xml"
  BY <1>3, XmlIsMute, Zenon DEF Handle, Told, SameVoice, IsReporter
<1>4. CASE r.kind = "junit"
  BY <1>4, JunitIsTold, Zenon DEF Handle, Told, IsReporter
<1> QED  BY <1>1, <1>2, <1>3, <1>4, Zenon DEF IsReporter, ReporterRegistry

-----------------------------------------------------------------------------
IsSequence(s) == s \in Seq({s[i] : i \in DOMAIN s})

\* Reporters that are reporters, and have not yet said that all tests passed.
Sound(rs)  == IsSequence(rs) /\ \A i \in DOMAIN rs : IsReporter(rs[i])
Silent(rs) == \A i \in DOMAIN rs : rs[i].verdict # AllPassed

\* The fold of MultipleReporters, over the event and the configuration.
ForwardStep(p, rs, i) == Forward(rs, i, p.event, p.config)

\* There are p.size reporters, and only an event that may has made one say so.
ForwardGood(p, rs) ==
    /\ IsSequence(rs) /\ Len(rs) = p.size
    /\ \A i \in 1..p.size : IsReporter(rs[i]) /\ (rs[i].verdict = AllPassed => MayPass(p.event))

Forwards == INSTANCE FoldInvariant WITH step <- ForwardStep, Good <- ForwardGood

\* A sequence of anything is one.
LEMMA SequenceOfAny ==
    ASSUME NEW S, NEW s \in Seq(S)
    PROVE  IsSequence(s)
<1>1. Len(s) \in Nat /\ s \in [1..Len(s) -> S]
  BY LenProperties
<1>2. s \in [1..Len(s) -> {s[i] : i \in DOMAIN s}]
  BY <1>1
<1> QED  BY <1>1, <1>2, SeqDef DEF IsSequence

\* Its length is a number, its domain what is below.
LEMMA SequenceFacts ==
    ASSUME NEW s, IsSequence(s)
    PROVE  Len(s) \in Nat /\ DOMAIN s = 1..Len(s)
BY LenProperties DEF IsSequence

\* It still is one when an element is replaced.
LEMMA ExceptKeepsSequence ==
    ASSUME NEW s, IsSequence(s), NEW i \in 1..Len(s), NEW v
    PROVE  /\ IsSequence([s EXCEPT ![i] = v]) /\ Len([s EXCEPT ![i] = v]) = Len(s)
<1> DEFINE S == {s[j] : j \in DOMAIN s}
<1>1. s \in Seq(S)
  BY DEF IsSequence
<1> HIDE DEF S
<1>2. s \in Seq(S \cup {v})
  BY <1>1, SeqMonotonic
<1>3. /\ [s EXCEPT ![i] = v] \in Seq(S \cup {v})
      /\ Len([s EXCEPT ![i] = v]) = Len(s)
  BY <1>2, ExceptSeq
<1> QED  BY <1>3, SequenceOfAny

\* One reporter is told of the event; the others are as they were.
LEMMA ForwardKeeps ==
    ASSUME NEW p, NEW rs, ForwardGood(p, rs), NEW i \in 1..p.size
    PROVE  ForwardGood(p, ForwardStep(p, rs, i))
<1> DEFINE h == Handle(rs[i], p.event, p.config)
           new == [rs EXCEPT ![i] = h]
<1>1. CASE Stopped(rs)
  BY <1>1, Zenon DEF ForwardStep, Forward
<1>2. CASE ~ Stopped(rs)
  <2>1. Len(rs) = p.size /\ p.size \in Nat /\ i \in DOMAIN rs
    BY SequenceFacts DEF ForwardGood
  <2>2. ForwardStep(p, rs, i) = new
    BY <1>2, <2>1, Zenon DEF ForwardStep, Forward
  <2>3. IsReporter(h) /\ (h.verdict = AllPassed => MayPass(p.event))
    BY HandleIsTold, Zenon DEF ForwardGood, Told
  <2> HIDE DEF h
  <2>4. /\ IsSequence(new) /\ Len(new) = p.size
        /\ new[i] = h /\ \A j \in 1..p.size : j # i => new[j] = rs[j]
    <3>1. IsSequence(rs) /\ i \in 1..Len(rs)
      BY <2>1, Zenon DEF ForwardGood
    <3>2. IsSequence(new) /\ Len(new) = Len(rs)
      BY <3>1, ExceptKeepsSequence, Zenon
    <3>3. DOMAIN rs = 1..p.size
      BY <2>1, <3>1, SequenceFacts, Zenon
    <3>4. new[i] = h /\ \A j \in 1..p.size : j # i => new[j] = rs[j]
      BY <3>3, Zenon
    <3> QED  BY <2>1, <3>2, <3>4, Zenon
  <2> HIDE DEF new
  <2>5. \A j \in 1..p.size : IsReporter(new[j]) /\ (new[j].verdict = AllPassed => MayPass(p.event))
    BY <2>3, <2>4, Zenon DEF ForwardGood
  <2> QED  BY <2>2, <2>4, <2>5, Zenon DEF ForwardGood
<1> QED  BY <1>1, <1>2

\* After an event there are as many reporters as before, and one that says that
\* all tests passed was told so by the event.
LEMMA ReportersAreTold ==
    ASSUME NEW rs, Sound(rs), Silent(rs), NEW e, NEW c,
           NEW new, new = MultipleReporters(rs, e, c)
    PROVE  /\ Sound(new) /\ Len(new) = Len(rs)
           /\ \A i \in DOMAIN new : new[i].verdict = AllPassed => MayPass(e)
<1> DEFINE p == [event |-> e, config |-> c, size |-> Len(rs)]
           places == [i \in 1..Len(rs) |-> i]
<1>1. Len(rs) \in Nat /\ DOMAIN rs = 1..Len(rs)
  BY SequenceFacts DEF Sound
<1>2. places \in Seq(Nat) /\ Len(places) = Len(rs)
  BY <1>1
<1>3. p.event = e /\ p.config = c /\ p.size = Len(rs)
  BY Zenon
<1> HIDE DEF p
<1>4. ForwardGood(p, rs)
  BY <1>1, <1>3, Zenon DEF ForwardGood, Sound, Silent
<1>5. \A u : \A k \in 1..Len(places) : ForwardGood(p, u) => ForwardGood(p, ForwardStep(p, u, places[k]))
  <2> SUFFICES ASSUME NEW u, NEW k \in 1..Len(places), ForwardGood(p, u)
               PROVE  ForwardGood(p, ForwardStep(p, u, places[k]))
    BY Zenon
  <2>1. places[k] \in 1..p.size
    BY <1>2, <1>3
  <2> QED  BY <2>1, ForwardKeeps, Zenon
<1>6. new = Forwards!Folded(p, rs, places)
  <2>1. new = MultipleReporters(rs, p.event, p.config)
    BY <1>3, Zenon
  <2>2. MultipleReporters(rs, p.event, p.config) = Forwards!Folded(p, rs, places)
    BY Zenon DEF MultipleReporters, FoldDomain, Forwards!Folded, Forwards!Fold, Fold, ForwardStep
  <2> QED  BY <2>1, <2>2, Zenon
<1> HIDE DEF places
<1>7. ForwardGood(p, new)
  BY <1>1, <1>2, <1>4, <1>5, <1>6, Forwards!FoldKeeps
<1> QED  BY <1>3, <1>7, SequenceFacts, Zenon DEF ForwardGood, Sound

-----------------------------------------------------------------------------
\* Catch's Counts and Totals.
CountsType == [passed : Nat, failed : Nat, failedButOk : Nat]
TotalsType == [assertions : CountsType, testCases : CountsType]

\* What is needed of a context: its counts are numbers, the sections left open are
\* a sequence, the reporters are reporters.
IsContext(c) ==
    /\ "totals" \in DOMAIN c /\ c.totals \in TotalsType
    /\ "failing" \in DOMAIN c /\ c.failing \in Nat
    /\ "missing" \in DOMAIN c /\ c.missing \in Nat
    /\ "unfinished" \in DOMAIN c /\ IsSequence(c.unfinished)
    /\ "reporters" \in DOMAIN c /\ Sound(c.reporters)

\* The run goes on: no reporter has seen its end.
Running(c) == IsContext(c) /\ Silent(c.reporters)

\* The same has been counted.
Alike(c, d) == d.totals = c.totals /\ d.failing = c.failing /\ d.missing = c.missing

\* RunContext hands an event to the reporters and counts nothing.
LEMMA ReportTells ==
    ASSUME NEW c, Running(c), NEW e, NEW d, d = Report(c, e)
    PROVE  /\ IsContext(d) /\ Alike(c, d)
           /\ \A i \in DOMAIN d.reporters : d.reporters[i].verdict = AllPassed => MayPass(e)
<1>1. /\ d.totals = c.totals /\ d.failing = c.failing /\ d.missing = c.missing
      /\ d.unfinished = c.unfinished /\ d.reporters = MultipleReporters(c.reporters, e, config)
      /\ DOMAIN d = DOMAIN c
  BY Zenon DEF Report, Running, IsContext
<1>2. Sound(d.reporters) /\ \A i \in DOMAIN d.reporters : d.reporters[i].verdict = AllPassed => MayPass(e)
  BY <1>1, ReportersAreTold, Zenon DEF Running, IsContext
<1> QED  BY <1>1, <1>2, Zenon DEF Running, IsContext, Alike

\* An event before the end of the run leaves everybody silent.
LEMMA ReportKeeps ==
    ASSUME NEW c, Running(c), NEW e, e.type # "testRunEnded", NEW d, d = Report(c, e)
    PROVE  Running(d) /\ Alike(c, d)
BY ReportTells, Zenon DEF MayPass, Silent, Running

\* Fields that nothing is counted in.
LEMMA OtherFields ==
    ASSUME NEW c, Running(c), NEW d, DOMAIN d = DOMAIN c, Alike(c, d),
           d.reporters = c.reporters, IsSequence(d.unfinished)
    PROVE  Running(d)
BY Zenon DEF Running, IsContext, Alike

\* The counts of a context are numbers.
LEMMA CountsFacts ==
    ASSUME NEW c, IsContext(c)
    PROVE  /\ c.totals.assertions.failed \in Nat /\ c.totals.assertions.failedButOk \in Nat
           /\ c.totals.testCases.failed \in Nat /\ c.failing \in Nat /\ c.missing \in Nat
BY DEF IsContext, TotalsType, CountsType

\* An assertion is counted as failed, or not at all.
AssertionCounted(c, result, d) ==
    /\ Running(d) /\ d.missing = c.missing /\ d.totals.testCases = c.totals.testCases
    /\ d.totals.assertions.failedButOk = c.totals.assertions.failedButOk
    /\ \/ /\ isOk(result)
          /\ d.totals.assertions.failed = c.totals.assertions.failed /\ d.failing = c.failing
       \/ /\ ~ isOk(result)
          /\ d.totals.assertions.failed = c.totals.assertions.failed + 1 /\ d.failing = c.failing + 1

\* RunContext::assertionEnded counts a failure exactly when the reporters are told
\* of one.
LEMMA AssertionCounts ==
    ASSUME NEW c, Running(c), NEW result, NEW d, d = assertionEnded(c, result)
    PROVE  AssertionCounted(c, result, d)
<1> DEFINE a == c.totals.assertions
           b == CountResult(a, result)
           counted == [c EXCEPT !.totals.assertions = b,
                                !.failing    = IF isOk(result) THEN @ ELSE @ + 1,
                                !.suppressed = IF isOk(result) /\ ~IsOkResult(result.type) THEN @ + 1 ELSE @]
           e == [type |-> "assertionEnded", result |-> result, messages |-> c.messages, totals |-> counted.totals]
           told == Report(counted, e)
<1>1. a \in CountsType /\ c.totals \in TotalsType
  BY DEF Running, IsContext, TotalsType
<1>2. result.type = "Ok" => isOk(result)
  BY Zenon DEF isOk, IsOkResult
<1>3. /\ b \in CountsType /\ b.failedButOk = a.failedButOk
      /\ isOk(result) => b.failed = a.failed
      /\ ~ isOk(result) => b.failed = a.failed + 1
  <2>1. CASE result.type = "Ok"
    <3>1. b = [a EXCEPT !.passed = @ + 1] /\ isOk(result)
      BY <1>2, <2>1, Zenon DEF CountResult
    <3> HIDE DEF b
    <3> QED  BY <1>1, <3>1 DEF CountsType
  <2>2. CASE ~ isOk(result)
    <3>1. b = [a EXCEPT !.failed = @ + 1]
      BY <1>2, <2>2, Zenon DEF CountResult
    <3> HIDE DEF b
    <3> QED  BY <1>1, <2>2, <3>1 DEF CountsType
  <2>3. CASE result.type # "Ok" /\ isOk(result)
    <3>1. b = a
      BY <2>3, Zenon DEF CountResult
    <3> HIDE DEF b
    <3> QED  BY <1>1, <2>3, <3>1
  <2> QED  BY <2>1, <2>2, <2>3, Zenon
<1> HIDE DEF b
<1>4. /\ DOMAIN counted = DOMAIN c /\ counted.totals = [c.totals EXCEPT !.assertions = b]
      /\ counted.failing = (IF isOk(result) THEN c.failing ELSE c.failing + 1)
      /\ counted.missing = c.missing /\ counted.unfinished = c.unfinished /\ counted.reporters = c.reporters
  BY Zenon DEF Running, IsContext
<1>5. d = [told EXCEPT !.messages = IF ClearsMessages(c.reporters, result, config) THEN 0 ELSE @]
  BY Zenon DEF assertionEnded, b
<1> HIDE DEF counted
<1>6. /\ counted.totals \in TotalsType /\ counted.totals.assertions = b
      /\ counted.totals.testCases = c.totals.testCases
  BY <1>1, <1>3, <1>4 DEF TotalsType
<1>7. counted.failing \in Nat
  <2>1. c.failing \in Nat
    BY Zenon DEF Running, IsContext
  <2> QED  BY <1>4, <2>1
<1>8. Running(counted)
  BY <1>4, <1>6, <1>7, Zenon DEF Running, IsContext
<1>9. e.type # "testRunEnded"
  BY Zenon
<1> HIDE DEF e
<1>10. Running(told) /\ Alike(counted, told)
  BY <1>8, <1>9, ReportKeeps, Zenon
<1> HIDE DEF told
<1>11. /\ DOMAIN d = DOMAIN told /\ d.totals = told.totals /\ d.failing = told.failing /\ d.missing = told.missing
       /\ d.unfinished = told.unfinished /\ d.reporters = told.reporters
  BY <1>5, <1>10, Zenon DEF Running, IsContext
<1>12. Running(d)
  BY <1>10, <1>11, OtherFields, Zenon DEF Running, IsContext, Alike
<1>13. /\ d.totals.assertions = b /\ d.totals.testCases = c.totals.testCases /\ d.missing = c.missing
       /\ d.failing = (IF isOk(result) THEN c.failing ELSE c.failing + 1)
  BY <1>4, <1>6, <1>10, <1>11, Zenon DEF Alike
<1> QED  BY <1>3, <1>12, <1>13, Zenon DEF AssertionCounted

\* Nothing was counted from c to d but missing assertions, each of them once as a
\* failure; without the warning about them, nothing.
Grown(c, d) ==
    /\ Running(d)
    /\ d.totals.testCases = c.totals.testCases
    /\ d.totals.assertions.failedButOk = c.totals.assertions.failedButOk
    /\ d.failing = c.failing
    /\ d.missing >= c.missing
    /\ d.totals.assertions.failed - c.totals.assertions.failed = d.missing - c.missing
    /\ "NoAssertions" \notin config.warnings => d.missing = c.missing

\* One after the other they are such a growth too.
LEMMA GrownIsTransitive ==
    ASSUME NEW b, Running(b), NEW c, Grown(b, c), NEW d, Grown(c, d)
    PROVE  Grown(b, d)
<1>1. /\ b.totals.assertions.failed \in Nat /\ c.totals.assertions.failed \in Nat
      /\ d.totals.assertions.failed \in Nat
      /\ b.missing \in Nat /\ c.missing \in Nat /\ d.missing \in Nat
  BY CountsFacts, Zenon DEF Running, Grown
<1> QED  BY <1>1 DEF Grown

\* Where nothing was counted nothing was missing.
LEMMA AlikeIsGrown ==
    ASSUME NEW c, Running(c), NEW d, Running(d), Alike(c, d)
    PROVE  Grown(c, d)
<1>1. c.totals.assertions.failed \in Nat /\ c.missing \in Nat
  BY CountsFacts, Zenon DEF Running
<1> QED  BY <1>1 DEF Grown, Alike

\* A sequence with one more element.
LEMMA AppendKeepsSequence ==
    ASSUME NEW s, IsSequence(s), NEW v
    PROVE  IsSequence(Append(s, v))
<1> DEFINE S == {s[j] : j \in DOMAIN s}
<1>1. s \in Seq(S)
  BY DEF IsSequence
<1> HIDE DEF S
<1>2. s \in Seq(S \cup {v})
  BY <1>1, SeqMonotonic
<1> QED  BY <1>2, AppendProperties, SequenceOfAny

\* A section without assertions is one failure more, if the user asked for the warning.
LEMMA MissingGrows ==
    ASSUME NEW c, Running(c), NEW a, NEW d, d = testForMissingAssertions(c, a)
    PROVE  Grown(c, d)
<1>1. CASE ~ MissingAssertions(c, a)
  BY <1>1, AlikeIsGrown, Zenon DEF testForMissingAssertions, Alike
<1>2. CASE MissingAssertions(c, a)
  <2>1. "NoAssertions" \in config.warnings
    BY <1>2 DEF MissingAssertions
  <2>2. d = [c EXCEPT !.totals.assertions.failed = @ + 1, !.missing = @ + 1]
    BY <1>2, Zenon DEF testForMissingAssertions
  <2>3. /\ DOMAIN d = DOMAIN c /\ d.totals = [c.totals EXCEPT !.assertions.failed = @ + 1]
        /\ d.missing = c.missing + 1 /\ d.failing = c.failing
        /\ d.unfinished = c.unfinished /\ d.reporters = c.reporters
    BY <2>2, Zenon DEF Running, IsContext
  <2>4. c.totals \in TotalsType /\ c.missing \in Nat /\ c.failing \in Nat
    BY Zenon DEF Running, IsContext
  <2>5. /\ d.totals \in TotalsType /\ d.totals.testCases = c.totals.testCases
        /\ d.totals.assertions.failed = c.totals.assertions.failed + 1
        /\ d.totals.assertions.failedButOk = c.totals.assertions.failedButOk
        /\ c.totals.assertions.failed \in Nat
    BY <2>3, <2>4 DEF TotalsType, CountsType
  <2>6. d.missing \in Nat
    BY <2>3, <2>4
  <2>7. Running(d)
    BY <2>3, <2>5, <2>6, Zenon DEF Running, IsContext
  <2> QED  BY <2>1, <2>3, <2>4, <2>5, <2>7 DEF Grown
<1> QED  BY <1>1, <1>2

\* RunContext::sectionEnded counts nothing but a missing assertion.
LEMMA SectionEndedGrows ==
    ASSUME NEW c, Running(c), NEW ended, NEW d, d = sectionEnded(c, ended)
    PROVE  Grown(c, d)
<1> DEFINE assertions == Minus(c.totals.assertions, ended.prev)
           counted == testForMissingAssertions(c, assertions)
           closed  == IF c.active = << >> THEN counted
                      ELSE [counted EXCEPT !.tracker = close(@, Last(c.active)), !.active = Front(@)]
           e == [type |-> "sectionEnded", missing |-> MissingAssertions(c, assertions)]
           told == Report(closed, e)
<1>1. Grown(c, counted) /\ Running(counted)
  <2>1. Grown(c, counted)
    BY MissingGrows, Zenon
  <2> HIDE DEF counted
  <2> QED  BY <2>1, Zenon DEF Grown
<1>2. d = [told EXCEPT !.messages = 0]
  BY Zenon DEF sectionEnded
<1>3. e.type # "testRunEnded"
  BY Zenon
<1> HIDE DEF counted, e
<1>4. /\ DOMAIN closed = DOMAIN counted /\ Alike(counted, closed)
      /\ closed.reporters = counted.reporters /\ closed.unfinished = counted.unfinished
  BY <1>1, Zenon DEF Running, IsContext, Alike
<1> HIDE DEF closed
<1>5. Running(closed)
  BY <1>1, <1>4, OtherFields, Zenon DEF Running, IsContext
<1>6. Running(told) /\ Alike(closed, told)
  BY <1>3, <1>5, ReportKeeps, Zenon
<1> HIDE DEF told
<1>7. /\ DOMAIN d = DOMAIN told /\ Alike(told, d)
      /\ d.reporters = told.reporters /\ d.unfinished = told.unfinished
  BY <1>2, <1>6, Zenon DEF Running, IsContext, Alike
<1>8. Running(d) /\ Alike(counted, d)
  BY <1>4, <1>6, <1>7, OtherFields, Zenon DEF Running, IsContext, Alike
<1> QED  BY <1>1, <1>8, AlikeIsGrown, GrownIsTransitive, Zenon

\* RunContext::sectionEndedEarly, on the way of an exception, counts nothing at all.
LEMMA SectionEndedEarlyKeeps ==
    ASSUME NEW c, Running(c), NEW ended, NEW d, d = sectionEndedEarly(c, ended)
    PROVE  Running(d) /\ Alike(c, d)
<1>1. /\ DOMAIN d = DOMAIN c /\ Alike(c, d) /\ d.reporters = c.reporters
      /\ d.unfinished = Append(c.unfinished, ended)
  BY Zenon DEF sectionEndedEarly, Running, IsContext, Alike
<1>2. IsSequence(d.unfinished)
  BY <1>1, AppendKeepsSequence, Zenon DEF Running, IsContext
<1> QED  BY <1>1, <1>2, OtherFields, Zenon

\* The fold over the sections that an exception left, over the context before it.
UnfinishedStep(p, c, ended) == sectionEnded(c, ended)

Unfinished == INSTANCE FoldInvariant WITH step <- UnfinishedStep, Good <- Grown

\* Nor does the end of all the sections left open, however many there are.
LEMMA UnfinishedGrow ==
    ASSUME NEW c, Running(c), NEW d, d = handleUnfinishedSections(c)
    PROVE  Grown(c, d)
<1> DEFINE sections == Reverse(c.unfinished)
           told == Unfinished!Folded(c, c, sections)
<1>1. Len(sections) \in Nat
  <2>1. Len(c.unfinished) \in Nat
    BY SequenceFacts DEF Running, IsContext
  <2> QED  BY <2>1 DEF Reverse
<1>2. Fold(sectionEnded, c, sections) = told
  BY Zenon DEF Unfinished!Folded, Unfinished!Fold, Fold, UnfinishedStep
<1> HIDE DEF sections
<1>3. Grown(c, c)
  BY AlikeIsGrown, Zenon DEF Alike
<1>4. \A u : \A k \in 1..Len(sections) : Grown(c, u) => Grown(c, UnfinishedStep(c, u, sections[k]))
  <2> SUFFICES ASSUME NEW u, NEW k \in 1..Len(sections), Grown(c, u)
               PROVE  Grown(c, sectionEnded(u, sections[k]))
    BY Zenon DEF UnfinishedStep
  <2>1. Running(u)
    BY Zenon DEF Grown
  <2>2. Grown(u, sectionEnded(u, sections[k]))
    BY <2>1, SectionEndedGrows, Zenon
  <2> QED  BY <2>2, GrownIsTransitive, Zenon
<1>5. Grown(c, told)
  BY <1>1, <1>3, <1>4, Unfinished!FoldKeeps
<1>6. d = [told EXCEPT !.unfinished = << >>]
  BY <1>2, Zenon DEF handleUnfinishedSections, sections
<1> HIDE DEF told
<1>7. /\ DOMAIN d = DOMAIN told /\ Alike(told, d) /\ d.reporters = told.reporters
      /\ d.unfinished = << >>
  BY <1>5, <1>6, Zenon DEF Grown, Running, IsContext, Alike
<1>8. IsSequence(<< >>)
  BY EmptySeq, SequenceOfAny
<1>9. Running(d) /\ Running(told)
  BY <1>5, <1>7, <1>8, OtherFields, Zenon DEF Grown
<1> QED  BY <1>5, <1>7, <1>9, AlikeIsGrown, GrownIsTransitive, Zenon

-----------------------------------------------------------------------------
(***************************************************************************)
(* The configuration that a command line leaves.                           *)
(***************************************************************************)
\* What is needed of it: the limit is a number, the reporters' names are a sequence.
IsConfig(c) ==
    /\ "abortAfter" \in DOMAIN c /\ c.abortAfter \in Nat
    /\ "reporterNames" \in DOMAIN c /\ IsSequence(c.reporterNames)

\* A field of the configuration that neither of these two depends on.
LEMMA OtherSetting ==
    ASSUME NEW c, IsConfig(c), NEW f, f # "abortAfter", f # "reporterNames", NEW v
    PROVE  IsConfig([c EXCEPT ![f] = v])
BY Zenon DEF IsConfig

\* A mistake on the command line leaves limit and names.
LEMMA WrongIsConfig ==
    ASSUME NEW c, IsConfig(c)
    PROVE  IsConfig(Wrong(c))
BY Zenon DEF IsConfig, Wrong

\* The fold over the lines of a file of test names.
LineStep(p, c, raw) == addLine(c, raw)
LineGood(p, c)      == IsConfig(c)

Lines == INSTANCE FoldInvariant WITH step <- LineStep, Good <- LineGood

\* A file of test names, whatever its lines, leaves limit and names.
LEMMA FileIsConfig ==
    ASSUME NEW c, IsConfig(c), NEW name
    PROVE  IsConfig(loadTestNamesFromFile(c, name))
<1>1. CASE name \notin DOMAIN Files
  BY <1>1, WrongIsConfig, Zenon DEF loadTestNamesFromFile
<1>2. CASE name \in DOMAIN Files
  <2> DEFINE lines == Files[name]
  <2>1. lines \in Seq(Seq(STRING))
    BY <1>2, CommandLineAssumption DEF CommandLineAssumption
  <2> HIDE DEF lines
  <2>2. Len(lines) \in Nat
    BY <2>1
  <2>3. \A u, raw : IsConfig(u) => IsConfig(addLine(u, raw))
    BY Zenon DEF addLine, addTestOrTags, IsConfig
  <2>4. LineGood(0, Lines!Folded(0, c, lines))
    BY <2>2, <2>3, Lines!FoldKeeps DEF LineGood, LineStep
  <2>5. Lines!Folded(0, c, lines) = Fold(addLine, c, lines)
    BY Zenon DEF Lines!Folded, Lines!Fold, Fold, LineStep
  <2> QED  BY <1>2, <2>4, <2>5, Zenon DEF LineGood, loadTestNamesFromFile, lines
<1> QED  BY <1>1, <1>2

\* What every option sets.
LEMMA OptionFields ==
    ASSUME NEW o \in Options
    PROVE  o.sets # "abortAfter" /\ o.sets # "reporterNames"
<1>1. \A s, l, f : Flag(s, l, f).sets = f /\ Valued(s, l, f).sets = f
  BY Zenon DEF Flag, Valued
<1>2. PICK s, l, f : /\ o = Flag(s, l, f) \/ o = Valued(s, l, f)
                     /\ f # "abortAfter" /\ f # "reporterNames"
  BY Zenon DEF Options
<1>3. o.sets = f
  BY <1>1, <1>2
<1> QED  BY <1>2, <1>3

\* Every option leaves a number as the limit and a sequence as the names.
LEMMA SetOptionIsConfig ==
    ASSUME NEW c, IsConfig(c), NEW sets, sets # "abortAfter", sets # "reporterNames", NEW value
    PROVE  IsConfig(SetOption(c, sets, value))
<1>1. CASE sets = "abort"
  <2>1. SetOption(c, sets, value) = [c EXCEPT !.abortAfter = 1]
    BY <1>1, Zenon DEF SetOption
  <2>2. 1 \in Nat
    OBVIOUS
  <2> QED  BY <2>1, <2>2, Zenon DEF IsConfig
<1>2. CASE sets = "reporter"
  <2>1. SetOption(c, sets, value) = [c EXCEPT !.reporterNames = Append(@, value)]
    BY <1>2, Zenon DEF SetOption, addReporterName
  <2>2. IsSequence(Append(c.reporterNames, value))
    BY AppendKeepsSequence DEF IsConfig
  <2> QED  BY <2>1, <2>2, Zenon DEF IsConfig
<1>3. CASE sets = "abortx"
  <2>1. SetOption(c, sets, value) = abortAfterX(c, value)
    BY <1>3, Zenon DEF SetOption
  <2>2. CASE value \in DOMAIN Number /\ Number[value] >= 1
    <3>1. Number[value] \in Nat
      BY <2>2, CommandLineAssumption DEF CommandLineAssumption
    <3> QED  BY <2>1, <2>2, <3>1, Zenon DEF abortAfterX, IsConfig
  <2>3. CASE ~ (value \in DOMAIN Number /\ Number[value] >= 1)
    BY <2>1, <2>3, WrongIsConfig, Zenon DEF abortAfterX
  <2> QED  BY <2>2, <2>3
<1>4. CASE sets = "inputFile"
  <2>1. SetOption(c, sets, value) = loadTestNamesFromFile(c, value)
    BY <1>4, Zenon DEF SetOption
  <2> QED  BY <2>1, FileIsConfig, Zenon
<1>5. CASE sets = "forceColour"
  BY <1>5, OtherSetting, Zenon DEF SetOption
<1>6. CASE sets = "warn"
  BY <1>6, WrongIsConfig, Zenon DEF SetOption, addWarning, IsConfig
<1>7. CASE sets = "durations"
  BY <1>7, WrongIsConfig, Zenon DEF SetOption, setShowDurations, IsConfig
<1>8. CASE sets = "order"
  BY <1>8, WrongIsConfig, Zenon DEF SetOption, setOrder, IsConfig
<1>9. CASE sets = "rngSeed"
  BY <1>9, WrongIsConfig, Zenon DEF SetOption, setRngSeed, IsConfig
<1>10. CASE sets = "useColour"
  BY <1>10, WrongIsConfig, Zenon DEF SetOption, setUseColour, IsConfig
<1>11. CASE /\ sets # "abort" /\ sets # "reporter" /\ sets # "abortx" /\ sets # "inputFile"
            /\ sets # "forceColour" /\ sets # "warn" /\ sets # "durations" /\ sets # "order"
            /\ sets # "rngSeed" /\ sets # "useColour"
  <2>1. SetOption(c, sets, value) \in {[c EXCEPT ![sets] = value], [c EXCEPT ![sets] = TRUE]}
    BY <1>11, Zenon DEF SetOption
  <2>2. \A v : IsConfig([c EXCEPT ![sets] = v])
    BY Zenon DEF IsConfig
  <2> QED  BY <2>1, <2>2, Zenon
<1> QED  BY <1>1, <1>2, <1>3, <1>4, <1>5, <1>6, <1>7, <1>8, <1>9, <1>10, <1>11

-----------------------------------------------------------------------------
(***************************************************************************)
(* Clara's parser: whatever the arguments are, the tokens are a sequence.  *)
(***************************************************************************)
Modes == {"None", "MaybeShortOpt", "ShortOpt", "LongOpt", "Positional"}

\* What is needed of the parser: its mode, and sequences of tokens.
IsParser(st) ==
    /\ "mode" \in DOMAIN st /\ st.mode \in Modes
    /\ "from" \in DOMAIN st /\ st.from \in Int
    /\ "tokens" \in DOMAIN st /\ IsSequence(st.tokens)
    /\ "inQuotes" \in DOMAIN st /\ "error" \in DOMAIN st

\* Two sequences one after the other.
LEMMA ConcatKeepsSequence ==
    ASSUME NEW s, IsSequence(s), NEW t, IsSequence(t)
    PROVE  IsSequence(s \o t)
<1> DEFINE S == {s[j] : j \in DOMAIN s}
           T == {t[j] : j \in DOMAIN t}
<1>1. s \in Seq(S) /\ t \in Seq(T)
  BY DEF IsSequence
<1> HIDE DEF S, T
<1>2. s \in Seq(S \cup T) /\ t \in Seq(S \cup T)
  BY <1>1, SeqMonotonic
<1>3. s \o t \in Seq(S \cup T)
  BY <1>2, ConcatProperties
<1> QED  BY <1>3, SequenceOfAny

\* A stretch of anything, by whole numbers.
LEMMA StretchIsSequence ==
    ASSUME NEW s, NEW m \in Int, NEW n \in Int
    PROVE  IsSequence(SubSeq(s, m, n))
<1> DEFINE S == {s[j] : j \in m..n}
<1>1. \A j \in m..n : s[j] \in S
  OBVIOUS
<1> HIDE DEF S
<1>2. SubSeq(s, m, n) \in Seq(S)
  BY <1>1, SubSeqProperties
<1> QED  BY <1>2, SequenceOfAny

\* A function on the first numbers.
LEMMA FunctionIsSequence ==
    ASSUME NEW n \in Nat, NEW f, f = [j \in 1..n |-> f[j]]
    PROVE  IsSequence(f) /\ Len(f) = n
<1> DEFINE S == {f[j] : j \in 1..n}
<1>1. \A j \in 1..n : f[j] \in S
  OBVIOUS
<1> HIDE DEF S
<1>2. f \in Seq(S) /\ Len(f) = n
  BY <1>1
<1> QED  BY <1>2, SequenceOfAny

\* The tokens made of one option are a sequence.
LEMMA OptTokensAreSequence ==
    ASSUME NEW mode, NEW optName, IsSequence(optName)
    PROVE  IsSequence(OptTokens(mode, optName))
<1>1. Len(optName) \in Nat
  BY SequenceFacts
<1>2. CASE mode = "ShortOpt"
  <2> DEFINE f == [j \in 1..Len(optName) |-> [type |-> "ShortOpt", data |-> <<optName[j]>>]]
  <2>1. OptTokens(mode, optName) = f
    BY <1>2, Zenon DEF OptTokens
  <2>2. f = [j \in 1..Len(optName) |-> f[j]]
    BY Zenon
  <2> HIDE DEF f
  <2>3. IsSequence(f)
    BY <1>1, <2>2, FunctionIsSequence
  <2> QED  BY <2>1, <2>3, Zenon
<1>3. CASE mode # "ShortOpt"
  <2> DEFINE token == [type |-> "LongOpt", data |-> optName]
  <2>1. OptTokens(mode, optName) = <<token>>
    BY <1>3, Zenon DEF OptTokens
  <2> HIDE DEF token
  <2>2. <<token>> \in Seq({token})
    OBVIOUS
  <2> QED  BY <2>1, <2>2, SequenceOfAny
<1> QED  BY <1>2, <1>3

\* The character changes nothing of the parser but what it is.
LEMMA HandleModeIsParser ==
    ASSUME NEW st, IsParser(st), NEW arg, Len(arg) \in Nat, NEW i \in Int, NEW c
    PROVE  IsParser(handleMode(st, i, c, arg))
<1> DEFINE quoted == IF c = "\"" THEN [st EXCEPT !.inQuotes = ~@] ELSE st
           new == handleMode(st, i, c, arg)
           text == Substr(arg, quoted.from, i)
<1>1. IsParser(quoted) /\ quoted.mode = st.mode
  BY Zenon DEF IsParser
<1>2. i + 1 \in Int
  OBVIOUS
<1>3. IsSequence(text)
  <2>1. quoted.from \in Int
    BY <1>1 DEF IsParser
  <2> HIDE DEF quoted
  <2>2. (IF i >= quoted.from THEN i - 1 ELSE Len(arg)) \in Int
    BY <2>1
  <2> QED  BY <2>1, <2>2, StretchIsSequence, Zenon DEF Substr
<1>4. IsSequence(quoted.tokens \o OptTokens(quoted.mode, text))
  BY <1>1, <1>3, OptTokensAreSequence, ConcatKeepsSequence, Zenon DEF IsParser
<1>5. IsSequence(Append(quoted.tokens, [type |-> "Positional", data |-> text]))
  BY <1>1, AppendKeepsSequence, Zenon DEF IsParser
<1>6. "None" \in Modes /\ "MaybeShortOpt" \in Modes /\ "ShortOpt" \in Modes /\ "LongOpt" \in Modes
      /\ "Positional" \in Modes
  BY Zenon DEF Modes
<1>7. /\ new = st \/ new = handleNone(quoted, i, c) \/ new = handleMaybeShortOpt(quoted, i, c)
         \/ new = handleOpt(quoted, i, c, arg) \/ new = handlePositional(quoted, i, c, arg)
  <2>1. /\ \/ st.mode = "None" \/ st.mode = "MaybeShortOpt" \/ st.mode \in {"ShortOpt", "LongOpt"}
           \/ st.mode = "Positional"
    BY Zenon DEF IsParser, Modes
  <2> QED  BY <2>1, Zenon DEF handleMode
<1> HIDE DEF quoted, new
<1>8. IsParser(handleNone(quoted, i, c))
  BY <1>1, <1>6, Zenon DEF IsParser, handleNone
<1>9. IsParser(handleMaybeShortOpt(quoted, i, c))
  BY <1>1, <1>2, <1>6, Zenon DEF IsParser, handleMaybeShortOpt
<1>10. IsParser(handleOpt(quoted, i, c, arg))
  BY <1>1, <1>4, <1>6, Zenon DEF IsParser, handleOpt
<1>11. IsParser(handlePositional(quoted, i, c, arg))
  BY <1>1, <1>5, <1>6, Zenon DEF IsParser, handlePositional
<1> QED  BY <1>7, <1>8, <1>9, <1>10, <1>11, Zenon DEF new

\* The fold over the characters of an argument.
CharStep(p, st, i) == handleMode(st, i, Append(p, "NUL")[i], p)
ParserGood(p, st)  == IsParser(st)

Chars == INSTANCE FoldInvariant WITH step <- CharStep, Good <- ParserGood

\* An argument of any length leaves a parser.
LEMMA ParseArgIsParser ==
    ASSUME NEW st, IsParser(st), NEW arg, IsSequence(arg)
    PROVE  IsParser(parseArg(st, arg))
<1> DEFINE places == [i \in 1..Len(Append(arg, "NUL")) |-> i]
<1>1. Len(arg) \in Nat /\ Len(Append(arg, "NUL")) \in Nat
  BY SequenceFacts, AppendKeepsSequence
<1>2. places \in Seq(Int) /\ Len(places) \in Nat /\ \A k \in 1..Len(places) : places[k] \in Int
  BY <1>1
<1>3. parseArg(st, arg) = Chars!Folded(arg, st, places)
  BY Zenon DEF parseArg, FoldDomain, Chars!Folded, Chars!Fold, Fold, CharStep
<1> HIDE DEF places
<1>4. \A u : \A k \in 1..Len(places) : ParserGood(arg, u) => ParserGood(arg, CharStep(arg, u, places[k]))
  BY <1>1, <1>2, HandleModeIsParser, Zenon DEF ParserGood, CharStep
<1>5. ParserGood(arg, st)
  BY Zenon DEF ParserGood
<1>6. ParserGood(arg, Chars!Folded(arg, st, places))
  BY <1>2, <1>4, <1>5, Chars!FoldKeeps
<1> QED  BY <1>3, <1>6, Zenon DEF ParserGood

\* The fold over the arguments.
ArgStep(p, st, arg) == parseArg(st, arg)

Args == INSTANCE FoldInvariant WITH step <- ArgStep, Good <- ParserGood

\* The least of some numbers is one of them.
LEMMA MinIsMember ==
    ASSUME NEW S \in SUBSET Nat, S # {}
    PROVE  Min(S) \in S
<1> DEFINE less == OpToRel(<, Nat)
<1>1. IsWellFoundedOn(less, Nat)
  BY NatLessThanWellFounded
<1>2. \A x, y \in Nat : <<y, x>> \in less <=> y < x
  BY DEF OpToRel
<1> HIDE DEF less
<1>3. PICK x \in S : \A y \in S : ~ (<<y, x>> \in less)
  BY <1>1, WFMin
<1>4. \A y \in S : ~ (y < x)
  BY <1>2, <1>3, Zenon
<1>5. \A y \in S : y \in Nat /\ x \in Nat
  OBVIOUS
<1>6. \A y \in S : x <= y
  BY <1>4, <1>5
<1> QED  BY <1>6, Zenon DEF Min

\* Arguments of any number leave a sequence of tokens.
LEMMA TokensAreSequence ==
    ASSUME NEW args \in Seq(Seq(STRING))
    PROVE  IsSequence(parseIntoTokens(args).tokens)
<1> DEFINE End  == {i \in 2..Len(args) : args[i] = <<"-", "-">>}
           last == IF End = {} THEN Len(args) ELSE Min(End) - 1
           read == SubSeq(args, 2, last)
<1>1. Len(args) \in Nat
  OBVIOUS
<1>2. last \in Int /\ last <= Len(args)
  <2>1. CASE End = {}
    BY <1>1, <2>1
  <2>2. CASE End # {}
    <3>1. End \in SUBSET Nat
      OBVIOUS
    <3>2. Min(End) \in End
      BY <2>2, <3>1, MinIsMember
    <3>3. Min(End) \in 2..Len(args)
      BY <3>2
    <3> HIDE DEF End
    <3> QED  BY <1>1, <2>2, <3>3
  <2> QED  BY <2>1, <2>2
<1>3. parseIntoTokens(args) = Fold(parseArg, TokenParser, read)
  BY Zenon DEF parseIntoTokens
<1> HIDE DEF last
<1>4. \A j \in 2..last : args[j] \in Seq(STRING)
  BY <1>1, <1>2
<1>5. read \in Seq(Seq(STRING))
  BY <1>2, <1>4, SubSeqProperties
<1> HIDE DEF read
<1>6. Len(read) \in Nat /\ \A k \in 1..Len(read) : read[k] \in Seq(STRING)
  BY <1>5
<1>7. Fold(parseArg, TokenParser, read) = Args!Folded(0, TokenParser, read)
  BY Zenon DEF Args!Folded, Args!Fold, Fold, ArgStep
<1>8. ParserGood(0, TokenParser)
  <2>1. IsSequence(<< >>)
    BY EmptySeq, SequenceOfAny
  <2>2. "None" \in Modes /\ 1 \in Int
    BY DEF Modes
  <2> QED  BY <2>1, <2>2, Zenon DEF ParserGood, IsParser, TokenParser
<1>9. \A u : \A k \in 1..Len(read) : ParserGood(0, u) => ParserGood(0, ArgStep(0, u, read[k]))
  <2>1. \A k \in 1..Len(read) : IsSequence(read[k])
    BY <1>6, SequenceOfAny
  <2> QED  BY <2>1, ParseArgIsParser, Zenon DEF ParserGood, ArgStep
<1>10. ParserGood(0, Args!Folded(0, TokenParser, read))
  BY <1>6, <1>8, <1>9, Args!FoldKeeps
<1> QED  BY <1>3, <1>7, <1>10, Zenon DEF ParserGood, IsParser

-----------------------------------------------------------------------------
\* The fold over the tokens that sets the options.
OptionStep(p, st, i) == populateOption(p, st, i)

\* A configuration, and the tokens that were no options.
OptionGood(p, st) ==
    /\ "config" \in DOMAIN st /\ IsConfig(st.config)
    /\ "unused" \in DOMAIN st /\ IsSequence(st.unused)
    /\ "skip" \in DOMAIN st

OptionsSet == INSTANCE FoldInvariant WITH step <- OptionStep, Good <- OptionGood

\* One token, be it an option, its value or something else, leaves a configuration.
LEMMA OptionKeeps ==
    ASSUME NEW tokens, NEW st, OptionGood(tokens, st), NEW i
    PROVE  OptionGood(tokens, populateOption(tokens, st, i))
<1> DEFINE token == tokens[i]
           known == {o \in Options : Named(token, o)}
           opt   == CHOOSE o \in known : TRUE
           value == tokens[i + 1].data
           new   == populateOption(tokens, st, i)
<1>1. \/ new = [st EXCEPT !.skip = FALSE]
      \/ known # {} /\ new = [st EXCEPT !.config = SetOption(@, opt.sets, <<"true">>)]
      \/ known # {} /\ new = [st EXCEPT !.config = SetOption(@, opt.sets, value), !.skip = TRUE]
      \/ new = [st EXCEPT !.unused = Append(@, token)]
      \/ new = [st EXCEPT !.config = Wrong(@)]
  BY Zenon DEF populateOption
<1>2. known # {} => opt \in Options
  BY Zenon
<1> HIDE DEF opt, value, token, known
<1>3. known # {} => \A v : IsConfig(SetOption(st.config, opt.sets, v))
  BY <1>2, OptionFields, SetOptionIsConfig, Zenon DEF OptionGood
<1>4. IsSequence(Append(st.unused, token)) /\ IsConfig(Wrong(st.config))
  BY AppendKeepsSequence, WrongIsConfig, Zenon DEF OptionGood
<1> HIDE DEF new
<1>5. CASE new = [st EXCEPT !.skip = FALSE]
  BY <1>5, Zenon DEF OptionGood, new
<1>6. CASE known # {} /\ new = [st EXCEPT !.config = SetOption(@, opt.sets, <<"true">>)]
  BY <1>3, <1>6, Zenon DEF OptionGood, new
<1>7. CASE known # {} /\ new = [st EXCEPT !.config = SetOption(@, opt.sets, value), !.skip = TRUE]
  BY <1>3, <1>7, Zenon DEF OptionGood, new
<1>8. CASE new = [st EXCEPT !.unused = Append(@, token)]
  BY <1>4, <1>8, Zenon DEF OptionGood, new
<1>9. CASE new = [st EXCEPT !.config = Wrong(@)]
  BY <1>4, <1>9, Zenon DEF OptionGood, new
<1> QED  BY <1>1, <1>5, <1>6, <1>7, <1>8, <1>9, Zenon DEF new

\* So do all the tokens.
LEMMA OptionsKeep ==
    ASSUME NEW tokens, IsSequence(tokens), NEW c, IsConfig(c)
    PROVE  OptionGood(tokens, populateOptions(tokens, c))
<1> DEFINE places == [i \in 1..Len(tokens) |-> i]
           base == [config |-> c, unused |-> << >>, skip |-> FALSE]
<1>1. Len(tokens) \in Nat
  BY SequenceFacts
<1>2. Len(places) \in Nat
  BY <1>1
<1>3. populateOptions(tokens, c) = OptionsSet!Folded(tokens, base, places)
  BY Zenon DEF populateOptions, FoldDomain, OptionsSet!Folded, OptionsSet!Fold, Fold, OptionStep
<1>4. OptionGood(tokens, base)
  <2>1. IsSequence(<< >>)
    BY EmptySeq, SequenceOfAny
  <2> QED  BY <2>1, Zenon DEF OptionGood
<1> HIDE DEF places, base
<1>5. \A u : \A k \in 1..Len(places) : OptionGood(tokens, u) => OptionGood(tokens, OptionStep(tokens, u, places[k]))
  BY OptionKeeps, Zenon DEF OptionStep
<1>6. OptionGood(tokens, OptionsSet!Folded(tokens, base, places))
  BY <1>2, <1>4, <1>5, OptionsSet!FoldKeeps
<1> QED  BY <1>3, <1>6, Zenon

\* The fold over the tokens that are not options.
FloatingStep(p, c, token) == populateFloatingArg(c, token)

Floating == INSTANCE FoldInvariant WITH step <- FloatingStep, Good <- LineGood

\* The tests named on the command line leave limit and names.
LEMMA FloatingKeeps ==
    ASSUME NEW tokens, IsSequence(tokens), NEW c, IsConfig(c)
    PROVE  IsConfig(populateFloatingArgs(tokens, c))
<1>1. Len(tokens) \in Nat
  BY SequenceFacts
<1>2. populateFloatingArgs(tokens, c) = Floating!Folded(0, c, tokens)
  BY Zenon DEF populateFloatingArgs, Floating!Folded, Floating!Fold, Fold, FloatingStep
<1>3. \A u, t : IsConfig(u) => IsConfig(populateFloatingArg(u, t))
  BY Zenon DEF populateFloatingArg, addTestOrTags, IsConfig
<1>4. LineGood(0, Floating!Folded(0, c, tokens))
  BY <1>1, <1>3, Floating!FoldKeeps DEF LineGood, FloatingStep
<1> QED  BY <1>2, <1>4, Zenon DEF LineGood

\* Whatever the command line, the limit is a number and the names are a sequence.
LEMMA CommandLineIsConfig ==
    ASSUME NEW args \in Seq(Seq(STRING))
    PROVE  IsConfig(parseInto(args))
<1> DEFINE named  == [ConfigData EXCEPT !.processName = ProcessName(args[1])]
           parsed == parseIntoTokens(args)
           read   == populateOptions(parsed.tokens, named)
<1>1. IsConfig(ConfigData)
  <2>1. IsSequence(<< >>)
    BY EmptySeq, SequenceOfAny
  <2>2. NoLimit \in Nat
    BY CommandLineAssumption DEF CommandLineAssumption
  <2> QED  BY <2>1, <2>2, Zenon DEF IsConfig, ConfigData
<1>2. IsConfig(named)
  BY <1>1, OtherSetting, Zenon
<1> HIDE DEF named
<1>3. OptionGood(parsed.tokens, read)
  BY <1>2, TokensAreSequence, OptionsKeep
<1>4. \/ parseInto(args) = Wrong(named) \/ parseInto(args) = read.config
      \/ parseInto(args) = populateFloatingArgs(read.unused, read.config)
  BY Zenon DEF parseInto, named
<1> HIDE DEF read
<1>5. IsConfig(Wrong(named)) /\ IsConfig(read.config) /\ IsConfig(populateFloatingArgs(read.unused, read.config))
  BY <1>2, <1>3, WrongIsConfig, FloatingKeeps, Zenon DEF OptionGood
<1> QED  BY <1>4, <1>5, Zenon

-----------------------------------------------------------------------------
(***************************************************************************)
(* What the steps of a run do to RunContext.                               *)
(***************************************************************************)
\* Whatever was counted from c to d is a failure that counts, each of them once.
Counted(c, d) ==
    /\ Running(d)
    /\ d.totals.testCases = c.totals.testCases
    /\ d.totals.assertions.failedButOk = c.totals.assertions.failedButOk
    /\ d.totals.assertions.failed >= c.totals.assertions.failed
    /\ d.totals.assertions.failed - c.totals.assertions.failed
         = (d.failing + d.missing) - (c.failing + c.missing)

\* Missing assertions are failures that count.
LEMMA GrownIsCounted ==
    ASSUME NEW c, Running(c), NEW d, Grown(c, d)
    PROVE  Counted(c, d)
<1>1. /\ c.totals.assertions.failed \in Nat /\ c.missing \in Nat /\ c.failing \in Nat
      /\ d.totals.assertions.failed \in Nat /\ d.missing \in Nat /\ d.failing \in Nat
  BY CountsFacts, Zenon DEF Running, Grown
<1> QED  BY <1>1 DEF Grown, Counted

\* So is an assertion that fails.
LEMMA AssertionIsCounted ==
    ASSUME NEW c, Running(c), NEW result, NEW d, d = assertionEnded(c, result)
    PROVE  Counted(c, d)
<1>1. AssertionCounted(c, result, d) /\ Running(d)
  <2>1. AssertionCounted(c, result, d)
    BY AssertionCounts, Zenon
  <2> QED  BY <2>1, Zenon DEF AssertionCounted
<1>2. /\ c.totals.assertions.failed \in Nat /\ c.missing \in Nat /\ c.failing \in Nat
      /\ d.totals.assertions.failed \in Nat /\ d.missing \in Nat /\ d.failing \in Nat
  BY <1>1, CountsFacts, Zenon DEF Running
<1> QED  BY <1>1, <1>2 DEF Counted, AssertionCounted

\* What is counted in two steps.
LEMMA CountedIsTransitive ==
    ASSUME NEW b, Running(b), NEW c, Counted(b, c), NEW d, Counted(c, d)
    PROVE  Counted(b, d)
<1>1. /\ b.totals.assertions.failed \in Nat /\ b.missing \in Nat /\ b.failing \in Nat
      /\ c.totals.assertions.failed \in Nat /\ c.missing \in Nat /\ c.failing \in Nat
      /\ d.totals.assertions.failed \in Nat /\ d.missing \in Nat /\ d.failing \in Nat
  BY CountsFacts, Zenon DEF Running, Counted
<1> QED  BY <1>1 DEF Counted

\* RunContext::sectionStarted counts nothing, whether the section is entered or not.
LEMMA SectionStartedKeeps ==
    ASSUME NEW c, Running(c), NEW info, NEW d, d = sectionStarted(c, info).context
    PROVE  Running(d) /\ Alike(c, d)
<1> DEFINE path  == Append(c.tracker.current, SectionKey(info))
           asked == [c EXCEPT !.tracker = acquire(@, SectionKey(info))]
           noted == [asked EXCEPT !.active = Append(@, path)]
           e     == [type |-> "sectionStarting", line |-> info.line]
<1>1. d = asked \/ d = Report(noted, e)
  BY Zenon DEF sectionStarted
<1>2. e.type # "testRunEnded"
  BY Zenon
<1> HIDE DEF path, e
<1>3. /\ DOMAIN asked = DOMAIN c /\ Alike(c, asked) /\ asked.reporters = c.reporters
      /\ asked.unfinished = c.unfinished
      /\ DOMAIN noted = DOMAIN c /\ Alike(c, noted) /\ noted.reporters = c.reporters
      /\ noted.unfinished = c.unfinished
  BY Zenon DEF Running, IsContext, Alike
<1> HIDE DEF asked, noted
<1>4. Running(asked) /\ Running(noted)
  BY <1>3, OtherFields, Zenon DEF Running, IsContext
<1>5. Running(Report(noted, e)) /\ Alike(noted, Report(noted, e))
  BY <1>2, <1>4, ReportKeeps, Zenon
<1> QED  BY <1>1, <1>3, <1>4, <1>5, Zenon DEF Alike

\* A test case that failed keeps the console from saying that all passed.
LEMMA FailureIsNoPass ==
    ASSUME NEW totals, ConsoleTotals(totals) = AllPassed
    PROVE  totals.testCases.failed = 0
BY Zenon DEF ConsoleTotals, AllPassed

\* The handler of a signal: the test case fails, and nobody says that all passed.
LEMMA FatalKeeps ==
    ASSUME NEW c, Running(c), NEW d, d = handleFatalErrorCondition(c)
    PROVE  /\ Running(d)
           /\ d.totals.testCases.failed = 0 => c.totals.testCases.failed = 0
<1> DEFINE result == Result("FatalErrorCondition", {"Normal"})
           noted == assertionEnded(c, result)
           told  == handleUnfinishedSections(noted)
           one   == [type |-> "sectionEnded", missing |-> FALSE]
           two   == [type |-> "testCaseEnded"]
           mid   == Report(told, one)
           left  == Report(mid, two)
           last  == [left EXCEPT !.totals.testCases.failed = @ + 1]
           three == [type |-> "testGroupEnded", totals |-> last.totals]
           group == Report(last, three)
           four  == [type |-> "testRunEnded", totals |-> last.totals]
           final == Report(group, four)
<1>1. d = left \/ d = final
  BY Zenon DEF handleFatalErrorCondition
<1>2. /\ one.type # "testRunEnded" /\ two.type # "testRunEnded" /\ three.type # "testRunEnded"
      /\ four.totals = last.totals
  BY Zenon
<1> HIDE DEF result, one, two, three, four
<1>3. Running(noted) /\ noted.totals.testCases = c.totals.testCases
  BY AssertionCounts, Zenon DEF AssertionCounted
<1> HIDE DEF noted
<1>4. Running(told) /\ told.totals.testCases = c.totals.testCases
  BY <1>3, UnfinishedGrow, Zenon DEF Grown
<1> HIDE DEF told
<1>5. Running(mid) /\ mid.totals.testCases = c.totals.testCases
  <2>1. Running(mid) /\ Alike(told, mid)
    BY <1>2, <1>4, ReportKeeps, Zenon
  <2> QED  BY <1>4, <2>1, Zenon DEF Alike
<1> HIDE DEF mid
<1>6. Running(left) /\ left.totals.testCases = c.totals.testCases
  <2>1. Running(left) /\ Alike(mid, left)
    BY <1>2, <1>5, ReportKeeps, Zenon
  <2> QED  BY <1>5, <2>1, Zenon DEF Alike
<1> HIDE DEF left
<1>7. /\ DOMAIN last = DOMAIN left /\ last.totals = [left.totals EXCEPT !.testCases.failed = @ + 1]
      /\ last.failing = left.failing /\ last.missing = left.missing
      /\ last.unfinished = left.unfinished /\ last.reporters = left.reporters
  BY <1>6, Zenon DEF Running, IsContext
<1> HIDE DEF last
<1>8. last.totals \in TotalsType /\ last.totals.testCases.failed # 0
  <2>1. left.totals \in TotalsType
    BY <1>6, Zenon DEF Running, IsContext
  <2> QED  BY <1>7, <2>1 DEF TotalsType, CountsType
<1>9. Running(last)
  BY <1>6, <1>7, <1>8, Zenon DEF Running, IsContext
<1>10. Running(group) /\ group.totals = last.totals
  BY <1>2, <1>9, ReportKeeps, Zenon DEF Alike
<1> HIDE DEF group
<1>11. ~ MayPass(four)
  BY <1>2, <1>8, FailureIsNoPass, Zenon DEF MayPass
<1>12. Running(final) /\ final.totals = last.totals
  BY <1>10, <1>11, ReportTells, Zenon DEF Running, Silent, Alike
<1> HIDE DEF final
<1> QED  BY <1>1, <1>6, <1>8, <1>12, Zenon

\* The end of the run: who says that all passed says it of the totals.
LEMMA EndRunTells ==
    ASSUME NEW c, Running(c), NEW d, d = EndRun(c)
    PROVE  /\ IsContext(d) /\ Alike(c, d)
           /\ \A i \in DOMAIN d.reporters :
                 d.reporters[i].verdict = AllPassed => ConsoleTotals(c.totals) = AllPassed
<1> DEFINE e     == [type |-> "testRunEnded", totals |-> c.totals]
           ended == Report(c, e)
           rs    == ended.reporters
           new   == [i \in DOMAIN rs |-> CloseTags(rs[i])]
<1>1. e.totals = c.totals
  BY Zenon
<1>2. d = [ended EXCEPT !.reporters = new]
  BY Zenon DEF EndRun
<1> HIDE DEF e
<1>3. /\ IsContext(ended) /\ Alike(c, ended)
      /\ \A i \in DOMAIN rs : rs[i].verdict = AllPassed => ConsoleTotals(c.totals) = AllPassed
  BY <1>1, ReportTells, Zenon DEF MayPass
<1> HIDE DEF ended
<1>4. Sound(rs)
  BY <1>3, Zenon DEF IsContext
<1> HIDE DEF rs
<1>5. Len(rs) \in Nat /\ DOMAIN rs = 1..Len(rs)
  BY <1>4, SequenceFacts, Zenon DEF Sound
<1>6. DOMAIN new = DOMAIN rs /\ \A i \in DOMAIN rs : new[i] = CloseTags(rs[i])
  BY Zenon
<1>7. IsSequence(new)
  <2>1. new = [i \in 1..Len(rs) |-> new[i]]
    BY <1>5, Zenon
  <2> HIDE DEF new
  <2> QED  BY <1>5, <2>1, FunctionIsSequence, Zenon
<1> HIDE DEF new
<1>8. \A r : IsReporter(r) => IsReporter(CloseTags(r)) /\ CloseTags(r).verdict = r.verdict
  BY Zenon DEF IsReporter, CloseTags
<1>9. /\ Sound(new)
      /\ \A i \in DOMAIN new : new[i].verdict = AllPassed => ConsoleTotals(c.totals) = AllPassed
  BY <1>3, <1>4, <1>6, <1>7, <1>8, Zenon DEF Sound, rs
<1>10. /\ DOMAIN d = DOMAIN ended /\ Alike(ended, d)
       /\ d.reporters = new /\ d.unfinished = ended.unfinished
  BY <1>2, <1>3, Zenon DEF IsContext, Alike
<1> QED  BY <1>3, <1>9, <1>10, Zenon DEF IsContext, Alike

\* The reporters as they are made.
LEMMA ReporterIsMade ==
    ASSUME NEW kind \in ReporterRegistry
    PROVE  IsReporter(Reporter(kind)) /\ Reporter(kind).verdict # AllPassed
BY Zenon DEF IsReporter, Reporter, AllPassed

\* makeReporter makes reporters that have said nothing.
LEMMA MadeReporters ==
    ASSUME NEW names, IsSequence(names), ~ Unregistered(names)
    PROVE  Sound(makeReporter(names)) /\ Silent(makeReporter(names))
<1>1. CASE names = << >>
  <2>1. "console" \in ReporterRegistry
    BY Zenon DEF ReporterRegistry
  <2> DEFINE r == Reporter("console")
  <2>2. IsReporter(r) /\ r.verdict # AllPassed
    BY <2>1, ReporterIsMade, Zenon
  <2>3. makeReporter(names) = <<r>>
    BY <1>1, Zenon DEF makeReporter
  <2> HIDE DEF r
  <2>4. <<r>> \in Seq({r}) /\ \A i \in DOMAIN <<r>> : <<r>>[i] = r
    OBVIOUS
  <2>5. IsSequence(<<r>>)
    BY <2>4, SequenceOfAny, Zenon
  <2> QED  BY <2>2, <2>3, <2>4, <2>5, Zenon DEF Sound, Silent
<1>2. CASE names # << >>
  <2> DEFINE rs == [i \in DOMAIN names |-> Reporter(names[i][1])]
  <2>1. makeReporter(names) = rs
    BY <1>2, Zenon DEF makeReporter
  <2>2. DOMAIN names = 1..Len(names) /\ Len(names) \in Nat
    BY SequenceFacts
  <2>3. DOMAIN rs = DOMAIN names /\ rs = [i \in 1..Len(names) |-> rs[i]]
    BY <2>2, Zenon
  <2>4. \A i \in DOMAIN names : IsReporter(rs[i]) /\ rs[i].verdict # AllPassed
    <3> SUFFICES ASSUME NEW i \in DOMAIN names PROVE IsReporter(rs[i]) /\ rs[i].verdict # AllPassed
      BY Zenon
    <3>1. PICK kind \in ReporterRegistry : names[i] = <<kind>>
      BY Zenon DEF Unregistered
    <3>2. names[i][1] = kind
      BY <3>1
    <3>3. rs[i] = Reporter(kind)
      BY <3>2, Zenon
    <3> QED  BY <3>3, ReporterIsMade, Zenon
  <2> HIDE DEF rs
  <2>5. IsSequence(rs)
    BY <2>2, <2>3, FunctionIsSequence, Zenon
  <2> QED  BY <2>1, <2>3, <2>4, <2>5, Zenon DEF Sound, Silent
<1> QED  BY <1>1, <1>2

\* A new RunContext has counted nothing.
LEMMA FreshContext ==
    ASSUME NEW rs, Sound(rs), Silent(rs), NEW c, c = RunContext(rs)
    PROVE  /\ Running(c) /\ c.totals = Totals /\ c.failing = 0 /\ c.missing = 0 /\ c.reporters = rs
<1>1. Totals \in TotalsType
  BY DEF Totals, Counts, TotalsType, CountsType
<1>2. IsSequence(<< >>) /\ 0 \in Nat
  BY EmptySeq, SequenceOfAny
<1> QED  BY <1>1, <1>2, Zenon DEF RunContext, Running, IsContext

-----------------------------------------------------------------------------
(***************************************************************************)
(* The inductive invariant.  In the test case at hand what has been        *)
(* counted since its start is balanced: failed or failed-but-ok, as many   *)
(* as the reporters were told of and the missing assertions; and the limit *)
(* is not reached as long as the test can go on.                           *)
(***************************************************************************)
\* Where a test case is being run, one pass of it, and where no test has been run yet.
InTest == pc = "Cycle" \/ pc = "Body" \/ pc = "Unwinding" \/ pc = "Return" \/ pc = "TestEnd"
InPass == pc = "Body" \/ pc = "Unwinding" \/ pc = "Return"
Unstarted == pc = "Registering" \/ pc = "Main" \/ pc = "Configured" \/ pc = "RunTests"

\* What is needed of the variables.
RunTypes ==
    /\ IsConfig(config)
    /\ IsContext(context)
    /\ before \in TotalsType
    /\ "prev" \in DOMAIN frame /\ frame.prev \in CountsType /\ "thrown" \in DOMAIN frame
    /\ "bad" \in DOMAIN history /\ "before" \in DOMAIN history /\ history.before \in Nat
    /\ "assertions" \in DOMAIN sum /\ "failed" \in DOMAIN sum.assertions /\ sum.assertions.failed \in Nat

\* Until the reporters are made, nothing has been counted.
Fresh ==
    /\ pc = "Registering" \/ pc = "Main" => argv \in Seq(Seq(STRING))
    /\ Unstarted => context = RunContext(<< >>) /\ sum = Totals /\ ~ history.bad

\* Nobody says that all tests passed before the end.
NotYetTold == pc # "Exited" => Silent(context.reporters)

\* No signal is remembered before one has struck.
Signalled ==
    /\ pc # "Fatal" /\ pc # "Exited" => signal = 0
    /\ pc = "Fatal" => signal = SIGABRT \/ signal = SIGSEGV

\* What has been added up of the test cases that ended.
SumTells ==
    pc # "Exited" =>
        /\ sum.assertions.failed > 0 <=> history.bad
        /\ context.totals.testCases.failed = 0 => sum.assertions.failed = 0

\* What has been counted of the test case at hand.
Balanced ==
    InTest =>
        /\ before.testCases = context.totals.testCases
        /\ context.totals.assertions.failed >= before.assertions.failed
        /\ context.totals.assertions.failedButOk >= before.assertions.failedButOk
        /\ (context.totals.assertions.failed - before.assertions.failed)
             + (context.totals.assertions.failedButOk - before.assertions.failedButOk)
             = context.failing + context.missing - history.before
        /\ ~ okToFail(Test) => context.totals.assertions.failedButOk = before.assertions.failedButOk
        /\ okToFail(Test) /\ ~ InPass => context.totals.assertions.failed = before.assertions.failed

\* What the pass at hand started with.
PassStart ==
    InPass =>
        /\ before.assertions.failed <= frame.prev.failed
        /\ frame.prev.failed <= context.totals.assertions.failed
        /\ okToFail(Test) => frame.prev.failed = before.assertions.failed

\* The limit is only reached where the test is left.
BelowLimit ==
    "NoAssertions" \notin config.warnings =>
        /\ pc = "Cycle" \/ pc = "Body" => context.totals.assertions.failed < config.abortAfter
        /\ (pc = "Unwinding" \/ pc = "Return") /\ frame.thrown # "TestFailureException" =>
              context.totals.assertions.failed < config.abortAfter

\* The inductive invariant.
RunInv ==
    /\ RunTypes /\ Fresh /\ NotYetTold /\ Signalled /\ SumTells /\ Balanced /\ PassStart /\ BelowLimit
    /\ AbortLimitKept /\ ExitCodeTellsFailures

\* The configuration before the command line is read.
LEMMA DefaultConfig == IsConfig(ConfigData)
<1>1. IsSequence(<< >>)
  BY EmptySeq, SequenceOfAny
<1>2. NoLimit \in Nat
  BY CommandLineAssumption DEF CommandLineAssumption
<1> QED  BY <1>1, <1>2, Zenon DEF IsConfig, ConfigData

\* Without reporters nothing has been said.
LEMMA NoReporters == Sound(<< >>) /\ Silent(<< >>)
<1>1. IsSequence(<< >>)
  BY EmptySeq, SequenceOfAny
<1>2. DOMAIN << >> = {}
  OBVIOUS
<1> QED  BY <1>1, <1>2, Zenon DEF Sound, Silent

\* Before main the invariant holds.
LEMMA RunInitInv == RunInit => RunInv
<1> SUFFICES ASSUME RunInit PROVE RunInv
  OBVIOUS
<1>1. PICK r \in Runs : Init({r.suite}, {Written(r.request)})
  BY Zenon DEF RunInit
<1>2. /\ pc = "Registering" /\ config = ConfigData /\ context = RunContext(<< >>) /\ before = Totals
      /\ sum = Totals /\ frame = NoFrame /\ signal = 0 /\ argv = Written(r.request)
      /\ history = [visits |-> << >>, cycles |-> 0, unwound |-> FALSE, before |-> 0, bad |-> FALSE, depth |-> 0]
  BY <1>1, Zenon DEF Init
<1>3. argv \in Seq(Seq(STRING))
  BY <1>2, RunsAssumption, Zenon
<1>4. /\ Running(context) /\ context.totals = Totals /\ context.reporters = << >>
  BY <1>2, NoReporters, FreshContext, Zenon
<1>5. /\ Totals \in TotalsType /\ Counts \in CountsType
      /\ "assertions" \in DOMAIN Totals /\ "failed" \in DOMAIN Totals.assertions
      /\ Totals.assertions.failed = 0 /\ 0 \in Nat
  BY DEF Totals, Counts, TotalsType, CountsType
<1>6. "prev" \in DOMAIN frame /\ frame.prev = Counts /\ "thrown" \in DOMAIN frame
  BY <1>2, Zenon DEF NoFrame
<1>7. "bad" \in DOMAIN history /\ "before" \in DOMAIN history /\ history.before = 0 /\ history.bad = FALSE
  BY <1>2, Zenon
<1>8. RunTypes
  BY <1>2, <1>4, <1>5, <1>6, <1>7, DefaultConfig, Zenon DEF RunTypes, Running
<1>9. Fresh
  BY <1>2, <1>3, <1>7, Zenon DEF Fresh
<1>10. NotYetTold /\ Signalled
  BY <1>2, <1>4, Zenon DEF NotYetTold, Running, Signalled
<1>11. SumTells
  BY <1>2, <1>5, <1>7 DEF SumTells
<1>12. Balanced /\ PassStart /\ BelowLimit /\ ExitCodeTellsFailures
  BY <1>2, Zenon DEF Balanced, PassStart, BelowLimit, ExitCodeTellsFailures, InTest, InPass
<1>13. AbortLimitKept
  <2>1. config.abortAfter \in Nat
    BY <1>8, Zenon DEF RunTypes, IsConfig
  <2> QED  BY <1>4, <1>5, <2>1 DEF AbortLimitKept
<1> QED  BY <1>8, <1>9, <1>10, <1>11, <1>12, <1>13, Zenon DEF RunInv

\* A step before the tests are run.
LEMMA UnstartedKeeps ==
    ASSUME RunInv, Unstarted, pc' = "Main" \/ pc' = "Configured" \/ pc' = "RunTests" \/ pc' = "Exited",
           IsConfig(config'), pc' = "Main" => argv' = argv /\ pc = "Registering",
           UNCHANGED <<context, before, sum, frame, signal, history>>
    PROVE  RunInv'
<1>1. context' = context /\ before' = before /\ sum' = sum /\ frame' = frame /\ signal' = signal /\ history' = history
  BY Zenon
<1>2. /\ RunTypes /\ Fresh /\ NotYetTold /\ Signalled /\ SumTells
  BY Zenon DEF RunInv
<1>3. /\ pc # "Exited" /\ pc # "Fatal" /\ context = RunContext(<< >>) /\ sum = Totals /\ ~ history.bad /\ signal = 0
  BY <1>2, Zenon DEF Unstarted, Fresh, Signalled
<1>4. context.totals = Totals /\ context.reporters = << >> /\ Totals.assertions.failed = 0
  <2>1. Totals.assertions.failed = 0
    BY DEF Totals, Counts
  <2> QED  BY <1>3, <2>1, NoReporters, FreshContext, Zenon
<1>5. RunTypes'
  BY <1>1, <1>2, Zenon DEF RunTypes
<1>6. Fresh'
  BY <1>1, <1>2, <1>3, Zenon DEF Fresh, Unstarted
<1>7. NotYetTold' /\ Signalled' /\ SumTells'
  BY <1>1, <1>2, <1>3, Zenon DEF NotYetTold, Signalled, SumTells
<1>8. Balanced' /\ PassStart' /\ BelowLimit'
  BY Zenon DEF Balanced, PassStart, BelowLimit, InTest, InPass
<1>9. AbortLimitKept'
  <2>1. config'.abortAfter \in Nat
    BY Zenon DEF IsConfig
  <2> QED  BY <1>1, <1>4, <2>1 DEF AbortLimitKept
<1>10. ExitCodeTellsFailures'
  <2>1. DOMAIN << >> = {}
    OBVIOUS
  <2> QED  BY <1>1, <1>3, <1>4, <2>1, Zenon DEF ExitCodeTellsFailures
<1> QED  BY <1>5, <1>6, <1>7, <1>8, <1>9, <1>10, Zenon DEF RunInv

\* Registration, the command line and listings leave the counts at zero.
LEMMA PrepareKeeps ==
    ASSUME RunInv, Prepare
    PROVE  RunInv'
<1>1. IsConfig(config) /\ Fresh
  BY Zenon DEF RunInv, RunTypes
<1>2. CASE Register
  BY <1>1, <1>2, UnstartedKeeps, Zenon DEF Register, Exit, Unstarted
<1>3. CASE applyCommandLine
  <2>1. argv \in Seq(Seq(STRING))
    BY <1>1, <1>3, Zenon DEF Fresh, applyCommandLine
  <2>2. IsConfig(config')
    BY <1>3, <2>1, CommandLineIsConfig, Zenon DEF applyCommandLine
  <2>3. pc' = "Configured" \/ pc' = "Exited"
    BY <1>3, Zenon DEF applyCommandLine, Exit
  <2> QED  BY <1>3, <2>2, <2>3, UnstartedKeeps, Zenon DEF applyCommandLine, Unstarted
<1>4. CASE run
  <2>1. pc' = "RunTests" \/ pc' = "Exited"
    BY <1>4, Zenon DEF run, Exit
  <2>2. /\ pc = "Configured" /\ config' = config /\ context' = context /\ before' = before /\ sum' = sum
        /\ frame' = frame /\ signal' = signal /\ history' = history
    BY <1>4, Zenon DEF run
  <2> QED  BY <1>1, <2>1, <2>2, UnstartedKeeps, Zenon DEF Unstarted
<1> QED  BY <1>2, <1>3, <1>4, Zenon DEF Prepare

-----------------------------------------------------------------------------
(***************************************************************************)
(* The steps of a test's body.                                             *)
(***************************************************************************)
\* A reporter that is stuck or stopped by an assert keeps the process.
LEMMA GotoTargets ==
    ASSUME NEW c, NEW label, Goto(c, label)
    PROVE  pc' = label \/ pc' = "Hung" \/ pc' = "Aborted"
<1> DEFINE hung   == \E i \in DOMAIN c.reporters : c.reporters[i].hung
           broken == \E i \in DOMAIN c.reporters : c.reporters[i].broken
<1>1. pc' = CASE hung -> "Hung" [] ~ hung /\ broken -> "Aborted" [] OTHER -> label
  BY Zenon DEF Goto
<1> HIDE DEF hung, broken
<1>2. CASE hung
  BY <1>1, <1>2, Zenon
<1>3. CASE ~ hung /\ broken
  BY <1>1, <1>3, Zenon
<1>4. CASE ~ hung /\ ~ broken
  BY <1>1, <1>4, Zenon
<1> QED  BY <1>2, <1>3, <1>4, Zenon

\* A step inside a pass that counts failures which count.
LEMMA PassKeeps ==
    ASSUME RunInv, InPass,
           pc' = "Body" \/ pc' = "Unwinding" \/ pc' = "Return" \/ pc' = "Hung" \/ pc' = "Aborted",
           Counted(context, context'),
           config' = config, before' = before, sum' = sum, tests' = tests, next' = next, signal' = signal,
           "bad" \in DOMAIN history', "before" \in DOMAIN history',
           history'.bad = history.bad, history'.before = history.before,
           "prev" \in DOMAIN frame', "thrown" \in DOMAIN frame', frame'.prev = frame.prev,
           BelowLimit', AbortLimitKept'
    PROVE  RunInv'
<1>1. /\ RunTypes /\ NotYetTold /\ Signalled /\ SumTells /\ Balanced /\ PassStart
  BY Zenon DEF RunInv
<1>2. pc # "Exited" /\ pc # "Fatal" /\ pc' # "Exited" /\ pc' # "Fatal"
  BY Zenon DEF InPass
<1>3. /\ Running(context') /\ context'.totals.testCases = context.totals.testCases
      /\ context'.totals.assertions.failedButOk = context.totals.assertions.failedButOk
      /\ context'.totals.assertions.failed >= context.totals.assertions.failed
      /\ context'.totals.assertions.failed - context.totals.assertions.failed
           = (context'.failing + context'.missing) - (context.failing + context.missing)
  BY Zenon DEF Counted
<1>4. RunTypes'
  BY <1>1, <1>3, Zenon DEF RunTypes, Running
<1>5. Fresh' /\ ExitCodeTellsFailures'
  BY <1>2, Zenon DEF Fresh, Unstarted, ExitCodeTellsFailures
<1>6. NotYetTold' /\ Signalled'
  BY <1>1, <1>2, <1>3, Zenon DEF NotYetTold, Signalled, Running
<1>7. SumTells'
  BY <1>1, <1>2, <1>3, Zenon DEF SumTells
<1>8. okToFail(Test)' <=> okToFail(Test)
  BY Zenon DEF Test
<1>9. InTest /\ InPass
  BY Zenon DEF InTest, InPass
<1>10. /\ context.totals.assertions.failed \in Nat /\ context'.totals.assertions.failed \in Nat
       /\ context.totals.assertions.failedButOk \in Nat
       /\ context.failing \in Nat /\ context'.failing \in Nat
       /\ context.missing \in Nat /\ context'.missing \in Nat
  BY <1>1, <1>3, CountsFacts, Zenon DEF RunTypes, Running
<1>11. /\ before.assertions.failed \in Nat /\ before.assertions.failedButOk \in Nat
       /\ frame.prev.failed \in Nat /\ history.before \in Nat
  <2>1. before \in TotalsType /\ frame.prev \in CountsType /\ history.before \in Nat
    BY <1>1, Zenon DEF RunTypes
  <2> QED  BY <2>1 DEF TotalsType, CountsType
<1>12. /\ before.testCases = context.totals.testCases
       /\ context.totals.assertions.failed >= before.assertions.failed
       /\ context.totals.assertions.failedButOk >= before.assertions.failedButOk
       /\ (context.totals.assertions.failed - before.assertions.failed)
             + (context.totals.assertions.failedButOk - before.assertions.failedButOk)
             = context.failing + context.missing - history.before
       /\ ~ okToFail(Test) => context.totals.assertions.failedButOk = before.assertions.failedButOk
  BY <1>1, <1>9, Zenon DEF Balanced
<1>13. Balanced'
  <2>1. before'.testCases = context'.totals.testCases
    BY <1>3, <1>12, Zenon
  <2>2. context'.totals.assertions.failed >= before'.assertions.failed
    BY <1>3, <1>10, <1>11, <1>12
  <2>3. context'.totals.assertions.failedButOk >= before'.assertions.failedButOk
    BY <1>3, <1>12, Zenon
  <2>4. (context'.totals.assertions.failed - before'.assertions.failed)
             + (context'.totals.assertions.failedButOk - before'.assertions.failedButOk)
             = context'.failing + context'.missing - history'.before
    BY <1>3, <1>10, <1>11, <1>12
  <2>5. ~ okToFail(Test)' => context'.totals.assertions.failedButOk = before'.assertions.failedButOk
    BY <1>3, <1>8, <1>12, Zenon
  <2>6. InTest' => InPass'
    BY Zenon DEF InTest, InPass
  <2> QED  BY <2>1, <2>2, <2>3, <2>4, <2>5, <2>6, Zenon DEF Balanced
<1>14. PassStart'
  <2>1. /\ before.assertions.failed <= frame.prev.failed
        /\ frame.prev.failed <= context.totals.assertions.failed
        /\ okToFail(Test) => frame.prev.failed = before.assertions.failed
    BY <1>1, <1>9, Zenon DEF PassStart
  <2>2. frame'.prev.failed <= context'.totals.assertions.failed
    BY <1>3, <1>10, <1>11, <2>1
  <2> QED  BY <1>8, <2>1, <2>2, Zenon DEF PassStart
<1> QED  BY <1>4, <1>5, <1>6, <1>7, <1>13, <1>14, Zenon DEF RunInv

\* A step that counts no failure.
LEMMA SameLimit ==
    ASSUME RunInv, config' = config, signal' = signal,
           "NoAssertions" \notin config.warnings
             => context'.totals.assertions.failed = context.totals.assertions.failed,
           \/ pc = "Body"
           \/ pc = "Unwinding" /\ frame'.thrown = frame.thrown /\ (pc' = "Unwinding" \/ pc' = "Return")
    PROVE  BelowLimit' /\ AbortLimitKept'
<1>1. BelowLimit /\ AbortLimitKept
  BY Zenon DEF RunInv
<1>2. AbortLimitKept'
  BY <1>1, Zenon DEF AbortLimitKept
<1>3. BelowLimit'
  BY <1>1, Zenon DEF BelowLimit
<1> QED  BY <1>2, <1>3

\* The same in the case that the reporters were told of nothing that failed.
LEMMA MutePassKeeps ==
    ASSUME RunInv, pc = "Body" \/ pc = "Unwinding",
           pc' = "Body" \/ pc' = "Unwinding" \/ pc' = "Return" \/ pc' = "Hung" \/ pc' = "Aborted",
           pc = "Unwinding" => (pc' = "Unwinding" \/ pc' = "Return") /\ frame'.thrown = frame.thrown,
           Grown(context, context'), BodyUnchanged, signal' = signal,
           "bad" \in DOMAIN history', "before" \in DOMAIN history',
           history'.bad = history.bad, history'.before = history.before,
           "prev" \in DOMAIN frame', "thrown" \in DOMAIN frame', frame'.prev = frame.prev
    PROVE  RunInv'
<1>1. config' = config /\ before' = before /\ sum' = sum /\ tests' = tests /\ next' = next
  BY Zenon DEF BodyUnchanged
<1>2. Running(context)
  BY Zenon DEF RunInv, RunTypes, NotYetTold, Running
<1>3. Counted(context, context')
  BY <1>2, GrownIsCounted, Zenon
<1>4. /\ context.totals.assertions.failed \in Nat /\ context'.totals.assertions.failed \in Nat
      /\ context.missing \in Nat /\ context'.missing \in Nat
  BY <1>2, CountsFacts, Zenon DEF Running, Grown
<1>5. "NoAssertions" \notin config.warnings
        => context'.totals.assertions.failed = context.totals.assertions.failed
  BY <1>4 DEF Grown
<1>6. BelowLimit' /\ AbortLimitKept'
  BY <1>1, <1>5, SameLimit, Zenon
<1>7. InPass
  BY Zenon DEF InPass
<1> QED  BY <1>1, <1>3, <1>6, <1>7, PassKeeps, Zenon

\* A signal strikes.
LEMMA StrikeKeeps ==
    ASSUME RunInv, InPass, NEW sig, sig = SIGABRT \/ sig = SIGSEGV, Strike(sig),
           BodyUnchanged, context' = context, frame' = frame
    PROVE  RunInv'
<1>1. /\ RunTypes /\ NotYetTold /\ Signalled /\ SumTells
  BY Zenon DEF RunInv
<1>2. /\ pc' = "Fatal" /\ signal' = sig /\ history' = [history EXCEPT !.depth = OpenSections]
      /\ config' = config /\ before' = before /\ sum' = sum /\ tests' = tests /\ next' = next
  BY Zenon DEF Strike, BodyUnchanged
<1>3. "bad" \in DOMAIN history /\ "before" \in DOMAIN history
  BY <1>1, Zenon DEF RunTypes
<1>4. /\ "bad" \in DOMAIN history' /\ "before" \in DOMAIN history'
      /\ history'.bad = history.bad /\ history'.before = history.before
  BY <1>2, <1>3, Zenon
<1>5. pc # "Exited"
  BY Zenon DEF InPass
<1>6. RunTypes'
  BY <1>1, <1>2, <1>4, Zenon DEF RunTypes
<1>7. Fresh' /\ NotYetTold' /\ Signalled' /\ SumTells'
  BY <1>1, <1>2, <1>4, <1>5, Zenon DEF Fresh, Unstarted, NotYetTold, Signalled, SumTells
<1>8. Balanced' /\ PassStart' /\ BelowLimit' /\ ExitCodeTellsFailures'
  BY <1>2, Zenon DEF Balanced, PassStart, BelowLimit, ExitCodeTellsFailures, InTest, InPass
<1>9. AbortLimitKept'
  BY <1>2 DEF AbortLimitKept, SIGABRT, SIGSEGV
<1> QED  BY <1>6, <1>7, <1>8, <1>9, Zenon DEF RunInv

\* Section's constructor tells the reporters and counts nothing.
LEMMA SectionKeeps ==
    ASSUME RunInv, Section
    PROVE  RunInv'
<1> DEFINE s == sectionStarted(context, Instr)
<1>1. pc = "Body" /\ context' = s.context /\ Goto(s.context, pc) /\ BodyUnchanged /\ signal' = signal
  BY Zenon DEF Section, At
<1>2. Running(context) /\ RunTypes
  BY <1>1, Zenon DEF RunInv, RunTypes, NotYetTold, Running
<1>3. /\ \/ frame' = [frame EXCEPT !.ip = @ + 1,
                                   !.open = Append(@, [line |-> Instr.line, prev |-> context.totals.assertions])]
         \/ frame' = [frame EXCEPT !.ip = Instr.end + 1]
      /\ history' = [history EXCEPT !.visits = Append(@, frame.ip)] \/ history' = history
  BY Zenon DEF Section
<1>4. /\ "bad" \in DOMAIN history' /\ "before" \in DOMAIN history'
      /\ history'.bad = history.bad /\ history'.before = history.before
      /\ "prev" \in DOMAIN frame' /\ "thrown" \in DOMAIN frame' /\ frame'.prev = frame.prev
  BY <1>2, <1>3, Zenon DEF RunTypes
<1> HIDE DEF s
<1>5. pc' = "Body" \/ pc' = "Hung" \/ pc' = "Aborted"
  BY <1>1, GotoTargets, Zenon
<1>6. Running(context') /\ Alike(context, context')
  BY <1>1, <1>2, SectionStartedKeeps, Zenon DEF s
<1>7. Grown(context, context')
  BY <1>2, <1>6, AlikeIsGrown, Zenon
<1> QED  BY <1>1, <1>4, <1>5, <1>7, MutePassKeeps, Zenon

\* Section's destructor counts at most a missing assertion.
LEMMA SectionEndKeeps ==
    ASSUME RunInv, SectionEnd
    PROVE  RunInv'
<1>1. /\ pc = "Body" /\ context' = sectionEnded(context, Last(frame.open)) /\ Goto(context', pc)
      /\ BodyUnchanged /\ signal' = signal /\ history' = history
      /\ frame' = [frame EXCEPT !.ip = @ + 1, !.open = Front(@)]
  BY Zenon DEF SectionEnd, At
<1>2. Running(context) /\ RunTypes
  BY <1>1, Zenon DEF RunInv, RunTypes, NotYetTold, Running
<1>3. /\ "bad" \in DOMAIN history' /\ "before" \in DOMAIN history'
      /\ history'.bad = history.bad /\ history'.before = history.before
      /\ "prev" \in DOMAIN frame' /\ "thrown" \in DOMAIN frame' /\ frame'.prev = frame.prev
  BY <1>1, <1>2, Zenon DEF RunTypes
<1>4. pc' = "Body" \/ pc' = "Hung" \/ pc' = "Aborted"
  BY <1>1, GotoTargets, Zenon
<1>5. Grown(context, context')
  BY <1>1, <1>2, SectionEndedGrows, Zenon
<1> QED  BY <1>1, <1>3, <1>4, <1>5, MutePassKeeps, Zenon

\* The limit is compared after every failure: reaching it leaves the test.
LEMMA AssertionKeeps ==
    ASSUME RunInv, Assertion
    PROVE  RunInv'
<1>1. PICK outcome \in Instr.outcomes :
          LET result == Asserted(Instr.macro, Instr.disposition, outcome, ~config.noThrow)
              ended  == assertionEnded(context, result)
              throwing == handleResult(ended, result)
          IN  /\ context' = ended
              /\ frame' = [frame EXCEPT !.ip = @ + 1, !.thrown = IF throwing THEN "TestFailureException" ELSE @]
              /\ history' = [history EXCEPT !.unwound = @ \/ (throwing /\ ~InLeaf)]
              /\ Goto(ended, IF throwing THEN "Unwinding" ELSE pc)
  BY Zenon DEF Assertion
<1> DEFINE result == Asserted(Instr.macro, Instr.disposition, outcome, ~config.noThrow)
           throwing == handleResult(context', result)
<1>2. /\ context' = assertionEnded(context, result)
      /\ frame' = [frame EXCEPT !.ip = @ + 1, !.thrown = IF throwing THEN "TestFailureException" ELSE @]
      /\ history' = [history EXCEPT !.unwound = @ \/ (throwing /\ ~InLeaf)]
      /\ Goto(context', IF throwing THEN "Unwinding" ELSE pc)
  BY <1>1, Zenon
<1>3. pc = "Body" /\ BodyUnchanged /\ signal' = signal
  BY Zenon DEF Assertion, At
<1>4. throwing => frame'.thrown = "TestFailureException"
  <2>1. "thrown" \in DOMAIN frame
    BY Zenon DEF RunInv, RunTypes
  <2> HIDE DEF throwing
  <2> QED  BY <1>2, <2>1, Zenon
<1>5. ~ isOk(result) /\ ~ throwing => context'.totals.assertions.failed # config.abortAfter
  <2>1. (~ isOk(result) /\ ~ throwing) => ~ (context'.totals.assertions.failed = config'.abortAfter)
    BY <1>3, Zenon DEF handleResult, aborting, BodyUnchanged
  <2> QED  BY <1>3, <2>1, Zenon DEF BodyUnchanged
<1> HIDE DEF result, throwing
<1>6. Running(context) /\ RunTypes
  BY <1>3, Zenon DEF RunInv, RunTypes, NotYetTold, Running
<1>7. Counted(context, context')
  BY <1>2, <1>6, AssertionIsCounted, Zenon
<1>8. /\ "bad" \in DOMAIN history' /\ "before" \in DOMAIN history'
      /\ history'.bad = history.bad /\ history'.before = history.before
      /\ "prev" \in DOMAIN frame' /\ "thrown" \in DOMAIN frame' /\ frame'.prev = frame.prev
  BY <1>2, <1>6, Zenon DEF RunTypes
<1>9. /\ throwing => pc' = "Unwinding" \/ pc' = "Hung" \/ pc' = "Aborted"
      /\ ~ throwing => pc' = "Body" \/ pc' = "Hung" \/ pc' = "Aborted"
  BY <1>2, <1>3, GotoTargets, Zenon
<1>10. /\ config' = config /\ before' = before /\ sum' = sum /\ tests' = tests /\ next' = next
  BY <1>3, Zenon DEF BodyUnchanged
<1>11. /\ context.totals.assertions.failed \in Nat /\ context'.totals.assertions.failed \in Nat
       /\ config.abortAfter \in Nat
  BY <1>6, <1>7, CountsFacts, Zenon DEF Running, Counted, RunTypes, IsConfig
<1>12. "NoAssertions" \notin config.warnings => context.totals.assertions.failed < config.abortAfter
  BY <1>3, Zenon DEF RunInv, BelowLimit
<1>13. /\ isOk(result) => context'.totals.assertions.failed = context.totals.assertions.failed
       /\ ~ isOk(result) => context'.totals.assertions.failed = context.totals.assertions.failed + 1
  <2>1. AssertionCounted(context, result, context')
    BY <1>2, <1>6, AssertionCounts, Zenon
  <2> QED  BY <2>1, Zenon DEF AssertionCounted
<1>14. "NoAssertions" \notin config.warnings => context'.totals.assertions.failed <= config'.abortAfter
  BY <1>10, <1>11, <1>12, <1>13
<1>15. "NoAssertions" \notin config.warnings /\ ~ throwing
         => context'.totals.assertions.failed < config'.abortAfter
  BY <1>5, <1>10, <1>11, <1>12, <1>13
<1>16. AbortLimitKept'
  BY <1>10, <1>14, Zenon DEF AbortLimitKept
<1>17. BelowLimit'
  <2>1. (pc' = "Cycle" \/ pc' = "Body") => ~ throwing
    BY <1>9, Zenon
  <2>2. frame'.thrown # "TestFailureException" => ~ throwing
    BY <1>4, Zenon
  <2> QED  BY <1>10, <1>15, <2>1, <2>2, Zenon DEF BelowLimit
<1>18. pc' = "Body" \/ pc' = "Unwinding" \/ pc' = "Return" \/ pc' = "Hung" \/ pc' = "Aborted"
  BY <1>9, Zenon
<1>19. InPass
  BY <1>3, Zenon DEF InPass
<1> QED  BY <1>3, <1>7, <1>8, <1>10, <1>16, <1>17, <1>18, <1>19, PassKeeps, Zenon

\* The steps of the body that reach neither the counts nor the reporters.
LEMMA SilentBodyKeeps ==
    ASSUME RunInv, ScopedMessage \/ Spawn \/ Join \/ BodyEnd
    PROVE  RunInv'
<1>1. /\ pc = "Body" /\ BodyUnchanged /\ signal' = signal /\ history' = history
      /\ pc' = "Body" \/ pc' = "Return"
      /\ context' = [context EXCEPT !.messages = @ + 1] \/ context' = context
  BY Zenon DEF ScopedMessage, Spawn, Join, BodyEnd, At
<1>2. \/ frame' = [frame EXCEPT !.ip = @ + 1]
      \/ frame' = [frame EXCEPT !.ip = @ + 1, !.armed = Len(frame.open)]
      \/ frame' = [frame EXCEPT !.ip = @ + 1, !.armed = -1]
      \/ frame' = frame
  BY Zenon DEF ScopedMessage, Spawn, Join, BodyEnd
<1>3. Running(context) /\ RunTypes
  BY <1>1, Zenon DEF RunInv, RunTypes, NotYetTold, Running
<1>4. /\ "bad" \in DOMAIN history' /\ "before" \in DOMAIN history'
      /\ history'.bad = history.bad /\ history'.before = history.before
      /\ "prev" \in DOMAIN frame' /\ "thrown" \in DOMAIN frame' /\ frame'.prev = frame.prev
  BY <1>1, <1>2, <1>3, Zenon DEF RunTypes
<1>5. /\ DOMAIN context' = DOMAIN context /\ Alike(context, context')
      /\ context'.reporters = context.reporters /\ context'.unfinished = context.unfinished
  BY <1>1, <1>3, Zenon DEF Running, IsContext, Alike
<1>6. Running(context')
  BY <1>3, <1>5, OtherFields, Zenon DEF Running, IsContext
<1>7. Grown(context, context')
  BY <1>3, <1>5, <1>6, AlikeIsGrown, Zenon
<1> QED  BY <1>1, <1>4, <1>7, MutePassKeeps, Zenon

\* The test's own code: it goes on or throws, neither of which counts, or a signal strikes.
LEMMA CodeKeeps ==
    ASSUME RunInv, Code
    PROVE  RunInv'
<1>1. pc = "Body" /\ BodyUnchanged /\ context' = context
  BY Zenon DEF Code, At
<1>2. Running(context) /\ RunTypes
  BY <1>1, Zenon DEF RunInv, RunTypes, NotYetTold, Running
<1>3. Grown(context, context')
  BY <1>1, <1>2, AlikeIsGrown, Zenon DEF Alike
<1>4. \/ frame' = [frame EXCEPT !.ip = @ + 1] /\ pc' = pc /\ signal' = signal /\ history' = history
      \/ /\ frame' = [frame EXCEPT !.thrown = "other"] /\ pc' = "Unwinding" /\ signal' = signal
         /\ history' = [history EXCEPT !.unwound = @ \/ ~InLeaf]
      \/ Strike(SIGSEGV) /\ frame' = frame
  BY Zenon DEF Code
<1>5. CASE frame' = [frame EXCEPT !.ip = @ + 1] /\ pc' = pc /\ signal' = signal /\ history' = history
  <2>1. /\ "bad" \in DOMAIN history' /\ "before" \in DOMAIN history'
        /\ "prev" \in DOMAIN frame' /\ "thrown" \in DOMAIN frame' /\ frame'.prev = frame.prev
    BY <1>2, <1>5, Zenon DEF RunTypes
  <2> QED  BY <1>1, <1>3, <1>5, <2>1, MutePassKeeps, Zenon
<1>6. CASE /\ frame' = [frame EXCEPT !.thrown = "other"] /\ pc' = "Unwinding" /\ signal' = signal
           /\ history' = [history EXCEPT !.unwound = @ \/ ~InLeaf]
  <2>1. /\ "bad" \in DOMAIN history' /\ "before" \in DOMAIN history'
        /\ history'.bad = history.bad /\ history'.before = history.before
        /\ "prev" \in DOMAIN frame' /\ "thrown" \in DOMAIN frame' /\ frame'.prev = frame.prev
    BY <1>2, <1>6, Zenon DEF RunTypes
  <2> QED  BY <1>1, <1>3, <1>6, <2>1, MutePassKeeps, Zenon
<1>7. CASE Strike(SIGSEGV) /\ frame' = frame
  BY <1>1, <1>7, StrikeKeeps, Zenon DEF InPass
<1> QED  BY <1>4, <1>5, <1>6, <1>7

\* An exception leaves a scope: a running thread strikes, a section is only put aside.
LEMMA UnwindKeeps ==
    ASSUME RunInv, Unwind
    PROVE  RunInv'
<1>1. pc = "Unwinding" /\ BodyUnchanged
  BY Zenon DEF Unwind
<1>2. Running(context) /\ RunTypes
  BY <1>1, Zenon DEF RunInv, RunTypes, NotYetTold, Running
<1>3. \/ Strike(SIGABRT) /\ context' = context /\ frame' = frame
      \/ /\ context' = sectionEndedEarly(context, Last(frame.open)) /\ frame' = [frame EXCEPT !.open = Front(@)]
         /\ pc' = pc /\ signal' = signal /\ history' = history
      \/ /\ pc' = "Return" /\ context' = context /\ frame' = frame /\ signal' = signal /\ history' = history
  BY Zenon DEF Unwind
<1>4. CASE Strike(SIGABRT) /\ context' = context /\ frame' = frame
  BY <1>1, <1>4, StrikeKeeps, Zenon DEF InPass
<1>5. CASE ~ (Strike(SIGABRT) /\ context' = context /\ frame' = frame)
  <2>1. /\ signal' = signal /\ history' = history
        /\ pc' = "Unwinding" \/ pc' = "Return"
        /\ frame' = [frame EXCEPT !.open = Front(@)] \/ frame' = frame
        /\ context' = context \/ context' = sectionEndedEarly(context, Last(frame.open))
    BY <1>1, <1>3, <1>5, Zenon
  <2>2. Running(context') /\ Alike(context, context')
    <3>1. CASE context' = context
      BY <1>2, <3>1, Zenon DEF Alike
    <3>2. CASE context' = sectionEndedEarly(context, Last(frame.open))
      BY <1>2, <3>2, SectionEndedEarlyKeeps, Zenon
    <3> QED  BY <2>1, <3>1, <3>2, Zenon
  <2>3. Grown(context, context')
    BY <1>2, <2>2, AlikeIsGrown, Zenon
  <2>4. /\ "bad" \in DOMAIN history' /\ "before" \in DOMAIN history'
        /\ "prev" \in DOMAIN frame' /\ "thrown" \in DOMAIN frame'
        /\ frame'.prev = frame.prev /\ frame'.thrown = frame.thrown
    BY <1>2, <2>1, Zenon DEF RunTypes
  <2> QED  BY <1>1, <2>1, <2>3, <2>4, MutePassKeeps, Zenon
<1> QED  BY <1>3, <1>4, <1>5

-----------------------------------------------------------------------------
(***************************************************************************)
(* The steps of runTests.                                                  *)
(***************************************************************************)
\* The tracker is not counted in.
LEMMA TrackerKeeps ==
    ASSUME NEW c, Running(c), NEW t, NEW e, e.type # "testRunEnded",
           NEW d, d = Report([c EXCEPT !.tracker = t], e)
    PROVE  Running(d) /\ Alike(c, d)
<1> DEFINE moved == [c EXCEPT !.tracker = t]
<1>1. /\ DOMAIN moved = DOMAIN c /\ Alike(c, moved) /\ moved.reporters = c.reporters
      /\ moved.unfinished = c.unfinished
  BY Zenon DEF Running, IsContext, Alike
<1> HIDE DEF moved
<1>2. Running(moved)
  BY <1>1, OtherFields, Zenon DEF Running, IsContext
<1>3. Running(d) /\ Alike(moved, d)
  BY <1>2, ReportKeeps, Zenon DEF moved
<1> QED  BY <1>1, <1>3, Zenon DEF Alike

\* The numbers that a state's context and configuration hold.
LEMMA StateNumbers ==
    ASSUME RunTypes
    PROVE  /\ context.totals.assertions.failed \in Nat /\ context.totals.assertions.failedButOk \in Nat
           /\ context.totals.testCases.failed \in Nat
           /\ context.failing \in Nat /\ context.missing \in Nat /\ history.before \in Nat
           /\ before.assertions.failed \in Nat /\ before.assertions.failedButOk \in Nat
           /\ frame.prev.failed \in Nat /\ config.abortAfter \in Nat /\ sum.assertions.failed \in Nat
<1>1. IsContext(context) /\ IsConfig(config) /\ history.before \in Nat /\ sum.assertions.failed \in Nat
  BY Zenon DEF RunTypes
<1>2. before \in TotalsType /\ frame.prev \in CountsType
  BY Zenon DEF RunTypes
<1>3. /\ before.assertions.failed \in Nat /\ before.assertions.failedButOk \in Nat /\ frame.prev.failed \in Nat
  BY <1>2 DEF TotalsType, CountsType
<1> QED  BY <1>1, <1>3, CountsFacts, Zenon DEF IsConfig

\* Of a run without test cases nothing failed, and the console does not say that all
\* of them passed.
LEMMA NothingRan == Totals.assertions.failed = 0 /\ ConsoleTotals(Totals) # AllPassed
<1>1. /\ Totals.assertions.failed = 0 /\ total(Totals.testCases) = 0
      /\ ~ (total(Totals.testCases) > 0)
  BY DEF Totals, Counts, total
<1>2. ConsoleTotals(Totals) = "No tests ran"
  BY <1>1, Zenon DEF ConsoleTotals
<1> QED  BY <1>1, <1>2, Zenon DEF AllPassed

\* runTests makes the context; an unknown reporter or a duplicate test ends with IntMax.
LEMMA RunTestsKeeps ==
    ASSUME RunInv, runTests
    PROVE  RunInv'
<1> DEFINE fresh  == RunContext(makeReporter(config.reporterNames))
           one    == [type |-> "testRunStarting"]
           two    == [type |-> "testGroupStarting"]
           made   == Report(fresh, one)
           opened == Report(made, two)
<1>1. /\ RunTypes /\ Fresh /\ NotYetTold /\ Signalled /\ SumTells
  BY Zenon DEF RunInv
<1>2. /\ pc = "RunTests" /\ config' = config /\ tests' = tests /\ before' = before /\ sum' = sum
      /\ frame' = frame /\ signal' = signal /\ history' = history
  BY Zenon DEF runTests
<1>3. \/ Unregistered(config.reporterNames) /\ pc' = "Exited" /\ context' = context
      \/ /\ ~ Unregistered(config.reporterNames) /\ HasDuplicates(tests)
         /\ context' = EndRun(opened) /\ pc' = "Exited" /\ exitCode' = IntMax
      \/ ~ Unregistered(config.reporterNames) /\ context' = opened /\ pc' = "Selecting"
  BY Zenon DEF runTests, Exit
<1>4. /\ sum = Totals /\ ~ history.bad /\ signal = 0
  BY <1>1, <1>2, Zenon DEF Fresh, Unstarted, Signalled
<1>5. CASE Unregistered(config.reporterNames) /\ pc' = "Exited" /\ context' = context
  BY <1>1, <1>2, <1>5, UnstartedKeeps, Zenon DEF RunTypes, Unstarted
<1>6. ASSUME ~ Unregistered(config.reporterNames)
      PROVE  Running(opened) /\ opened.totals = Totals
  <2>1. IsSequence(config.reporterNames)
    BY <1>1, Zenon DEF RunTypes, IsConfig
  <2>2. Running(fresh) /\ fresh.totals = Totals
    BY <1>6, <2>1, MadeReporters, FreshContext, Zenon
  <2>3. one.type # "testRunEnded" /\ two.type # "testRunEnded"
    BY Zenon
  <2> HIDE DEF fresh, one, two
  <2>4. Running(made) /\ Alike(fresh, made)
    BY <2>2, <2>3, ReportKeeps, Zenon
  <2> HIDE DEF made
  <2>5. Running(opened) /\ Alike(made, opened)
    BY <2>3, <2>4, ReportKeeps, Zenon
  <2> QED  BY <2>2, <2>4, <2>5, Zenon DEF Alike
<1> HIDE DEF opened
<1>7. ASSUME IsContext(context'), context'.totals = Totals
      PROVE  RunTypes' /\ AbortLimitKept'
  <2>1. RunTypes'
    BY <1>1, <1>2, <1>7, Zenon DEF RunTypes
  <2>2. config.abortAfter \in Nat
    BY <1>1, StateNumbers, Zenon
  <2> QED  BY <1>2, <1>7, <2>1, <2>2, NothingRan DEF AbortLimitKept
<1>8. ASSUME pc' = "Exited" \/ pc' = "Selecting"
      PROVE  Fresh' /\ Signalled' /\ Balanced' /\ PassStart' /\ BelowLimit'
  BY <1>1, <1>2, <1>8, Zenon DEF Fresh, Unstarted, Signalled, Balanced, PassStart, BelowLimit, InTest, InPass
<1>9. CASE /\ ~ Unregistered(config.reporterNames) /\ HasDuplicates(tests)
           /\ context' = EndRun(opened) /\ pc' = "Exited" /\ exitCode' = IntMax
  <2>1. /\ IsContext(context') /\ context'.totals = Totals
        /\ \A i \in DOMAIN context'.reporters :
              context'.reporters[i].verdict = AllPassed => ConsoleTotals(Totals) = AllPassed
    BY <1>6, <1>9, EndRunTells, Zenon DEF Alike
  <2>2. exitCode' # 0
    BY <1>9 DEF IntMax
  <2>3. HasDuplicates(tests)'
    BY <1>2, <1>9, Zenon
  <2>4. ExitCodeTellsFailures'
    BY <2>1, <2>2, <2>3, NothingRan, Zenon DEF ExitCodeTellsFailures, AllPassed
  <2>5. NotYetTold' /\ SumTells'
    BY <1>9, Zenon DEF NotYetTold, SumTells
  <2> QED  BY <1>7, <1>8, <1>9, <2>1, <2>4, <2>5, Zenon DEF RunInv
<1>10. CASE ~ Unregistered(config.reporterNames) /\ context' = opened /\ pc' = "Selecting"
  <2>1. Running(context') /\ context'.totals = Totals
    BY <1>6, <1>10, Zenon
  <2>2. ExitCodeTellsFailures' /\ NotYetTold'
    BY <1>10, <2>1, Zenon DEF ExitCodeTellsFailures, NotYetTold, Running
  <2>3. sum'.assertions.failed = 0 /\ ~ history'.bad
    BY <1>2, <1>4, NothingRan, Zenon
  <2>4. SumTells'
    BY <2>3 DEF SumTells
  <2> QED  BY <1>7, <1>8, <1>10, <2>1, <2>2, <2>4, Zenon DEF RunInv, Running
<1> QED  BY <1>3, <1>5, <1>9, <1>10

\* A test case begins only below the limit, and balanced.
LEMMA RunTestKeeps ==
    ASSUME RunInv, runTest
    PROVE  RunInv'
<1> DEFINE e == [type |-> "testCaseStarting"]
<1>1. /\ RunTypes /\ NotYetTold /\ Signalled /\ SumTells /\ AbortLimitKept
  BY Zenon DEF RunInv
<1>2. /\ pc = "Selecting" /\ pc' = "Cycle" /\ ~ aborting(context)
      /\ context' = Report([context EXCEPT !.tracker = startRun], e) /\ before' = context.totals
      /\ history' = [history EXCEPT !.visits = << >>, !.cycles = 0, !.unwound = FALSE,
                                    !.before = context.failing + context.missing]
      /\ config' = config /\ tests' = tests /\ next' = next /\ sum' = sum /\ frame' = frame /\ signal' = signal
  BY Zenon DEF runTest, Selected
<1>3. e.type # "testRunEnded"
  BY Zenon
<1> HIDE DEF e
<1>4. Running(context) /\ signal = 0
  BY <1>1, <1>2, Zenon DEF RunTypes, NotYetTold, Signalled, Running
<1>5. Running(context') /\ Alike(context, context')
  BY <1>2, <1>3, <1>4, TrackerKeeps, Zenon
<1>6. /\ "bad" \in DOMAIN history' /\ "before" \in DOMAIN history'
      /\ history'.bad = history.bad /\ history'.before = context.failing + context.missing
  BY <1>1, <1>2, Zenon DEF RunTypes
<1>7. history'.before \in Nat
  <2>1. context.failing \in Nat /\ context.missing \in Nat
    BY <1>1, StateNumbers, Zenon
  <2> QED  BY <1>6, <2>1
<1>8. context.totals \in TotalsType
  BY <1>4, Zenon DEF Running, IsContext
<1>9. RunTypes'
  BY <1>1, <1>2, <1>5, <1>6, <1>7, <1>8, Zenon DEF RunTypes, Running
<1>10. Fresh' /\ NotYetTold' /\ Signalled' /\ PassStart' /\ ExitCodeTellsFailures'
  BY <1>2, <1>4, <1>5, Zenon DEF Fresh, Unstarted, NotYetTold, Signalled, PassStart, InPass, Running,
                                 ExitCodeTellsFailures
<1>11. SumTells'
  BY <1>1, <1>2, <1>5, <1>6, Zenon DEF SumTells, Alike
<1>12. Balanced'
  <2>1. before' = context'.totals /\ history'.before = context'.failing + context'.missing
    BY <1>2, <1>5, <1>6, Zenon DEF Alike
  <2>2. /\ context'.totals.assertions.failed \in Nat /\ context'.totals.assertions.failedButOk \in Nat
        /\ context'.failing \in Nat /\ context'.missing \in Nat
    BY <1>5, CountsFacts, Zenon DEF Running
  <2> QED  BY <2>1, <2>2 DEF Balanced
<1>13. AbortLimitKept' /\ BelowLimit'
  <2>1. context.totals.assertions.failed \in Nat /\ config.abortAfter \in Nat
    BY <1>1, StateNumbers, Zenon
  <2>2. "NoAssertions" \notin config.warnings => context.totals.assertions.failed < config.abortAfter
    BY <1>1, <1>2, <1>4, <2>1 DEF AbortLimitKept, aborting
  <2>3. context'.totals.assertions.failed = context.totals.assertions.failed
    BY <1>5, Zenon DEF Alike
  <2>4. AbortLimitKept'
    BY <1>2, <2>1, <2>2, <2>3 DEF AbortLimitKept
  <2>5. BelowLimit'
    BY <1>2, <2>2, <2>3, Zenon DEF BelowLimit
  <2> QED  BY <2>4, <2>5
<1> QED  BY <1>9, <1>10, <1>11, <1>12, <1>13, Zenon DEF RunInv

\* A test that is passed over counts nothing.
LEMMA SkipTestKeeps ==
    ASSUME RunInv, skipTest
    PROVE  RunInv'
<1> DEFINE e == [type |-> "skipTest"]
<1>1. /\ RunTypes /\ NotYetTold /\ Signalled /\ SumTells /\ AbortLimitKept
  BY Zenon DEF RunInv
<1>2. /\ pc = "Selecting" /\ pc' = "Selecting" /\ context' = Report(context, e) /\ before' = before
      /\ history' = history /\ config' = config /\ sum' = sum /\ frame' = frame /\ signal' = signal
  BY Zenon DEF skipTest
<1>3. e.type # "testRunEnded"
  BY Zenon
<1> HIDE DEF e
<1>4. Running(context)
  BY <1>1, <1>2, Zenon DEF RunTypes, NotYetTold, Running
<1>5. Running(context') /\ Alike(context, context')
  BY <1>2, <1>3, <1>4, ReportKeeps, Zenon
<1>6. RunTypes'
  BY <1>1, <1>2, <1>5, Zenon DEF RunTypes, Running
<1>7. Fresh' /\ NotYetTold' /\ Signalled' /\ Balanced' /\ PassStart' /\ BelowLimit' /\ ExitCodeTellsFailures'
  BY <1>1, <1>2, <1>5, Zenon DEF Fresh, Unstarted, NotYetTold, Signalled, Balanced, PassStart, BelowLimit,
                                 InTest, InPass, Running, ExitCodeTellsFailures
<1>8. SumTells' /\ AbortLimitKept'
  BY <1>1, <1>2, <1>5, Zenon DEF SumTells, AbortLimitKept, Alike
<1> QED  BY <1>6, <1>7, <1>8, Zenon DEF RunInv

\* The end of the run: the exit code is what was added up.
LEMMA EndTestsKeeps ==
    ASSUME RunInv, endTests
    PROVE  RunInv'
<1> DEFINE e     == [type |-> "testGroupEnded", totals |-> sum]
           ended == Report(context, e)
<1>1. /\ RunTypes /\ NotYetTold /\ Signalled /\ SumTells /\ AbortLimitKept
  BY Zenon DEF RunInv
<1>2. /\ pc = "Selecting" /\ pc' = "Exited" /\ exitCode' = sum.assertions.failed /\ context' = EndRun(ended)
      /\ before' = before /\ history' = history /\ config' = config /\ sum' = sum /\ frame' = frame
      /\ signal' = signal
  BY Zenon DEF endTests, Exit
<1>3. e.type # "testRunEnded"
  BY Zenon
<1> HIDE DEF e
<1>4. Running(context) /\ signal = 0
  BY <1>1, <1>2, Zenon DEF RunTypes, NotYetTold, Signalled, Running
<1>5. Running(ended) /\ Alike(context, ended)
  BY <1>3, <1>4, ReportKeeps, Zenon
<1> HIDE DEF ended
<1>6. /\ IsContext(context') /\ Alike(ended, context')
      /\ \A i \in DOMAIN context'.reporters :
            context'.reporters[i].verdict = AllPassed => ConsoleTotals(ended.totals) = AllPassed
  BY <1>2, <1>5, EndRunTells, Zenon
<1>7. RunTypes'
  BY <1>1, <1>2, <1>6, Zenon DEF RunTypes
<1>8. Fresh' /\ NotYetTold' /\ Signalled' /\ SumTells' /\ Balanced' /\ PassStart' /\ BelowLimit'
  BY <1>2, Zenon DEF Fresh, Unstarted, NotYetTold, Signalled, SumTells, Balanced, PassStart, BelowLimit,
                     InTest, InPass
<1>9. AbortLimitKept'
  BY <1>1, <1>2, <1>5, <1>6, Zenon DEF AbortLimitKept, Alike
<1>10. /\ sum.assertions.failed > 0 <=> history.bad
       /\ context.totals.testCases.failed = 0 => sum.assertions.failed = 0
  BY <1>1, <1>2, Zenon DEF SumTells
<1>11. sum.assertions.failed # 0 <=> history.bad
  <2>1. sum.assertions.failed \in Nat
    BY <1>1, StateNumbers, Zenon
  <2>2. sum.assertions.failed # 0 <=> sum.assertions.failed > 0
    BY <2>1
  <2> QED  BY <1>10, <2>2, Zenon
<1>12. ConsoleTotals(ended.totals) = AllPassed => sum.assertions.failed = 0
  BY <1>5, <1>10, FailureIsNoPass, Zenon DEF Alike
<1>13. ExitCodeTellsFailures'
  BY <1>2, <1>4, <1>6, <1>11, <1>12, Zenon DEF ExitCodeTellsFailures, AllPassed
<1> QED  BY <1>7, <1>8, <1>9, <1>13, Zenon DEF RunInv

-----------------------------------------------------------------------------
(***************************************************************************)
(* The passes over a test case.                                            *)
(***************************************************************************)
\* A pass begins below the limit and remembers what was counted.
LEMMA StartPassKeeps ==
    ASSUME RunInv, startPass
    PROVE  RunInv'
<1> DEFINE e == [type |-> "sectionStarting", line |-> 0]
           t == acquire(startCycle(context.tracker), <<Test.name>>)
<1>1. /\ RunTypes /\ NotYetTold /\ Signalled /\ SumTells /\ Balanced /\ BelowLimit /\ AbortLimitKept
  BY Zenon DEF RunInv
<1>2. /\ pc = "Cycle" /\ pc' = "Body"
      /\ frame' = [NoFrame EXCEPT !.prev = context.totals.assertions]
      /\ history' = [history EXCEPT !.cycles = @ + 1]
      /\ config' = config /\ tests' = tests /\ next' = next /\ before' = before /\ sum' = sum /\ signal' = signal
  BY Zenon DEF startPass
<1>3. Running(context)
  BY <1>1, <1>2, Zenon DEF RunTypes, NotYetTold, Running
<1>4. context' = Report([context EXCEPT !.tracker = t], e)
  <2>1. [context EXCEPT !.tracker = acquire(startCycle(@), <<Test.name>>)] = [context EXCEPT !.tracker = t]
    BY Zenon
  <2> QED  BY <2>1, Zenon DEF startPass
<1>5. e.type # "testRunEnded"
  BY Zenon
<1> HIDE DEF e, t
<1>6. Running(context') /\ Alike(context, context')
  BY <1>3, <1>4, <1>5, TrackerKeeps, Zenon
<1>7. /\ "bad" \in DOMAIN history' /\ "before" \in DOMAIN history'
      /\ history'.bad = history.bad /\ history'.before = history.before
  BY <1>1, <1>2, Zenon DEF RunTypes
<1>8. "prev" \in DOMAIN frame' /\ "thrown" \in DOMAIN frame' /\ frame'.prev = context.totals.assertions
  BY <1>2, Zenon DEF NoFrame
<1>9. context.totals.assertions \in CountsType
  BY <1>3 DEF Running, IsContext, TotalsType
<1>10. RunTypes'
  BY <1>1, <1>2, <1>6, <1>7, <1>8, <1>9, Zenon DEF RunTypes, Running
<1>11. Fresh' /\ NotYetTold' /\ Signalled' /\ ExitCodeTellsFailures'
  BY <1>1, <1>2, <1>6, Zenon DEF Fresh, Unstarted, NotYetTold, Signalled, Running, ExitCodeTellsFailures
<1>12. SumTells' /\ AbortLimitKept' /\ BelowLimit'
  BY <1>1, <1>2, <1>6, <1>7, Zenon DEF SumTells, AbortLimitKept, BelowLimit, Alike
<1>13. okToFail(Test)' <=> okToFail(Test)
  BY <1>2, Zenon DEF Test
<1>14. InTest /\ ~ InPass
  BY <1>2, Zenon DEF InTest, InPass
<1>15. /\ before.testCases = context.totals.testCases
       /\ context.totals.assertions.failed >= before.assertions.failed
       /\ context.totals.assertions.failedButOk >= before.assertions.failedButOk
       /\ (context.totals.assertions.failed - before.assertions.failed)
             + (context.totals.assertions.failedButOk - before.assertions.failedButOk)
             = context.failing + context.missing - history.before
       /\ ~ okToFail(Test) => context.totals.assertions.failedButOk = before.assertions.failedButOk
       /\ okToFail(Test) => context.totals.assertions.failed = before.assertions.failed
  BY <1>1, <1>14, Zenon DEF Balanced
<1>16. Balanced'
  <2>1. InPass'
    BY <1>2, Zenon DEF InPass
  <2> QED  BY <1>2, <1>6, <1>7, <1>13, <1>15, <2>1, Zenon DEF Balanced, Alike
<1>17. PassStart'
  <2>1. /\ before'.assertions.failed = before.assertions.failed
        /\ frame'.prev.failed = context.totals.assertions.failed
        /\ context'.totals.assertions.failed = context.totals.assertions.failed
    BY <1>2, <1>6, <1>8, Zenon DEF Alike
  <2>2. context.totals.assertions.failed \in Nat /\ before.assertions.failed \in Nat
    BY <1>1, StateNumbers, Zenon
  <2>3. /\ before'.assertions.failed <= frame'.prev.failed
        /\ frame'.prev.failed <= context'.totals.assertions.failed
    BY <1>15, <2>1, <2>2
  <2> QED  BY <1>13, <1>15, <2>1, <2>3, Zenon DEF PassStart
<1> QED  BY <1>10, <1>11, <1>12, <1>16, <1>17, Zenon DEF RunInv

\* The failures of a test that may fail are moved to those that are ok.
LEMMA SwapCounts ==
    ASSUME NEW c, Running(c), NEW n \in Nat, n <= c.totals.assertions.failed,
           NEW d, d = okToFailSwap(c, c.totals.assertions.failed - n)
    PROVE  /\ Running(d) /\ d.totals.testCases = c.totals.testCases
           /\ d.failing = c.failing /\ d.missing = c.missing
           /\ okToFail(Test) => /\ d.totals.assertions.failed = n
                                /\ d.totals.assertions.failedButOk
                                     = c.totals.assertions.failedButOk + (c.totals.assertions.failed - n)
           /\ ~ okToFail(Test) => d = c
<1> DEFINE failed == c.totals.assertions.failed - n
<1>1. CASE ~ okToFail(Test)
  BY <1>1, Zenon DEF okToFailSwap
<1>2. CASE okToFail(Test)
  <2>1. d = [c EXCEPT !.totals.assertions.failed = @ - failed, !.totals.assertions.failedButOk = @ + failed]
    BY <1>2, Zenon DEF okToFailSwap
  <2>2. failed \in Nat /\ c.totals.assertions.failed \in Nat /\ c.totals.assertions.failed - failed = n
    BY CountsFacts DEF Running
  <2> HIDE DEF failed
  <2>3. /\ DOMAIN d = DOMAIN c
        /\ d.totals = [c.totals EXCEPT !.assertions.failed = @ - failed, !.assertions.failedButOk = @ + failed]
        /\ d.failing = c.failing /\ d.missing = c.missing
        /\ d.unfinished = c.unfinished /\ d.reporters = c.reporters
    BY <2>1, Zenon DEF Running, IsContext
  <2>4. c.totals \in TotalsType
    BY Zenon DEF Running, IsContext
  <2>5. /\ d.totals.testCases = c.totals.testCases /\ d.totals \in TotalsType
        /\ d.totals.assertions.failed = n
        /\ d.totals.assertions.failedButOk = c.totals.assertions.failedButOk + failed
    <3> DEFINE a == c.totals.assertions
               b == [a EXCEPT !.failed = @ - failed, !.failedButOk = @ + failed]
    <3>1. a \in CountsType /\ c.totals.testCases \in CountsType
      BY <2>4 DEF TotalsType
    <3>2. d.totals = [assertions |-> b, testCases |-> c.totals.testCases]
      BY <2>3, <2>4 DEF TotalsType, CountsType
    <3>4. a.failed - failed = n
      BY <2>2
    <3> HIDE DEF a
    <3>3. b \in CountsType /\ b.failed = a.failed - failed /\ b.failedButOk = a.failedButOk + failed
      <4>1. DOMAIN a = {"passed", "failed", "failedButOk"}
        BY <3>1 DEF CountsType
      <4>2. a.passed \in Nat /\ a.failed - failed \in Nat /\ a.failedButOk + failed \in Nat
        BY <2>2, <3>1, <3>4 DEF CountsType
      <4>3. /\ DOMAIN b = DOMAIN a /\ b = [f \in DOMAIN b |-> b[f]]
            /\ b.passed = a.passed /\ b.failed = a.failed - failed /\ b.failedButOk = a.failedButOk + failed
        BY <4>1, Zenon
      <4> HIDE DEF b
      <4> QED  BY <4>1, <4>2, <4>3 DEF CountsType
    <3> HIDE DEF b
    <3> QED  BY <2>2, <3>1, <3>2, <3>3 DEF TotalsType, a
  <2>6. Running(d)
    BY <2>3, <2>5, Zenon DEF Running, IsContext
  <2> QED  BY <1>2, <2>3, <2>5, <2>6, Zenon DEF failed
<1> QED  BY <1>1, <1>2

\* What the end of a pass makes of the context: everything that was left open is
\* counted, then the failures of a test that may fail are moved.
PassEnded(c, d, n, ended) ==
    /\ Running(ended) /\ ended.totals.testCases = c.totals.testCases
    /\ ended.failing = d.failing /\ ended.missing = d.missing
    /\ okToFail(Test) => /\ ended.totals.assertions.failed = n
                         /\ ended.totals.assertions.failedButOk
                              = d.totals.assertions.failedButOk + (d.totals.assertions.failed - n)
    /\ ~ okToFail(Test) => /\ ended.totals.assertions.failed = d.totals.assertions.failed
                           /\ ended.totals.assertions.failedButOk = d.totals.assertions.failedButOk

\* It is that, whatever was counted.
LEMMA PassEndCounts ==
    ASSUME NEW c, Running(c), NEW d, Counted(c, d), NEW n \in Nat, n <= c.totals.assertions.failed,
           NEW e, e.type # "testRunEnded",
           NEW ended, ended = Report(okToFailSwap(d, d.totals.assertions.failed - n), e)
    PROVE  PassEnded(c, d, n, ended)
<1> DEFINE swapped == okToFailSwap(d, d.totals.assertions.failed - n)
<1>1. Running(d) /\ d.totals.testCases = c.totals.testCases
  BY Zenon DEF Counted
<1>2. n <= d.totals.assertions.failed
  <2>1. c.totals.assertions.failed \in Nat /\ d.totals.assertions.failed \in Nat
    BY <1>1, CountsFacts, Zenon DEF Running
  <2>2. d.totals.assertions.failed >= c.totals.assertions.failed
    BY Zenon DEF Counted
  <2> QED  BY <2>1, <2>2
<1>3. /\ Running(swapped) /\ swapped.totals.testCases = d.totals.testCases
      /\ swapped.failing = d.failing /\ swapped.missing = d.missing
      /\ okToFail(Test) => /\ swapped.totals.assertions.failed = n
                           /\ swapped.totals.assertions.failedButOk
                                = d.totals.assertions.failedButOk + (d.totals.assertions.failed - n)
      /\ ~ okToFail(Test) => swapped = d
  BY <1>1, <1>2, SwapCounts, Zenon
<1> HIDE DEF swapped
<1>4. Running(ended) /\ Alike(swapped, ended)
  BY <1>3, ReportKeeps, Zenon DEF swapped
<1> QED  BY <1>1, <1>3, <1>4, Zenon DEF Alike, PassEnded

\* What is counted while a pass is ended: at most one failure, and the missing assertions.
LEMMA LeftOpenIsCounted ==
    ASSUME NEW c, Running(c), NEW left, left = [c EXCEPT !.messages = 0],
           NEW result, NEW caught, caught = assertionEnded(left, result) \/ caught = left,
           NEW t, NEW closed, closed = handleUnfinishedSections([caught EXCEPT !.tracker = t]),
           NEW a, NEW counted, counted = testForMissingAssertions(closed, a)
    PROVE  /\ Counted(c, counted)
           /\ "NoAssertions" \notin config.warnings =>
                 /\ counted.totals.assertions.failed <= c.totals.assertions.failed + 1
                 /\ caught = left => counted.totals.assertions.failed = c.totals.assertions.failed
<1> DEFINE moved == [caught EXCEPT !.tracker = t]
<1>1. /\ DOMAIN left = DOMAIN c /\ Alike(c, left) /\ left.reporters = c.reporters
      /\ left.unfinished = c.unfinished
  BY Zenon DEF Running, IsContext, Alike
<1>2. Running(left)
  BY <1>1, OtherFields, Zenon DEF Running, IsContext
<1>3. Counted(c, left)
  BY <1>1, <1>2, AlikeIsGrown, GrownIsCounted, Zenon
<1>4. Counted(left, caught)
  <2>1. Counted(left, left)
    BY <1>2, AlikeIsGrown, GrownIsCounted, Zenon DEF Alike
  <2> QED  BY <1>2, <2>1, AssertionIsCounted, Zenon
<1>5. Counted(c, caught) /\ Running(caught)
  <2>1. Counted(c, caught)
    BY <1>3, <1>4, CountedIsTransitive, Zenon
  <2> QED  BY <2>1, Zenon DEF Counted
<1>6. /\ DOMAIN moved = DOMAIN caught /\ Alike(caught, moved) /\ moved.reporters = caught.reporters
      /\ moved.unfinished = caught.unfinished
  BY <1>5, Zenon DEF Running, IsContext, Alike
<1> HIDE DEF moved
<1>7. Running(moved)
  BY <1>5, <1>6, OtherFields, Zenon DEF Running, IsContext
<1>8. Grown(caught, moved)
  BY <1>5, <1>6, <1>7, AlikeIsGrown, Zenon
<1>9. Grown(moved, closed)
  BY <1>7, UnfinishedGrow, Zenon DEF moved
<1>10. Grown(closed, counted)
  <2>1. Running(closed)
    BY <1>9, Zenon DEF Grown
  <2> QED  BY <2>1, MissingGrows, Zenon
<1>11. Grown(caught, counted)
  BY <1>5, <1>8, <1>9, <1>10, GrownIsTransitive, Zenon
<1>12. Counted(c, counted)
  BY <1>5, <1>11, GrownIsCounted, CountedIsTransitive, Zenon
<1>13. /\ c.totals.assertions.failed \in Nat /\ caught.totals.assertions.failed \in Nat
       /\ counted.totals.assertions.failed \in Nat /\ caught.missing \in Nat /\ counted.missing \in Nat
  BY <1>5, <1>12, CountsFacts, Zenon DEF Running, Counted
<1>14. /\ caught.totals.assertions.failed <= c.totals.assertions.failed + 1
       /\ caught = left => caught.totals.assertions.failed = c.totals.assertions.failed
  <2>1. left.totals.assertions.failed = c.totals.assertions.failed
    BY <1>1, Zenon DEF Alike
  <2>2. CASE caught = left
    BY <1>13, <2>1, <2>2
  <2>3. CASE caught # left
    <3>1. caught = assertionEnded(left, result)
      BY <2>3
    <3>2. \/ caught.totals.assertions.failed = left.totals.assertions.failed
          \/ caught.totals.assertions.failed = left.totals.assertions.failed + 1
      <4>1. AssertionCounted(left, result, caught)
        BY <1>2, <3>1, AssertionCounts, Zenon
      <4> QED  BY <4>1, Zenon DEF AssertionCounted
    <3> QED  BY <1>13, <2>1, <2>3, <3>2
  <2> QED  BY <2>2, <2>3
<1>15. "NoAssertions" \notin config.warnings
         => counted.totals.assertions.failed = caught.totals.assertions.failed
  BY <1>11, <1>13 DEF Grown
<1> QED  BY <1>12, <1>14, <1>15

\* The end of a pass: an exception counts once, what a failure left open is closed, a
\* test that may fail is rid of its failures, and another pass begins only below the limit.
LEMMA EndPassKeeps ==
    ASSUME RunInv, endPass
    PROVE  RunInv'
<1> DEFINE left    == [context EXCEPT !.messages = 0]
           result  == useActiveException({"Normal"})
           caught  == IF frame.thrown = "other" THEN assertionEnded(left, result) ELSE left
           t       == close(caught.tracker, TestPath)
           closed  == handleUnfinishedSections([caught EXCEPT !.tracker = t])
           missing == MissingAssertions(closed, Minus(closed.totals.assertions, frame.prev))
           counted == testForMissingAssertions(closed, Minus(closed.totals.assertions, frame.prev))
           swapped == okToFailSwap(counted, counted.totals.assertions.failed - frame.prev.failed)
           e       == [type |-> "sectionEnded", missing |-> missing]
           next_   == IF ~isSuccessfullyCompleted(context'.tracker, TestPath) /\ ~aborting(context')
                      THEN "Cycle" ELSE "TestEnd"
<1>1. /\ RunTypes /\ NotYetTold /\ Signalled /\ SumTells /\ Balanced /\ PassStart /\ BelowLimit /\ AbortLimitKept
  BY Zenon DEF RunInv
<1>2. /\ pc = "Return" /\ frame' = NoFrame /\ config' = config /\ tests' = tests /\ next' = next
      /\ before' = before /\ sum' = sum /\ signal' = signal /\ history' = history
  BY Zenon DEF endPass
<1>3. context' = Report(swapped, e) /\ Goto(context', next_)
  <2>1. [caught EXCEPT !.tracker = close(@, TestPath)] = [caught EXCEPT !.tracker = t]
    BY Zenon
  <2> QED  BY <2>1, Zenon DEF endPass
<1>4. caught = assertionEnded(left, result) \/ caught = left
  BY Zenon
<1>5. frame.thrown # "other" => caught = left
  BY Zenon
<1>6. e.type # "testRunEnded"
  BY Zenon
<1>7. Running(context) /\ signal = 0
  BY <1>1, <1>2, Zenon DEF RunTypes, NotYetTold, Signalled, Running
<1> HIDE DEF result, e, t
<1>8. /\ Counted(context, counted)
      /\ "NoAssertions" \notin config.warnings =>
            /\ counted.totals.assertions.failed <= context.totals.assertions.failed + 1
            /\ caught = left => counted.totals.assertions.failed = context.totals.assertions.failed
  <2> HIDE DEF left, caught, closed, counted, swapped
  <2>1. /\ left = [context EXCEPT !.messages = 0]
        /\ closed = handleUnfinishedSections([caught EXCEPT !.tracker = t])
    BY Zenon DEF left, closed
  <2>2. counted = testForMissingAssertions(closed, Minus(closed.totals.assertions, frame.prev))
    BY Zenon DEF counted
  <2> QED  BY <1>4, <1>7, <2>1, <2>2, LeftOpenIsCounted
<1> HIDE DEF left, caught, closed, counted, next_
<1>9. /\ context.totals.assertions.failed \in Nat /\ context.totals.assertions.failedButOk \in Nat
      /\ context.failing \in Nat /\ context.missing \in Nat /\ history.before \in Nat
      /\ before.assertions.failed \in Nat /\ before.assertions.failedButOk \in Nat
      /\ frame.prev.failed \in Nat /\ config.abortAfter \in Nat
  BY <1>1, StateNumbers, Zenon
<1>10. InTest /\ InPass
  BY <1>2, Zenon DEF InTest, InPass
<1>11. /\ before.assertions.failed <= frame.prev.failed
       /\ frame.prev.failed <= context.totals.assertions.failed
       /\ okToFail(Test) => frame.prev.failed = before.assertions.failed
  BY <1>1, <1>10, Zenon DEF PassStart
<1>12. /\ Running(context') /\ context'.totals.testCases = context.totals.testCases
       /\ context'.failing = counted.failing /\ context'.missing = counted.missing
       /\ okToFail(Test) => /\ context'.totals.assertions.failed = frame.prev.failed
                            /\ context'.totals.assertions.failedButOk
                                 = counted.totals.assertions.failedButOk
                                     + (counted.totals.assertions.failed - frame.prev.failed)
       /\ ~ okToFail(Test) => /\ context'.totals.assertions.failed = counted.totals.assertions.failed
                              /\ context'.totals.assertions.failedButOk = counted.totals.assertions.failedButOk
  <2> DEFINE n == frame.prev.failed
  <2>1. context' = Report(okToFailSwap(counted, counted.totals.assertions.failed - n), e)
    BY <1>3, Zenon
  <2>2. n \in Nat /\ n <= context.totals.assertions.failed
    BY <1>9, <1>11, Zenon
  <2> HIDE DEF n
  <2>3. Counted(context, counted)
    BY <1>8, Zenon
  <2>4. PassEnded(context, counted, n, context')
    BY <1>6, <1>7, <2>1, <2>2, <2>3, PassEndCounts, Zenon
  <2> QED  BY <2>4, Zenon DEF PassEnded, n
<1>13. /\ counted.totals.assertions.failed \in Nat /\ counted.totals.assertions.failedButOk \in Nat
       /\ counted.failing \in Nat /\ counted.missing \in Nat
       /\ context'.totals.assertions.failed \in Nat /\ context'.totals.assertions.failedButOk \in Nat
  BY <1>8, <1>12, CountsFacts, Zenon DEF Running, Counted
<1>14. /\ counted.totals.assertions.failedButOk = context.totals.assertions.failedButOk
       /\ counted.totals.assertions.failed >= context.totals.assertions.failed
       /\ counted.totals.assertions.failed - context.totals.assertions.failed
            = (counted.failing + counted.missing) - (context.failing + context.missing)
  BY <1>8, Zenon DEF Counted
<1>15. /\ before.testCases = context.totals.testCases
       /\ context.totals.assertions.failed >= before.assertions.failed
       /\ context.totals.assertions.failedButOk >= before.assertions.failedButOk
       /\ (context.totals.assertions.failed - before.assertions.failed)
             + (context.totals.assertions.failedButOk - before.assertions.failedButOk)
             = context.failing + context.missing - history.before
       /\ ~ okToFail(Test) => context.totals.assertions.failedButOk = before.assertions.failedButOk
  BY <1>1, <1>10, Zenon DEF Balanced
<1>16. \/ pc' = "Cycle" /\ ~ aborting(context')
       \/ pc' = "TestEnd" \/ pc' = "Hung" \/ pc' = "Aborted"
  <2>1. pc' = next_ \/ pc' = "Hung" \/ pc' = "Aborted"
    BY <1>3, GotoTargets, Zenon
  <2>2. (next_ = "Cycle" /\ ~ aborting(context')) \/ next_ = "TestEnd"
    BY Zenon DEF next_
  <2> QED  BY <2>1, <2>2, Zenon
<1>17. RunTypes'
  <2>1. "prev" \in DOMAIN frame' /\ frame'.prev = Counts /\ "thrown" \in DOMAIN frame'
    BY <1>2, Zenon DEF NoFrame
  <2>2. Counts \in CountsType
    BY DEF Counts, CountsType
  <2> QED  BY <1>1, <1>2, <1>12, <2>1, <2>2, Zenon DEF RunTypes, Running
<1>18. Fresh' /\ NotYetTold' /\ Signalled' /\ PassStart' /\ ExitCodeTellsFailures'
  BY <1>1, <1>2, <1>7, <1>12, <1>16, Zenon DEF Fresh, Unstarted, NotYetTold, Signalled, PassStart, InPass,
                                              Running, ExitCodeTellsFailures
<1>19. SumTells'
  BY <1>1, <1>2, <1>12, Zenon DEF SumTells
<1>20. okToFail(Test)' <=> okToFail(Test)
  BY <1>2, Zenon DEF Test
<1>21. /\ context'.totals.assertions.failed >= before.assertions.failed
       /\ context'.totals.assertions.failedButOk >= before.assertions.failedButOk
       /\ (context'.totals.assertions.failed - before.assertions.failed)
             + (context'.totals.assertions.failedButOk - before.assertions.failedButOk)
             = context'.failing + context'.missing - history.before
       /\ ~ okToFail(Test) => context'.totals.assertions.failedButOk = before.assertions.failedButOk
       /\ okToFail(Test) => context'.totals.assertions.failed = before.assertions.failed
  <2>1. CASE okToFail(Test)
    BY <1>9, <1>11, <1>12, <1>13, <1>14, <1>15, <2>1
  <2>2. CASE ~ okToFail(Test)
    BY <1>9, <1>11, <1>12, <1>13, <1>14, <1>15, <2>2
  <2> QED  BY <2>1, <2>2
<1>22. Balanced'
  BY <1>2, <1>12, <1>15, <1>20, <1>21, Zenon DEF Balanced
<1>23. "NoAssertions" \notin config.warnings => counted.totals.assertions.failed <= config.abortAfter
  <2>1. CASE frame.thrown = "other"
    <3>1. "NoAssertions" \notin config.warnings => context.totals.assertions.failed < config.abortAfter
      BY <1>1, <1>2, <2>1, Zenon DEF BelowLimit
    <3> QED  BY <1>8, <1>9, <1>13, <3>1
  <2>2. CASE frame.thrown # "other"
    <3>1. "NoAssertions" \notin config.warnings => context.totals.assertions.failed <= config.abortAfter
      BY <1>1, <1>7, Zenon DEF AbortLimitKept
    <3> QED  BY <1>5, <1>8, <2>2, <3>1
  <2> QED  BY <2>1, <2>2
<1>24. "NoAssertions" \notin config.warnings => context'.totals.assertions.failed <= config.abortAfter
  BY <1>9, <1>11, <1>12, <1>13, <1>14, <1>23
<1>25. AbortLimitKept'
  BY <1>2, <1>24, Zenon DEF AbortLimitKept
<1>26. BelowLimit'
  <2>1. pc' = "Cycle" => context'.totals.assertions.failed # config.abortAfter
    BY <1>2, <1>16, Zenon DEF aborting
  <2>2. pc' = "Cycle" /\ "NoAssertions" \notin config.warnings
          => context'.totals.assertions.failed < config.abortAfter
    BY <1>9, <1>13, <1>24, <2>1
  <2>3. pc' # "Body" /\ pc' # "Unwinding" /\ pc' # "Return"
    BY <1>16, Zenon
  <2> QED  BY <1>2, <2>2, <2>3, Zenon DEF BelowLimit
<1> QED  BY <1>17, <1>18, <1>19, <1>22, <1>25, <1>26, Zenon DEF RunInv

-----------------------------------------------------------------------------
(***************************************************************************)
(* The end of a test case, and the signal handler.                         *)
(***************************************************************************)
\* What a test case did: its failures, and one test case that failed, passed, or
\* failed although that is ok.
TestCaseDid(t, p, done) ==
    /\ DOMAIN done = {"assertions", "testCases"} /\ DOMAIN done.assertions = DOMAIN Counts
    /\ done.assertions.failed = t.assertions.failed - p.assertions.failed
    /\ \/ /\ t.assertions.failed > p.assertions.failed
          /\ done.testCases = [passed |-> 0, failed |-> 1, failedButOk |-> 0]
       \/ /\ t.assertions.failed = p.assertions.failed
          /\ t.assertions.failedButOk > p.assertions.failedButOk
          /\ done.testCases = [passed |-> 0, failed |-> 0, failedButOk |-> 1]
       \/ /\ t.assertions.failed = p.assertions.failed
          /\ t.assertions.failedButOk = p.assertions.failedButOk
          /\ done.testCases = [passed |-> 1, failed |-> 0, failedButOk |-> 0]

\* Totals::delta says that.
LEMMA DeltaCounts ==
    ASSUME NEW t \in TotalsType, NEW p \in TotalsType, p.testCases = t.testCases,
           t.assertions.failed >= p.assertions.failed,
           t.assertions.failedButOk >= p.assertions.failedButOk,
           NEW done, done = delta(t, p)
    PROVE  TestCaseDid(t, p, done)
<1> DEFINE did  == Minus(t.assertions, p.assertions)
           zero == Minus(t.testCases, p.testCases)
           kind == CASE did.failed > 0 -> "failed"
                     [] did.failed = 0 /\ did.failedButOk > 0 -> "failedButOk"
                     [] OTHER -> "passed"
<1>1. done = [assertions |-> did, testCases |-> [zero EXCEPT ![kind] = @ + 1]]
  BY Zenon DEF delta
<1>2. /\ t.assertions \in CountsType /\ p.assertions \in CountsType /\ t.testCases \in CountsType
  BY DEF TotalsType
<1>3. /\ DOMAIN did = {"passed", "failed", "failedButOk"}
      /\ did.failed = t.assertions.failed - p.assertions.failed
      /\ did.failedButOk = t.assertions.failedButOk - p.assertions.failedButOk
  BY <1>2 DEF Minus, CountsType
<1>4. zero = Counts
  BY <1>2 DEF Minus, CountsType, Counts
<1>5. DOMAIN Counts = {"passed", "failed", "failedButOk"}
  BY DEF Counts
<1>6. /\ t.assertions.failed \in Nat /\ p.assertions.failed \in Nat
      /\ t.assertions.failedButOk \in Nat /\ p.assertions.failedButOk \in Nat
  BY <1>2 DEF CountsType
<1>10. /\ DOMAIN done = {"assertions", "testCases"} /\ done.assertions = did
       /\ done.testCases = [Counts EXCEPT ![kind] = @ + 1]
  <2> DEFINE ended == [zero EXCEPT ![kind] = @ + 1]
  <2>1. done = [assertions |-> did, testCases |-> ended]
    BY <1>1, Zenon
  <2>2. ended = [Counts EXCEPT ![kind] = @ + 1]
    <3> HIDE DEF zero, kind
    <3> QED  BY <1>4, Zenon
  <2> HIDE DEF did, ended
  <2>3. DOMAIN done = {"assertions", "testCases"} /\ done.assertions = did /\ done.testCases = ended
    BY <2>1
  <2> QED  BY <2>2, <2>3, Zenon
<1> HIDE DEF did, zero
<1>7. CASE did.failed > 0
  <2>1. t.assertions.failed > p.assertions.failed
    BY <1>3, <1>6, <1>7
  <2>2. did.failed # 0
    BY <1>3, <1>6, <1>7
  <2>3. kind = "failed"
    BY <1>7, <2>2, Zenon
  <2>4. [Counts EXCEPT !["failed"] = @ + 1] = [passed |-> 0, failed |-> 1, failedButOk |-> 0]
    BY DEF Counts
  <2>5. done.testCases = [Counts EXCEPT ![kind] = @ + 1] /\ kind = "failed"
    BY <1>10, <2>3, Zenon
  <2> HIDE DEF kind
  <2>6. done.testCases = [passed |-> 0, failed |-> 1, failedButOk |-> 0]
    BY <2>4, <2>5, Zenon
  <2> QED  BY <1>3, <1>5, <1>10, <2>1, <2>6, Zenon DEF TestCaseDid
<1>8. CASE did.failed = 0 /\ did.failedButOk > 0
  <2>1. /\ t.assertions.failed = p.assertions.failed
        /\ t.assertions.failedButOk > p.assertions.failedButOk
    BY <1>3, <1>6, <1>8
  <2>2. ~ (did.failed > 0)
    BY <1>8
  <2>3. kind = "failedButOk"
    BY <1>8, <2>2, Zenon
  <2>4. [Counts EXCEPT !["failedButOk"] = @ + 1] = [passed |-> 0, failed |-> 0, failedButOk |-> 1]
    BY DEF Counts
  <2>5. done.testCases = [Counts EXCEPT ![kind] = @ + 1] /\ kind = "failedButOk"
    BY <1>10, <2>3, Zenon
  <2> HIDE DEF kind
  <2>6. done.testCases = [passed |-> 0, failed |-> 0, failedButOk |-> 1]
    BY <2>4, <2>5, Zenon
  <2> QED  BY <1>3, <1>5, <1>10, <2>1, <2>6, Zenon DEF TestCaseDid
<1>9. CASE ~ (did.failed > 0) /\ ~ (did.failed = 0 /\ did.failedButOk > 0)
  <2>1. /\ t.assertions.failed = p.assertions.failed
        /\ t.assertions.failedButOk = p.assertions.failedButOk
    BY <1>3, <1>6, <1>9
  <2>3. kind = "passed"
    BY <1>9, Zenon
  <2>4. [Counts EXCEPT !["passed"] = @ + 1] = [passed |-> 1, failed |-> 0, failedButOk |-> 0]
    BY DEF Counts
  <2>5. done.testCases = [Counts EXCEPT ![kind] = @ + 1] /\ kind = "passed"
    BY <1>10, <2>3, Zenon
  <2> HIDE DEF kind
  <2>6. done.testCases = [passed |-> 1, failed |-> 0, failedButOk |-> 0]
    BY <2>4, <2>5, Zenon
  <2> QED  BY <1>3, <1>5, <1>10, <2>1, <2>6, Zenon DEF TestCaseDid
<1> QED  BY <1>7, <1>8, <1>9, Zenon

\* The end of a test case: what is added to the sum is a failure exactly if the test
\* went wrong, and then its test case counts as failed; a test that should fail and did
\* not is made to fail here.
LEMMA EndTestKeeps ==
    ASSUME RunInv, endTest
    PROVE  RunInv'
<1> DEFINE t     == context.totals
           done  == delta(t, before)
           final == IF expectedToFail(Test) /\ done.testCases.passed > 0
                    THEN [done EXCEPT !.assertions.failed = @ + 1,
                                      !.testCases.passed = @ - 1, !.testCases.failed = @ + 1] ELSE done
           e      == [type |-> "testCaseEnded"]
           failed == context.failing + context.missing > history.before
           wrong  == (failed /\ ~ okToFail(Test)) \/ (~ failed /\ expectedToFail(Test))
           grown  == [context EXCEPT !.totals.testCases = Plus(@, final.testCases)]
<1>1. /\ RunTypes /\ NotYetTold /\ Signalled /\ SumTells /\ Balanced /\ AbortLimitKept
  BY Zenon DEF RunInv
<1>2. /\ pc = "TestEnd" /\ Goto(context', "Selecting") /\ context' = Report(grown, e)
      /\ sum' = TotalsPlus(sum, final) /\ history' = [history EXCEPT !.bad = @ \/ wrong]
      /\ config' = config /\ before' = before /\ frame' = frame /\ signal' = signal
  <2>1. [history EXCEPT !.bad = @ \/ (failed /\ ~ okToFail(Test)) \/ (~ failed /\ expectedToFail(Test))]
          = [history EXCEPT !.bad = @ \/ wrong]
    OBVIOUS
  <2> HIDE DEF wrong
  <2> QED  BY <2>1, Zenon DEF endTest
<1>3. Running(context) /\ signal = 0 /\ pc # "Exited"
  BY <1>1, <1>2, Zenon DEF RunTypes, NotYetTold, Signalled, Running
<1>4. e.type # "testRunEnded"
  BY Zenon
<1>5. t \in TotalsType /\ before \in TotalsType
  BY <1>1, <1>3, Zenon DEF RunTypes, Running, IsContext
<1>6. InTest /\ ~ InPass
  BY <1>2, Zenon DEF InTest, InPass
<1>7. /\ before.testCases = t.testCases
      /\ t.assertions.failed >= before.assertions.failed
      /\ t.assertions.failedButOk >= before.assertions.failedButOk
      /\ (t.assertions.failed - before.assertions.failed) + (t.assertions.failedButOk - before.assertions.failedButOk)
           = context.failing + context.missing - history.before
      /\ ~ okToFail(Test) => t.assertions.failedButOk = before.assertions.failedButOk
      /\ okToFail(Test) => t.assertions.failed = before.assertions.failed
  BY <1>1, <1>6, Zenon DEF Balanced
<1>8. expectedToFail(Test) => okToFail(Test)
  BY DEF expectedToFail, okToFail
<1>9. /\ t.assertions.failed \in Nat /\ t.assertions.failedButOk \in Nat
      /\ before.assertions.failed \in Nat /\ before.assertions.failedButOk \in Nat
      /\ context.failing \in Nat /\ context.missing \in Nat /\ history.before \in Nat
      /\ sum.assertions.failed \in Nat /\ t.testCases.failed \in Nat
  BY <1>1, StateNumbers, Zenon
<1> HIDE DEF e, t
\* What the test case adds.
<1>10. /\ final.testCases \in CountsType /\ final.assertions.failed \in Nat
       /\ final.testCases.failed = 0 => final.assertions.failed = 0
       /\ final.assertions.failed > 0 <=> wrong
  <2> DEFINE failed1 == [passed |-> 0, failed |-> 1, failedButOk |-> 0]
             failedButOk1 == [passed |-> 0, failed |-> 0, failedButOk |-> 1]
             passed1 == [passed |-> 1, failed |-> 0, failedButOk |-> 0]
  <2>1. /\ DOMAIN done = {"assertions", "testCases"} /\ DOMAIN done.assertions = DOMAIN Counts
        /\ done.assertions.failed = t.assertions.failed - before.assertions.failed
        /\ \/ t.assertions.failed > before.assertions.failed /\ done.testCases = failed1
           \/ /\ t.assertions.failed = before.assertions.failed
              /\ t.assertions.failedButOk > before.assertions.failedButOk
              /\ done.testCases = failedButOk1
           \/ /\ t.assertions.failed = before.assertions.failed
              /\ t.assertions.failedButOk = before.assertions.failedButOk
              /\ done.testCases = passed1
    <3>1. done = delta(t, before)
      OBVIOUS
    <3> HIDE DEF done
    <3>2. TestCaseDid(t, before, done)
      BY <1>5, <1>7, <3>1, DeltaCounts, Zenon
    <3> QED  BY <3>2, Zenon DEF TestCaseDid
  <2>2. /\ failed1 \in CountsType /\ failedButOk1 \in CountsType /\ passed1 \in CountsType
        /\ failed1.failed = 1 /\ failedButOk1.failed = 0 /\ passed1.failed = 0
        /\ failed1.passed = 0 /\ failedButOk1.passed = 0 /\ passed1.passed = 1
    BY DEF CountsType
  <2>6. [passed1 EXCEPT !.passed = @ - 1, !.failed = @ + 1] = failed1
    <3> DEFINE b == [passed1 EXCEPT !.passed = @ - 1, !.failed = @ + 1]
    <3>1. DOMAIN passed1 = {"passed", "failed", "failedButOk"} /\ passed1.failedButOk = 0 /\ passed1.failed = 0
      OBVIOUS
    <3> HIDE DEF passed1
    <3>2. /\ DOMAIN b = DOMAIN passed1 /\ b = [f \in DOMAIN b |-> b[f]]
          /\ b.passed = passed1.passed - 1 /\ b.failed = passed1.failed + 1 /\ b.failedButOk = passed1.failedButOk
      BY <3>1, Zenon
    <3> HIDE DEF b
    <3>3. b.passed = 0 /\ b.failed = 1 /\ b.failedButOk = 0 /\ DOMAIN b = {"passed", "failed", "failedButOk"}
      BY <2>2, <3>1, <3>2
    <3>4. b = failed1
      BY <3>2, <3>3
    <3> QED  BY <3>4 DEF b
  <2> HIDE DEF done, failed1, failedButOk1, passed1
  <2>3. CASE t.assertions.failed > before.assertions.failed /\ done.testCases = failed1
    <3>1. final = done
      <4>1. ~ (done.testCases.passed > 0)
        BY <2>2, <2>3
      <4> QED  BY <4>1, Zenon
    <3>2. wrong
      BY <1>7, <1>9, <2>3
    <3>3. final.assertions.failed \in Nat /\ final.assertions.failed > 0
      BY <1>9, <2>1, <2>3, <3>1
    <3>4. final.testCases = failed1
      BY <2>3, <3>1, Zenon
    <3> HIDE DEF final, wrong
    <3>5. final.testCases \in CountsType /\ final.testCases.failed # 0
      BY <2>2, <3>4
    <3> QED  BY <3>2, <3>3, <3>5, Zenon
  <2>4. CASE /\ t.assertions.failed = before.assertions.failed
             /\ t.assertions.failedButOk > before.assertions.failedButOk
             /\ done.testCases = failedButOk1
    <3>1. final = done
      <4>1. ~ (done.testCases.passed > 0)
        BY <2>2, <2>4
      <4> QED  BY <4>1, Zenon
    <3>2. ~ wrong
      <4>1. okToFail(Test) /\ failed
        BY <1>7, <1>9, <2>4
      <4> QED  BY <4>1, Zenon
    <3>3. done.assertions.failed = 0
      <4>1. done.assertions.failed = t.assertions.failed - before.assertions.failed
        BY <2>1, Zenon
      <4> QED  BY <1>9, <2>4, <4>1
    <3>4. final.assertions.failed = 0 /\ final.testCases = failedButOk1
      BY <2>4, <3>1, <3>3, Zenon
    <3> HIDE DEF final, wrong
    <3> QED  BY <2>2, <3>2, <3>4
  <2>5. CASE /\ t.assertions.failed = before.assertions.failed
             /\ t.assertions.failedButOk = before.assertions.failedButOk
             /\ done.testCases = passed1
    <3>1. ~ failed
      BY <1>7, <1>9, <2>5
    <3>2. done.assertions.failed = 0 /\ done.testCases.passed > 0
      BY <1>9, <2>1, <2>2, <2>5
    <3>3. CASE expectedToFail(Test)
      <4>1. final = [done EXCEPT !.assertions.failed = @ + 1,
                                 !.testCases.passed = @ - 1, !.testCases.failed = @ + 1]
        BY <3>2, <3>3, Zenon
      <4> HIDE DEF final
      <4>2. final.assertions.failed = done.assertions.failed + 1
        <5>1. "assertions" \in DOMAIN done /\ "failed" \in DOMAIN done.assertions
          BY <2>1 DEF Counts
        <5> QED  BY <4>1, <5>1, Zenon
      <4>3. final.testCases = [passed1 EXCEPT !.passed = @ - 1, !.failed = @ + 1]
        <5>1. "testCases" \in DOMAIN done
          BY <2>1, Zenon
        <5> QED  BY <2>5, <4>1, <5>1, Zenon
      <4>4. final.testCases = failed1 /\ final.assertions.failed = 1
        BY <2>6, <3>2, <4>2, <4>3
      <4>5. wrong
        BY <3>1, <3>3, Zenon
      <4> HIDE DEF wrong
      <4> QED  BY <2>2, <4>4, <4>5
    <3>4. CASE ~ expectedToFail(Test)
      <4>1. final = done
        BY <3>4, Zenon
      <4>2. ~ wrong
        BY <3>1, <3>4, Zenon
      <4> HIDE DEF final, wrong
      <4> QED  BY <2>2, <2>5, <3>2, <4>1, <4>2
    <3> QED  BY <3>3, <3>4
  <2> QED  BY <2>1, <2>3, <2>4, <2>5, Zenon
<1> HIDE DEF done, final, failed, wrong
<1>11. /\ DOMAIN grown = DOMAIN context /\ grown.totals = [t EXCEPT !.testCases = Plus(@, final.testCases)]
       /\ grown.failing = context.failing /\ grown.missing = context.missing
       /\ grown.unfinished = context.unfinished /\ grown.reporters = context.reporters
  BY <1>3, Zenon DEF Running, IsContext, t
<1> HIDE DEF grown
<1>12. /\ grown.totals \in TotalsType
       /\ grown.totals.assertions = t.assertions
       /\ grown.totals.testCases.failed = t.testCases.failed + final.testCases.failed
  <2>1. /\ Plus(t.testCases, final.testCases) \in CountsType
        /\ Plus(t.testCases, final.testCases).failed = t.testCases.failed + final.testCases.failed
    <3>1. t.testCases \in CountsType
      BY <1>5 DEF TotalsType
    <3> QED  BY <1>10, <3>1 DEF Plus, CountsType
  <2>2. DOMAIN t = {"assertions", "testCases"} /\ t.assertions \in CountsType
    BY <1>5 DEF TotalsType
  <2>3. /\ grown.totals.assertions = t.assertions
        /\ grown.totals.testCases = Plus(t.testCases, final.testCases)
    BY <1>11, <2>2, Zenon
  <2>4. grown.totals = [assertions |-> t.assertions, testCases |-> Plus(t.testCases, final.testCases)]
    BY <1>5, <1>11 DEF TotalsType
  <2> QED  BY <2>1, <2>2, <2>3, <2>4 DEF TotalsType
<1>13. Running(grown)
  BY <1>3, <1>11, <1>12, Zenon DEF Running, IsContext
<1>14. Running(context') /\ Alike(grown, context')
  BY <1>2, <1>4, <1>13, ReportKeeps, Zenon
<1>15. /\ "assertions" \in DOMAIN sum' /\ "failed" \in DOMAIN sum'.assertions
       /\ sum'.assertions.failed = sum.assertions.failed + final.assertions.failed
  <2>1. "assertions" \in DOMAIN sum /\ "failed" \in DOMAIN sum.assertions
    BY <1>1, Zenon DEF RunTypes
  <2> QED  BY <1>2, <2>1, Zenon DEF TotalsPlus, Plus
<1>16. /\ "bad" \in DOMAIN history' /\ "before" \in DOMAIN history'
       /\ history'.before = history.before /\ history'.bad = (history.bad \/ wrong)
  BY <1>1, <1>2, Zenon DEF RunTypes
<1>17. RunTypes'
  <2>1. sum'.assertions.failed \in Nat
    BY <1>9, <1>10, <1>15
  <2> QED  BY <1>1, <1>2, <1>14, <1>15, <1>16, <2>1, Zenon DEF RunTypes, Running
<1>18. pc' = "Selecting" \/ pc' = "Hung" \/ pc' = "Aborted"
  BY <1>2, GotoTargets, Zenon
<1>19. /\ Fresh' /\ NotYetTold' /\ Signalled' /\ Balanced' /\ PassStart' /\ BelowLimit' /\ ExitCodeTellsFailures'
  BY <1>2, <1>3, <1>14, <1>18, Zenon DEF Fresh, Unstarted, NotYetTold, Signalled, Balanced, PassStart,
                     BelowLimit, InTest, InPass, Running, ExitCodeTellsFailures
<1>20. SumTells'
  <2>1. /\ sum.assertions.failed > 0 <=> history.bad
        /\ t.testCases.failed = 0 => sum.assertions.failed = 0
    BY <1>1, <1>3, Zenon DEF SumTells, t
  <2>2. sum'.assertions.failed > 0 <=> sum.assertions.failed > 0 \/ final.assertions.failed > 0
    BY <1>9, <1>10, <1>15
  <2>3. sum'.assertions.failed > 0 <=> history'.bad
    BY <1>10, <1>16, <2>1, <2>2, Zenon
  <2>4. context'.totals.testCases.failed = t.testCases.failed + final.testCases.failed
    BY <1>12, <1>14, Zenon DEF Alike
  <2>5. final.testCases.failed \in Nat
    BY <1>10 DEF CountsType
  <2>6. ASSUME context'.totals.testCases.failed = 0
        PROVE  sum'.assertions.failed = 0
    <3>1. t.testCases.failed + final.testCases.failed = 0
      BY <2>4, <2>6, Zenon
    <3> DEFINE m == t.testCases.failed
               n == final.testCases.failed
    <3>2. m \in Nat /\ n \in Nat /\ m + n = 0
      BY <1>9, <2>5, <3>1, Zenon
    <3>3. m = 0 /\ n = 0
      <4> HIDE DEF m, n
      <4> QED  BY <3>2
    <3>4. final.assertions.failed = 0 /\ sum.assertions.failed = 0
      BY <1>10, <2>1, <3>3, Zenon
    <3>5. sum'.assertions.failed = 0 + 0
      BY <1>15, <3>4, Zenon
    <3> QED  BY <3>5
  <2> QED  BY <2>3, <2>6, Zenon DEF SumTells
<1>21. AbortLimitKept'
  BY <1>1, <1>2, <1>12, <1>14, Zenon DEF AbortLimitKept, Alike, t
<1> QED  BY <1>17, <1>19, <1>20, <1>21, Zenon DEF RunInv

\* The signal handler: the exit code is no longer 0, and nobody says that all passed,
\* also when an assert of a reporter strikes again.
LEMMA HandleSignalKeeps ==
    ASSUME RunInv, handleSignal
    PROVE  RunInv'
<1> DEFINE told  == handleFatalErrorCondition(context)
           mended == [i \in DOMAIN told.reporters |-> [told.reporters[i] EXCEPT !.broken = FALSE]]
<1>1. /\ RunTypes /\ NotYetTold /\ Signalled /\ SumTells
  BY Zenon DEF RunInv
<1>2. /\ pc = "Fatal" /\ config' = config /\ before' = before /\ sum' = sum /\ frame' = frame
      /\ history' = history
      /\ \/ /\ context' = [told EXCEPT !.reporters = mended] /\ signal' = SIGABRT /\ pc' = "Fatal"
         \/ /\ context' = told /\ pc' = "Exited" /\ exitCode' = -signal /\ signal' = signal
  BY Zenon DEF handleSignal, Exit
<1>3. Running(context) /\ (signal = SIGABRT \/ signal = SIGSEGV)
  BY <1>1, <1>2, Zenon DEF RunTypes, NotYetTold, Signalled, Running
<1>4. /\ Running(told)
      /\ told.totals.testCases.failed = 0 => context.totals.testCases.failed = 0
  BY <1>3, FatalKeeps, Zenon
<1> HIDE DEF told
<1>5. Sound(mended) /\ Silent(mended)
  <2> DEFINE rs == told.reporters
  <2>1. Sound(rs) /\ Silent(rs)
    BY <1>4, Zenon DEF Running, IsContext
  <2>2. Len(rs) \in Nat /\ DOMAIN rs = 1..Len(rs)
    BY <2>1, SequenceFacts, Zenon DEF Sound
  <2>3. /\ DOMAIN mended = DOMAIN rs /\ mended = [i \in 1..Len(rs) |-> mended[i]]
        /\ \A i \in DOMAIN rs : mended[i] = [rs[i] EXCEPT !.broken = FALSE]
    BY <2>2, Zenon
  <2> HIDE DEF mended, rs
  <2>4. IsSequence(mended)
    BY <2>2, <2>3, FunctionIsSequence, Zenon
  <2>5. \A r : IsReporter(r) => /\ IsReporter([r EXCEPT !.broken = FALSE])
                                /\ [r EXCEPT !.broken = FALSE].verdict = r.verdict
    BY Zenon DEF IsReporter
  <2>6. \A i \in DOMAIN mended : /\ i \in DOMAIN rs /\ mended[i] = [rs[i] EXCEPT !.broken = FALSE]
                                 /\ IsReporter(rs[i])
    BY <2>1, <2>3, Zenon DEF Sound
  <2>7. \A i \in DOMAIN mended : IsReporter(mended[i]) /\ mended[i].verdict = rs[i].verdict
    BY <2>5, <2>6, Zenon
  <2>8. Sound(mended)
    BY <2>4, <2>7, Zenon DEF Sound
  <2>9. Silent(mended)
    BY <2>1, <2>6, <2>7, Zenon DEF Silent
  <2> QED  BY <2>8, <2>9
<1> HIDE DEF mended
<1>6. Running(context') /\ context'.totals = told.totals
  <2>1. CASE context' = told
    BY <1>4, <2>1, Zenon
  <2>2. CASE context' = [told EXCEPT !.reporters = mended]
    <3>1. /\ DOMAIN context' = DOMAIN told /\ Alike(told, context')
          /\ context'.unfinished = told.unfinished /\ context'.reporters = mended
      BY <1>4, <2>2, Zenon DEF Running, IsContext, Alike
    <3> QED  BY <1>4, <1>5, <3>1, Zenon DEF Running, IsContext, Alike
  <2> QED  BY <1>2, <2>1, <2>2
<1>7. RunTypes'
  BY <1>1, <1>2, <1>6, Zenon DEF RunTypes, Running
<1>8. /\ Fresh' /\ NotYetTold' /\ Signalled' /\ Balanced' /\ PassStart' /\ BelowLimit'
  BY <1>2, <1>6, Zenon DEF Fresh, Unstarted, NotYetTold, Signalled, Balanced, PassStart, BelowLimit,
                           InTest, InPass, Running
<1>9. SumTells'
  BY <1>1, <1>2, <1>4, <1>6, Zenon DEF SumTells
<1>10. signal' # 0 /\ (pc' = "Exited" => exitCode' # 0)
  BY <1>2, <1>3 DEF SIGABRT, SIGSEGV
<1>11. AbortLimitKept'
  BY <1>10, Zenon DEF AbortLimitKept
<1>12. ExitCodeTellsFailures'
  BY <1>6, <1>10, Zenon DEF ExitCodeTellsFailures, Running, Silent, AllPassed
<1> QED  BY <1>7, <1>8, <1>9, <1>11, <1>12, Zenon DEF RunInv

-----------------------------------------------------------------------------
\* Every step of the process keeps the invariant.
LEMMA RunNextInv ==
    ASSUME RunInv, [RunNext]_<<vars, request>>
    PROVE  RunInv'
<1>1. CASE Prepare
  BY <1>1, PrepareKeeps
<1>2. CASE Execute
  BY <1>2, RunTestsKeeps, RunTestKeeps, SkipTestKeeps, EndTestsKeeps, StartPassKeeps, EndPassKeeps,
     EndTestKeeps, SectionKeeps, SectionEndKeeps, AssertionKeeps, SilentBodyKeeps, CodeKeeps, UnwindKeeps,
     HandleSignalKeeps, Zenon DEF Execute
<1>3. CASE UNCHANGED vars
  <2>1. /\ argv' = argv /\ pc' = pc /\ config' = config /\ tests' = tests /\ next' = next
        /\ context' = context /\ before' = before /\ sum' = sum /\ frame' = frame /\ signal' = signal
        /\ exitCode' = exitCode /\ history' = history
    BY <1>3, Zenon DEF vars
  <2>2. /\ RunTypes' /\ Fresh' /\ NotYetTold' /\ Signalled' /\ SumTells'
    BY <2>1, Zenon DEF RunInv, RunTypes, Fresh, NotYetTold, Signalled, SumTells, Unstarted
  <2>3. Test' = Test
    BY <2>1, Zenon DEF Test
  <2>4. /\ Balanced' /\ PassStart' /\ BelowLimit' /\ AbortLimitKept' /\ ExitCodeTellsFailures'
    BY <2>1, <2>3, Zenon DEF RunInv, Balanced, PassStart, BelowLimit, AbortLimitKept, ExitCodeTellsFailures,
                             InTest, InPass
  <2> QED  BY <2>2, <2>4, Zenon DEF RunInv
<1> QED  BY <1>1, <1>2, <1>3, Zenon DEF RunNext, Next

\* It holds in every state of a run.
LEMMA RunInvariant == RunSpec => []RunInv
<1>1. RunInit => RunInv
  BY RunInitInv
<1>2. RunInv /\ [RunNext]_<<vars, request>> => RunInv'
  BY RunNextInv
<1> QED  BY <1>1, <1>2, PTL DEF RunSpec

\* With -a or -x the failures never exceed the limit, whatever reports them.  aborting()
\* compares for equality, so a second failure counted at the limit would switch it off:
\* assertions, exceptions and the end of a pass all look at it in between.
THEOREM LimitIsKept == RunSpec => []AbortLimitKept
<1>1. RunInv => AbortLimitKept
  BY Zenon DEF RunInv
<1> QED  BY <1>1, RunInvariant, PTL

\* The exit code, which is the sum that runTests adds up, is 0 only if nothing went wrong,
\* something else only if something did, and the console agrees with it: the failures
\* counted while a test runs, moved by okToFailSwap after each pass and corrected by
\* endTest, come out as what the test did.
THEOREM ExitCodeTells == RunSpec => []ExitCodeTellsFailures
<1>1. RunInv => ExitCodeTellsFailures
  BY Zenon DEF RunInv
<1> QED  BY <1>1, RunInvariant, PTL
=============================================================================
