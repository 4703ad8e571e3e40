# sys_info: a TLA+ model of the server, the client and the test executable

`sys_info_server` collects reports from many `sys_info_client` processes over
TCP and stores them in a PostgreSQL table; `sys_info_client` sends one report
per minute and stops when the user, or the server, says so. This directory holds
TLA+ modules translated from the C++ sources (those of the two programs, and the
single-header framework Catch that the repository's test executable is made of), TLC configurations for small
instances, and TLAPS proofs for all instances.

## The system

| Component | State | Operations | Hard because |
|---|---|---|---|
| server main, `server_service` | the io_service, its one thread, `db_handle` | start, start_server, wait, stop, join, delete | the order of stop, join and delete against running handlers; failures during start-up |
| acceptor (`sys_info_server`) | outstanding accept, map of authorized clients | accept loop | must survive errors; the map is shared by reference with every session |
| session (`sys_info_server_session`) | socket, buffer, one outstanding operation | do_read, do_write, write_to_db | TCP has no message boundaries; peers vanish; the handler waits for another thread |
| database adapter | one pqxx connection | execute | used from `std::async` threads; only one transaction at a time; may throw, be slow, or refuse a number |
| utils | none | format, split, parse, authorize, limits | unchecked indices, `atoi`, `int` to `size_t`, `operator[]` |
| client main | `stop_client`, the task's future | wait, stop, get | objects captured by reference; deferred tasks; exceptions in futures |
| repeat timer | deadline, stop flag | start_timer, work | work longer than the interval; the flag is read only after the work |
| client request | one socket | connect, write, read | each call may throw or block |
| Catch, the test executable | registry, configuration, section trackers, totals, reporters' stacks | registration, command line, passes over a test, assertions, signals, exit code | a test is run pass by pass; exceptions leave several sections at once; signal handlers call the reporters; a thread may be running |
| logger, build files | | | not modelled |

The main threads of both programs only start, wait for the console and shut
down. In the server one service thread runs all handlers of all connections, one
at a time. A read handler that accepts a report starts an `std::async` thread for
the INSERT and, because it drops the future at once, waits for that thread in the
future's destructor. In the client a task thread runs the timer's io_service; each
expiry makes a connection, sends one line, reads one byte and closes. The two
programs share the functions of `utils.cpp`, the line format and the three reply
bytes.

What makes each part correct: the shutdown order protects every object a handler
or an INSERT uses; INSERTs never overlap; a session has one operation at a time;
replies, INSERTs and lines correspond one to one; only configured keys are stored,
and what is stored is what was reported; every waiting peer is answered, every
session of a dead peer ends, and quit ends the process. For the client: reports
keep to the schedule, nothing the task uses goes away before it, no connection
is left open, and quit ends it. For both together: what the client believes of a
report is what the table holds. For the test executable: the tests that were
asked for are run, each section once, and neither the report nor the exit code
hides a failure.

## Modules

| Module | Models |
|---|---|
| `SysInfoUtils` | the functions of `utils.cpp` |
| `TcpPeers` | external: connections as the server's sockets show them, and the peers |
| `SysInfoServer` | service thread, acceptor, sessions, INSERT threads |
| `ServerMain` | the main thread of the server, composed with the three above; `Spec`, `FairSpec`, `SlowDbSpec` |
| `ServerCorrectness` | properties of the server and its inductive invariant |
| `ServerProofs` | their TLAPS proofs: lifetimes, sessions and the refinement of `Collector`; then counting, lines and rows |
| `MCServer` | reports, configuration files and junk values for TLC |
| `UtilsCorrectness`, `MCUtils` | reference definitions for `SysInfoUtils`, and a machine that enumerates inputs |
| `ParsingProofs`, `UtilsProofs` | proofs about lines and the parser, which the server's proofs use, and about the reference definitions |
| `RepeatTimer` | `repeat_timer` |
| `SysInfoClient` | main thread, task and request of the client, composed with the timer |
| `ClientCorrectness`, `ClientProofs` | properties of the client and their proofs |
| `Collector` | abstract: what the server promises, without threads and sockets |
| `SysInfoSystem`, `MCSystem` | `SysInfoClient` and `ServerMain` joined at the socket, and their common properties |
| `SystemProofs` | the proofs of these |
| `CatchTestSpec` | Catch: test cases, tags, aliases, test specifications, listings |
| `CatchCommandLine` | Catch: Clara's tokens, the options, the configuration |
| `CatchTracker` | Catch: which section is entered in which pass |
| `CatchAssertions` | Catch: results of the assertion macros, counts |
| `CatchReporters` | Catch: console, compact, XML and JUnit reporter |
| `CatchSession` | Catch: one process from the registrars to the exit code, composed of the five above |
| `CatchCorrectness`, `MCCatch` | requests and properties of the test executable; suites and command lines for TLC |
| `FoldInvariant`, `CatchProofs` | induction over left folds; the proofs about limit and exit code of the test executable |
| `TrackerProofs` | the proof that sections are run once |
| `StepwiseFold` | left folds that bind every intermediate value, which TLC needs here |

Definitions whose comment begins with "Mutant of" are wrong variants of the
definition that follows them. No specification uses them; replacing the definition
by its variant makes TLC report the property named with it in `PROJECT.json`.

### State and actions of the server

*Text.* A line is a sequence of tokens: the delimiter, a newline, a word, a number.
What the properties tell apart is kept (where the delimiters are, which number a
field holds, whether the newline of `asctime` was removed); spelling is not. TCP
may cut between any two tokens. A cut inside a token is not represented; a key of
several tokens stands for a key that may be cut. `int` and `size_t` keep their relation:
`to_size` is the remainder modulo `SizeMod`, and the INTEGER columns refuse
what is above `IntMax`.

*Handlers.* `ops` is the set of outstanding operations, each of which holds the
`shared_ptr` of its session: `Reading`, `Written` (async_write done) or `Broken`
(async_write failed). One action is one handler from its call to its return, with
everything it calls: `HandleAccept`, `HandleAcceptError`, `HandleReadError`,
`HandleWrite`, and for a read with data `ReadSome` with `RefuseReport`,
`AdmitReport` or `ParseCrashes`. The one handler that waits in the middle is split
there: `AdmitReport` ends inside the future's destructor (`cur` is the session),
`FinishReport` goes on once the INSERT thread has ended. `Execute` is that thread.
`MayRun` is what asio guarantees: one handler at a time, none after `stop()`.

*Undefined behaviour.* On a line with fewer than five fields the parser reads past
its vector: the missing fields are arbitrary (`Junk`) or the process crashes
(`ParseCrashes`). The client's `strcmp` on a buffer with one written byte may or
may not see a terminator (`read`). `std::async` without a policy may defer; the
deferred INSERT of a dropped future never runs, the deferred client task runs
inside `get()`.

*Main.* One action per call of `main`: `LoadConfig`, `ConnectDb`, `start`,
`start_server`, `UserQuits` (with `stop`), `finish_work_before_quiting`, `DeleteDb`,
`LeaveScope`; `StartupFails` and `StartServerThrows` are the ways to fail.
`acks`, `lost` and `sent` are history: replies of success, INSERTs that threw or
never ran, lines sent.

### State and actions of the client

`due` is the timer's deadline relative to the present, `beat` and `owed` are
history that count elapsed intervals against reports begun, `late` counts reports
begun after `stop`. `BeginWork` is the expiry, `connect`, `write`, `read` the calls
of the closure, `RequestThrows` an exception of any of them, `Repeat` the test
of the flag and the re-arming. `MaxLag` bounds how overdue a deadline may get.

### The abstract collector and the refinement

`Collector` has the table, the counts of lost and acknowledged reports, one report
in hand and a phase. `ServerCorrectness` instantiates it (`Abstract`): the
report in hand is the running handler's row, resolved once its INSERT thread is
gone, and the collector is closed once the service thread is joined or the process
has crashed. Everything else the server does (start-up, accepting, cut lines,
refusals, failure replies, resets, shutdown) is a stutter. `ImplementsCollector` is
the safety part, `ImplementsFairCollector` adds that a report in hand is resolved
and acknowledged even if `stop()` came meanwhile.

### The composition

`SysInfoSystem` conjoins each step of the client's closure with the step of the
peer in `TcpPeers` that it is: `connect` with a connection entering the backlog,
`write` with one line, `read` with the first byte of the replies, and the end of
the closure with the close. Each report has a connection of its own (`link`).
Calls throw when the other process is gone; nothing else is assumed of
them. The server's steps leave the client alone and the other way round.

### The test executable

A text is a sequence of symbols: a character the code looks at (`[`, `~`, `,`, `-`,
`*`, a quote) is a symbol of its own, a stretch of text it never looks into is one,
and `Lower` and `Rank` give case and order. A test's body is a short sequence of
instructions: what Catch sees of it (a section begins or ends, an assertion with
the outcomes its expression may have, an INFO, other code that may throw or be
struck by a signal, and a thread started and joined as in the integration test).
`CatchSession` has one action per stage of the process: registration, the
command line, `run`, `runTests`, each test begun, skipped or ended, each pass over
a test begun or ended, each instruction, each scope an exception leaves, and
the signal handler. The parsers, trackers, counts and reporters are operators on the
records these actions keep; a reporter is the stack it checks, the XML elements it
has open, the failures it has written and its verdict. `history` and the counters
`failing`, `suppressed` and `missing` exist for the properties.

`CatchCorrectness` writes requests the way a user would (`Written`) and says
what each means without the parser (`Wanted`): `RequestHonoured` compares the two.

What the model shows of Catch besides its properties: an assert of the JUnit
reporter fails inside the signal handler when a signal strikes in a section, and
the SIGABRT it raises enters the handler again until the stack is empty; the XML
report is left open if two sections were; `-w NoAssertions` cannot fire for a
whole test case; the compact reporter says "Passed" when a `[!shouldfail]` test
passes, although the exit code is 1, and never returns from a WARN that follows
two INFOs. `ReportComplete` and `RunEnds` name these exceptions (`RunEnds` allows
the endless loop only where successes are not shown), `AbortLimitKept` leaves out
`-w NoAssertions`, which counts past the limit, and all are listed as hazards.

## Runs

| Run | Shows | Bounds |
|---|---|---|
| `server_whole` | eleven safety properties and the refinement of `Collector`, with every fault except cut lines, in every interleaving | 2 connections, 2 lines each, 3 kinds of report (configured, configured with a negative number, unknown key), a good and a bad configuration file |
| `server_split` | replies and INSERTs still match, and no key outside the configuration is stored, when lines are cut anywhere | 1 connection, 2 lines of 11 tokens with an unknown key: the second line can join a rest of the first, a line is longer than the buffer, and each half of the key is a configured one |
| `server_live` | quit ends the process, peers are answered, sessions end, the fair `Collector` is implemented | 2 connections, 1 line each, accept errors, failing and deferred INSERTs, end of file on the console |
| `server_torn` | *violated*: a row that nobody reported is stored when a line arrives in two pieces | 1 connection, 1 line |
| `server_slow_db` | *violated*: connections are not independent | 2 connections, a database that never answers |
| `server_deferred` | *violated*: success is reported for an INSERT that never ran | 1 connection |
| `utils` | splitting, parsing, configuration and limits against reference definitions | texts of up to 4 tokens, files of up to 3 elements, numbers on both sides of every limit |
| `client_whole` | schedule, lifetimes, stop and quit with every fault | interval of 3 ticks, up to 7 ticks late, so that two whole intervals can be missed |
| `client_unauthorized` | *violated*: a refusal may not stop the client | |
| `client_unreachable` | *violated*: one failed connect ends the reports for good | |
| `system` | client and server agree on every report, rows are in order, quit ends the client although its calls have no timeout, sessions end | 2 reports (the session of the first may still be open during the second), a configured or an unknown key, failing INSERTs, either side quitting at any time |
| `catch` | the six properties of the test executable | 9 suites of up to 4 tests (sections nested twice, same names, failures, exceptions, signals, messages, a running thread), every option and mistake once, 10 selections, every reporter with every limit |

Two connections are enough for what sessions can do to each other: every
interaction goes through `cur`, `txns` and the shared map, and involves a pair.
`int` has 4 bits and `size_t` 5, so that a number can be positive, negative, and
too large for the column. Connections are not declared symmetric, since the live
runs could not use it soundly and the others do not need it. Deadlock is checked in
every run but `utils`, whose machine only enumerates inputs; where a process may
really rest for ever (it ended, the console loop spins, the user never quits) the
model has an explicit step for it (`Idle`, `Rest`, `Over`).

In `catch` the two-level nesting is what tells the innermost section, which fails,
from those around it, which are closed; limits 1 and 2 meet a failure as the
first and as a later one; two reporters at once are needed for one to stop the
other. All numbers stay far below `NoLimit`.

The violated properties each state a comment of the code or a sentence of the
repository's README; `PROJECT.json` quotes them under "findings".

### Fairness

`ThreadFairness`: the scheduler runs the main thread and the service thread
(weak fairness). A completed operation waits in the FIFO queue of the io_service,
so it is served if the thread keeps coming back, even though other handlers
(accept errors, other sessions) intervene: strong fairness per connection. TCP
delivers the RST of a closed socket. `FairSpec` adds that the database answers or
fails; `SlowDbSpec` leaves that out. Nothing obliges the user to quit or a peer to
act. The client's `FairSpec` says that both threads run, that time passes, and that
a call on a socket ends, by an answer or by an error. The code does not guarantee
the last for a server that accepts and never answers: `QuitEndsClient` depends on
it. `SysFairSpec` does without: it has the fairness of the server and of the
client's threads and clock, and `QuitEndsClientOfServer` shows that this server's
answers, or its end, release the client.

The test executable has one thread, which goes on until the process is over:
`RunSpec` says so without ENABLED, which is too slow to evaluate here; the deadlock
check shows that `Next` is enabled until then.

## Proofs

`ServerProofs` proves, for every set of connections, reports, configuration
files, junk values, buffer size and faults (lines may be cut):

- `TypeCorrect`: `TypeOK`, strengthened by what the table and the INSERTs may hold
  (rows the parser can return for some text).
- `Safe`: the inductive invariant `SafetyInv`, of three parts proved by a lemma
  each. `LifetimeInv` says that the only INSERT in execution is that of the handler
  that waits for it, so that joining the service thread also ends the INSERT; this
  is why stop, join, delete is enough although nobody waits for the INSERT thread
  by name. `SessionInv` says that a connection is in the backlog, or has one
  operation, or is the running handler's, and never two of these. `ConfigInv` says
  that the key of the running handler was found in the map, so that `operator[]`
  adds nothing.
- From it `LifetimesAreSafe`, `TransactionsAreSingle`, `OperationsAreSingle`,
  `StrangersAreNotStored`, and the action property `JoinedIsQuiet`.

Next comes the refinement, `CollectorImplemented`: initial states map
to initial states and every step to a step of `Collector` or a stutter, for cut
lines and all faults. It needs `JobInv`: the row a waiting handler has in hand is
the one its INSERT carries.

The second half of `ServerProofs` goes on from `SafetyInv`, each theorem with the part of the
state it needs tied down in `ServerCorrectness`:

- `AcksAreInserts` (`AcksMatchInserts`) by induction with `SafetyInv`: while a
  handler waits for its INSERT the counts differ by the report in hand.
- `FailedStartsAreClean` (`FailedStartServesNobody`) with `StartInv`: until
  `start_server` has succeeded nothing is accepted, read, sent or stored.
- `StoredOnce` (`StoredAtMostOnce`) with `LineInv`: every line sent on a connection
  is waiting, in the handler's hand or answered, and never two of these.
- `WholeLinesAreSafe` (`NoCrashWhileServing`): what waits on a connection is a whole
  line, and a whole line is never short, whatever its key.
- `RowsAreExact` (`RowsAreReports`) with `ContentInv`: rows and INSERTs hold what
  some report says, because the parser inverts the formatter (`LineIsParsed`).

The last three hold under `WholeLines`, and `RowsAreExact` under `CleanReports` as
well. `WholeLines` says that TCP does not cut (no "split" fault) and that a line
fits the buffer. The code relies on it without saying so: a line has some fifty
bytes, the buffer 1024, and one `write` of it normally arrives as one read.
`server_torn` shows what happens otherwise. `CleanReports` says that keys hold no
delimiter and numbers are ints, which is how the client makes them.

`ParsingProofs` proves that the parser gives back what the formatter wrote for
every key without the delimiter (`LineIsParsed`), that no line is short
(`LineIsNotShort`) and that a key with the delimiter is never read back as itself
(`BrokenKeyIsNotSeen`). `UtilsProofs` proves the four properties of the `utils` run for
texts, files and numbers of any size. `split` is defined by the k-th of a finite set
of cuts (`Nth`), not by recursion, so that its fields are known once the cuts are
counted: `NthIsFound` by comparing sizes, `NthInOrder` because a larger member has
more below it. The reference definitions are folds. The function behind a
`FoldLeft` exists, and has the value claimed, because a smallest number of
elements for which it had not would follow one for which it has; this is how
`SplitCutsAtDelimiters` and `LastElementCounts` do an induction that the library's
induction theorems, which take a predicate as a parameter, do not allow here.

`ClientProofs` proves, for every interval and lag, `TimerKeepsSchedule`,
`StopIsPrompt`, `MainOutlivesTask` and `ClientTypeCorrect` from `ClientInv` (itself
`StagesFit`), which ties the stages of
timer, task, request and main thread together and relates the deadline to the
intervals elapsed.

`SystemProofs` proves the safety properties of the composition. A step of the
composition is, for the server, one of its own steps or one of any peer
(`SysIsOpen`), so every invariant of the server holds there too (`SafeWithClient`,
`CollectorWithClient`); for the client it is a step of `SysInfoClient`
(`ClientImplemented`), so what `ClientProofs` shows holds there
(`ClientSafeWithServer`). On top of these `LinkInv` says that a connection is the
client's for one report and that its reply is the first byte the server wrote:
`FailureStaysUnseen` follows since READ_FAILURE is written only to connections whose
peer has closed (`ReplyInv`).
`RowsAreOrdered`, `DeliveredExactlyOnce` (with `KeyInv`: whatever is on its way or
stored has the client's key) and `RefusalsAreJust` (with `RefusalInv`) hold under
`WholeLines`, `CleanReports` and, for refusals, `OneFile`: the process reads one
`server_config.xml`.

`CatchProofs` proves, for every suite of tests, every command line and any reporters,
`LimitIsKept` (`AbortLimitKept`) and `ExitCodeTells` (`ExitCodeTellsFailures`). Neither is
inductive: the exit code is added up by `endTest` from a difference of totals
that every assertion, exception, missing assertion and moved failure has changed,
and `aborting` compares for equality, so the limit is kept only because nothing
counts a failure where it may already be reached. `RunInv` says so in parts:

- `Balanced`: since the test case was started, as many failures were counted (as
  failed or as failed-but-ok) as the reporters were told of and assertions were
  missing; a test that may not fail has none that are ok, one that may has no
  others once a pass is over.
- `PassStart`: what a pass started with lies between the two, so that `okToFailSwap`
  moves exactly the failures of that pass.
- `BelowLimit`: while a pass can go on, or be followed by another, the failures
  are strictly below the limit; an exception other than Catch's own leaves room
  for the one failure it is.
- `SumTells`: the sum that becomes the exit code is positive exactly if a test
  went wrong, and then a test case is counted as failed, which is what the
  console looks at.
- `NotYetTold`, `Signalled`, `Fresh`, `RunTypes`: no reporter says that all tests
  passed before the end of the run, a signal is handled at once, nothing is counted
  before `runTests`, and what the command line sets is a number where it is
  compared with one.

The last of these goes through Clara's whole parser, and all of them through loops
over data: characters, arguments, tokens, lines of a file, sections left open,
reporters. Each loop is a fold. `FoldInvariant` has the step and the predicate of
a fold as constants and proves `FoldKeeps`, that what holds at first and is kept by
every step holds of the result, by a least counterexample among the lengths;
each loop is an `INSTANCE` of it. In this way the induction is proved once,
although no theorem here may take a predicate as a parameter.

`TrackerProofs` proves, for every suite whose bodies are nested as C++ scopes are,
`SectionsAreRunOnce` (`SectionsRunOnce`). The tracker keeps a tree of sections under
names and lines, and decides by the states in it which section a pass enters; the
property is about the body, a sequence of instructions. `SectionsInv` relates the two
at every place of a pass. `Shows` says that the tree is a function `st` from the
sections of the body known so far to their states, each found under the path of the
sections around it, and that the last child of a node is the last known section in
it, which is the one that `acquire` and `close` look at. Over this function the rest is
stated:

- `InOrder`: a section is known only after its earlier siblings, and started only
  when they are done. This is why the state of the last child tells whether all are.
- `Visited`: the innermost sections entered, each once, are done or the current one;
  one that is done is never entered again.
- `Way`: the current section and those around it: a pass that still enters
  sections executes the current one, a pass that has left an innermost section
  only goes back up. `IsActive` says that the sections to be closed are those.
- `Seen` and `Left`: what a pass knows of the body before the instruction it is
  at, and that nothing behind it has been started once a section has ended.
- `Waits`: after an exception the sections around it are not done in this pass;
  `Thorough`: unless an exception struck outside of the innermost sections, whatever
  is done has all its innermost sections entered.
- the passes so far are at most as many as the sections that are done, and one
  more while a pass still executes (`CycleInv`, `PassInv`): every pass finishes a section.

The proof has one lemma for what each operation of the tracker does to `st`
(`FindShows`, `EnterShows`, `CloseShows`, `FailShows`, `AcquireTest`), one for each kind of step of a
pass (`StartWalk`, `SectionWalk`, `EndWalk`, `StayWalk`, `ThrowWalk`, `BodyEndWalk`,
`UnwoundWalk`, `EarlyWalk`, `AfterPassWalk`), and one for each action. That the tests
run have the bodies they were declared with, through registration, sorting and
tagging, is proved on the way (`TestsAreRegistered`, `TestsAreSorted`,
`TestsAreTagged`). The assumption is needed: a body in which a section ends in the
middle of another, or two with one name on one line, is no C++ that the macro
`SECTION` can make without a loop, and the model has no loops.

Every strengthened invariant (`StartInv`, `ReplyInv`, `JobInv`, `LineInv`,
`ContentInv`, `LinkInv`, `KeyInv`, `RefusalInv`, `RunInv`) was also checked by TLC, on the
instances of `server_whole`, `server_split`, `system` and `catch`.

Assumptions: `WidthAssumption` (a `size_t` is wider than the non-negative `int`),
`PeersAssumption` (bounds and faults are well formed, keys are finite sequences),
`ServerAssumption` (the buffer is not empty), `UtilsAssumption` (reported numbers are
ints; configured keys are texts without the delimiter, configured limits are below
what a negative number becomes), `TimerAssumption` (the interval is
positive), `ClientAssumption` (only known faults), `SystemAssumption` (the last two,
for the client of the composition), `CommandLineAssumption` (files hold lines of text,
a number on the command line is a natural number and so is the limit that stands for
none), `RunsAssumption` (a command line has at least the program's name),
`BodiesAssumption` (test bodies are `WellNested`: scopes, told apart by name or line).

Only model-checked: all liveness, the fair part of the refinement included, since
liveness under fairness is out of the prover's reach; and two properties of the
test executable. `RequestHonoured` compares two parsers over texts: what a recursive
function computes for every input. `ReportComplete` counts what each reporter has
written and needs the shape of its stacks for every nesting of sections. The
invariants of `TrackerProofs` are proved but not run: they say that some function `st`
exists, which TLC could only search for; what they imply was checked first, as
`SectionsRunOnce` on `catch`.

## Not modelled

The logger, console output and `send_email` (a stub that prints) change no state
another part reads. `get_connection_string` concatenates settings; its failure is
part of `StartupFails`. `query_returned_row` serves the tests. SQL text is modelled
by the row that the statement names; quoting is not. The clock's jumps,
failures to create a thread, and a `close` that throws in the destructor of a request
(which is `noexcept` and would terminate the client) are left out.

Of Catch: the layout, wrapping and colours of texts, usage and help; how an expression
is taken apart, compared and printed, matchers and `Approx` (an assertion is given by
its outcome); generators and index trackers, test methods and fixtures,
Objective-C, listeners and the adapter for reporters of the old interface, none of
which the repository's tests use; timings; signals that strike outside of a
test's body, where no handler is installed. An exit code is not truncated to the
eight bits a shell sees.

## Plan

What could be added: the failures a reporter has written against those counted,
which is the part of `ReportComplete` that needs no stacks; loops around sections,
which give a section several times in one pass; and a model of Catch's matchers,
should the tests come to use them.
