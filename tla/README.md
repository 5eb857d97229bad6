# Verification of robot-testing-framework

TLA+ models of the Robot Testing Framework: a C++ library that runs test cases
and test suites with fixtures, and `robottestingframework-testrunner`, the
program that loads tests from plugins, runs them, and reports. The models are
checked with TLC on small instances. For every value of their constants TLAPS also
proves every safety invariant, action property and refinement that these runs check: of
the run (test, suite, runner and the refinement of the abstract session), the loading,
the web listener, the tests in script languages, the reports, and the sequential units.
Liveness is model-checked only.

Paths are relative to the repository; `lib/` stands for
`src/robottestingframework/src/`, `runner/` for
`src/robottestingframework-testrunner/src/`.

## 1. Inventory

| Component | State | Operations | Called by / calls |
|---|---|---|---|
| `TestCase` (lib/TestCase.cpp) | successful, interrupted, result, repetition; the process-wide crash handlers and `_currentTestCase` | run, interrupt, failed | runner or suite → run; run → user's setup/run/tearDown and the result |
| `Asserter`, macros | none | fail, error (throw), testFail, testCheck (mark and record) | user code → the running TestCase |
| `TestSuite` (lib/TestSuite.cpp) | tests, fixtureManagers, successful, interrupted, fixtureOK, fixtureMessage, current | run, setup, tearDown, fixtureCollapsed, interrupt, addTest, removeTest, reset | runner → run; run → fixtures and tests; **fixture monitor threads** → fixtureCollapsed |
| `FixtureManager` | param, dispatcher | setup, check, tearDown (user code) | suite → fixture → suite |
| `TestRunner`, main (lib/TestRunner.cpp, runner/main.cpp) | tests, current, interrupted; the handler's counter; exit code | run, interrupt, signalHandler, addTest, removeTest | main → run; **signal handler** → interrupt → current → … |
| `TestResult`, `TestResultCollector` | listeners; events, six counters | start/end of runner, suite, test; report, failure, error | everything → result → every listener |
| Text, JUnit, JSON outputters | none; they read the collector after the run | write | main |
| `WebProgressListener` | result, testStatus, suite_name, suite_size under one mutex | every event; `/update`, `/status` | result; **updater thread** |
| `Arguments` | none | split, parse | TestCase::run, FixtureManager::setup |
| `PluginRunner`, `SuiteRunner`, `ErrorLogger` | loaders, suites, fixture loaders; two message lists | loadPlugin, loadSuite, …, reset | main |
| dll, Python, Lua, Ruby, Ada plugins | library handles and reference counts; interpreter states | open, close, and the TestCase methods | loaders; user scripts |

What is hard here:

- **Interleaving.** A fixture's monitor thread clears `fixtureOK` at any moment;
  a signal handler walks runner → suite → test and writes three `interrupted`
  flags between any two steps of the main thread (or on another thread: the
  kernel chooses one; the handler is one step of the model either way).
- **User code that misbehaves.** A body may fail, throw, or raise `SIGSEGV` or
  `SIGABRT`; the crash handler *throws out of the signal handler* and the test
  goes on at a catch clause. Handlers are per process, tests are not.
- **Verdicts.** Three levels of `successful` flags, two counters that decide the
  exit code, and an event list, each written on a dozen exit paths that must
  agree.
- **Order and repetition.** Fixtures come up in order and go down in reverse, are
  checked and restarted in the middle of the run; the same test object may be
  run twice.
- **Boundaries.** `rep <= repetition` on `unsigned int`; 128 arguments.
- **Two threads and a handler around one mutex.** The web listener is called by
  the main thread *and by the signal handler on top of it*, and read by a thread
  of its own; at exit the main thread reads once more.
- **Reports written later.** The files are written from the event list when the
  run is over, with pointers to objects that may have run twice since.
- **Partial failure while loading.** A suite file goes on after most errors and
  gives up on some; each leaves other loaders, libraries and objects behind.
- **Process-wide interpreters.** Python's, Ruby's and Ada's state is shared by
  tests that know nothing of each other; a Lua stack survives from one method to
  the next.

`PROJECT.json` lists each hazard at its line with the property that watches it.

What makes each component correct:

- *TestCase*: one start and one end event per run; a verdict that is false
  exactly when bad news was recorded; all repetitions executed; an end.
- *TestSuite*: passes only if everything ran and passed; fails only with a
  recorded reason; tests run only on fixtures checked since the last test;
  fixtures nest and are not leaked silently; an end.
- *Runner and main*: events nest; success means everything was run and passed;
  no bad news is lost on the way to the exit code; an interrupt stops the run;
  the program ends.
- *Reports*: what is written agrees with what was recorded.
- *Web progress*: readers see well-formed snapshots; nobody waits for himself.
- *Loading*: what was loaded is owned and closed once, and errors are shown.
- *Script and Ada plugins*: an interpreter lives as long as its tests; what a
  test's code says is held against that test; what `setup()` built is torn down.

## 2. Modules

```
 TestRun   (abstract: what test runs promise)      Session (abstract: what a whole run promises)
    ^ refined by                                      ^ refined by        ^
 TestResult <-- TestCase <-- TestSuite <-- TestRunner                     | EXTENDS
                   ^            ^              ^                      EventStream
             MCTestCase      MCTestSuite    MCTestRunner               ^        ^
                                                                WebProgress   Outputters
                                                                    ^             ^
                                                              MCWebProgress     Units <-- MCUnits, Units_proofs
                                                            WebProgress_proofs    | EXTENDS
                                                               Arguments, Assertions, Registry

 TestCase_proofs <-- TestSuite_proofs <-- TestRunner_proofs
 Arguments <-- Arguments_proofs <-- Units_proofs

 SharedLibraries <-- Loading <-- MCLoading, Loading_proofs

 LoadedTests <-- PythonLoader, LuaLoader, RubyLoader, AdaTest <-- Interpreters <-- MCInterpreters,
                                                                                   Interpreters_proofs
```

An arrow `<--` is EXTENDS: each layer adds the variables of its component and
steps of the ones below happen inside it, as `run()` calls do in the code. Three
groups of modules share no state, because the code's phases do not overlap:
`main` loads (Loading), then runs (TestCase to TestRunner, and the listeners on
EventStream), then deletes (Loading again). Interpreters crosses the three phases
for the script languages, whose state does too.

**TestResult** models the collector: `collector` holds its six counters, `marks`
what its event list says against each object since that object's last start
event. All listeners get the same calls in the same order, so one stands for
all.

**TestCase** models `TestCase::run`. `pc` is the place in the function:

| `pc` | lib/TestCase.cpp | actions |
|---|---|---|
| idle | the test is not running | `Enter` (129-140) |
| startTest | 142-151 | `StartTest` |
| setup | inside `setup()`, 153 | `SetupSucceeds`, `SetupFails`, `Throws`, `CheckFails`, `CrashCaught`, `Die` |
| loop | condition of 169 | `Loop` |
| body | inside `run()`, 170 | `BodyReturns`, … as for setup |
| tearDown | inside `tearDown()`, 185 | `TearDownReturns`, … |
| endTest | 194-208 | `EndTest` |
| endEarly | 156-166 | `EndEarly` |
| dead | the process is gone | |

The user's code is the environment: from `setup`, `body` and `tearDown` it does
any of these. `CrashCaught` is the path signal → `run_signal_handler` → exception
→ catch clause in one step, as no step of the main thread lies between; `Die`
covers every case in which that path is not taken (handler not installed, signal
blocked by an earlier throw out of the handler, unwinding that fails), so both
outcomes of the formally undefined throw are explored. `unsigned int` has a
width: `NextRep` wraps at `UIntMax`.

**TestSuite** models `TestSuite::run`, with `sPc` as the place in it, `fi` the
fixture and `idx` the test it is at. `setup`/`restartUp`, `check`/`recheck` and
`restartDown`/`tearDown` are the two places each that call the fixtures'
methods. `fixtureCollapsed` is a monitor thread's step, enabled for a fixture
that is up or inside its own setup or tearDown; `suiteInterrupt` is the signal's.
`up` is the fixtures' own state. `verified`, `executed`, `owed` and `collapses`
are written for the properties only and guard nothing.

**TestRunner** models `TestRunner::run`, what `main` does after it, and
`signalHandler`. The plugins are loaded: `Queue` is the list they gave.

**TestRun** and **Session** say what the above promise without saying how:
when events may be sent, which verdict an end event counts, what an exit status
means. `ImplementsContract` and `KeepsPromises` are the refinements.

**EventStream** is Session with the list of events it sends, as
`TestResultCollector` stores them. Everything that listens or reports is built on
it; `KeepsPromises` is what makes Session's events those of the program.

**WebProgress** models `WebProgressListener.cpp` with its three actors. A listener
call of the main thread is four steps: `Deliver` (take up the event, format, lock),
`ListenerWrites` and `ListenerReturns` (the two assignments under the mutex, the
second with the unlock); `calls` is the stack of open calls. `SignalArrives` puts
the handler's own report on top of that stack at any of these points, and
`HandlerLocks` is its wait for the mutex. The updater is `Poll`, `UpdaterLocks`,
`CopyName`, `Answer`. `MainReturns` or the fourth signal starts the destruction of
the static listener: `JoinUpdater`, `LastPoll`. `std::mutex` is modelled as it is:
a thread that locks it twice waits for ever.

**Outputters** has one operator per report. The JUnit and JSON files are a step per
event (`JUnitEvent`, `JSONEvent`) and the recursive function that takes the steps in
turn, with the variables of the loop in `write()`: the suites opened, the test case
elements, the last of which is `testcase`, and the gathered messages in the JUnit
file; the JSON `suites` array that every suite's start empties.
`VerdictAtWrite` is the question the text and JSON files ask of the object when
the file is written. `ConsoleLines` is the console listener.

**Arguments** is `parse` in the code's own order: protect the blanks between
quotes, split, take the protection off; `Words` is what a reader of quotes expects.
**Assertions** gives for every macro the bool that reaches `Asserter` and what
Asserter then does. **Registry** is addTest, removeTest and reset of runner and
suite. **Units** feeds the four with every small input, one at a time.

**SharedLibraries** is the life of one loader: `OpenLibrary`, `FindFactory`,
`UseFactory`, `Create`, and back: `Destroy`, `Unmap`. `mapped` counts dlopen minus
dlclose for each library, `rct` is the factory's count. **Loading** is `main` from
its options to the start of the run, and the runner's destructor: `at` is the place
in main, loadPlugin or loadSuite, `hand` the loader that is being opened, and what a
folder, a file or a suite's next element is, is chosen by the environment.
`reportErrors` is its loop in closed form: it prints one half of the list, rounded
up, newest first.

**PythonLoader** takes `open()` apart at every place it can fail (`ActivateVenv`,
`MakeModule`, `ImportTest`, `MakeInstance`); `CloseWith` is `close()`, which every
failure calls. `getImpl` says which test a callback finds, depending on how the
caller got the extension module. **LuaLoader** keeps the kinds of values on each
test's stack, **RubyLoader** the one machine and the one constant, **AdaTest** the
one pointer. **Interpreters** loads up to three tests of any languages, runs them by
TestCase::run's calls, and deletes the loaders. What an interpreter does with a
script is external: a method returns, raises, or calls an assertion, whose C++
exception leaves through the interpreter's frames.

### What is abstracted

An interrupt that reaches a test which was never run dereferences its null result. The model
lets the process die of it. With crash handlers left over from a failed setup() the code would
first enter `run_signal_handler`, and live if the test constructed last had a result by then;
`main` constructs the tests in the order in which it runs them (`ConstructedInOrder`, which no
proof uses), so that it has none.

In the run: messages, names and parameters; reports (they carry no verdict); the
order of `marks` in the event list (EventStream has it); `fixtureMessage`. A suite contains test cases only
(that is all `SuiteRunner` builds, although `addTest` takes any `Test`). An
object is in a suite once (`addTest` refuses it twice), and a fixture belongs to
one suite. Listeners do not throw.

In the reports a message is the position of its event, so that a report can be
asked which messages reached it; layout, colours and escaping are left out. In the
argument parser a character is a blank, a quote or a letter. In the web listener
the text is the list of the events written to it. While loading, files and folders
have no names: each step chooses what is found. A Python object is one of the three
fields a loader releases; the virtual environment's directory is there or not.

## 3. Runs

| Run | Instance | Result |
|---|---|---|
| `testcase` | two tests, three runs in all, both crash signals, any interrupt; repetitions 1 and `UIntMax` = 3 | 68,630 states, holds |
| `suite` | one suite, two fixtures, two tests, `SIGSEGV`, one run of it, collapses and interrupts at will | 81,292 states, holds |
| `session` | queue ⟨suite of one fixture and two tests, its first test again⟩, `SIGSEGV`, up to 4 signals | 1,626,365 states, holds |
| `crash_totals` | as `testcase` | violated: finding 1 |
| `collapse_doc` | as `suite` | violated: finding 2 |
| `interrupt_doc` | as `session`, one signal, no crashes | violated: finding 3 |
| `web` | one suite, one test that may run several times, 5 events, one request, one signal and the fatal one | about 252,000 states, holds |
| `units` | two tests and two suites, 8 events; texts of 7 characters for an argv of 3; all macros and conditions; four objects | 194,620 states, holds |
| `if_true_doc` | as `units` | violated: finding 4 |
| `loading` | any options; three loaders, two libraries, three errors, two entries | 855,037 states, holds |
| `errors_doc` | as `loading` | violated: finding 5 |
| `interpreters` | three tests of any languages | 2,876,557 states, holds |

**Bounds.** Three test runs let a test be run again after a crash left its mark on
handlers and signal mask (a second crash meets them), and let the test constructed
last be another one than the one running. Two fixtures are what nesting and a
failure in the middle need; two tests are what "earlier" and "last" test need, and
what a collapse during one test and a restart before the next need. Four signals
are the number that kills the program; `interuptCount` stops there by itself. A
queue in which one object occurs in a suite and on its own covers suites, plain
tests, and the second run of an object. A 2-bit `unsigned int` wraps like a 32-bit
one; nothing else in the code depends on the width, and the theorems hold for any.

`MaxStarts`, `MaxSuiteStarts` and `MaxSignals` are bounds of the instances only;
none is in a property.

`web`: `MaxEvents` = 5 is a suite with a test and a failure, or two tests one after
the other, so that `testStatus` has an entry before the last; one request at a time is
all a page has open, and one in all (`MaxRequests`) meets every state of the run;
`SignalsBefore` = 2 (two signals were handled while the plugins were loaded) leaves one
signal that reports and the fourth, fatal one, which may fall into that report.
`units`: 8 events (`MaxEvents`) are a whole session with a suite, two tests, messages
before, in and after them, and a crash; 7 characters (`MaxText`) hold three words
with a quoted one, an unclosed quote and leading blanks, and overflow an argv of
`MaxArgs` = 3 entries, the code's `C_MAXARGS` of 128 made small; four objects let
`removeTest` erase two and leave two.
`loading`: three loaders (`MaxLoaders`) are a fixture, a test and one that fails
after them, or two in one library; three errors (`MaxErrors`) are what `reportErrors`
needs to leave one unprinted; two entries (`MaxEntries`) a suite and a plain test.
`interpreters`: with three tests there is one that fails between two that stay, and
one that is neither the first nor the last of its language. Libraries are alike, and so
are script tests: both runs use symmetry, and check invariants only.

**Fairness.** Weak fairness of the main thread, no fairness of monitors, signals
or failing checks (`CheckFails` leaves the thread where it is and is not in
`CaseProgress`). It says that every call of user code returns or throws, which the
framework needs and cannot enforce: it has no timeout. Under it `RunTerminates`,
`SuiteTerminates` and `ProgramEnds` say the framework adds no endless loop of its
own, however often fixtures collapse.

`WebSpec` assumes weak fairness of the listener's own code only: of a listener call
(`ListenerStep`), of the updater thread (`UpdaterStep`) and of the exit
(`ShutdownStep`). It assumes nothing of the program between two events, so that
`PageIsAnswered` holds while the code under test hangs.

Deadlock checking is off: a caller that stops calling, a program that has exited
and a dead process are all legitimate ends.

### What the properties say

*testcase*: `VerdictExplained` ties the flag to the recorded events on every path;
`CountsBalance` counts every started test once, plus once per handled crash;
`RepetitionsComplete` counts bodies; `ImplementsContract` is the refinement of
`TestRun`; `RunTerminates` is the liveness.

*suite*: `SuiteVerdictSound` — passed means all tests entered and passed, nothing
recorded, and no collapse notified during a test before the last or between the two
reads of `fixtureOK`. `SuiteFailureExplained` — failed means a reason was recorded,
*except* for a collapse notified between the two reads, for which the code
sends a report only. `TestsOnVerifiedFixtures` — a test starts on fixtures that are up and
were checked since the previous test, and after the restart that a collapse *during an
earlier test* calls for; a collapse notified during that restart is overwritten by its end
(lib/TestSuite.cpp:162), one notified after the decision is not looked at, and in both cases
the test starts. `FixturesNest`, `NoSilentLeak`, `SuiteTerminates`.

*session*: `SuccessMeansAllRan`, `BadNewsIsCounted`, `InterruptStops` (at most one
further test after a signal that finds something running, because the suite may
already have looked at its flag), `KeepsPromises`, `ProgramEnds`.

*web*: `AnswersAreWhole` — the page is only ever given the text and the status after
some number of whole listener calls, although calls and answers take several steps.
`StatusTellsVerdicts` — entry *n* of the status is the verdict of the *n*-th test,
unless a crash was handled, whose second end event overwrites the entry.
`StopsUnlessSelfLocked` and `PageIsAnswered` — the program stops and the page is
answered, *unless* the process has locked itself: a signal that falls into a listener
call makes the handler call the listener again and wait for its own thread, or the
fourth signal's exit waits for an updater that waits for the mutex. The properties
say that nothing else blocks.

*units*: `BadNewsReachesReports` and `ReportsAgree` compare console, text, JUnit and
JSON with the events and the counters. They state where the reports lose something:
a plain test before the first suite has no place in the JUnit file; the JSON
`suites` hold the last suite only; after an object has run twice, the verdicts of the
text and JSON lines are those of the last run. `ParameterIsParsed` compares `parse`
with quoting, and says that a test's argv always has room for its terminator while a
fixture's has room only below `C_MAXARGS - 1` words. `MacrosDecide` compares what a macro
does (throw a failure, throw an error, record a failure, report, nothing) with what its
comment documents, for conditions of one operand. `ListsHoldWhatWasAsked` —
a suite has the tests asked for; a runner too, as long as nothing was removed from it:
its removeTest erases every other test.

*loading*: `LibraryOutlivesObject` — no object without its library, no library closed
twice, no factory count at 0. `RunnerListsLiveObjects` — nothing listed is dead or has
two owners. `EveryPluginAccountedFor` — every plugin that did not open, or was forgotten
for an invalid repetition, has an error of its own in the logger, and the only other way
to be left out is to belong to a suite given up for a later fixture; a forgotten loader
alone keeps an object. That an error is logged does not mean that it is *shown*: at least
half of them are, and the fatal one first (`FatalErrorIsShown`); `EveryErrorIsReported`
says of the rest what main's comment says, and is finding 5.

*interpreters*: `InterpreterLives`, `RunsInLivingInterpreter`,
`ChecksReachTheirTest` — and which tests it fails for: in Ruby and Ada every test but
the one loaded last, in Python those that import `robottestingframework` inside a
method, or through a module that several test files share. The Ada pointer is one per
library the glue is linked into: a session's Ada tests are those of one library.
`TearDownIsCalled` — of the tests that are over and have a tearDown(), exactly those were
torn down whose setup() did not return false and, in Lua, which no error or assertion
left before: there the lookup finds the error message on top of the stack and not the
test's table, although the Lua example's documentation says tearDown is called. Ruby does not look at what setup() returns, so its
tests are torn down always.

What `SuiteVerdictSound` leaves out is the code's, not the model's: a collapse
during the *last* test, or during a restart, is reported by nobody, because
`fixtureOK` is next read before the next test and set to true after a restart.

### Findings

1. `crash_totals`: a handled crash ends a test twice, so passed + failed exceeds
   the number of tests the collector's header says it counts.
2. `collapse_doc`: the class comment of `TestSuite` says a collapse ends the suite;
   the code restarts the fixtures and goes on.
3. `interrupt_doc`: `current` is set before the test's `run()` sets `result`, so an
   interrupt in between dereferences a null pointer.
4. `if_true_doc`: the `_IF_TRUE` macros write `!condition` without parentheses, so a
   condition such as `a || b` or `a < b` is negated in its first operand only and a true
   one may not fail the test.
5. `errors_doc`: `reportErrors` counts up to a count that shrinks as it pops, and prints
   half of the errors.

Three more departures from the documents have no run of their own. Two are in properties that
hold, as what the code does instead: the Lua tearDown() that is not found after an error
(`TearDownIsCalled`; doc/lua_plugin_example.dox:102 says it is called after the test run) and
the JSON file that keeps the last suite only (`ReportsAgree`). The third is
`TestRunner::removeTest`, which erases every other test of the list whichever it was given:
`ListsHoldWhatWasAsked` exempts the runner's list after it, but for having no test twice.

## 4. Proofs

Eight modules hold theorems (Arguments_proofs the lemmas about the parser, for
Units_proofs). They hold for any tests, suites, fixtures, queue, repetitions, width of
`unsigned int`, crash signals, loaders, libraries, requests, parameter texts and size of
argv, and for any value of the bounds (`MaxStarts`, `MaxEvents`, `MaxText`, …), so for
runs of any length. Each module proves its safety properties from an inductive
invariant: it holds initially, each action keeps each of its conjuncts, and it implies
the properties. TLC checked each of these invariants on the run's instance before it
was proved.

| Module | Theorem | States |
|---|---|---|
| `TestCase_proofs` | `TypeCorrect` | `Spec => []TypeOK` |
| | `VerdictIsExplained` | `Spec => []VerdictExplained` |
| | `CountsAreBalanced` | `Spec => []CountsBalance` |
| | `AllRepetitionsRun` | `Spec => []RepetitionsComplete` |
| | `RunsKeepContract` | `Spec => ImplementsContract` (the refinement of `TestRun`) |
| `TestSuite_proofs` | `SuitesTypeCorrect` | `SuiteSpec => []SuitesTypeOK` |
| | `TestsKeepPromisesInSuites` | `SuiteSpec => [](VerdictExplained /\ CountsBalance)` |
| | `VerdictIsSound` | `SuiteSpec => []SuiteVerdictSound` |
| | `FailureIsExplained` | `SuiteSpec => []SuiteFailureExplained` |
| | `FixturesAlwaysNest` | `SuiteSpec => []FixturesNest` |
| | `LeaksAreReported` | `SuiteSpec => []NoSilentLeak` |
| | `TestsStartOnVerifiedFixtures` | `SuiteSpec => TestsOnVerifiedFixtures` (an action property) |
| `TestRunner_proofs` | `ProgramTypeCorrect` | `ProgSpec => []ProgTypeOK` |
| | `InterruptStopsTheRun` | `ProgSpec => []InterruptStops` |
| | `BadNewsIsAlwaysCounted` | `ProgSpec => []BadNewsIsCounted` |
| | `SuccessMeansAll` | `ProgSpec => []SuccessMeansAllRan` |
| | `ProgramKeepsPromises` | `ProgSpec => KeepsPromises` (the refinement of `Session`) |
| `Loading_proofs` | `LoadingTypeCorrect` | `LoadSpec => []LoadTypeOK` |
| | `LibrariesOutliveObjects` | `LoadSpec => []LibraryOutlivesObject` |
| | `TheFatalErrorIsShown` | `LoadSpec => []FatalErrorIsShown` |
| | `OnlyLiveObjectsListed` | `LoadSpec => []RunnerListsLiveObjects` |
| | `PluginsAccountedFor` | `LoadSpec => []EveryPluginAccountedFor` |
| `WebProgress_proofs` | `WebTypeCorrect` | `WebSpec => []WebTypeOK` |
| | `AnswersAreNeverHalf` | `WebSpec => []AnswersAreWhole` |
| | `EveryVerdictIsTold` | `WebSpec => []StatusTellsVerdicts` |
| `Interpreters_proofs` | `PythonTypeCorrect` | `PySpec => []PyTypeOK` |
| | `InterpreterLivesLongEnough` | `PySpec => []InterpreterLives` |
| | `InterpreterLivesInSessions` | `InterpretersSpec => []InterpreterLives` |
| | `ChecksFindTheirTest` | `InterpretersSpec => []ChecksReachTheirTest` |
| | `TearDownsAreCalled` | `InterpretersSpec => []TearDownIsCalled` |
| | `TestsRunInLivingInterpreters` | `InterpretersSpec => []RunsInLivingInterpreter` |
| `Units_proofs` | `EveryReaderIsTold` | `UnitsSpec => []BadNewsReachesReports` |
| | `EveryReportAgrees` | `UnitsSpec => []ReportsAgree` |
| | `EveryParameterIsParsed` | `UnitsSpec => []ParameterIsParsed` |
| | `EveryMacroDecides` | `UnitsSpec => []MacrosDecide` |
| | `ListsAreAsAsked` | `UnitsSpec => []ListsHoldWhatWasAsked` |

The assumptions are those on the constants, which TLC evaluates in the runs:
`DistinctObjects`, `TestCaseConstants`, `TestSuiteConstants` (a suite's tests and
fixtures occur in it once, suites share no fixture), `TestRunnerConstants` (no object
is queued twice), `LibraryConstants`, `LoadingConstants`, `StreamConstants`,
`ConstructedInOrder`, `WebConstants`, `ImplsAssumption`, `ArgumentsConstants` (argv has room for two words
at least).

**A test** (`IInv`). `TypeOK` says a test is running while control is inside `run()`.
`VerdictInv`: `VerdictExplained` is about the time a test is open; it becomes true at
the start event, which clears the marks, so it needs that the flag was reset *before*:
the code's order of line 132 and line 142. `CountsBalance` is inductive as it stands.
`RepetitionInv`: `RepetitionsComplete` looks at the end of the loop only; the invariant
carries `rep = bodies` and the bound of `rep` through the loop and says how the loop
was left. The lemmas about `TestResult` (`BumpCounts`, `EndTestCounts`, …) serve here
and again in `StepContract`, which maps each action to one of the contract or to a
stutter.

**A suite** (`SuiteIInv`). To `IInv` and the types it adds where the two loops and the
one over the tests may stand (`PositionInv`), that `setup()` has brought up exactly the
fixtures it is past (`FixtureInv`), that a `check()` loop at its end has seen every
fixture (`CheckedInv`), that a collapse during a test leaves `fixtureOK` false until the
restart begins (`OwedInv`), and which tests were entered (`ExecutedInv`). `SoundInv` and
`ExplainedInv` are the two halves of the verdict: the properties speak of the end of the
suite, the invariants of every place before it. Between a failing check and the `if`
that acts on it the suite has bad news and no verdict yet (`Undecided`); that is where
a collapse can fall between the two reads of `fixtureOK`.

**The program** (`ProgIInv`). `ControlInv` ties the runner's place to the suite's and
the test's. `LateInv` says how far past its last look at a flag the program can be once
a signal was heard, so that one more test is the most. `TroubleInv` follows bad news up
to the counters: as long as the runner has not counted it, it is with the test or
suite that is open. `SuiteCountInv` counts suites as passed or failed. `ProgressInv` is what
`SuccessMeansAllRan` needs: the starts counted so far are the runs the queue asks for
before the current object; the lemmas `RunsOfCount`, `DisjointUnion` and `NextObject`
are its cardinalities.

**The session** (`PromiseInv`). The refinement mapping is in TestRunner: `RunStatus`,
`OpenScopes` (the stack of what is open, from `rPc`, `sPc` and `pc`), `TestIsClean`,
`SuiteIsClean`, `Recorded`. `Push` and `Pop` say when that stack grows and shrinks;
`TestKeepsPromise`, `SuiteKeepsPromise`, `RunnerKeepsPromise` and `OthersKeepPromise` map
every step to one of Session's or to a stutter. `StartedInv` was missing from the
program's invariant: a crash is only handled once a test was started.

**Loading** (`LoadInv`). `LibraryInv`: `mapped` is the number of loaders using the library
(dlopen and dlclose are counted by cardinality), and each loader has exactly what its place in
`open()` or `close()` gives it. `PlaceInv` and `ListsInv`: the runner's lists of loaders
have no loader twice. `LifeInv`: a loader is half open only in the hand of `open()` and half
closed only at the head of the list being deleted, and while anything is listed
the loaders the runner holds are open. `EntriesInv`: what is listed is held. `AccountInv`:
each lost plugin has an error of its own among those logged and those printed, and what
opened but is listed nowhere was dropped with its suite or forgotten; `AddedError` says that
an error is added behind the others and is that of the loader in hand. `ReportInv` keeps the fatal error last. Every step
is one of seven kinds in what it does to loaders and lists (`Quiet`, `Begins`,
`OpenGoesOn`, `Fails`, `Keeps`, `Deletes`, `Drops`; lemma `StepKinds`), so that each
conjunct is proved for kinds and not for every place in main.

**The web listener** (`WebInv`). `MutexInv`: the mutex is the main thread's exactly when
one call is past its lock, the updater's exactly in its critical section. `OrderInv`: the
calls return in the order of the events, up to the handler's reports of interruptions,
which may overtake the event whose call they interrupted. `SharedInv`: the shared variables tell the
log of returned calls or, in the middle of a call, the log with the half-done event;
the updater can only copy in the first case. These give `AnswersAreWhole`. `CountInv` and
`VerdictInv`, stated while no crash was handled, say that the counters of the program are
the log plus what is on its way to it, and that each end event in the log has left its
verdict in the entry of its rank. `NameMore`, `SizeMore`, `EntryMore`, `EntriesMore` and `VerdictsMore`
say what one more event does to what a list of events tells.

**Python** (`PyTypeOK`, `InterpreterLives`, `NothingOwnedYet`). An `open()` that has not made
its module owns no object, so `sys.modules` cannot name a test that has yet to make
its module, and a failure this early leaves no entry to a test that is gone. `OneMore` and `OneLess`
say what opening and closing do to the number of open loaders, and `CloseKeepsInv` treats
`close()` once for all the places that call it. `PySpec` lets the loaders go in any order;
in Interpreters the Python steps are steps of `PyNext`.

**All script and Ada tests** (`SessionInv`). `QueueInv`: what was loaded is in the order once,
and the tests entered are the first ones of it. `PythonInv`: how far `open()` has come, and
what was owned then, is what a Python test's fate says. `NamesInv` is what
`ChecksReachTheirTest` needs: `sys.modules`, the Ruby constant and the Ada pointer name
nobody or the newest test of their language (`Newest`), the shared Python helper some test
of it; `TargetFacts` concludes that a call which can find its own test does, and
`FailureTold` that the verdicts stay explained. `MachineInv` says whose end cleans the Ruby
machine up. `LuaInv`: the table is on top of a test's stack until the test was left.
A step that loads or deletes is an `Advance` of one test together with a `LanguageStep`,
a step of the run leaves alone what was loaded (`Settled`), and each conjunct is proved for
these two kinds.

**The reports** (`ReportsInv`). `Outputters` says what each file holds for a list of
events; `ReportsInv` says which lists there are. `SessionInv` types events, counters and
open scopes. `EndsMatched` is that a suite starts between two ends of suites, which is why
JSON, emptied at every start, holds one suite at most; to be inductive it needs that while a
suite is open every end lies before the last start (`AllEndedBefore`). `Totals` is that the
counters count the end events. `TestsMatched`, stated while no crash was handled, pairs
every start of a test with one end, with nothing but messages of that test between them and
a verdict that is false exactly when one of them was bad; the open test is the one without
an end. It has to say so of the open test too, with the verdict it has so far, which is
Session's `testClean`. `StepOpens`, `StepCloses`, `StepMessages` and `StepCrash` sort the
session's steps into the four ways in which they lengthen the list, and `TotalsMore`, `EndsMore`, `TestsMore` say
what each of them does to the invariant's parts.

What the files hold follows from the list alone, without another step of the session.
`JSONTold` and `JUnitTold` say what has been written after *p* events: the reports or messages
gathered are those since the last test start, each end event has its object, each start that
the file knows has its element and nothing else has. `JSONStep` and `JUnitStep` take one event,
`JSONRuns` and `JUnitRuns` take the recursive functions apart, and `JSONTells` and `JUnitTells`
are the inductions. With them `JSONObjectOf` and `JUnitCaseOf` find the object and the element
of a message's test (`BadNewsReachesReports`, first half), `TestsMatched` shows that nobody
else is blamed (`NobodyElseIsBlamed`, second half), and `OneRun`, `VerdictKept`,
`FailedAre` and `CasesAgree` count failed lines, objects and elements when each object ran once
(`ReportsAgree`).

**The parser** (lemma `ParseReads`). `ProtectRuns` and `SplitRuns` say what the two folds
have done after each character; `ProtectMarks` and `MarksSeparate` that the blanks which still
separate words are those a reader of the quotes would count; `FirstRead`, `NextRead` and
`WholeRead` that after *p* characters the arguments are the words that begin in them,
the last one as far as it was read, the remainder of the line once argv is full. The macros are
finitely many cases. The lists are an invariant of addTest and removeTest.

**Induction over data.** The library's induction theorems take an operator as a
parameter and no installed prover can instantiate them. The inductions of Arguments_proofs and
Units_proofs use the fact behind them instead: a set of numbers that is not empty has a least
member (`LeastNumber`, from `NatLessThanWellFounded`), so a set that contains 0 and with *p* also
*p* + 1, up to *n*, contains 0 to *n* (`UpTo`). A step of an induction then is a statement about a
set. `FoldExists` gives `FoldLeft` its sequence of intermediate results, so that folds
yield to it as well as recursive functions do.

Only model-checked: liveness (`RunTerminates`, `SuiteTerminates`, `ProgramEnds`,
`StopsUnlessSelfLocked`, `PageIsAnswered`), because TLAPS does not reason about ENABLED, which
fairness needs; and the five findings, which are counterexamples.

## 5. Plan

Done: the run (TestResult to TestRunner, TestRun, Session), the listeners and reports
(EventStream, WebProgress, Outputters), the sequential units (Arguments, Assertions,
Registry), loading (SharedLibraries, Loading), the plugin languages (PythonLoader,
LuaLoader, RubyLoader, AdaTest, Interpreters), and the proofs of the safety of all of these.

Left: a collector that is reset and used again, which the program never does, and the
data race on `fixtureMessage`, whose text the model does not have.

## 6. Not modelled

- The vendored libraries: mongoose (a queue of requests in WebProgress), TinyXML (the
  elements of a suite file in Loading), cmdline, json and PlatformDir (I/O).
- Texts: the wording of messages, `Asserter::format`'s truncation, `fixtureMessage` and
  the data race on it, HTML escaping, layout, the help and version output.
- `TestResultCollector::reset()` and removing listeners: the program makes one collector
  and does neither.
- The interpreters' own behaviour: what a C++ exception does to the frames of an
  interpreter it leaves through is undefined, and modelled as an exit that leaves its
  argument on a Lua stack and nothing behind in the other languages. Undefined in the same way is a second `ruby_cleanup`, which RubyLoader treats
  as harmless.
- Running one Lua or Python test object a second time (a test named twice in a suite
  file gets two loaders and two objects).
- A timeout does not exist in the framework: a body that never returns hangs the run,
  which the fairness assumption of the run's modules excludes and that of WebProgress
  does not.
