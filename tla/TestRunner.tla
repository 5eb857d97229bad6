------------------------------- MODULE TestRunner -------------------------------
(***************************************************************************)
(* The whole program once its plugins are loaded: main() calls             *)
(* TestRunner::run, which runs plain tests (TestCase) and suites           *)
(* (TestSuite) one after another, a signal handler on the same thread      *)
(* answers SIGINT, SIGHUP and SIGTERM at any time, and the exit code is    *)
(* decided by the collector's counters.                                    *)
(***************************************************************************)
EXTENDS TestSuite, Integers, FiniteSets
LOCAL INSTANCE SequencesExt

CONSTANTS
    Queue,      \* the runner's tests: TestCase and TestSuite objects, in order
    MaxSignals  \* bound on the signals of an instance (the fourth one kills)

(* addTest() refuses an object that is already in the list.                 *)
ASSUME TestRunnerConstants ==
    /\ Queue \in Seq(Tests \cup Suites) /\ IsInjective(Queue)
    /\ MaxSignals \in Nat

(* The tests in the order of their runs.                                    *)
RunOrder ==
    FlattenSeq([i \in DOMAIN Queue |->
        IF Queue[i] \in Suites THEN SuiteTests[Queue[i]] ELSE <<Queue[i]>>])

(* main() constructs the tests in the order of the queue (main.cpp:183-224, *)
(* SuiteRunner.cpp:167-192): nobody's first run comes after that of the     *)
(* test constructed last.  So, while a test has no result to report an      *)
(* interrupt to, the crash handler has none either (TestCase.cpp:44, 213).  *)
ASSUME ConstructedInOrder ==
    \A i, j \in DOMAIN RunOrder :
        i < j /\ RunOrder[i] = LastConstructed =>
            \E k \in 1 .. i : RunOrder[k] = RunOrder[j]

VARIABLES
    rPc,            \* where the main thread is in main() and TestRunner::run
    rIdx,           \* position in Queue
    rCurrent,       \* TestRunner::current, NoTest for nullptr
    rInterrupted,   \* TestRunner::interrupted
    interuptCount,  \* the handler's static counter, from 1
    exitCode        \* -1 until the process exits

\* Observed by the properties only.
VARIABLES
    heard,          \* a signal was handled while a test or suite was running
    late            \* tests entered since then, up to 2

runnerVars == <<rPc, rIdx, rCurrent, rInterrupted, interuptCount, exitCode,
                heard, late>>
progVars == <<allVars, runnerVars>>

RunnerLocations ==
    {"loading", "start", "loop", "call", "inTest", "endRun", "report", "exited"}

RunnerTypeOK ==
    /\ rPc \in RunnerLocations
    /\ rIdx \in Nat
    /\ rCurrent \in Tests \cup Suites \cup {NoTest}
    /\ rInterrupted \in BOOLEAN
    /\ interuptCount \in 1 .. 5
    /\ exitCode \in {-1, 0, 1}
    /\ heard \in BOOLEAN /\ late \in 0 .. 2
    /\ interuptCount > 4 => rPc = "exited" /\ exitCode = 1

ProgTypeOK == SuitesTypeOK /\ RunnerTypeOK

RunnerInit ==
    /\ rPc = "loading" /\ rIdx = 1
    /\ rCurrent = NoTest /\ rInterrupted = FALSE
    /\ interuptCount = 1 /\ exitCode = -1
    /\ heard = FALSE /\ late = 0

(* The main thread is in main() or in the runner's own code.                *)
AtRunner(loc) == rPc = loc /\ sPc = "idle" /\ pc = "idle"

-----------------------------------------------------------------------------
(* TestRunner::run, called once the plugins are loaded.                     *)

StartRun ==
    /\ AtRunner("loading")
    /\ rInterrupted' = FALSE
    /\ rPc' = "start"
    /\ UNCHANGED <<allVars, rIdx, rCurrent, interuptCount, exitCode, heard, late>>

StartRunner ==    \* startTestRunner
    /\ AtRunner("start")
    /\ rPc' = "loop"
    /\ UNCHANGED <<allVars, rIdx, rCurrent, rInterrupted, interuptCount,
                   exitCode, heard, late>>

RunnerDone == rIdx > Len(Queue) \/ rInterrupted

RunnerLoop ==
    /\ AtRunner("loop")
    /\ IF RunnerDone
       THEN rPc' = "endRun" /\ UNCHANGED rCurrent
       ELSE rPc' = "call" /\ rCurrent' = Queue[rIdx]
    /\ UNCHANGED <<allVars, rIdx, rInterrupted, interuptCount, exitCode,
                   heard, late>>

NoteEntry == late' = IF heard /\ late < 2 THEN late + 1 ELSE late

CallPlainTest ==
    /\ AtRunner("call") /\ rCurrent \in Tests
    /\ Enter(rCurrent)
    /\ NoteEntry
    /\ rPc' = "inTest"
    /\ UNCHANGED <<suiteVars, rIdx, rCurrent, rInterrupted, interuptCount,
                   exitCode, heard>>

CallSuite ==
    /\ AtRunner("call") /\ rCurrent \in Suites
    /\ SuiteEnter(rCurrent)
    /\ rPc' = "inTest"
    /\ UNCHANGED <<rIdx, rCurrent, rInterrupted, interuptCount, exitCode,
                   heard, late>>

ItemReturned ==
    /\ AtRunner("inTest")
    /\ rIdx' = rIdx + 1
    /\ rPc' = "loop"
    /\ UNCHANGED <<allVars, rCurrent, rInterrupted, interuptCount, exitCode,
                   heard, late>>

EndRun ==    \* endTestRunner
    /\ AtRunner("endRun")
    /\ rCurrent' = NoTest
    /\ rPc' = "report"
    /\ UNCHANGED <<allVars, rIdx, rInterrupted, interuptCount, exitCode,
                   heard, late>>

NoFailedTests == collector["nFailures"] = 0   \* mutant: suites forgotten
AllPassed == collector["nFailures"] = 0 /\ collector["nSuiteFailures"] = 0

Exit ==
    /\ AtRunner("report")
    /\ exitCode' = IF AllPassed THEN 0 ELSE 1
    /\ rPc' = "exited"
    /\ UNCHANGED <<allVars, rIdx, rCurrent, rInterrupted, interuptCount,
                   heard, late>>

-----------------------------------------------------------------------------
(* signalHandler: the fourth signal exits, the others interrupt the runner. *)

(* TestRunner::interrupt(): the current test or suite, then the flag.       *)
runnerInterrupt ==
    /\ rInterrupted' = TRUE
    /\ CASE rCurrent = NoTest ->
                UNCHANGED <<pc, interrupted, sInterrupted>>
         [] rCurrent \in Tests ->
                interrupt(rCurrent) /\ UNCHANGED sInterrupted
         [] rCurrent \in Suites -> suiteInterrupt(rCurrent)

NeverTooOften == FALSE   \* mutant
TooOften == interuptCount > 3

InItem == rPc = "inTest" /\ ~(pc = "idle" /\ sPc = "idle")

signalHandler ==
    /\ pc # "dead" /\ rPc # "exited" /\ interuptCount <= MaxSignals
    /\ interuptCount' = interuptCount + 1
    /\ IF TooOften
       THEN /\ rPc' = "exited" /\ exitCode' = 1
            /\ UNCHANGED <<pc, interrupted, sInterrupted, rInterrupted, heard>>
       ELSE /\ runnerInterrupt
            /\ heard' = (heard \/ InItem)
            /\ UNCHANGED <<rPc, exitCode>>
    /\ UNCHANGED <<resultVars, running, rep, successful, attached, handler,
                   blocked, bodies, crashEnds>>
    /\ UNCHANGED <<sPc, suite, idx, fi, sSuccessful, fixtureOK,
                   current, up, verified, executed, owed, collapses>>
    /\ UNCHANGED <<rIdx, rCurrent, late>>

-----------------------------------------------------------------------------
RunnerStep ==
    \/ StartRun \/ StartRunner \/ RunnerLoop \/ CallPlainTest \/ CallSuite
    \/ ItemReturned \/ EndRun \/ Exit

(* A step inside the suite or the test the runner has called; the suite     *)
(* enters a test when it is at "call".                                      *)
SuiteStep ==
    /\ rPc = "inTest"
    /\ SuiteProgress
    /\ IF At({"call"}) THEN NoteEntry ELSE UNCHANGED late
    /\ UNCHANGED <<rPc, rIdx, rCurrent, rInterrupted, interuptCount, exitCode,
                   heard>>

TestProgress ==
    /\ rPc = "inTest"
    /\ CaseProgress
    /\ UNCHANGED <<suiteVars, runnerVars>>

TestCheckFails ==
    /\ rPc = "inTest"
    /\ CheckFails
    /\ UNCHANGED <<suiteVars, runnerVars>>

MonitorStep ==
    /\ rPc # "exited"
    /\ \E s \in Suites, f \in Fixtures : fixtureCollapsed(s, f)
    /\ UNCHANGED runnerVars

ProgNext ==
    \/ RunnerStep
    \/ SuiteStep
    \/ TestProgress
    \/ TestCheckFails
    \/ MonitorStep
    \/ signalHandler

ProgInit == SuitesInit /\ RunnerInit

(* The main thread keeps going: every call of the user's code returns.      *)
ProgSpec ==
    /\ ProgInit
    /\ [][ProgNext]_progVars
    /\ WF_progVars(RunnerStep \/ SuiteStep \/ TestProgress)

-----------------------------------------------------------------------------
IsSuite(x) == x \in Suites
SuitesQueued == {i \in DOMAIN Queue : IsSuite(Queue[i])}

(* The test runs the queue asks for: each suite one per test of its list.   *)
RunsOf(i) ==
    {i} \X (IF IsSuite(Queue[i]) THEN DOMAIN SuiteTests[Queue[i]] ELSE {1})
RunsQueued == UNION {RunsOf(i) : i \in DOMAIN Queue}

(* Success means everything was run: when the program exits with success    *)
(* and was never interrupted, every queued test and suite was started and   *)
(* every one of them was counted as passed (main.cpp:310-315 on top of the  *)
(* counters of TestResultCollector.cpp:102-132).                            *)
SuccessMeansAllRan ==
    exitCode = 0 /\ interuptCount = 1 =>
        /\ collector["nTests"] = Cardinality(RunsQueued)
        /\ collector["nPasses"] = collector["nTests"]
        /\ collector["nTestSuites"] = Cardinality(SuitesQueued)
        /\ collector["nSuitePasses"] = collector["nTestSuites"]

(* Bad news is never forgotten: whenever the runner has the control, a test *)
(* or suite with a failure or an error recorded for it shows in the failed  *)
(* counters, before the mark can be lost to a second run of the same object *)
(* (TestCase.cpp:142-197, TestSuite.cpp:110-192, main.cpp:310-315).         *)
BadNewsIsCounted ==
    AtRunner(rPc) /\ (\E x \in Tests \cup Suites : marks[x] # {}) => ~AllPassed

(* After a signal that finds a test or a suite running, at most one more    *)
(* test is started: the one whose suite had already looked at its flag      *)
(* (TestRunner.cpp:66-83, TestSuite.cpp:121-126, 214-220).                  *)
InterruptStops == late <= 1

(* What Test.h, TestCase.h:77, TestSuite.h:116 and TestRunner.h:84 say of   *)
(* interrupt(), that it "interrupts the current test run": with no crash in *)
(* the user's code the process does not die.  TestSuite::current points to  *)
(* the next test while its fixtures are checked and restarted, and that     *)
(* test's result is null before its first run (TestSuite.cpp:122-164,       *)
(* 214-219, TestCase.cpp:210-214).                                          *)
InterruptOnlyInterrupts == pc # "dead"

(* When the user's code returns, the program ends.                          *)
ProgramEnds == <>(rPc = "exited" \/ pc = "dead")

(* The program keeps the promises of Session.                               *)
InRunner == rPc \in {"loop", "call", "inTest", "endRun"}
InSuite == sPc \notin {"idle", "startSuite"}
InTestCase == pc \in Opened
Running == pc # "dead" /\ rPc # "exited"

RunStatus ==
    IF pc = "dead" THEN "dead"
    ELSE CASE exitCode = 0 -> "success"
           [] exitCode = 1 -> "failure"
           [] exitCode = -1 -> "alive"

OpenScopes ==
    IF Running
    THEN (IF InRunner THEN <<"runner">> ELSE <<>>)
            \o (IF InSuite THEN <<suite>> ELSE <<>>)
            \o (IF InTestCase THEN <<running>> ELSE <<>>)
    ELSE <<>>

TestIsClean == Running /\ InTestCase => marks[running] = {}
SuiteIsClean ==
    Running /\ InSuite =>
        /\ marks[suite] = {}
        /\ \A t \in executed \ {running} : successful[t]

Recorded == [c \in Counters \cup {"extra"} |->
                IF c = "extra" THEN crashEnds ELSE collector[c]]

Promise == INSTANCE Session WITH
    Runner <- "runner",
    status <- RunStatus,
    scope <- OpenScopes,
    testClean <- TestIsClean,
    suiteClean <- SuiteIsClean,
    count <- Recorded

KeepsPromises == Promise!Spec
===============================================================================
