-------------------------- MODULE TestRunner_proofs --------------------------
(***************************************************************************)
(* Proofs about the whole program for any queue of tests and suites: type  *)
(* correctness, that an interruption stops it, that bad news reaches the   *)
(* exit code, that success means everything was run, and that every step   *)
(* is one Session allows or changes nothing Session speaks about.          *)
(***************************************************************************)
EXTENDS TestRunner, TestSuite_proofs, FiniteSetTheorems, SequenceTheorems

(* Where the runner is, and that what runs is what it has called.           *)
ControlInv ==
    /\ sPc # "idle" \/ pc \notin {"idle", "dead"} => rPc \in {"inTest", "exited"}
    /\ rPc \in {"loading", "start", "loop", "report", "endRun"} =>
           rIdx \in 1 .. Len(Queue) + 1
    /\ rPc \in {"call", "inTest"} =>
           rIdx \in 1 .. Len(Queue) /\ rCurrent = Queue[rIdx]
    /\ rPc = "inTest" /\ sPc # "idle" => rCurrent = suite
    /\ rPc = "inTest" /\ sPc = "idle" /\ pc \notin {"idle", "dead"} =>
           rCurrent \in Tests
    /\ exitCode = -1 <=> rPc # "exited"

(* Past the gate, where a test is entered without another look at the flag. *)
PastGate == {"check", "decide", "restartDown", "restartUp", "recheck", "call"}

(* Once a signal was heard the runner is leaving its loop, the suite is at  *)
(* most one gate away from its end, and a test entered since then was the   *)
(* one that was past the gate.                                              *)
LateInv ==
    /\ late \in {0, 1}
    /\ late = 1 => heard
    /\ heard => rInterrupted /\ rPc \in {"loop", "inTest", "endRun", "report", "exited"}
    /\ heard /\ rPc = "inTest" /\ sPc # "idle" => sInterrupted[suite]
    /\ late = 1 /\ rPc = "inTest" => sPc \notin PastGate

(* Trouble that has not been counted yet: it is with the open test or suite.*)
OpenTrouble ==
    \/ pc \in Opened /\ marks[running] # {}
    \/ Active /\ (~sSuccessful[suite] \/ marks[suite] # {})

Trouble == crashEnds > 0 \/ \E x \in Tests \cup Suites : marks[x] # {}

(* No trouble is lost between its report and the failed counters.           *)
TroubleInv == pc # "dead" /\ Trouble => ~AllPassed \/ OpenTrouble

(* Suites are counted once, as passed or as failed.                         *)
SuiteCountInv ==
    collector["nSuitePasses"] + collector["nSuiteFailures"]
        + (IF Active THEN 1 ELSE 0)
      = collector["nTestSuites"]

(* The queued objects the runner has finished.                              *)
RunsBefore(n) == UNION {RunsOf(i) : i \in 1 .. n - 1}
SuitesBefore(n) == {i \in 1 .. n - 1 : IsSuite(Queue[i])}

(* Test runs and suite runs that were started for the current object.       *)
StartedHere ==
    CASE rPc # "inTest" -> 0
      [] rPc = "inTest" /\ sPc = "idle" ->
            IF pc = "startTest" THEN 0 ELSE Cardinality(RunsOf(rIdx))
      [] rPc = "inTest" /\ sPc \in {"startSuite", "setup"} -> 0
      [] rPc = "inTest" /\ sPc = "inTest" ->
            IF pc = "startTest" THEN idx - 1 ELSE idx
      [] OTHER -> idx - 1

SuiteStartedHere ==
    IF rPc = "inTest" /\ IsSuite(Queue[rIdx]) /\ sPc # "startSuite" THEN 1 ELSE 0

(* Nothing went wrong so far and no signal came.                            *)
QuietRun == AllPassed /\ (Active => sSuccessful[suite]) /\ interuptCount = 1

FiniteInv == IsFiniteSet(RunsBefore(rIdx)) /\ IsFiniteSet(SuitesBefore(rIdx))

(* Everything the runner is past was started: the suites in any case, the   *)
(* tests when nothing went wrong.                                           *)
SuitesStartedInv ==
    rPc # "exited" =>
        collector["nTestSuites"]
          = Cardinality(SuitesBefore(rIdx)) + SuiteStartedHere

RunsStartedInv ==
    QuietRun /\ pc # "dead" =>
        /\ collector["nTests"] = Cardinality(RunsBefore(rIdx)) + StartedHere
        /\ rPc = "exited" =>
               collector["nTestSuites"] = Cardinality(SuitesBefore(rIdx))

(* A suite that has not failed comes to its tearDown() after its last test. *)
LastTestInv == QuietRun /\ sPc \in {"tearDown", "end"} => idx = Len(tests) + 1

(* Without a signal no flag is set and the loop goes on to its end.         *)
UnsignalledInv ==
    interuptCount = 1 =>
        /\ ~rInterrupted
        /\ sPc # "idle" => ~sInterrupted[suite]
        /\ rPc \in {"endRun", "report", "exited"} => rIdx = Len(Queue) + 1

(* Success is decided by the counters, with nothing running.                *)
ExitInv == exitCode = 0 => AllPassed /\ sPc = "idle" /\ pc = "idle"

ProgressInv ==
    /\ FiniteInv
    /\ SuitesStartedInv
    /\ RunsStartedInv
    /\ LastTestInv
    /\ UnsignalledInv
    /\ ExitInv

(* The inductive invariant.                                                 *)
ProgIInv ==
    /\ SuiteIInv
    /\ RunnerTypeOK
    /\ ControlInv
    /\ LateInv
    /\ TroubleInv
    /\ SuiteCountInv
    /\ ProgressInv

-----------------------------------------------------------------------------
(* What a step of a test or of a suite means for the program.               *)

(* A test's step counts a start only with its start event, and forgets no   *)
(* failure.                                                                 *)
LEMMA CaseStepCounters ==
    ASSUME IInv, CaseStep
    PROVE  /\ collector'["nTests"]
                = collector["nTests"] + (IF pc = "startTest" THEN 1 ELSE 0)
           /\ collector'["nFailures"] >= collector["nFailures"]
           /\ \A c \in {"nTestSuites", "nSuitePasses", "nSuiteFailures"} :
                  collector'[c] = collector[c]
           /\ pc' # "startTest"
<1>. USE TestCaseConstants
     DEF IInv, TypeOK, CaseTypeOK, Opened, UserCode, Locations, resultVars
<1>1. /\ ResultTypeOK /\ \A c \in Counters : collector[c] \in Nat
      /\ {"nTests", "nFailures"} \subseteq Counters
      /\ {"nTestSuites", "nSuitePasses", "nSuiteFailures"}
           \subseteq Counters \ {"nTests", "nPasses", "nFailures"}
  BY DEF ResultTypeOK, Counters
<1>2. CASE StartTest
  BY <1>1, <1>2, StartTestCounts DEF StartTest
<1>3. CASE EndTest \/ EndEarly
  BY <1>1, <1>3, EndTestCounts DEF EndTest, EndEarly
<1>4. CASE CrashCaught
  BY <1>1, <1>4, EndTestCounts DEF CrashCaught, run_signal_handler, AfterCatch
<1>5. CASE Loop \/ SetupSucceeds \/ SetupFails \/ BodyReturns
           \/ TearDownReturns \/ Throws \/ Die \/ CheckFails
  BY <1>1, <1>5
     DEF Loop, SetupSucceeds, SetupFails, BodyReturns, TearDownReturns,
         Throws, Catch, AfterCatch, Die, CheckFails
<1>. QED  BY <1>2, <1>3, <1>4, <1>5 DEF CaseStep, CaseProgress

(* A suite's step counts no test, and a suite with its two events.          *)
LEMMA SuiteProgressCounters ==
    ASSUME SuiteIInv, SuiteProgress
    PROVE  /\ collector'["nTests"] = collector["nTests"]
           /\ collector'["nFailures"] >= collector["nFailures"]
           /\ collector'["nTestSuites"] = collector["nTestSuites"]
                + (IF sPc = "startSuite" THEN 1 ELSE 0)
           /\ collector'["nSuitePasses"] + collector'["nSuiteFailures"]
                = collector["nSuitePasses"] + collector["nSuiteFailures"]
                  + (IF sPc \in {"end", "endEarly"} THEN 1 ELSE 0)
           /\ collector'["nSuiteFailures"] >= collector["nSuiteFailures"]
           /\ sPc \in {"end", "endEarly"} /\ ~sSuccessful[suite] =>
                  collector'["nSuiteFailures"] > 0
<1>. USE DEF At, Go, SettingUp, Checking, TearingDown, InFixture
<1>1. /\ ResultTypeOK /\ IInv /\ SuiteTypeOK
      /\ \A c \in Counters : collector[c] \in Nat
      /\ Counters = {"nTests", "nPasses", "nFailures", "nTestSuites",
                     "nSuitePasses", "nSuiteFailures"}
  BY DEF SuiteIInv, IInv, TypeOK, ResultTypeOK, Counters
<1>2. CASE StartSuite
  BY <1>1, <1>2, BumpCounts DEF StartSuite, startTestSuite
<1>3. CASE EndSuite
  <2>1. CASE sSuccessful[suite]
    BY <1>1, <1>3, <2>1, BumpCounts DEF EndSuite, endTestSuite
  <2>2. CASE ~sSuccessful[suite]
    BY <1>1, <1>3, <2>2, BumpCounts DEF EndSuite, endTestSuite
  <2>. QED  BY <2>1, <2>2
<1>4. CASE FixtureCrashCaught
  <2>1. successful[LastConstructed] \in BOOLEAN
    BY <1>1, TestCaseConstants DEF IInv, TypeOK, CaseTypeOK
  <2>2. endTest(successful[LastConstructed])
    BY <1>4 DEF FixtureCrashCaught
  <2>3. sPc \notin {"startSuite", "end", "endEarly"}
    BY <1>4 DEF FixtureCrashCaught
  <2>4. \A d \in Counters \ {"nPasses", "nFailures"} :
            collector'[d] = collector[d]
    BY <1>1, <2>1, <2>2, EndTestCounts
  <2>5. \/ collector'["nFailures"] = collector["nFailures"]
        \/ collector'["nFailures"] = collector["nFailures"] + 1
    BY <1>1, <2>1, <2>2, EndTestCounts
  <2>6. /\ collector["nFailures"] \in Nat /\ collector["nSuiteFailures"] \in Nat
        /\ collector["nSuitePasses"] \in Nat /\ collector["nTestSuites"] \in Nat
    BY <1>1
  <2>. QED
    BY <1>1, <2>3, <2>4, <2>5, <2>6
<1>5. CASE FixtureUp \/ SetupDone \/ FixtureUpFails \/ FixtureChecked
           \/ ChecksDone \/ FixtureCheckFails \/ FixtureDown \/ TearDownDone
           \/ FixtureThrows \/ FixtureDies \/ NextTest
           \/ GateInterrupted \/ Gate \/ Decide \/ CallTest \/ TestReturned
  <2>1. UNCHANGED collector /\ sPc \notin {"startSuite", "end", "endEarly"}
    BY <1>5
       DEF FixtureUp, SetupDone, FixtureUpFails, FixtureChecked, ChecksDone,
           FixtureCheckFails, FixtureDown, TearDownDone, FixtureThrows,
           FixtureDies, NextTest, GateInterrupted, Gate, Decide, CallTest,
           TestReturned, Enter, vars, resultVars
  <2>. QED  BY <1>1, <2>1
<1>. QED  BY <1>2, <1>3, <1>4, <1>5 DEF SuiteProgress

(* Where a suite goes: it ends from its end locations only, enters a test   *)
(* only when it is about to call one, and passes the gate only when it was  *)
(* not interrupted.                                                         *)
LEMMA SuiteProgressMoves ==
    ASSUME SuiteTypeOK, SuiteProgress
    PROVE  /\ sPc # "idle" /\ pc = "idle" /\ UNCHANGED sInterrupted
           /\ sPc' # "idle" => suite' = suite
           /\ sPc' = "idle" <=> sPc \in {"end", "endEarly"}
           /\ pc' \notin {"idle", "dead"} => sPc = "call"
           /\ sPc = "call" => sPc' = "inTest" /\ pc' = "startTest"
           /\ sPc' = "inTest" => sPc = "call" \/ pc' = "dead"
           /\ sPc' \in PastGate =>
                  sPc \in PastGate \/ (sPc = "gate" /\ ~sInterrupted[suite])
           /\ sPc' # "startSuite"
           /\ Active' <=> sPc \notin {"end", "endEarly"}
<1>. USE DEF At, Go, SettingUp, Checking, TearingDown, InFixture, PastGate,
             Active, SuiteLocations
<1>1. CASE StartSuite \/ EndSuite \/ FixtureUp \/ SetupDone \/ FixtureUpFails
  BY <1>1 DEF StartSuite, EndSuite, FixtureUp, SetupDone, FixtureUpFails,
              vars, caseVars
<1>2. CASE FixtureChecked \/ ChecksDone \/ FixtureCheckFails \/ FixtureDown
           \/ TearDownDone
  BY <1>2 DEF FixtureChecked, ChecksDone, FixtureCheckFails, FixtureDown,
              TearDownDone, vars, caseVars
<1>3. CASE FixtureThrows \/ FixtureCrashCaught \/ FixtureDies
           \/ GateInterrupted
  BY <1>3 DEF FixtureThrows, FixtureCrashCaught, FixtureDies,
              GateInterrupted, SuiteCatch, FailSuite, vars, caseVars,
              suiteVars
<1>4. CASE NextTest \/ Gate \/ Decide \/ CallTest \/ TestReturned
  BY <1>4 DEF NextTest, Gate, Decide, CallTest, TestReturned, Enter, vars,
              caseVars
<1>. QED  BY <1>1, <1>2, <1>3, <1>4 DEF SuiteProgress

-----------------------------------------------------------------------------
(* What a signal can do to the test and the suite that run: it is           *)
(* TestCase::interrupt() or TestSuite::interrupt() on the current one.      *)
LEMMA SignalInterrupts ==
    ASSUME RunnerTypeOK, signalHandler
    PROVE  /\ \/ UNCHANGED allVars
              \/ \E t \in Tests : Interrupt(t) /\ UNCHANGED suiteVars
              \/ \E s \in Suites : SuiteInterrupt(s)
           /\ UNCHANGED <<resultVars, running, successful, crashEnds, sPc,
                          suite, idx, sSuccessful, rIdx, rCurrent, late>>
           /\ pc' \in {pc, "dead"}
<1>. USE TestCaseConstants, DistinctObjects
     DEF signalHandler, allVars, vars, resultVars, caseVars, suiteVars
<1>1. rCurrent \in Tests \cup Suites \cup {NoTest}
  BY DEF RunnerTypeOK
<1>2. CASE TooOften
  BY <1>2
<1>3. CASE ~TooOften /\ rCurrent = NoTest
  BY <1>3 DEF runnerInterrupt
<1>4. CASE ~TooOften /\ rCurrent \in Tests
  <2>1. interrupt(rCurrent) /\ UNCHANGED sInterrupted
    BY <1>4 DEF runnerInterrupt
  <2>. QED  BY <1>4, <2>1 DEF Interrupt, interrupt
<1>5. CASE ~TooOften /\ rCurrent \in Suites
  <2>1. suiteInterrupt(rCurrent)
    BY <1>5 DEF runnerInterrupt
  <2>. QED  BY <1>5, <2>1 DEF SuiteInterrupt, suiteInterrupt, interrupt
<1>. QED  BY <1>1, <1>2, <1>3, <1>4, <1>5

(* For the suites and the tests the program is one more caller.             *)
LEMMA ProgNextIsSuiteRunStep ==
    ASSUME RunnerTypeOK, [ProgNext]_progVars
    PROVE  [SuiteRunStep]_allVars
<1>1. CASE RunnerStep
  BY <1>1
     DEF RunnerStep, StartRun, StartRunner, RunnerLoop, CallPlainTest,
         CallSuite, ItemReturned, EndRun, Exit, AtRunner, SuiteRunStep,
         PlainTestStep
<1>2. CASE SuiteStep \/ TestProgress \/ TestCheckFails
  BY <1>2 DEF SuiteStep, TestProgress, TestCheckFails, SuiteRunStep,
              TestInSuite, CaseStep
<1>3. CASE MonitorStep
  BY <1>3 DEF MonitorStep, SuiteRunStep
<1>4. CASE signalHandler
  BY <1>4, SignalInterrupts DEF SuiteRunStep, PlainTestStep
<1>5. CASE UNCHANGED progVars
  BY <1>5 DEF progVars
<1>. QED  BY <1>1, <1>2, <1>3, <1>4, <1>5 DEF ProgNext

(* A monitor changes nothing the runner depends on.                         *)
LEMMA MonitorMoves ==
    ASSUME MonitorStep
    PROVE  UNCHANGED <<vars, runnerVars, sPc, suite, idx, sSuccessful,
                       sInterrupted>>
  BY DEF MonitorStep, fixtureCollapsed

(* A test moves on while its suite waits for it.                            *)
LEMMA TestMoves ==
    ASSUME SuiteIInv, TestProgress \/ TestCheckFails
    PROVE  /\ CaseStep /\ rPc = "inTest" /\ UNCHANGED <<suiteVars, runnerVars>>
           /\ pc \notin {"idle", "dead"} /\ sPc \in {"idle", "inTest"}
           /\ pc' # "startTest"
  BY CaseStepFacts, CaseStepCounters
     DEF TestProgress, TestCheckFails, CaseStep, SuiteIInv, PositionInv

(* Every step keeps the runner's own variables in their types and in step   *)
(* with what it has called.                                                 *)
LEMMA StepControl ==
    ASSUME SuiteIInv, RunnerTypeOK, ControlInv, [ProgNext]_progVars
    PROVE  RunnerTypeOK' /\ ControlInv'
<1>. USE TestRunnerConstants, DistinctObjects
     DEF RunnerTypeOK, ControlInv, RunnerLocations, AtRunner, NoteEntry,
         allVars, vars, caseVars, suiteVars, runnerVars
<1>1. /\ Len(Queue) \in Nat /\ \A i \in 1 .. Len(Queue) :
                                    Queue[i] \in Tests \cup Suites
      /\ SuiteTypeOK
  BY DEF SuiteIInv
<1>2. CASE StartRun \/ StartRunner \/ EndRun
  BY <1>2 DEF StartRun, StartRunner, EndRun
<1>3. CASE Exit
  <2>1. exitCode' \in {0, 1} /\ rPc' = "exited"
    BY <1>3 DEF Exit
  <2>. QED  BY <1>3, <2>1 DEF Exit
<1>4. CASE RunnerLoop
  BY <1>1, <1>4 DEF RunnerLoop, RunnerDone
<1>5. CASE CallPlainTest
  BY <1>1, <1>5 DEF CallPlainTest
<1>6. CASE CallSuite
  BY <1>1, <1>6 DEF CallSuite, SuiteEnter, Go, At
<1>7. CASE ItemReturned
  BY <1>1, <1>7 DEF ItemReturned
<1>8. CASE SuiteStep
  <2>1. /\ sPc # "idle" /\ pc = "idle"
        /\ sPc' # "idle" => suite' = suite
        /\ pc' \notin {"idle", "dead"} => sPc = "call"
        /\ sPc = "call" => sPc' = "inTest"
    BY <1>1, <1>8, SuiteProgressMoves DEF SuiteStep
  <2>. QED  BY <1>8, <2>1 DEF SuiteStep
<1>9. CASE TestProgress \/ TestCheckFails
  BY <1>9, TestMoves
<1>10. CASE MonitorStep
  BY <1>10, MonitorMoves
<1>11. CASE signalHandler
  <2>1. /\ UNCHANGED <<sPc, suite, rIdx, rCurrent, late>>
        /\ pc' \in {pc, "dead"}
    BY <1>11, SignalInterrupts
  <2>2. RunnerTypeOK'
    <3>1. CASE TooOften
      BY <1>11, <2>1, <3>1 DEF signalHandler, TooOften
    <3>2. CASE ~TooOften
      BY <1>11, <2>1, <3>2
         DEF signalHandler, TooOften, runnerInterrupt, InItem
    <3>. QED  BY <3>1, <3>2
  <2>3. rPc' \in {rPc, "exited"} /\ (rPc' = rPc => exitCode' = exitCode)
        /\ (rPc' # rPc => exitCode' = 1)
    BY <1>11 DEF signalHandler
  <2>. QED  BY <2>1, <2>2, <2>3
<1>12. CASE UNCHANGED progVars
  BY <1>12 DEF progVars
<1>. QED
  BY <1>2, <1>3, <1>4, <1>5, <1>6, <1>7, <1>8, <1>9, <1>10, <1>11, <1>12
     DEF ProgNext, RunnerStep

(* Every step keeps the count of tests entered after a signal.              *)
LEMMA StepLate ==
    ASSUME SuiteIInv, RunnerTypeOK, ControlInv, LateInv, [ProgNext]_progVars
    PROVE  LateInv'
<1>. USE DEF LateInv, AtRunner, NoteEntry, allVars, vars, caseVars, suiteVars,
             runnerVars
<1>1. SuiteTypeOK
  BY DEF SuiteIInv
<1>2. CASE StartRun \/ StartRunner \/ RunnerLoop \/ ItemReturned \/ EndRun
           \/ Exit
  BY <1>2 DEF StartRun, StartRunner, RunnerLoop, RunnerDone, ItemReturned,
              EndRun, Exit, PastGate
<1>3. CASE CallPlainTest
  BY <1>3 DEF CallPlainTest, PastGate
<1>4. CASE CallSuite
  BY <1>4 DEF CallSuite, SuiteEnter, Go, PastGate
<1>5. CASE SuiteStep
  <2>1. /\ sPc # "idle" /\ pc = "idle" /\ UNCHANGED sInterrupted
        /\ sPc' # "idle" => suite' = suite
        /\ sPc = "call" => sPc' = "inTest"
        /\ sPc' \in PastGate =>
               sPc \in PastGate \/ (sPc = "gate" /\ ~sInterrupted[suite])
    BY <1>1, <1>5, SuiteProgressMoves DEF SuiteStep
  <2>2. rPc = "inTest" /\ UNCHANGED <<rPc, rInterrupted, heard>>
    BY <1>5 DEF SuiteStep
  <2>3. CASE sPc = "call"
    <3>1. late = 0 /\ sPc' \notin PastGate
      BY <2>1, <2>2, <2>3 DEF PastGate
    <3>2. late' = IF heard THEN 1 ELSE late
      BY <1>5, <2>1, <2>3, <3>1 DEF SuiteStep, At
    <3>. QED  BY <2>1, <2>2, <3>1, <3>2
  <2>4. CASE sPc # "call"
    <3>1. UNCHANGED late
      BY <1>5, <2>4 DEF SuiteStep, At
    <3>. QED  BY <2>1, <2>2, <3>1
  <2>. QED  BY <2>3, <2>4
<1>6. CASE TestProgress \/ TestCheckFails
  BY <1>6, TestMoves
<1>7. CASE MonitorStep
  BY <1>7, MonitorMoves
<1>8. CASE signalHandler
  <2>1. UNCHANGED <<sPc, suite, late>>
    BY <1>8, SignalInterrupts
  <2>2. CASE TooOften
    BY <1>8, <2>1, <2>2 DEF signalHandler
  <2>3. CASE ~TooOften
    <3>1. /\ rInterrupted' = TRUE /\ rPc' = rPc
          /\ heard' = (heard \/ InItem)
      BY <1>8, <2>3 DEF signalHandler, runnerInterrupt
    <3>2. rPc = "inTest" /\ sPc # "idle" => sInterrupted'[suite]
      <4>. SUFFICES ASSUME rPc = "inTest", sPc # "idle"
                    PROVE  sInterrupted'[suite]
        OBVIOUS
      <4>1. rCurrent = suite /\ suite \in Suites
        BY <1>1 DEF ControlInv, SuiteTypeOK
      <4>2. suiteInterrupt(suite)
        BY <1>8, <2>3, <4>1, TestCaseConstants, DistinctObjects
           DEF signalHandler, runnerInterrupt
      <4>. QED
        BY <1>1, <4>1, <4>2 DEF suiteInterrupt, SuiteTypeOK
    <3>. QED  BY <2>1, <3>1, <3>2 DEF InItem
  <2>. QED  BY <2>2, <2>3
<1>9. CASE UNCHANGED progVars
  BY <1>9 DEF progVars
<1>. QED
  BY <1>2, <1>3, <1>4, <1>5, <1>6, <1>7, <1>8, <1>9 DEF ProgNext, RunnerStep

-----------------------------------------------------------------------------
(* The counters are numbers.                                                *)
LEMMA CountersAreNumbers ==
    ASSUME ResultTypeOK
    PROVE  /\ collector["nTests"] \in Nat /\ collector["nPasses"] \in Nat
           /\ collector["nFailures"] \in Nat
           /\ collector["nTestSuites"] \in Nat
           /\ collector["nSuitePasses"] \in Nat
           /\ collector["nSuiteFailures"] \in Nat
  BY DEF ResultTypeOK, Counters

(* A test that is not at its start or its end keeps its bad news, and bad   *)
(* news that is new is its own.                                             *)
LEMMA CaseTrouble ==
    ASSUME IInv, CaseStep, pc' # "dead"
    PROVE  /\ \A s \in Suites : marks'[s] = marks[s]
           /\ pc \in {"startTest", "endTest", "endEarly"} =>
                  crashEnds' = crashEnds
           /\ pc = "startTest" =>
                  \A x \in Tests \cup Suites :
                      marks'[x] = marks[x] \/ marks'[x] = {}
           /\ pc \in {"endTest", "endEarly"} =>
                /\ UNCHANGED marks
                /\ marks[running] # {} => collector'["nFailures"] > 0
           /\ pc \notin {"startTest", "endTest", "endEarly"} =>
                /\ pc \in Opened /\ pc' \in Opened /\ running' = running
                /\ marks[running] # {} => marks'[running] # {}
                /\ marks'[running] # {} \/ UNCHANGED <<marks, crashEnds>>
<1>. USE TestCaseConstants, DistinctObjects
     DEF Opened, UserCode, Locations
<1>1. /\ ResultTypeOK /\ pc \in Locations
      /\ successful \in [Tests -> BOOLEAN]
      /\ pc \in Opened \cup {"startTest"} => running \in Tests
      /\ VerdictExplained
      /\ marks \in [Tests \cup Suites -> SUBSET Kinds]
  BY DEF IInv, TypeOK, CaseTypeOK, VerdictInv, ResultTypeOK
<1>2. CASE StartTest
  BY <1>1, <1>2 DEF StartTest, startTest
<1>3. CASE EndTest \/ EndEarly
  <2>1. marks[running] # {} => collector'["nFailures"] > 0
    BY <1>1, <1>3, EndTestCounts, CountersAreNumbers
       DEF EndTest, EndEarly, VerdictExplained
  <2>. QED  BY <1>1, <1>3, <2>1 DEF EndTest, EndEarly
<1>4. CASE CrashCaught
  <2>1. /\ pc \in UserCode /\ pc' \in Opened /\ running' = running
        /\ AddTo({LastConstructed, running}, "error")
    BY <1>1, <1>4 DEF CrashCaught, run_signal_handler, AfterCatch
  <2>. QED  BY <1>1, <2>1, AddToMarks DEF AddTo, Kinds
<1>5. CASE SetupFails \/ Throws \/ CheckFails
  <2>1. /\ pc \in UserCode /\ pc' \in Opened /\ running' = running
        /\ \E kind \in Kinds : AddTo({running}, kind)
    BY <1>1, <1>5
       DEF SetupFails, Throws, Catch, AfterCatch, CheckFails, Kinds
  <2>. QED  BY <1>1, <2>1, AddToMarks DEF AddTo, Kinds
<1>6. CASE Loop \/ SetupSucceeds \/ BodyReturns \/ TearDownReturns \/ Die
  BY <1>1, <1>6
     DEF Loop, SetupSucceeds, BodyReturns, TearDownReturns, Die, resultVars
<1>. QED  BY <1>2, <1>3, <1>4, <1>5, <1>6 DEF CaseStep, CaseProgress

(* A suite that is not at its start or its end keeps its bad news and its   *)
(* failure, and bad news that is new is its own.                            *)
LEMMA SuiteTrouble ==
    ASSUME SuiteIInv, SuiteProgress
    PROVE  /\ sPc = "startSuite" =>
                /\ UNCHANGED crashEnds
                /\ \A x \in Tests \cup Suites :
                       marks'[x] = marks[x] \/ marks'[x] = {}
           /\ sPc \in {"end", "endEarly"} =>
                UNCHANGED <<marks, crashEnds, sSuccessful>>
           /\ sPc \notin {"startSuite", "end", "endEarly"} =>
                /\ sSuccessful'[suite] => sSuccessful[suite]
                /\ marks[suite] # {} => marks'[suite] # {}
                /\ marks'[suite] # {} \/ UNCHANGED <<marks, crashEnds>>
<1>. USE TestCaseConstants, DistinctObjects
     DEF At, Go, SettingUp, Checking, TearingDown, InFixture, FailSuite,
         SuiteLocations
<1>1. /\ ResultTypeOK /\ SuiteTypeOK
      /\ marks \in [Tests \cup Suites -> SUBSET Kinds]
      /\ sSuccessful \in [Suites -> BOOLEAN]
  BY DEF SuiteIInv, IInv, TypeOK, ResultTypeOK, SuiteTypeOK
<1>2. suite \in Suites
  BY <1>1, SuiteProgressMoves DEF SuiteTypeOK
<1>3. CASE StartSuite
  BY <1>1, <1>3 DEF StartSuite, startTestSuite, caseVars
<1>4. CASE EndSuite
  BY <1>4 DEF EndSuite, caseVars
<1>5. CASE FixtureUpFails \/ FixtureCheckFails
  <2>1. AddTo({suite}, "error") /\ sPc \in InFixture
    BY <1>5 DEF FixtureUpFails, FixtureCheckFails
  <2>2. sSuccessful'[suite] => sSuccessful[suite]
    BY <1>1, <1>2, <1>5 DEF FixtureUpFails, FixtureCheckFails
  <2>. QED  BY <1>1, <1>2, <2>1, <2>2, AddToMarks DEF AddTo, Kinds
<1>6. CASE FixtureThrows \/ GateInterrupted
  <2>1. (\E kind \in Kinds : AddTo({suite}, kind)) /\ SuiteCatch
        /\ sPc \in InFixture \cup {"gate"}
    BY <1>6 DEF FixtureThrows, GateInterrupted, Kinds
  <2>. QED  BY <1>1, <1>2, <2>1, AddToMarks DEF AddTo, Kinds, SuiteCatch
<1>7. CASE FixtureCrashCaught
  <2>1. AddTo({LastConstructed, suite}, "error") /\ SuiteCatch
        /\ sPc \in InFixture
    BY <1>7 DEF FixtureCrashCaught
  <2>. QED  BY <1>1, <1>2, <2>1, AddToMarks DEF AddTo, Kinds, SuiteCatch
<1>8. CASE Gate
  <2>1. /\ sPc = "gate" /\ UNCHANGED <<sSuccessful, caseVars>>
        /\ UNCHANGED marks \/ AddTo({suite}, "error")
    BY <1>8 DEF Gate
  <2>. QED  BY <1>1, <1>2, <2>1, AddToMarks DEF AddTo, Kinds, caseVars
<1>9. CASE Decide \/ TestReturned
  BY <1>1, <1>2, <1>9
     DEF Decide, TestReturned, VerdictSoFar, vars, resultVars, caseVars
<1>10. CASE FixtureUp \/ SetupDone \/ FixtureChecked \/ ChecksDone
            \/ FixtureDown \/ TearDownDone \/ FixtureDies \/ NextTest
            \/ CallTest
  BY <1>10
     DEF FixtureUp, SetupDone, FixtureChecked, ChecksDone, FixtureDown,
         TearDownDone, FixtureDies, NextTest, CallTest, Enter, vars,
         resultVars, caseVars, suiteVars
<1>. QED
  BY <1>3, <1>4, <1>5, <1>6, <1>7, <1>8, <1>9, <1>10 DEF SuiteProgress

(* No step loses trouble that was not counted.                              *)
LEMMA StepTrouble ==
    ASSUME SuiteIInv, RunnerTypeOK, TroubleInv, [ProgNext]_progVars
    PROVE  TroubleInv'
<1>. SUFFICES ASSUME pc' # "dead", Trouble'
              PROVE  (~AllPassed \/ OpenTrouble)'
  BY DEF TroubleInv
<1>. USE DEF TroubleInv
<1>1. /\ SuiteTypeOK /\ IInv /\ ResultTypeOK /\ PositionInv
      /\ collector["nFailures"] \in Nat /\ collector["nSuiteFailures"] \in Nat
  BY CountersAreNumbers DEF SuiteIInv, IInv, TypeOK
<1>2. SuiteIInv' /\ collector'["nFailures"] \in Nat
      /\ collector'["nSuiteFailures"] \in Nat
  <2>1. SuiteIInv'
    BY ProgNextIsSuiteRunStep, StepSuiteIInv
  <2>. QED
    BY <2>1 DEF SuiteIInv, IInv, TypeOK, ResultTypeOK, Counters
<1>3. CASE UNCHANGED <<vars, sPc, suite, sSuccessful>>
  <2>1. UNCHANGED <<collector, marks, pc, running, crashEnds>>
    BY <1>3 DEF vars, resultVars, caseVars
  <2>. QED  BY <1>3, <2>1 DEF Trouble, OpenTrouble, AllPassed, Active
<1>4. CASE CallPlainTest
  <2>1. /\ pc = "idle" /\ sPc = "idle" /\ pc' = "startTest"
        /\ UNCHANGED <<marks, collector, crashEnds>>
    BY <1>4 DEF CallPlainTest, Enter, AtRunner, resultVars
  <2>. QED
    BY <2>1 DEF Trouble, OpenTrouble, AllPassed, Active, Opened, UserCode
<1>5. CASE CallSuite
  <2>1. /\ pc = "idle" /\ sPc = "idle"
        /\ UNCHANGED <<marks, collector, crashEnds>>
    BY <1>5 DEF CallSuite, SuiteEnter, AtRunner, vars, resultVars, caseVars
  <2>. QED
    BY <2>1 DEF Trouble, OpenTrouble, AllPassed, Active, Opened, UserCode
<1>6. CASE SuiteStep
  <2>1. SuiteProgress
    BY <1>6 DEF SuiteStep
  <2>2. /\ pc = "idle" /\ sPc # "idle"
        /\ collector'["nFailures"] >= collector["nFailures"]
        /\ collector'["nSuiteFailures"] >= collector["nSuiteFailures"]
    BY <1>1, <2>1, SuiteProgressMoves, SuiteProgressCounters
  <2>3. ~AllPassed => ~AllPassed'
    BY <1>1, <1>2, <2>2 DEF AllPassed
  <2>4. CASE sPc = "startSuite"
    <3>1. Trouble
      BY <2>1, <2>4, SuiteTrouble DEF Trouble
    <3>. QED
      BY <2>2, <2>3, <2>4, <3>1 DEF OpenTrouble, Active, Opened, UserCode
  <2>5. CASE sPc \in {"end", "endEarly"}
    <3>1. Trouble
      BY <2>1, <2>5, SuiteTrouble DEF Trouble
    <3>2. CASE sSuccessful[suite]
      <4>1. marks[suite] = {}
        BY <2>5, <3>2
           DEF SuiteIInv, SoundInv, Undecided, Active, SuiteLocations
      <4>. QED
        BY <2>2, <2>3, <3>1, <3>2, <4>1 DEF OpenTrouble, Opened, UserCode
    <3>3. CASE ~sSuccessful[suite]
      BY <1>2, <2>1, <2>5, <3>3, SuiteProgressCounters DEF AllPassed
    <3>. QED  BY <3>2, <3>3
  <2>6. CASE sPc \notin {"startSuite", "end", "endEarly"}
    <3>1. Active /\ Active' /\ suite' = suite
      BY <1>1, <1>2, <2>1, <2>2, <2>6, SuiteProgressMoves
         DEF Active, SuiteTypeOK, SuiteIInv
    <3>2. \/ marks'[suite] # {}
          \/ Trouble
      BY <2>1, <2>6, SuiteTrouble DEF Trouble
    <3>3. OpenTrouble => OpenTrouble'
      BY <2>1, <2>2, <2>6, <3>1, SuiteTrouble
         DEF OpenTrouble, Opened, UserCode
    <3>. QED  BY <2>2, <2>3, <3>1, <3>2, <3>3 DEF OpenTrouble
  <2>. QED  BY <2>4, <2>5, <2>6
<1>7. CASE TestProgress \/ TestCheckFails
  <2>1. CaseStep /\ UNCHANGED suiteVars /\ pc \notin {"idle", "dead"}
    BY <1>7, TestMoves
  <2>2. ~AllPassed => ~AllPassed'
    BY <1>1, <1>2, <2>1, CaseStepCounters DEF AllPassed, Counters
  <2>3. /\ UNCHANGED <<sPc, suite, sSuccessful>>
        /\ sPc # "idle" => suite \in Suites /\ marks'[suite] = marks[suite]
    BY <1>1, <2>1, CaseTrouble DEF suiteVars, SuiteTypeOK
  <2>4. Active /\ (~sSuccessful[suite] \/ marks[suite] # {}) => OpenTrouble'
    BY <2>3 DEF OpenTrouble, Active
  <2>5. CASE pc = "startTest"
    <3>1. Trouble
      BY <1>1, <2>1, <2>5, CaseTrouble DEF Trouble
    <3>. QED
      BY <2>2, <2>4, <2>5, <3>1 DEF OpenTrouble, Opened, UserCode
  <2>6. CASE pc \in {"endTest", "endEarly"}
    <3>1. Trouble
      BY <1>1, <2>1, <2>6, CaseTrouble DEF Trouble
    <3>2. CASE marks[running] # {}
      BY <1>1, <1>2, <2>1, <2>6, <3>2, CaseTrouble DEF AllPassed
    <3>3. CASE marks[running] = {}
      BY <2>2, <2>4, <2>6, <3>1, <3>3 DEF OpenTrouble
    <3>. QED  BY <3>2, <3>3
  <2>7. CASE pc \notin {"startTest", "endTest", "endEarly"}
    <3>1. /\ pc' \in Opened /\ running' = running
          /\ marks[running] # {} => marks'[running] # {}
          /\ marks'[running] # {} \/ UNCHANGED <<marks, crashEnds>>
      BY <1>1, <2>1, <2>7, CaseTrouble
    <3>2. marks'[running] # {} => OpenTrouble'
      BY <3>1 DEF OpenTrouble
    <3>3. UNCHANGED <<marks, crashEnds>> => Trouble
      BY DEF Trouble
    <3>4. OpenTrouble => OpenTrouble'
      BY <2>4, <3>1, <3>2 DEF OpenTrouble
    <3>. QED  BY <2>1, <2>2, <3>1, <3>2, <3>3, <3>4
  <2>. QED  BY <2>5, <2>6, <2>7
<1>8. CASE signalHandler
  <2>1. /\ UNCHANGED <<collector, marks, running, crashEnds, sPc, suite,
                       sSuccessful>>
        /\ pc' = pc
    BY <1>8, SignalInterrupts DEF resultVars
  <2>. QED  BY <2>1 DEF Trouble, OpenTrouble, AllPassed, Active
<1>9. CASE StartRun \/ StartRunner \/ RunnerLoop \/ ItemReturned \/ EndRun
           \/ Exit \/ MonitorStep \/ UNCHANGED progVars
  BY <1>3, <1>9, MonitorMoves
     DEF StartRun, StartRunner, RunnerLoop, ItemReturned, EndRun, Exit,
         progVars, allVars, suiteVars
<1>. QED
  BY <1>4, <1>5, <1>6, <1>7, <1>8, <1>9 DEF ProgNext, RunnerStep

-----------------------------------------------------------------------------
(* Every step counts a suite that starts, passes or fails once.             *)
LEMMA StepSuiteCount ==
    ASSUME SuiteIInv, RunnerTypeOK, SuiteCountInv, [ProgNext]_progVars
    PROVE  SuiteCountInv'
<1>. USE DEF SuiteCountInv
<1>1. /\ SuiteTypeOK /\ IInv /\ ResultTypeOK /\ SuiteIInv'
      /\ collector["nTestSuites"] \in Nat /\ collector["nSuitePasses"] \in Nat
      /\ collector["nSuiteFailures"] \in Nat
  BY CountersAreNumbers, ProgNextIsSuiteRunStep, StepSuiteIInv
     DEF SuiteIInv, IInv, TypeOK
<1>2. /\ collector'["nTestSuites"] \in Nat
      /\ collector'["nSuitePasses"] \in Nat
      /\ collector'["nSuiteFailures"] \in Nat
  BY <1>1 DEF SuiteIInv, IInv, TypeOK, ResultTypeOK, Counters
<1>3. CASE UNCHANGED <<collector, sPc>>
  BY <1>3 DEF Active
<1>4. CASE CallSuite
  BY <1>4 DEF CallSuite, SuiteEnter, AtRunner, Go, Active, vars, resultVars
<1>5. CASE SuiteStep
  <2>1. SuiteProgress
    BY <1>5 DEF SuiteStep
  <2>2. /\ sPc # "idle"
        /\ Active <=> sPc # "startSuite"
        /\ Active' <=> sPc \notin {"end", "endEarly"}
    BY <1>1, <2>1, SuiteProgressMoves DEF Active, SuiteTypeOK
  <2>3. /\ collector'["nTestSuites"] = collector["nTestSuites"]
             + (IF sPc = "startSuite" THEN 1 ELSE 0)
        /\ collector'["nSuitePasses"] + collector'["nSuiteFailures"]
             = collector["nSuitePasses"] + collector["nSuiteFailures"]
               + (IF sPc \in {"end", "endEarly"} THEN 1 ELSE 0)
    BY <2>1, SuiteProgressCounters
  <2>. QED  BY <1>1, <1>2, <2>2, <2>3
<1>6. CASE TestProgress \/ TestCheckFails
  BY <1>1, <1>6, TestMoves, CaseStepCounters DEF Active, suiteVars
<1>7. CASE signalHandler
  BY <1>3, <1>7, SignalInterrupts DEF resultVars
<1>8. CASE CallPlainTest
  BY <1>3, <1>8 DEF CallPlainTest, Enter, resultVars, suiteVars
<1>9. CASE StartRun \/ StartRunner \/ RunnerLoop \/ ItemReturned \/ EndRun
           \/ Exit \/ MonitorStep \/ UNCHANGED progVars
  BY <1>3, <1>9, MonitorMoves
     DEF StartRun, StartRunner, RunnerLoop, ItemReturned, EndRun, Exit,
         progVars, allVars, vars, resultVars, suiteVars
<1>. QED
  BY <1>4, <1>5, <1>6, <1>7, <1>8, <1>9 DEF ProgNext, RunnerStep

-----------------------------------------------------------------------------
(* What the runner has left behind when it goes on to the next object.      *)

(* A plain test runs once, a suite runs each of its tests once.             *)
LEMMA RunsOfCount ==
    ASSUME NEW i \in 1 .. Len(Queue)
    PROVE  /\ IsFiniteSet(RunsOf(i))
           /\ Cardinality(RunsOf(i))
                = IF IsSuite(Queue[i]) THEN Len(SuiteTests[Queue[i]]) ELSE 1
<1>1. IsFiniteSet({i}) /\ Cardinality({i}) = 1
  BY FS_Singleton
<1>2. CASE IsSuite(Queue[i])
  <2>1. /\ DOMAIN SuiteTests[Queue[i]] = 1 .. Len(SuiteTests[Queue[i]])
        /\ Len(SuiteTests[Queue[i]]) \in Nat
    BY <1>2, SuiteLists DEF IsSuite
  <2> DEFINE n == Len(SuiteTests[Queue[i]])
  <2>2. IsFiniteSet(1 .. n) /\ Cardinality(1 .. n) = n
    <3>1. n \in Nat
      BY <2>1
    <3>. HIDE DEF n
    <3>. QED  BY <3>1, FS_Interval
  <2>3. RunsOf(i) = {i} \X (1 .. n)
    BY <1>2, <2>1 DEF RunsOf
  <2>4. /\ IsFiniteSet({i} \X (1 .. n))
        /\ Cardinality({i} \X (1 .. n)) = 1 * n
    <3>. HIDE DEF n
    <3>. QED  BY <1>1, <2>2, FS_Product, ZenonT(30)
  <2>. QED  BY <1>2, <2>1, <2>3, <2>4
<1>3. CASE ~IsSuite(Queue[i])
  <2>1. IsFiniteSet({1}) /\ Cardinality({1}) = 1
    BY FS_Singleton
  <2>2. RunsOf(i) = {i} \X {1}
    BY <1>3 DEF RunsOf
  <2>. QED  BY <1>1, <1>3, <2>1, <2>2, FS_Product
<1>. QED  BY <1>2, <1>3

(* Finite sets without a common member add up.                              *)
LEMMA DisjointUnion ==
    ASSUME NEW S, NEW T, IsFiniteSet(S), IsFiniteSet(T), S \cap T = {}
    PROVE  /\ IsFiniteSet(S \cup T)
           /\ Cardinality(S \cup T) = Cardinality(S) + Cardinality(T)
<1>1. /\ Cardinality(S) \in Nat /\ Cardinality(T) \in Nat
      /\ Cardinality(S \cap T) = 0
  BY FS_CardinalityType, FS_EmptySet
<1>2. /\ IsFiniteSet(S \cup T)
      /\ Cardinality(S \cup T)
           = Cardinality(S) + Cardinality(T) - Cardinality(S \cap T)
  BY FS_Union, Zenon
<1>. QED  BY <1>1, <1>2

(* One object more.                                                         *)
LEMMA NextObject ==
    ASSUME NEW n \in 1 .. Len(Queue),
           IsFiniteSet(RunsBefore(n)), IsFiniteSet(SuitesBefore(n))
    PROVE  /\ IsFiniteSet(RunsBefore(n + 1))
           /\ Cardinality(RunsBefore(n + 1))
                = Cardinality(RunsBefore(n)) + Cardinality(RunsOf(n))
           /\ IsFiniteSet(SuitesBefore(n + 1))
           /\ Cardinality(SuitesBefore(n + 1))
                = Cardinality(SuitesBefore(n))
                    + (IF IsSuite(Queue[n]) THEN 1 ELSE 0)
<1>1. Len(Queue) \in Nat /\ n \in Nat
  BY TestRunnerConstants
<1>2. 1 .. (n + 1) - 1 = (1 .. n - 1) \cup {n} /\ n \notin 1 .. n - 1
  BY <1>1
<1>3. /\ IsFiniteSet(RunsBefore(n + 1))
      /\ Cardinality(RunsBefore(n + 1))
           = Cardinality(RunsBefore(n)) + Cardinality(RunsOf(n))
  <2>1. RunsBefore(n + 1) = RunsBefore(n) \cup RunsOf(n)
    BY <1>2, Zenon DEF RunsBefore
  <2>2. RunsBefore(n) \cap RunsOf(n) = {}
    BY <1>2 DEF RunsBefore, RunsOf
  <2>3. IsFiniteSet(RunsOf(n))
    BY RunsOfCount
  <2>. QED  BY <2>1, <2>2, <2>3, DisjointUnion
<1>4. CASE IsSuite(Queue[n])
  <2>1. SuitesBefore(n + 1) = SuitesBefore(n) \cup {n} /\ n \notin SuitesBefore(n)
    BY <1>2, <1>4, Zenon DEF SuitesBefore
  <2>. QED  BY <1>3, <1>4, <2>1, FS_AddElement
<1>5. CASE ~IsSuite(Queue[n])
  <2>1. SuitesBefore(n + 1) = SuitesBefore(n)
    BY <1>2, <1>5, Zenon DEF SuitesBefore
  <2>2. Cardinality(SuitesBefore(n)) \in Nat
    BY FS_CardinalityType
  <2>. QED  BY <1>3, <1>5, <2>1, <2>2
<1>. QED  BY <1>3, <1>4, <1>5

-----------------------------------------------------------------------------
(* How far a suite comes that has not failed: it goes on to its next test   *)
(* after each one, and leaves the loop after the last.                      *)
LEMMA SuccessfulSuiteMoves ==
    ASSUME SuiteIInv, SuiteProgress, pc' # "dead",
           sPc' # "idle" => sSuccessful'[suite]
    PROVE  /\ sPc = "startSuite" => sPc' = "setup"
           /\ sPc = "setup" => sPc' = "setup" \/ (sPc' = "next" /\ idx' = 1)
           /\ sPc = "inTest" => sPc' = "next" /\ idx' = idx + 1
           /\ sPc \notin {"startSuite", "setup", "inTest"} =>
                  idx' = idx /\ sPc' \notin {"startSuite", "setup"}
           /\ sPc' \in {"tearDown", "end"} =>
                  \/ sPc = "tearDown"
                  \/ sPc = "next" /\ idx = Len(tests) + 1
           /\ sPc \in {"end", "endEarly"} => sPc' = "idle"
<1>. USE DEF At, Go, SettingUp, Checking, TearingDown, InFixture, FailSuite
<1>1. /\ suite \in Suites /\ SuiteTypeOK
      /\ sSuccessful \in [Suites -> BOOLEAN] /\ idx \in Nat
      /\ Len(tests) \in Nat
      /\ sPc = "next" => idx \in 1 .. Len(tests) + 1
  BY SuiteProgressMoves, SuiteLists
     DEF SuiteIInv, SuiteTypeOK, PositionInv, tests
<1>2. CASE FixtureUpFails \/ FixtureCheckFails \/ Decide
  BY <1>1, <1>2 DEF FixtureUpFails, FixtureCheckFails, Decide
<1>3. CASE FixtureThrows \/ FixtureCrashCaught \/ GateInterrupted
  <2>1. /\ ~sSuccessful'[suite]
        /\ sPc' # "idle"
    BY <1>1, <1>3
       DEF FixtureThrows, FixtureCrashCaught, GateInterrupted, SuiteCatch
  <2>. QED  BY <2>1
<1>4. CASE StartSuite \/ EndSuite \/ NextTest \/ Gate \/ CallTest
           \/ TestReturned
  BY <1>1, <1>4
     DEF StartSuite, EndSuite, NextTest, Gate, CallTest, TestReturned
<1>5. CASE FixtureUp \/ SetupDone \/ FixtureChecked \/ ChecksDone
           \/ FixtureDown \/ TearDownDone
  BY <1>1, <1>5
     DEF FixtureUp, SetupDone, FixtureChecked, ChecksDone, FixtureDown,
         TearDownDone
<1>6. CASE FixtureDies
  BY <1>6 DEF FixtureDies
<1>. QED  BY <1>2, <1>3, <1>4, <1>5, <1>6 DEF SuiteProgress

(* What went wrong stays known.                                             *)
LEMMA QuietBefore ==
    ASSUME SuiteIInv, RunnerTypeOK, [ProgNext]_progVars, QuietRun'
    PROVE  QuietRun
<1>1. /\ SuiteTypeOK /\ IInv /\ ResultTypeOK /\ SuiteIInv'
      /\ collector["nFailures"] \in Nat /\ collector["nSuiteFailures"] \in Nat
  BY CountersAreNumbers, ProgNextIsSuiteRunStep, StepSuiteIInv
     DEF SuiteIInv, IInv, TypeOK
<1>2. /\ collector'["nFailures"] \in Nat /\ collector'["nSuiteFailures"] \in Nat
  BY <1>1 DEF SuiteIInv, IInv, TypeOK, ResultTypeOK, Counters
<1>3. interuptCount = 1 /\ ~signalHandler
  <2>1. interuptCount \in 1 .. 5 /\ interuptCount' = 1
    BY DEF RunnerTypeOK, QuietRun
  <2>2. interuptCount' = interuptCount \/ interuptCount' = interuptCount + 1
    BY MonitorMoves
       DEF ProgNext, RunnerStep, StartRun, StartRunner, RunnerLoop,
           CallPlainTest, CallSuite, ItemReturned, EndRun, Exit, SuiteStep,
           TestProgress, TestCheckFails, signalHandler, progVars, runnerVars
  <2>. QED  BY <2>1, <2>2 DEF signalHandler
<1>4. CASE UNCHANGED <<collector, sPc, suite, sSuccessful>>
  BY <1>3, <1>4 DEF QuietRun, AllPassed, Active
<1>5. CASE CallSuite
  BY <1>3, <1>5 DEF CallSuite, SuiteEnter, AtRunner, QuietRun, AllPassed,
                    Active, vars, resultVars
<1>6. CASE SuiteStep
  <2>1. SuiteProgress
    BY <1>6 DEF SuiteStep
  <2>2. /\ collector'["nFailures"] >= collector["nFailures"]
        /\ collector'["nSuiteFailures"] >= collector["nSuiteFailures"]
    BY <2>1, SuiteProgressCounters
  <2>3. AllPassed
    BY <1>1, <1>2, <2>2 DEF QuietRun, AllPassed
  <2>4. CASE sPc \in {"end", "endEarly"}
    BY <1>2, <1>3, <2>1, <2>3, <2>4, SuiteProgressCounters
       DEF QuietRun, AllPassed
  <2>5. CASE sPc \notin {"end", "endEarly"}
    BY <1>1, <1>3, <2>1, <2>3, <2>5, SuiteProgressMoves, SuiteTrouble
       DEF QuietRun, Active
  <2>. QED  BY <2>4, <2>5
<1>7. CASE TestProgress \/ TestCheckFails
  <2>1. /\ collector'["nFailures"] >= collector["nFailures"]
        /\ collector'["nSuiteFailures"] = collector["nSuiteFailures"]
        /\ UNCHANGED suiteVars
    BY <1>1, <1>7, TestMoves, CaseStepCounters
  <2>. QED
    BY <1>1, <1>2, <1>3, <2>1 DEF QuietRun, AllPassed, Active, suiteVars
<1>8. CASE CallPlainTest
  BY <1>4, <1>8 DEF CallPlainTest, Enter, resultVars, suiteVars
<1>9. CASE StartRun \/ StartRunner \/ RunnerLoop \/ ItemReturned \/ EndRun
           \/ Exit \/ MonitorStep \/ UNCHANGED progVars
  BY <1>4, <1>9, MonitorMoves
     DEF StartRun, StartRunner, RunnerLoop, ItemReturned, EndRun, Exit,
         progVars, allVars, vars, resultVars, suiteVars
<1>. QED
  BY <1>3, <1>5, <1>6, <1>7, <1>8, <1>9 DEF ProgNext, RunnerStep

(* A suite leaves its loop unfinished only when it has failed.              *)
LEMMA StepLastTest ==
    ASSUME SuiteIInv, RunnerTypeOK, LastTestInv, [ProgNext]_progVars
    PROVE  LastTestInv'
<1>. SUFFICES ASSUME QuietRun', sPc' \in {"tearDown", "end"}
              PROVE  (idx = Len(tests) + 1)'
  BY DEF LastTestInv
<1>1. QuietRun /\ SuiteTypeOK /\ pc \in Locations
  BY QuietBefore DEF SuiteIInv, IInv, TypeOK, CaseTypeOK
<1>2. CASE UNCHANGED <<sPc, suite, idx>>
  BY <1>1, <1>2 DEF LastTestInv, tests
<1>3. CASE CallSuite
  BY <1>3 DEF CallSuite, SuiteEnter, Go
<1>4. CASE SuiteStep
  <2>1. SuiteProgress /\ suite' = suite /\ sSuccessful'[suite]
    BY <1>1, <1>4, SuiteProgressMoves
       DEF SuiteStep, QuietRun, Active, SuiteLocations, InFixture,
           TearingDown
  <2>2. CASE pc' # "dead"
    BY <1>1, <2>1, <2>2, SuccessfulSuiteMoves DEF LastTestInv, tests
  <2>3. CASE pc' = "dead"
    <3>1. UNCHANGED suiteVars
      BY <1>1, <2>1, <2>3
         DEF SuiteProgress, StartSuite, EndSuite, FixtureUp, SetupDone,
             FixtureUpFails, FixtureChecked, ChecksDone, FixtureCheckFails,
             FixtureDown, TearDownDone, FixtureThrows, FixtureCrashCaught,
             FixtureDies, NextTest, GateInterrupted, Gate, Decide, CallTest,
             TestReturned, Enter, At, vars, caseVars
    <3>. QED  BY <1>2, <3>1 DEF suiteVars
  <2>. QED  BY <2>2, <2>3
<1>5. CASE TestProgress \/ TestCheckFails
  BY <1>2, <1>5, TestMoves DEF suiteVars
<1>6. CASE signalHandler
  BY <1>2, <1>6, SignalInterrupts
<1>7. CASE StartRun \/ StartRunner \/ RunnerLoop \/ CallPlainTest
           \/ ItemReturned \/ EndRun \/ Exit \/ MonitorStep
           \/ UNCHANGED progVars
  BY <1>2, <1>7, MonitorMoves
     DEF StartRun, StartRunner, RunnerLoop, CallPlainTest, ItemReturned,
         EndRun, Exit, progVars, allVars, suiteVars
<1>. QED  BY <1>3, <1>4, <1>5, <1>6, <1>7 DEF ProgNext, RunnerStep

(* Without a signal no flag is ever set.                                    *)
LEMMA StepUnsignalled ==
    ASSUME SuiteIInv, RunnerTypeOK, ControlInv, UnsignalledInv,
           [ProgNext]_progVars
    PROVE  UnsignalledInv'
<1>. USE DEF UnsignalledInv, AtRunner, allVars, vars, caseVars, suiteVars,
             runnerVars
<1>1. /\ SuiteTypeOK /\ Len(Queue) \in Nat
      /\ sInterrupted \in [Suites -> BOOLEAN]
  BY TestRunnerConstants DEF SuiteIInv, SuiteTypeOK
<1>2. CASE StartRun \/ StartRunner \/ ItemReturned \/ EndRun \/ Exit
  BY <1>2 DEF StartRun, StartRunner, ItemReturned, EndRun, Exit
<1>3. CASE RunnerLoop
  BY <1>1, <1>3 DEF RunnerLoop, RunnerDone, ControlInv
<1>4. CASE CallPlainTest
  BY <1>4 DEF CallPlainTest
<1>5. CASE CallSuite
  BY <1>1, <1>5 DEF CallSuite, SuiteEnter
<1>6. CASE SuiteStep
  BY <1>1, <1>6, SuiteProgressMoves DEF SuiteStep
<1>7. CASE TestProgress \/ TestCheckFails
  BY <1>7, TestMoves
<1>8. CASE MonitorStep
  BY <1>8, MonitorMoves
<1>9. CASE signalHandler
  BY <1>9 DEF signalHandler, RunnerTypeOK
<1>10. CASE UNCHANGED progVars
  BY <1>10 DEF progVars
<1>. QED
  BY <1>2, <1>3, <1>4, <1>5, <1>6, <1>7, <1>8, <1>9, <1>10
     DEF ProgNext, RunnerStep

(* The program exits with success once, from main(), on the counters.       *)
LEMMA StepExit ==
    ASSUME SuiteIInv, RunnerTypeOK, ControlInv, ExitInv, [ProgNext]_progVars
    PROVE  ExitInv'
<1>. SUFFICES ASSUME exitCode' = 0
              PROVE  (AllPassed /\ sPc = "idle" /\ pc = "idle")'
  BY DEF ExitInv
<1>1. CASE exitCode = 0
  <2>1. rPc = "exited"
    BY <1>1 DEF ControlInv
  <2>2. UNCHANGED progVars
    BY <2>1
       DEF ProgNext, RunnerStep, StartRun, StartRunner, RunnerLoop,
           CallPlainTest, CallSuite, ItemReturned, EndRun, Exit, AtRunner,
           SuiteStep, TestProgress, TestCheckFails, MonitorStep,
           signalHandler
  <2>. QED
    BY <1>1, <2>2
       DEF ExitInv, AllPassed, progVars, allVars, vars, resultVars,
           caseVars, suiteVars
<1>2. CASE exitCode # 0
  <2>1. Exit
    BY <1>2, MonitorMoves
       DEF ProgNext, RunnerStep, StartRun, StartRunner, RunnerLoop,
           CallPlainTest, CallSuite, ItemReturned, EndRun, SuiteStep,
           TestProgress, TestCheckFails, signalHandler, progVars, runnerVars
  <2>. QED
    BY <2>1
       DEF Exit, AtRunner, AllPassed, allVars, vars, resultVars, caseVars,
           suiteVars
<1>. QED  BY <1>1, <1>2

(* The runner's place changes when an object has returned.                  *)
LEMMA StepFinite ==
    ASSUME RunnerTypeOK, ControlInv, FiniteInv, [ProgNext]_progVars
    PROVE  FiniteInv'
<1>1. CASE UNCHANGED rIdx
  BY <1>1 DEF FiniteInv, RunsBefore, SuitesBefore
<1>2. CASE ItemReturned
  <2>1. rIdx \in 1 .. Len(Queue) /\ rIdx' = rIdx + 1
    BY <1>2 DEF ItemReturned, AtRunner, ControlInv
  <2>2. IsFiniteSet(RunsBefore(rIdx + 1)) /\ IsFiniteSet(SuitesBefore(rIdx + 1))
    BY <2>1, NextObject DEF FiniteInv
  <2>. QED  BY <2>1, <2>2 DEF FiniteInv, RunsBefore, SuitesBefore
<1>. QED
  BY <1>1, <1>2, MonitorMoves
     DEF ProgNext, RunnerStep, StartRun, StartRunner, RunnerLoop,
         CallPlainTest, CallSuite, EndRun, Exit, SuiteStep, TestProgress,
         TestCheckFails, signalHandler, progVars, runnerVars

(* Every suite the runner comes to is started once.                         *)
LEMMA StepSuitesStarted ==
    ASSUME SuiteIInv, RunnerTypeOK, ControlInv, FiniteInv, SuitesStartedInv,
           [ProgNext]_progVars
    PROVE  SuitesStartedInv'
<1>. SUFFICES ASSUME rPc' # "exited"
              PROVE  (collector["nTestSuites"]
                        = Cardinality(SuitesBefore(rIdx)) + SuiteStartedHere)'
  BY DEF SuitesStartedInv
<1>. USE DEF SuiteStartedHere
<1>1. /\ SuiteTypeOK /\ IInv /\ ResultTypeOK
      /\ collector["nTestSuites"] \in Nat
      /\ Cardinality(SuitesBefore(rIdx)) \in Nat
      /\ rPc # "exited" =>
             collector["nTestSuites"]
               = Cardinality(SuitesBefore(rIdx)) + SuiteStartedHere
  BY CountersAreNumbers, FS_CardinalityType
     DEF SuiteIInv, IInv, TypeOK, FiniteInv, SuitesStartedInv
<1>2. rIdx' = rIdx => Cardinality(SuitesBefore(rIdx))'
                        = Cardinality(SuitesBefore(rIdx))
  BY DEF SuitesBefore
<1>3. CASE UNCHANGED <<collector, sPc, rPc, rIdx>>
  BY <1>1, <1>2, <1>3
<1>4. CASE StartRun \/ StartRunner \/ RunnerLoop \/ EndRun \/ Exit
  BY <1>1, <1>2, <1>4
     DEF StartRun, StartRunner, RunnerLoop, EndRun, Exit, AtRunner, allVars,
         vars, resultVars, suiteVars
<1>5. CASE CallPlainTest
  <2>1. /\ rPc = "call" /\ rPc' = "inTest" /\ rCurrent \in Tests
        /\ UNCHANGED <<collector, rIdx>>
    BY <1>5 DEF CallPlainTest, AtRunner, Enter, resultVars
  <2>2. ~IsSuite(Queue[rIdx])
    BY <2>1, DistinctObjects DEF ControlInv, IsSuite
  <2>. QED  BY <1>1, <1>2, <2>1, <2>2
<1>6. CASE CallSuite
  <2>1. /\ rPc = "call" /\ rPc' = "inTest" /\ sPc' = "startSuite"
        /\ UNCHANGED <<collector, rIdx>>
    BY <1>6 DEF CallSuite, AtRunner, SuiteEnter, Go, vars, resultVars
  <2>. QED  BY <1>1, <1>2, <2>1
<1>7. CASE ItemReturned
  <2>1. /\ rPc = "inTest" /\ sPc = "idle" /\ rPc' = "loop"
        /\ rIdx \in 1 .. Len(Queue) /\ rIdx' = rIdx + 1
        /\ UNCHANGED collector
    BY <1>7 DEF ItemReturned, AtRunner, ControlInv, allVars, vars, resultVars
  <2>2. Cardinality(SuitesBefore(rIdx + 1))
          = Cardinality(SuitesBefore(rIdx))
              + (IF IsSuite(Queue[rIdx]) THEN 1 ELSE 0)
    BY <2>1, NextObject DEF FiniteInv
  <2>3. Cardinality(SuitesBefore(rIdx))' = Cardinality(SuitesBefore(rIdx + 1))
    BY <2>1 DEF SuitesBefore
  <2>. QED  BY <1>1, <2>1, <2>2, <2>3
<1>8. CASE SuiteStep
  <2>1. /\ SuiteProgress /\ rPc = "inTest"
        /\ UNCHANGED <<rPc, rIdx>>
    BY <1>8 DEF SuiteStep
  <2>2. /\ sPc # "idle" /\ sPc' # "startSuite"
        /\ collector'["nTestSuites"] = collector["nTestSuites"]
             + (IF sPc = "startSuite" THEN 1 ELSE 0)
    BY <1>1, <2>1, SuiteProgressMoves, SuiteProgressCounters
  <2>3. IsSuite(Queue[rIdx])
    BY <1>1, <2>1, <2>2 DEF ControlInv, IsSuite, SuiteTypeOK
  <2>. QED  BY <1>1, <1>2, <2>1, <2>2, <2>3
<1>9. CASE TestProgress \/ TestCheckFails
  <2>1. /\ collector'["nTestSuites"] = collector["nTestSuites"]
        /\ UNCHANGED <<sPc, rPc, rIdx>>
    BY <1>1, <1>9, TestMoves, CaseStepCounters DEF suiteVars, runnerVars
  <2>. QED  BY <1>1, <1>2, <2>1
<1>10. CASE signalHandler
  <2>1. UNCHANGED <<collector, sPc, rIdx>>
    BY <1>10, SignalInterrupts DEF resultVars
  <2>2. UNCHANGED rPc
    BY <1>10 DEF signalHandler
  <2>. QED  BY <1>3, <2>1, <2>2
<1>11. CASE MonitorStep \/ UNCHANGED progVars
  BY <1>3, <1>11, MonitorMoves
     DEF progVars, allVars, vars, resultVars, suiteVars, runnerVars
<1>. QED
  BY <1>4, <1>5, <1>6, <1>7, <1>8, <1>9, <1>10, <1>11
     DEF ProgNext, RunnerStep

(* As long as nothing goes wrong, every test the runner and its suites come *)
(* to is started once.                                                      *)
LEMMA StepRunsStarted ==
    ASSUME SuiteIInv, RunnerTypeOK, ControlInv, FiniteInv, SuitesStartedInv,
           RunsStartedInv, LastTestInv, [ProgNext]_progVars
    PROVE  RunsStartedInv'
<1>. SUFFICES ASSUME QuietRun', pc' # "dead"
              PROVE  /\ (collector["nTests"]
                           = Cardinality(RunsBefore(rIdx)) + StartedHere)'
                     /\ rPc' = "exited" =>
                          (collector["nTestSuites"]
                             = Cardinality(SuitesBefore(rIdx)))'
  BY DEF RunsStartedInv
<1>. USE DEF StartedHere
<1>1. /\ SuiteTypeOK /\ IInv /\ ResultTypeOK /\ pc \in Locations
      /\ collector["nTests"] \in Nat /\ idx \in Nat
      /\ Cardinality(RunsBefore(rIdx)) \in Nat
      /\ QuietRun
  BY CountersAreNumbers, FS_CardinalityType, QuietBefore
     DEF SuiteIInv, IInv, TypeOK, CaseTypeOK, FiniteInv, SuiteTypeOK
<1>2. pc # "dead" =>
        /\ collector["nTests"] = Cardinality(RunsBefore(rIdx)) + StartedHere
        /\ rPc = "exited" =>
               collector["nTestSuites"] = Cardinality(SuitesBefore(rIdx))
  BY <1>1 DEF RunsStartedInv
<1>3. rIdx' = rIdx =>
        /\ Cardinality(RunsBefore(rIdx))' = Cardinality(RunsBefore(rIdx))
        /\ Cardinality(SuitesBefore(rIdx))' = Cardinality(SuitesBefore(rIdx))
        /\ Cardinality(RunsOf(rIdx))' = Cardinality(RunsOf(rIdx))
  BY DEF RunsBefore, SuitesBefore, RunsOf
<1>4. CASE UNCHANGED <<collector, sPc, idx, pc, rPc, rIdx>>
  BY <1>2, <1>3, <1>4
<1>5. CASE StartRun \/ StartRunner \/ RunnerLoop \/ EndRun
  BY <1>1, <1>2, <1>3, <1>5
     DEF StartRun, StartRunner, RunnerLoop, EndRun, AtRunner, allVars, vars,
         resultVars
<1>6. CASE Exit
  <2>1. /\ rPc = "report" /\ rPc' = "exited" /\ pc = "idle" /\ sPc = "idle"
        /\ UNCHANGED <<collector, rIdx>>
    BY <1>6 DEF Exit, AtRunner, allVars, vars, resultVars
  <2>2. collector["nTestSuites"] = Cardinality(SuitesBefore(rIdx)) + 0
        /\ Cardinality(SuitesBefore(rIdx)) \in Nat
    BY <2>1, FS_CardinalityType
       DEF SuitesStartedInv, SuiteStartedHere, FiniteInv
  <2>. QED  BY <1>1, <1>2, <1>3, <2>1, <2>2
<1>7. CASE CallPlainTest
  <2>1. /\ rPc = "call" /\ rPc' = "inTest" /\ sPc = "idle" /\ sPc' = "idle"
        /\ pc = "idle" /\ pc' = "startTest"
        /\ UNCHANGED <<collector, rIdx>>
    BY <1>7 DEF CallPlainTest, AtRunner, Enter, resultVars, suiteVars
  <2>. QED  BY <1>1, <1>2, <1>3, <2>1
<1>8. CASE CallSuite
  <2>1. /\ rPc = "call" /\ rPc' = "inTest" /\ sPc' = "startSuite"
        /\ pc = "idle" /\ UNCHANGED <<collector, rIdx>>
    BY <1>8 DEF CallSuite, AtRunner, SuiteEnter, Go, vars, resultVars
  <2>. QED  BY <1>1, <1>2, <1>3, <2>1
<1>9. CASE ItemReturned
  <2>1. /\ rPc = "inTest" /\ sPc = "idle" /\ pc = "idle" /\ rPc' = "loop"
        /\ rIdx \in 1 .. Len(Queue) /\ rIdx' = rIdx + 1
        /\ UNCHANGED collector
    BY <1>9 DEF ItemReturned, AtRunner, ControlInv, allVars, vars, resultVars
  <2>2. /\ Cardinality(RunsBefore(rIdx + 1))
             = Cardinality(RunsBefore(rIdx)) + Cardinality(RunsOf(rIdx))
        /\ Cardinality(RunsOf(rIdx)) \in Nat
    BY <2>1, NextObject, RunsOfCount, FS_CardinalityType DEF FiniteInv
  <2>3. Cardinality(RunsBefore(rIdx))' = Cardinality(RunsBefore(rIdx + 1))
    BY <2>1 DEF RunsBefore
  <2>. QED  BY <1>1, <1>2, <2>1, <2>2, <2>3
<1>10. CASE SuiteStep
  <2>1. /\ SuiteProgress /\ rPc = "inTest"
        /\ UNCHANGED <<rPc, rIdx>>
    BY <1>10 DEF SuiteStep
  <2>2. /\ sPc # "idle" /\ pc = "idle"
        /\ collector'["nTests"] = collector["nTests"]
        /\ sPc' # "idle" => suite' = suite
        /\ sPc' = "idle" <=> sPc \in {"end", "endEarly"}
        /\ pc' # "idle" => sPc = "call"
        /\ sPc = "call" => sPc' = "inTest" /\ pc' = "startTest"
        /\ sPc' = "inTest" => sPc = "call"
        /\ Active' <=> sPc \notin {"end", "endEarly"}
    BY <1>1, <2>1, SuiteProgressMoves, SuiteProgressCounters
  <2>3. sPc' # "idle" => sSuccessful'[suite]
    BY <2>2 DEF QuietRun
  <2>4. /\ rIdx \in 1 .. Len(Queue) /\ Queue[rIdx] = suite
        /\ suite \in Suites
    BY <1>1, <2>1, <2>2 DEF ControlInv, SuiteTypeOK
  <2>5. StartedHere' = StartedHere
    <3>1. CASE sPc \in {"end", "endEarly"}
      <4>1. idx = Len(tests) + 1 /\ Len(tests) \in Nat
        BY <1>1, <2>4, <3>1, SuiteLists
           DEF LastTestInv, SuiteIInv, SoundInv, QuietRun, Active,
               SuiteLocations, tests
      <4>2. Cardinality(RunsOf(rIdx)) = Len(tests)
        BY <2>4, RunsOfCount DEF IsSuite, tests
      <4>3. StartedHere' = Cardinality(RunsOf(rIdx))'
        BY <2>1, <2>2, <3>1
      <4>. QED  BY <1>1, <1>3, <2>1, <2>2, <3>1, <4>1, <4>2, <4>3
    <3>2. CASE sPc \notin {"end", "endEarly"}
      <4>1. /\ sPc' # "idle"
            /\ sPc = "startSuite" => sPc' = "setup"
            /\ sPc = "setup" => sPc' = "setup" \/ (sPc' = "next" /\ idx' = 1)
            /\ sPc = "inTest" => sPc' = "next" /\ idx' = idx + 1
            /\ sPc \notin {"startSuite", "setup", "inTest"} =>
                   idx' = idx /\ sPc' \notin {"startSuite", "setup"}
        BY <2>1, <2>2, <2>3, <3>2, SuccessfulSuiteMoves
      <4>2. CASE sPc \in {"startSuite", "setup"}
        BY <2>1, <4>1, <4>2
      <4>3. CASE sPc = "inTest"
        BY <1>1, <2>1, <2>2, <4>1, <4>3
      <4>4. CASE sPc \notin {"startSuite", "setup", "inTest"}
        BY <2>1, <2>2, <3>2, <4>1, <4>4
      <4>. QED  BY <4>2, <4>3, <4>4
    <3>. QED  BY <3>1, <3>2
  <2>. QED  BY <1>2, <1>3, <2>1, <2>2, <2>5
<1>11. CASE TestProgress \/ TestCheckFails
  <2>1. /\ CaseStep /\ rPc = "inTest" /\ UNCHANGED <<suiteVars, runnerVars>>
        /\ pc \notin {"idle", "dead"} /\ sPc \in {"idle", "inTest"}
        /\ pc' # "startTest"
        /\ collector'["nTests"]
             = collector["nTests"] + (IF pc = "startTest" THEN 1 ELSE 0)
    BY <1>1, <1>11, TestMoves, CaseStepCounters
  <2>2. UNCHANGED <<sPc, idx, rPc, rIdx>>
    BY <2>1 DEF suiteVars, runnerVars
  <2>3. CASE sPc = "idle"
    <3>1. /\ rIdx \in 1 .. Len(Queue) /\ ~IsSuite(Queue[rIdx])
      BY <2>1, <2>3, DistinctObjects DEF ControlInv, IsSuite
    <3>2. Cardinality(RunsOf(rIdx)) = 1
      BY <3>1, RunsOfCount
    <3>. QED  BY <1>1, <1>2, <1>3, <2>1, <2>2, <2>3, <3>2
  <2>4. CASE sPc = "inTest"
    BY <1>1, <1>2, <1>3, <2>1, <2>2, <2>4
  <2>. QED  BY <2>1, <2>3, <2>4
<1>12. CASE MonitorStep \/ UNCHANGED progVars
  <2>1. UNCHANGED <<collector, sPc, idx, pc, rPc, rIdx>>
    BY <1>12, MonitorMoves
       DEF MonitorStep, fixtureCollapsed, progVars, allVars, vars,
           resultVars, caseVars, suiteVars, runnerVars
  <2>. QED  BY <1>4, <2>1
<1>13. ~signalHandler
  BY <1>1 DEF QuietRun, signalHandler
<1>. QED
  BY <1>5, <1>6, <1>7, <1>8, <1>9, <1>10, <1>11, <1>12, <1>13
     DEF ProgNext, RunnerStep

-----------------------------------------------------------------------------
(* Before TestRunner::run nothing has run.                                  *)
LEMMA InitProgIInv == ProgInit => ProgIInv
<1>. SUFFICES ASSUME ProgInit PROVE ProgIInv  OBVIOUS
<1>. USE DEF ProgInit
<1>1. SuiteIInv
  BY InitSuiteIInv
<1>2. /\ sPc = "idle" /\ suite = NoSuite /\ pc = "idle" /\ crashEnds = 0
      /\ collector = [c \in Counters |-> 0]
      /\ marks = [x \in Tests \cup Suites |-> {}]
  BY DEF SuitesInit, SuiteInit, Init, CaseInit, ResultInit
<1>3. Len(Queue) \in Nat
  BY TestRunnerConstants
<1>4. RunnerTypeOK /\ ControlInv /\ LateInv
  <2>1. RunnerTypeOK
    <3>1. exitCode = -1 /\ exitCode \in {-1, 0, 1}
      BY DEF RunnerInit
    <3>2. /\ rPc = "loading" /\ rPc \in RunnerLocations
          /\ rCurrent \in Tests \cup Suites \cup {NoTest}
          /\ rInterrupted \in BOOLEAN /\ heard \in BOOLEAN
      BY DEF RunnerInit, RunnerLocations
    <3>3. rIdx \in Nat /\ interuptCount = 1 /\ late = 0
      BY DEF RunnerInit
    <3>. QED  BY <3>1, <3>2, <3>3 DEF RunnerTypeOK
  <2>2. ControlInv
    BY <1>2, <1>3 DEF RunnerInit, ControlInv
  <2>3. LateInv
    BY DEF RunnerInit, LateInv
  <2>. QED  BY <2>1, <2>2, <2>3
<1>5. TroubleInv /\ SuiteCountInv
  BY <1>2 DEF TroubleInv, Trouble, SuiteCountInv, Active, Counters
<1>6. RunsBefore(rIdx) = {} /\ SuitesBefore(rIdx) = {}
  BY DEF RunnerInit, RunsBefore, SuitesBefore
<1>7. FiniteInv /\ SuitesStartedInv /\ RunsStartedInv
  BY <1>2, <1>6, FS_EmptySet
     DEF RunnerInit, FiniteInv, SuitesStartedInv, RunsStartedInv,
         StartedHere, SuiteStartedHere, Counters
<1>8. LastTestInv /\ UnsignalledInv /\ ExitInv
  BY <1>2 DEF RunnerInit, LastTestInv, UnsignalledInv, ExitInv
<1>. QED  BY <1>1, <1>4, <1>5, <1>7, <1>8 DEF ProgIInv, ProgressInv

(* Every step of the program, its tests, its suites, the monitors and the   *)
(* signal handler preserves the invariant.                                  *)
LEMMA StepProgIInv == ProgIInv /\ [ProgNext]_progVars => ProgIInv'
<1>. SUFFICES ASSUME ProgIInv, [ProgNext]_progVars PROVE ProgIInv'  OBVIOUS
<1>1. /\ SuiteIInv /\ RunnerTypeOK /\ ControlInv /\ LateInv /\ TroubleInv
      /\ SuiteCountInv /\ FiniteInv /\ SuitesStartedInv /\ RunsStartedInv
      /\ LastTestInv /\ UnsignalledInv /\ ExitInv
  BY DEF ProgIInv, ProgressInv
<1>2. SuiteIInv'
  BY <1>1, ProgNextIsSuiteRunStep, StepSuiteIInv
<1>3. RunnerTypeOK' /\ ControlInv' /\ LateInv'
  BY <1>1, StepControl, StepLate
<1>4. TroubleInv' /\ SuiteCountInv'
  BY <1>1, StepTrouble, StepSuiteCount
<1>5. FiniteInv' /\ SuitesStartedInv' /\ RunsStartedInv'
  BY <1>1, StepFinite, StepSuitesStarted, StepRunsStarted
<1>6. LastTestInv' /\ UnsignalledInv' /\ ExitInv'
  BY <1>1, StepLastTest, StepUnsignalled, StepExit
<1>. QED
  BY <1>2, <1>3, <1>4, <1>5, <1>6 DEF ProgIInv, ProgressInv

(* The invariant holds in every reachable state.                            *)
LEMMA ProgInvariance == ProgSpec => []ProgIInv
  BY InitProgIInv, StepProgIInv, PTL DEF ProgSpec

-----------------------------------------------------------------------------
(* Type correctness of the whole program.                                   *)
THEOREM ProgramTypeCorrect == ProgSpec => []ProgTypeOK
<1>1. ProgIInv => ProgTypeOK
  BY DEF ProgIInv, SuiteIInv, IInv, SuitesTypeOK, ProgTypeOK
<1>. QED  BY <1>1, ProgInvariance, PTL

(* After a signal that finds something running at most one more test is     *)
(* started, whatever the queue.                                             *)
THEOREM InterruptStopsTheRun == ProgSpec => []InterruptStops
<1>1. ProgIInv => InterruptStops
  BY DEF ProgIInv, LateInv, InterruptStops
<1>. QED  BY <1>1, ProgInvariance, PTL

(* Whenever the runner has the control, bad news of any test or suite, of   *)
(* the crash handler and of the fixtures included, shows in the counters    *)
(* the exit code is made of.                                                *)
THEOREM BadNewsIsAlwaysCounted == ProgSpec => []BadNewsIsCounted
<1>1. ProgIInv => BadNewsIsCounted
  <2>. SUFFICES ASSUME ProgIInv, AtRunner(rPc),
                       \E x \in Tests \cup Suites : marks[x] # {}
                PROVE  ~AllPassed
    BY DEF BadNewsIsCounted
  <2>1. sPc = "idle" /\ pc = "idle" /\ Trouble /\ TroubleInv
    BY DEF AtRunner, Trouble, ProgIInv
  <2>. QED
    BY <2>1 DEF TroubleInv, OpenTrouble, Active, Opened, UserCode
<1>. QED  BY <1>1, ProgInvariance, PTL

(* A program that was not interrupted and exits with success has run every  *)
(* test and every suite of its queue, and counted each of them as passed.   *)
THEOREM SuccessMeansAll == ProgSpec => []SuccessMeansAllRan
<1>1. ProgIInv => SuccessMeansAllRan
  <2>. SUFFICES ASSUME ProgIInv, exitCode = 0, interuptCount = 1
                PROVE  /\ collector["nTests"] = Cardinality(RunsQueued)
                       /\ collector["nPasses"] = collector["nTests"]
                       /\ collector["nTestSuites"] = Cardinality(SuitesQueued)
                       /\ collector["nSuitePasses"] = collector["nTestSuites"]
    BY DEF SuccessMeansAllRan
  <2>1. /\ SuiteIInv /\ RunnerTypeOK /\ ControlInv /\ TroubleInv
        /\ SuiteCountInv /\ FiniteInv /\ RunsStartedInv
        /\ UnsignalledInv /\ ExitInv
    BY DEF ProgIInv, ProgressInv
  <2>2. /\ rPc = "exited" /\ AllPassed /\ sPc = "idle" /\ pc = "idle"
        /\ rIdx = Len(Queue) + 1 /\ ~Active /\ QuietRun
    BY <2>1 DEF ControlInv, ExitInv, UnsignalledInv, Active, QuietRun
  <2>3. /\ IInv /\ CountsBalance /\ crashEnds \in Nat
        /\ collector["nTests"] \in Nat /\ collector["nPasses"] \in Nat
        /\ collector["nFailures"] = 0 /\ collector["nSuiteFailures"] = 0
        /\ collector["nSuitePasses"] \in Nat
        /\ collector["nTestSuites"] \in Nat
    BY <2>1, <2>2, CountersAreNumbers
       DEF SuiteIInv, IInv, TypeOK, CaseTypeOK, AllPassed
  <2>4. /\ RunsBefore(Len(Queue) + 1) = RunsQueued
        /\ SuitesBefore(Len(Queue) + 1) = SuitesQueued
    <3>1. 1 .. (Len(Queue) + 1) - 1 = DOMAIN Queue
      BY TestRunnerConstants
    <3>. QED
      BY <3>1, Zenon DEF RunsBefore, RunsQueued, SuitesBefore, SuitesQueued
  <2>5. /\ collector["nTests"] = Cardinality(RunsQueued)
        /\ collector["nTestSuites"] = Cardinality(SuitesQueued)
    <3>1. Cardinality(RunsQueued) \in Nat
      BY <2>1, <2>2, <2>4, FS_CardinalityType DEF FiniteInv
    <3>2. StartedHere = 0
      BY <2>2 DEF StartedHere
    <3>. QED
      BY <2>1, <2>2, <2>4, <3>1, <3>2 DEF RunsStartedInv
  <2>6. crashEnds = 0
    BY <2>1, <2>2, <2>3
       DEF TroubleInv, Trouble, OpenTrouble, Opened, UserCode
  <2>7. collector["nPasses"] = collector["nTests"]
    BY <2>2, <2>3, <2>6 DEF CountsBalance, Opened, UserCode
  <2>8. collector["nSuitePasses"] = collector["nTestSuites"]
    BY <2>1, <2>2, <2>3 DEF SuiteCountInv
  <2>. QED  BY <2>5, <2>7, <2>8
<1>. QED  BY <1>1, ProgInvariance, PTL

-----------------------------------------------------------------------------
(* The program keeps the promises of Session: for any queue, every step of  *)
(* the runner, its suites, their tests, the monitors and the signal handler *)
(* is a step of Session or changes nothing it promises.                     *)

(* A crash can only be handled once a test was started: the handlers are    *)
(* installed before the start event, but user code runs after it.           *)
StartedInv ==
    pc \in Opened \/ (handler = "run_signal_handler" /\ pc = "idle") =>
        collector["nTests"] > 0

(* Between two tests none is the running one.                               *)
IdleInv == pc = "idle" => running = NoTest

PromiseInv == ProgIInv /\ StartedInv /\ IdleInv

-----------------------------------------------------------------------------
(* Opening a scope, for the few depths there are: by concatenation, as the  *)
(* mapping builds the scopes, and by Append, as Session does.               *)
LEMMA Push ==
    ASSUME NEW a, NEW b, NEW c
    PROVE  /\ <<a>> \o <<b>> = <<a, b>> /\ Append(<<a>>, b) = <<a, b>>
           /\ (<<a>> \o <<b>>) \o <<c>> = <<a, b, c>>
           /\ Append(<<a, b>>, c) = <<a, b, c>>
<1> DEFINE S == {a, b, c}
           two == <<a>> \o <<b>>
           three == <<a, b>> \o <<c>>
<1>1. /\ <<a>> \in Seq(S) /\ <<b>> \in Seq(S) /\ <<c>> \in Seq(S)
      /\ <<a, b>> \in Seq(S) /\ <<a, b, c>> \in Seq(S)
      /\ b \in S /\ c \in S
  OBVIOUS
<1>2. two = <<a, b>>
  <2>1. /\ two \in Seq(S) /\ Len(two) = 2 /\ two[1] = a /\ two[2] = b
    BY <1>1
  <2>2. \A i \in 1 .. Len(two) : two[i] = <<a, b>>[i]
    <3>. HIDE DEF two
    <3>. QED  BY <2>1
  <2>. HIDE DEF two, S
  <2>. QED  BY <1>1, <2>1, <2>2, SeqEqual
<1>3. three = <<a, b, c>>
  <2>1. /\ three \in Seq(S) /\ Len(three) = 3
        /\ three[1] = a /\ three[2] = b /\ three[3] = c
    BY <1>1
  <2>2. \A i \in 1 .. Len(three) : three[i] = <<a, b, c>>[i]
    <3>. HIDE DEF three
    <3>. QED  BY <2>1
  <2>. HIDE DEF three, S
  <2>. QED  BY <1>1, <2>1, <2>2, SeqEqual
<1>4. Append(<<a>>, b) = two /\ Append(<<a, b>>, c) = three
  <2>. HIDE DEF S
  <2>. QED  BY <1>1, AppendIsConcat
<1>. QED  BY <1>2, <1>3, <1>4

(* Closing the innermost scope leaves the ones around it.                   *)
LEMMA Pop ==
    ASSUME NEW a, NEW b, NEW c
    PROVE  /\ SubSeq(<<a>>, 1, Len(<<a>>) - 1) = <<>>
           /\ SubSeq(<<a, b>>, 1, Len(<<a, b>>) - 1) = <<a>>
           /\ SubSeq(<<a, b, c>>, 1, Len(<<a, b, c>>) - 1) = <<a, b>>
<1> DEFINE S == {a, b, c}
           one == SubSeq(<<a, b>>, 1, 1)
           two == SubSeq(<<a, b, c>>, 1, 2)
<1>1. /\ <<a>> \in Seq(S) /\ <<a, b>> \in Seq(S) /\ <<a, b, c>> \in Seq(S)
  OBVIOUS
<1>2. one = <<a>>
  <2>1. one \in Seq(S) /\ Len(one) = 1 /\ one[1] = a
    BY <1>1
  <2>2. \A i \in 1 .. Len(one) : one[i] = <<a>>[i]
    <3>. HIDE DEF one
    <3>. QED  BY <2>1
  <2>. HIDE DEF one, S
  <2>. QED  BY <1>1, <2>1, <2>2, SeqEqual
<1>3. two = <<a, b>>
  <2>1. two \in Seq(S) /\ Len(two) = 2 /\ two[1] = a /\ two[2] = b
    BY <1>1
  <2>2. \A i \in 1 .. Len(two) : two[i] = <<a, b>>[i]
    <3>. HIDE DEF two
    <3>. QED  BY <2>1
  <2>. HIDE DEF two, S
  <2>. QED  BY <1>1, <2>1, <2>2, SeqEqual
<1>4. SubSeq(<<a>>, 1, Len(<<a>>) - 1) = <<>>
  OBVIOUS
<1>5. Len(<<a, b>>) - 1 = 1 /\ Len(<<a, b, c>>) - 1 = 2
  OBVIOUS
<1>. QED  BY <1>2, <1>3, <1>4, <1>5

(* What is open, by where the program is.                                   *)
ScopeFacts ==
    /\ ~Running => OpenScopes = <<>>
    /\ Running =>
         /\ ~InRunner /\ ~InSuite /\ ~InTestCase => OpenScopes = <<>>
         /\ InRunner /\ ~InSuite /\ ~InTestCase => OpenScopes = <<"runner">>
         /\ InRunner /\ InSuite /\ ~InTestCase =>
                OpenScopes = <<"runner", suite>>
         /\ InRunner /\ ~InSuite /\ InTestCase =>
                OpenScopes = <<"runner", running>>
         /\ InRunner /\ InSuite /\ InTestCase =>
                OpenScopes = <<"runner", suite, running>>

(* The mapping's scopes at every place of the program.                      *)
LEMMA ScopeIs == ScopeFacts
<1>1. /\ <<>> \o <<>> = <<>> /\ <<"runner">> \o <<>> = <<"runner">>
      /\ <<"runner", suite>> \o <<>> = <<"runner", suite>>
  OBVIOUS
<1>. HIDE DEF Running, InRunner, InSuite, InTestCase
<1>2. OpenScopes =
        IF Running
        THEN (IF InRunner THEN <<"runner">> ELSE <<>>)
                \o (IF InSuite THEN <<suite>> ELSE <<>>)
                \o (IF InTestCase THEN <<running>> ELSE <<>>)
        ELSE <<>>
  BY DEF OpenScopes
<1>. QED  BY <1>1, <1>2, Push DEF ScopeFacts

-----------------------------------------------------------------------------
(* A counter that goes up is one counted event of Session.                  *)
LEMMA RecordedBump ==
    ASSUME ResultTypeOK, NEW c \in Counters, Bump(c),
           crashEnds \in Nat, UNCHANGED crashEnds
    PROVE  Promise!Add({c})
<1>1. \A d \in Counters :
          collector'[d] = collector[d] + IF d \in {c} THEN 1 ELSE 0
  BY DEF ResultTypeOK, Bump
<1>2. Promise!Counts = Counters \cup {"extra"} /\ "extra" \notin Counters
  BY DEF Promise!Counts, Counters
<1>3. crashEnds' = crashEnds + IF "extra" \in {c} THEN 1 ELSE 0
  BY <1>2
<1>. QED  BY <1>1, <1>2, <1>3 DEF Recorded, Promise!Add

(* A handled crash counts an end event more than the test has.              *)
LEMMA RecordedCrash ==
    ASSUME ResultTypeOK, NEW ok \in BOOLEAN, endTest(ok),
           crashEnds' = crashEnds + 1
    PROVE  Promise!Add({"extra", Promise!TestVerdict(ok)})
  BY DEF ResultTypeOK, Bump, Recorded, Counters, endTest, Promise!Add,
         Promise!Counts, Promise!TestVerdict

(* Session counts nothing but the collector's counters and the crashes.     *)
LEMMA RecordedSame ==
    ASSUME UNCHANGED <<collector, crashEnds>>
    PROVE  UNCHANGED Recorded
  BY DEF Recorded

-----------------------------------------------------------------------------
(* The steps of a test.                                                     *)

(* The handlers of a test are in place only after its start event, as far   *)
(* as user code can tell.                                                   *)
LEMMA StepStarted ==
    ASSUME SuiteIInv, RunnerTypeOK, StartedInv, [ProgNext]_progVars
    PROVE  StartedInv'
<1>. USE DEF StartedInv
<1>1. /\ IInv /\ SuiteTypeOK /\ ResultTypeOK /\ pc \in Locations
      /\ collector["nTests"] \in Nat
  BY CountersAreNumbers DEF SuiteIInv, IInv, TypeOK, CaseTypeOK
<1>2. CASE UNCHANGED <<collector, pc, handler>>
  BY <1>2
<1>3. CASE CallPlainTest
  BY <1>3 DEF CallPlainTest, Enter, Opened, UserCode
<1>4. CASE SuiteStep
  <2>1. SuiteProgress
    BY <1>4 DEF SuiteStep
  <2>2. /\ collector'["nTests"] = collector["nTests"] /\ pc = "idle"
    BY <1>1, <2>1, SuiteProgressCounters, SuiteProgressMoves
  <2>3. CASE CallTest
    BY <2>3 DEF CallTest, Enter, Opened, UserCode
  <2>4. CASE ~CallTest
    <3>1. pc' \in {"idle", "dead"} /\ handler' \in {handler, "SIG_DFL"}
      BY <2>1, <2>2, <2>4
         DEF SuiteProgress, StartSuite, EndSuite, FixtureUp, SetupDone,
             FixtureUpFails, FixtureChecked, ChecksDone, FixtureCheckFails,
             FixtureDown, TearDownDone, FixtureThrows, FixtureCrashCaught,
             FixtureDies, NextTest, GateInterrupted, Gate, Decide,
             TestReturned, vars, caseVars
    <3>. QED  BY <2>2, <3>1 DEF Opened, UserCode
  <2>. QED  BY <2>3, <2>4
<1>5. CASE TestProgress \/ TestCheckFails
  <2>1. /\ CaseStep /\ pc \notin {"idle", "dead"}
        /\ collector'["nTests"]
             = collector["nTests"] + (IF pc = "startTest" THEN 1 ELSE 0)
    BY <1>1, <1>5, TestMoves, CaseStepCounters
  <2>. QED  BY <1>1, <2>1 DEF Locations
<1>6. CASE signalHandler
  <2>1. UNCHANGED <<collector, handler>> /\ pc' \in {pc, "dead"}
    BY <1>6, SignalInterrupts DEF signalHandler, resultVars
  <2>. QED  BY <2>1 DEF Opened, UserCode
<1>7. CASE StartRun \/ StartRunner \/ RunnerLoop \/ CallSuite \/ ItemReturned
           \/ EndRun \/ Exit \/ MonitorStep \/ UNCHANGED progVars
  BY <1>2, <1>7, MonitorMoves
     DEF StartRun, StartRunner, RunnerLoop, CallSuite, SuiteEnter,
         ItemReturned, EndRun, Exit, progVars, allVars, vars, resultVars,
         caseVars
<1>. QED
  BY <1>3, <1>4, <1>5, <1>6, <1>7 DEF ProgNext, RunnerStep

(* The end of a test leaves no running one.                                 *)
LEMMA StepIdle ==
    ASSUME SuiteIInv, RunnerTypeOK, IdleInv, [ProgNext]_progVars
    PROVE  IdleInv'
<1>. USE DEF IdleInv
<1>1. /\ IInv /\ SuiteTypeOK
  BY DEF SuiteIInv
<1>2. CASE UNCHANGED <<pc, running>>
  BY <1>2
<1>3. CASE CallPlainTest
  BY <1>3 DEF CallPlainTest, Enter
<1>4. CASE SuiteStep
  <2>1. SuiteProgress /\ pc = "idle"
    BY <1>1, <1>4, SuiteProgressMoves DEF SuiteStep
  <2>2. UNCHANGED running \/ pc' = "startTest"
    BY <2>1
       DEF SuiteProgress, StartSuite, EndSuite, FixtureUp, SetupDone,
           FixtureUpFails, FixtureChecked, ChecksDone, FixtureCheckFails,
           FixtureDown, TearDownDone, FixtureThrows, FixtureCrashCaught,
           FixtureDies, NextTest, GateInterrupted, Gate, Decide, CallTest,
           TestReturned, Enter, vars, caseVars
  <2>. QED  BY <2>1, <2>2
<1>5. CASE TestProgress \/ TestCheckFails
  <2>1. CaseStep /\ pc # "idle"
    BY <1>1, <1>5, TestMoves
  <2>2. CASE EndTest \/ EndEarly
    BY <2>2 DEF EndTest, EndEarly
  <2>3. CASE ~EndTest /\ ~EndEarly
    <3>1. pc' # "idle"
      BY <2>1, <2>3
         DEF CaseStep, CaseProgress, StartTest, Loop, SetupSucceeds,
             SetupFails, BodyReturns, TearDownReturns, Throws, Catch,
             AfterCatch, Die, CrashCaught, CheckFails
    <3>. QED  BY <3>1
  <2>. QED  BY <2>2, <2>3
<1>6. CASE signalHandler
  BY <1>6, SignalInterrupts
<1>7. CASE StartRun \/ StartRunner \/ RunnerLoop \/ CallSuite \/ ItemReturned
           \/ EndRun \/ Exit \/ MonitorStep \/ UNCHANGED progVars
  BY <1>2, <1>7, MonitorMoves
     DEF StartRun, StartRunner, RunnerLoop, CallSuite, SuiteEnter,
         ItemReturned, EndRun, Exit, progVars, allVars, vars, caseVars
<1>. QED
  BY <1>3, <1>4, <1>5, <1>6, <1>7 DEF ProgNext, RunnerStep

(* The process dies, or is told to end.                                     *)
LEMMA AbortStep ==
    ASSUME RunStatus = "alive", RunStatus' \in {"dead", "failure"},
           UNCHANGED <<collector, crashEnds>>, ~Running'
    PROVE  Promise!Abort
<1>1. ScopeFacts'
  BY ScopeIs, PTL
<1>. QED
  BY <1>1, RecordedSame
     DEF ScopeFacts, Promise!Abort, Promise!Alive, TestIsClean, SuiteIsClean

(* A step inside the test that runs.                                        *)
LEMMA TestKeepsPromise ==
    ASSUME PromiseInv, PromiseInv', TestProgress \/ TestCheckFails
    PROVE  [Promise!Next]_(Promise!vars)
<1>. USE TestCaseConstants, DistinctObjects
     DEF Promise!Alive, Promise!InScope, Promise!Inner, Promise!Close,
         InSuite, InTestCase
<1>1. /\ ScopeFacts /\ ScopeFacts'
      /\ IInv /\ TypeOK /\ ResultTypeOK /\ CaseTypeOK /\ SuiteTypeOK
      /\ RunnerTypeOK /\ ControlInv /\ VerdictExplained
  <2>1. ScopeFacts'
    BY ScopeIs, PTL
  <2>. QED
    BY <2>1, ScopeIs
       DEF PromiseInv, ProgIInv, SuiteIInv, IInv, TypeOK, VerdictInv
<1>2. /\ CaseStep /\ rPc = "inTest" /\ UNCHANGED <<suiteVars, runnerVars>>
      /\ pc \notin {"idle", "dead"} /\ sPc \in {"idle", "inTest"}
      /\ pc' # "startTest"
  BY <1>1, TestMoves DEF PromiseInv, ProgIInv
<1>3. /\ Running /\ InRunner /\ RunStatus = "alive" /\ running \in Tests
      /\ exitCode = -1 /\ pc \in Locations
  <2>1. running \in Tests /\ pc \in Locations
    BY <1>1, <1>2, CaseStepFacts DEF CaseTypeOK
  <2>2. exitCode = -1
    BY <1>1, <1>2 DEF ControlInv
  <2>. QED  BY <1>2, <2>1, <2>2 DEF Running, InRunner, RunStatus
<1>4. UNCHANGED <<sPc, suite, rPc, exitCode, executed, InSuite, InRunner>>
  BY <1>2 DEF suiteVars, runnerVars, InSuite, InRunner
<1>5. InSuite =>
        /\ suite \in Suites /\ marks'[suite] = marks[suite]
        /\ running \in executed /\ executed \subseteq Tests
  <2>1. \/ marks'[suite] = marks[suite] /\ suite \in Suites
        \/ sPc = "idle"
    BY <1>1, <1>2, CaseStepFacts DEF SuiteTypeOK
  <2>2. sPc = "inTest" => running \in executed /\ executed \subseteq Tests
    BY <1>1, <1>2
       DEF PromiseInv, ProgIInv, SuiteIInv, PositionInv, ExecutedInv,
           InTestLoop, SuiteTypeOK
  <2>. QED  BY <1>2, <2>1, <2>2
<1>6. pc' # "dead" =>
        Running' /\ RunStatus' = "alive" /\ RunStatus' = RunStatus
  BY <1>3, <1>4 DEF Running, RunStatus
<1>7. \A t \in Tests : t # running => successful'[t] = successful[t]
  BY <1>1, <1>2, CaseStepFacts
<1>8. CASE StartTest
  <2>1. /\ pc = "startTest" /\ pc' = "setup" /\ startTest(running)
        /\ UNCHANGED <<running, successful, crashEnds>>
    BY <1>8 DEF StartTest
  <2>2. Promise!Add({"nTests"}) /\ marks'[running] = {}
    BY <1>1, <1>3, <2>1, RecordedBump
       DEF startTest, Counters, CaseTypeOK, ResultTypeOK
  <2>3. /\ ~InTestCase /\ InTestCase'
    BY <2>1 DEF Opened, UserCode
  <2>4. /\ OpenScopes # <<>>
        /\ OpenScopes[Len(OpenScopes)] \in {"runner"} \cup Suites
        /\ OpenScopes' = Append(OpenScopes, running)
    <3>1. Running' /\ InRunner' /\ InSuite' = InSuite
      BY <1>3, <1>4, <1>6, <2>1
    <3>2. CASE InSuite
      <4>1. /\ OpenScopes = <<"runner", suite>>
            /\ OpenScopes' = <<"runner", suite, running>>
        BY <1>1, <1>3, <1>4, <2>1, <2>3, <3>1, <3>2 DEF ScopeFacts
      <4>. QED  BY <1>5, <3>2, <4>1, Push
    <3>3. CASE ~InSuite
      <4>1. /\ OpenScopes = <<"runner">>
            /\ OpenScopes' = <<"runner", running>>
        BY <1>1, <1>3, <2>1, <2>3, <3>1, <3>3 DEF ScopeFacts
      <4>. QED  BY <4>1, Push
    <3>. QED  BY <3>2, <3>3
  <2>5. TestIsClean' = TRUE /\ SuiteIsClean' = SuiteIsClean
    BY <1>3, <1>4, <1>5, <1>6, <2>1, <2>2 DEF TestIsClean, SuiteIsClean
  <2>6. Promise!StartTest(running)
    BY <1>3, <1>6, <2>1, <2>2, <2>4, <2>5 DEF Promise!StartTest
  <2>. QED  BY <1>3, <2>6 DEF Promise!Next
<1>9. CASE EndTest \/ EndEarly
  <2>1. /\ pc \in {"endTest", "endEarly"} /\ pc' = "idle" /\ running' = NoTest
        /\ endTest(successful[running]) /\ successful[running] \in BOOLEAN
        /\ UNCHANGED <<marks, successful, crashEnds>>
    BY <1>1, <1>3, <1>9 DEF EndTest, EndEarly, CaseTypeOK
  <2>2. /\ InTestCase /\ ~InTestCase'
    BY <2>1 DEF Opened, UserCode
  <2>3. successful[running] <=> TestIsClean
    BY <1>1, <1>3, <2>2 DEF VerdictExplained, TestIsClean
  <2>4. Promise!Add({Promise!TestVerdict(TestIsClean)})
    BY <1>1, <2>1, <2>3, RecordedBump
       DEF endTest, Promise!TestVerdict, Counters, CaseTypeOK
  <2>5. /\ OpenScopes # <<>>
        /\ OpenScopes[Len(OpenScopes)] \in Tests
        /\ OpenScopes' = SubSeq(OpenScopes, 1, Len(OpenScopes) - 1)
        /\ Len(OpenScopes) = 3 <=> InSuite
    <3>1. Running' /\ InRunner' /\ InSuite' = InSuite
      BY <1>3, <1>4, <1>6, <2>1
    <3>2. CASE InSuite
      <4>1. /\ OpenScopes = <<"runner", suite, running>>
            /\ OpenScopes' = <<"runner", suite>>
        BY <1>1, <1>3, <1>4, <2>2, <3>1, <3>2 DEF ScopeFacts
      <4>. QED  BY <1>3, <3>2, <4>1, Pop
    <3>3. CASE ~InSuite
      <4>1. /\ OpenScopes = <<"runner", running>>
            /\ OpenScopes' = <<"runner">>
        BY <1>1, <1>3, <2>2, <3>1, <3>3 DEF ScopeFacts
      <4>. QED  BY <1>3, <3>3, <4>1, Pop
    <3>. QED  BY <3>2, <3>3
  <2>6. SuiteIsClean' = IF InSuite THEN SuiteIsClean /\ TestIsClean
                                  ELSE SuiteIsClean
    BY <1>3, <1>4, <1>5, <1>6, <2>1, <2>3 DEF SuiteIsClean
  <2>7. TestIsClean' = TRUE
    BY <2>2 DEF TestIsClean
  <2>8. Promise!EndTest
    BY <1>3, <1>6, <2>1, <2>4, <2>5, <2>6, <2>7 DEF Promise!EndTest
  <2>. QED  BY <2>8 DEF Promise!Next
<1>10. CASE Loop \/ SetupSucceeds \/ BodyReturns \/ TearDownReturns
  <2>1. /\ pc \in Opened /\ pc' \in Opened
        /\ UNCHANGED <<collector, marks, running, successful, crashEnds>>
    BY <1>10
       DEF Loop, SetupSucceeds, BodyReturns, TearDownReturns, Opened,
           UserCode, resultVars
  <2>2. UNCHANGED <<RunStatus, OpenScopes, TestIsClean, SuiteIsClean>>
    <3>1. pc' # "dead"
      BY <2>1 DEF Opened, UserCode
    <3>. QED
      BY <1>1, <1>3, <1>4, <1>6, <2>1, <3>1
         DEF ScopeFacts, TestIsClean, SuiteIsClean
  <2>. QED  BY <2>1, <2>2, RecordedSame DEF Promise!vars
<1>11. CASE CheckFails \/ SetupFails \/ Throws \/ CrashCaught
  <2>1. /\ pc \in Opened /\ pc' \in Opened /\ running' = running
        /\ marks'[running] # {}
    <3>1. /\ pc \in UserCode /\ pc' \in Opened /\ running' = running
          /\ \E X \in SUBSET Tests, kind \in Kinds :
                 running \in X /\ AddTo(X, kind)
      BY <1>1, <1>3, <1>11
         DEF CheckFails, SetupFails, Throws, Catch, AfterCatch, CrashCaught,
             run_signal_handler, Kinds, Opened, UserCode
    <3>. QED
      BY <1>1, <3>1, AddToMarks DEF Opened
  <2>2. pc' # "dead"
    BY <2>1 DEF Opened, UserCode
  <2>3. /\ TestIsClean' = FALSE /\ SuiteIsClean' = SuiteIsClean
        /\ OpenScopes' = OpenScopes
        /\ OpenScopes # <<>> /\ OpenScopes[Len(OpenScopes)] = running
    <3>1. SuiteIsClean' = SuiteIsClean
      BY <1>3, <1>4, <1>5, <1>6, <1>7, <2>1, <2>2 DEF SuiteIsClean
    <3>2. /\ Running' /\ InRunner' /\ InSuite' = InSuite
          /\ InTestCase /\ InTestCase'
      BY <1>3, <1>4, <1>6, <2>1, <2>2
    <3>3. TestIsClean' = FALSE
      BY <2>1, <3>2 DEF TestIsClean
    <3>4. CASE InSuite
      <4>1. /\ OpenScopes = <<"runner", suite, running>>
            /\ OpenScopes' = OpenScopes
        BY <1>1, <1>3, <1>4, <2>1, <3>2, <3>4 DEF ScopeFacts
      <4>. QED  BY <3>1, <3>3, <4>1
    <3>5. CASE ~InSuite
      <4>1. /\ OpenScopes = <<"runner", running>>
            /\ OpenScopes' = OpenScopes
        BY <1>1, <1>3, <2>1, <3>2, <3>5 DEF ScopeFacts
      <4>. QED  BY <3>1, <3>3, <4>1
    <3>. QED  BY <3>4, <3>5
  <2>4. Promise!Trouble
    BY <1>3, <1>6, <2>2, <2>3 DEF Promise!Trouble
  <2>5. CASE CheckFails \/ SetupFails \/ Throws
    <3>1. UNCHANGED <<collector, crashEnds>>
      BY <2>5 DEF CheckFails, SetupFails, Throws
    <3>. QED
      BY <2>4, <3>1, RecordedSame DEF Promise!BadNews, Promise!Next
  <2>6. CASE CrashCaught
    <3> DEFINE ok == successful[LastConstructed]
    <3>1. endTest(ok) /\ crashEnds' = crashEnds + 1 /\ ok \in BOOLEAN
      BY <1>1, <2>6 DEF CrashCaught, run_signal_handler, CaseTypeOK
    <3>2. Recorded["nTests"] > 0
      BY <2>1 DEF PromiseInv, StartedInv, Recorded, Counters
    <3>3. Promise!Crash(ok)
      BY <1>1, <2>4, <3>1, <3>2, RecordedCrash DEF Promise!Crash
    <3>. QED  BY <3>1, <3>3 DEF Promise!Next
  <2>. QED  BY <1>11, <2>5, <2>6
<1>12. CASE Die
  <2>1. pc' = "dead" /\ UNCHANGED <<collector, crashEnds>>
    BY <1>12 DEF Die, resultVars
  <2>2. Promise!Abort
    BY <1>3, <2>1, AbortStep DEF RunStatus, Running
  <2>. QED  BY <2>2 DEF Promise!Next
<1>. QED
  BY <1>2, <1>8, <1>9, <1>10, <1>11, <1>12 DEF CaseStep, CaseProgress

-----------------------------------------------------------------------------
(* The steps of a suite.                                                    *)

(* A suite that has not just failed or started keeps its scope open, and    *)
(* bad news is either its own or unchanged.                                 *)
LEMMA InsideSuite ==
    ASSUME PromiseInv, SuiteStep, pc' # "dead",
           sPc \notin {"startSuite", "end", "endEarly"}
    PROVE  /\ RunStatus = "alive" /\ RunStatus' = RunStatus
           /\ OpenScopes' = OpenScopes
           /\ OpenScopes # <<>> /\ OpenScopes[Len(OpenScopes)] = suite
           /\ suite \in Suites
           /\ TestIsClean = TRUE /\ TestIsClean' = TRUE
           /\ Running /\ Running' /\ InSuite /\ InSuite' /\ suite' = suite
<1>. USE DEF InSuite, InTestCase, Opened, UserCode
<1>1. ScopeFacts /\ ScopeFacts' /\ SuiteTypeOK /\ ControlInv
  <2>1. ScopeFacts'
    BY ScopeIs, PTL
  <2>. QED  BY <2>1, ScopeIs DEF PromiseInv, ProgIInv, SuiteIInv
<1>2. /\ rPc = "inTest" /\ SuiteProgress /\ UNCHANGED <<rPc, exitCode>>
  BY DEF SuiteStep
<1>3. /\ sPc # "idle" /\ pc = "idle" /\ suite' = suite
      /\ sPc' \notin {"idle", "startSuite"} /\ pc' \in {"idle", "startTest"}
  <2>1. pc' \notin {"idle", "dead"} => sPc = "call"
    BY <1>1, <1>2, SuiteProgressMoves
  <2>. QED  BY <1>1, <1>2, <2>1, SuiteProgressMoves
<1>4. exitCode = -1 /\ suite \in Suites
  BY <1>1, <1>2, <1>3 DEF ControlInv, SuiteTypeOK
<1>5. /\ Running /\ Running' /\ InRunner /\ InRunner' /\ InSuite /\ InSuite'
      /\ ~InTestCase /\ ~InTestCase'
      /\ RunStatus = "alive" /\ RunStatus' = "alive"
  BY <1>2, <1>3, <1>4 DEF Running, InRunner, RunStatus
<1>6. /\ OpenScopes = <<"runner", suite>> /\ OpenScopes' = <<"runner", suite>>
  BY <1>1, <1>3, <1>5 DEF ScopeFacts
<1>. QED  BY <1>3, <1>4, <1>5, <1>6 DEF TestIsClean

(* Every step of a suite is a step of Session or a stutter.                 *)
LEMMA SuiteKeepsPromise ==
    ASSUME PromiseInv, PromiseInv', SuiteStep
    PROVE  [Promise!Next]_(Promise!vars)
<1>. USE TestCaseConstants, DistinctObjects
     DEF Promise!Alive, Promise!InScope, Promise!Inner, Promise!Close,
         InSuite, InTestCase, At, Go, SettingUp, Checking, TearingDown,
         InFixture
<1>1. /\ ScopeFacts /\ ScopeFacts'
      /\ SuiteIInv /\ IInv /\ TypeOK /\ ResultTypeOK /\ CaseTypeOK
      /\ SuiteTypeOK /\ RunnerTypeOK /\ ControlInv
      /\ crashEnds \in Nat
  <2>1. ScopeFacts'
    BY ScopeIs, PTL
  <2>. QED
    BY <2>1, ScopeIs
       DEF PromiseInv, ProgIInv, SuiteIInv, IInv, TypeOK, CaseTypeOK
<1>2. /\ rPc = "inTest" /\ SuiteProgress /\ UNCHANGED <<rPc, exitCode>>
      /\ sPc # "idle" /\ pc = "idle" /\ suite \in Suites
  BY <1>1, SuiteProgressMoves DEF SuiteStep, SuiteTypeOK
<1>3. Running /\ InRunner /\ InRunner' /\ RunStatus = "alive" /\ exitCode = -1
      /\ ~InTestCase
  BY <1>1, <1>2
     DEF ControlInv, Running, InRunner, RunStatus, Opened, UserCode
<1>4. CASE StartSuite
  <2>1. /\ sPc = "startSuite" /\ sPc' = "setup" /\ startTestSuite(suite)
        /\ UNCHANGED <<pc, suite, crashEnds, executed>>
    BY <1>4 DEF StartSuite, caseVars
  <2>2. /\ Running' /\ ~InSuite /\ InSuite' /\ ~InTestCase'
        /\ RunStatus' = RunStatus
    BY <1>2, <1>3, <2>1 DEF Running, RunStatus, Opened, UserCode
  <2>3. OpenScopes = <<"runner">> /\ OpenScopes' = <<"runner", suite>>
    BY <1>1, <1>3, <2>1, <2>2 DEF ScopeFacts
  <2>4. Promise!Add({"nTestSuites"}) /\ marks'[suite] = {}
    BY <1>1, <1>2, <2>1, RecordedBump
       DEF startTestSuite, Counters, ResultTypeOK
  <2>5. SuiteIsClean' = TRUE /\ TestIsClean' = TestIsClean
    <3>1. executed = {}
      BY <1>1, <2>1 DEF SuiteIInv, ExecutedInv
    <3>. QED
      BY <1>3, <2>1, <2>2, <2>4, <3>1 DEF SuiteIsClean, TestIsClean
  <2>6. Promise!StartSuite(suite)
    BY <1>3, <2>2, <2>3, <2>4, <2>5, Push DEF Promise!StartSuite
  <2>. QED  BY <1>2, <2>6 DEF Promise!Next
<1>5. CASE EndSuite
  <2> DEFINE ok == sSuccessful[suite]
  <2>1. /\ sPc \in {"end", "endEarly"} /\ sPc' = "idle" /\ endTestSuite(ok)
        /\ UNCHANGED <<pc, crashEnds>> /\ ok \in BOOLEAN
    BY <1>1, <1>2, <1>5 DEF EndSuite, caseVars, SuiteTypeOK
  <2>2. /\ Running' /\ InSuite /\ ~InSuite' /\ ~InTestCase'
        /\ RunStatus' = RunStatus
    BY <1>2, <1>3, <2>1 DEF Running, RunStatus, Opened, UserCode
  <2>3. OpenScopes = <<"runner", suite>> /\ OpenScopes' = <<"runner">>
    BY <1>1, <1>3, <2>2 DEF ScopeFacts
  <2>4. Promise!Add({IF ok THEN "nSuitePasses" ELSE "nSuiteFailures"})
    BY <1>1, <2>1, RecordedBump DEF endTestSuite, Counters
  <2>5. /\ SuiteIsClean' = TRUE /\ TestIsClean' = TestIsClean
        /\ ok => SuiteIsClean
    <3>1. ok => marks[suite] = {} /\ \A t \in executed : successful[t]
      BY <1>1, <2>1
         DEF SuiteIInv, SoundInv, Active, SuiteLocations, Undecided,
             Returned
    <3>. QED
      BY <1>3, <2>2, <3>1 DEF SuiteIsClean, TestIsClean
  <2>6. Promise!EndSuite(ok)
    BY <1>2, <1>3, <2>2, <2>3, <2>4, <2>5, Pop DEF Promise!EndSuite
  <2>. QED  BY <2>1, <2>6 DEF Promise!Next
<1>6. CASE FixtureUpFails \/ FixtureCheckFails \/ FixtureThrows
           \/ GateInterrupted \/ FixtureCrashCaught
           \/ (Gate /\ ~fixtureOK[suite])
  <2>1. /\ pc' = pc /\ sPc \notin {"startSuite", "end", "endEarly"}
        /\ \E X \in SUBSET (Tests \cup Suites), kind \in Kinds :
               suite \in X /\ AddTo(X, kind)
    BY <1>2, <1>6
       DEF FixtureUpFails, FixtureCheckFails, FixtureThrows,
           GateInterrupted, FixtureCrashCaught, Gate, Kinds, caseVars
  <2>2. marks'[suite] # {}
    BY <1>1, <2>1, AddToMarks
  <2>3. /\ RunStatus' = RunStatus
        /\ OpenScopes' = OpenScopes
        /\ OpenScopes # <<>> /\ OpenScopes[Len(OpenScopes)] = suite
        /\ TestIsClean' = TestIsClean
        /\ SuiteIsClean' = FALSE
    <3>1. pc' # "dead"
      BY <1>2, <2>1
    <3>2. InSuite' /\ Running' /\ suite' = suite
      BY <2>1, <3>1, InsideSuite
    <3>3. SuiteIsClean' = FALSE
      BY <2>2, <3>2 DEF SuiteIsClean
    <3>. QED  BY <2>1, <3>1, <3>3, InsideSuite
  <2>4. Promise!Trouble
    BY <1>2, <1>3, <2>3 DEF Promise!Trouble
  <2>5. CASE ~FixtureCrashCaught
    <3>1. UNCHANGED <<collector, crashEnds>>
      BY <1>6, <2>5
         DEF FixtureUpFails, FixtureCheckFails, FixtureThrows,
             GateInterrupted, Gate, caseVars
    <3>. QED
      BY <2>4, <3>1, RecordedSame DEF Promise!BadNews, Promise!Next
  <2>6. CASE FixtureCrashCaught
    <3> DEFINE ok == successful[LastConstructed]
    <3>1. /\ endTest(ok) /\ crashEnds' = crashEnds + 1 /\ ok \in BOOLEAN
          /\ handler = "run_signal_handler"
      BY <1>1, <2>6 DEF FixtureCrashCaught, Handled, CaseTypeOK
    <3>2. Recorded["nTests"] > 0
      BY <1>2, <3>1 DEF PromiseInv, StartedInv, Recorded, Counters
    <3>3. Promise!Crash(ok)
      BY <1>1, <2>4, <3>1, <3>2, RecordedCrash DEF Promise!Crash
    <3>. QED  BY <3>1, <3>3 DEF Promise!Next
  <2>. QED  BY <2>5, <2>6
<1>7. CASE FixtureDies
  <2>1. pc' = "dead" /\ UNCHANGED <<collector, crashEnds>>
    BY <1>7 DEF FixtureDies, resultVars
  <2>2. Promise!Abort
    BY <1>3, <2>1, AbortStep DEF RunStatus, Running
  <2>. QED  BY <2>2 DEF Promise!Next
<1>8. CASE FixtureUp \/ SetupDone \/ FixtureChecked \/ ChecksDone
           \/ FixtureDown \/ TearDownDone \/ NextTest \/ Decide
           \/ TestReturned \/ CallTest \/ (Gate /\ fixtureOK[suite])
  <2>1. /\ sPc \notin {"startSuite", "end", "endEarly"} /\ pc' # "dead"
        /\ UNCHANGED <<collector, marks, crashEnds>>
    BY <1>2, <1>8
       DEF FixtureUp, SetupDone, FixtureChecked, ChecksDone, FixtureDown,
           TearDownDone, NextTest, Decide, TestReturned, CallTest, Enter,
           Gate, vars, resultVars, caseVars
  <2>2. /\ RunStatus' = RunStatus
        /\ OpenScopes' = OpenScopes
        /\ TestIsClean' = TestIsClean
        /\ Running /\ Running' /\ InSuite /\ InSuite' /\ suite' = suite
    BY <2>1, InsideSuite
  <2>3. SuiteIsClean' = SuiteIsClean
    <3>1. CASE CallTest
      <4>1. /\ executed' = executed \cup {tests[idx]} /\ Enter(tests[idx])
            /\ sPc = "call"
        BY <3>1 DEF CallTest
      <4>2. /\ tests[idx] \in Tests /\ tests[idx] \notin executed
            /\ executed \subseteq Tests
        <5>1. /\ idx \in 1 .. Len(tests)
              /\ executed = {tests[i] : i \in 1 .. idx - 1}
          BY <1>1, <4>1
             DEF SuiteIInv, PositionInv, ExecutedInv, InTestLoop
        <5>2. /\ Len(tests) \in Nat
              /\ \A i \in 1 .. Len(tests) : tests[i] \in Tests
              /\ \A i, j \in 1 .. Len(tests) : tests[i] = tests[j] => i = j
          BY <1>2, SuiteLists DEF tests
        <5>. QED  BY <1>1, <5>1, <5>2 DEF SuiteTypeOK
      <4>3. /\ running' = tests[idx]
            /\ successful' = [successful EXCEPT ![tests[idx]] = TRUE]
        BY <4>1 DEF Enter
      <4>4. executed' \ {running'} = executed
        BY <4>1, <4>2, <4>3
      <4>5. \A t \in executed : successful'[t] = successful[t]
        BY <1>1, <4>2, <4>3 DEF CaseTypeOK
      <4>6. executed \ {running} = executed
        BY <1>2, <4>2 DEF PromiseInv, IdleInv
      <4>. QED  BY <2>1, <2>2, <4>4, <4>5, <4>6 DEF SuiteIsClean
    <3>2. CASE ~CallTest
      <4>1. UNCHANGED <<running, successful, executed>>
        BY <1>8, <3>2
           DEF FixtureUp, SetupDone, FixtureChecked, ChecksDone,
               FixtureDown, TearDownDone, NextTest, Decide, TestReturned,
               Gate, vars, caseVars
      <4>. QED  BY <2>1, <2>2, <4>1 DEF SuiteIsClean
    <3>. QED  BY <3>1, <3>2
  <2>. QED  BY <2>1, <2>2, <2>3, RecordedSame DEF Promise!vars
<1>. QED
  BY <1>2, <1>4, <1>5, <1>6, <1>7, <1>8 DEF SuiteProgress

-----------------------------------------------------------------------------
(* The steps of the runner, of the monitors and of the signal handler.      *)

(* Whatever leaves tests, suites, counters and exit code alone and stays    *)
(* inside or outside of the runner's scope changes nothing promised.        *)
LEMMA RunnerKeepsPromise ==
    ASSUME PromiseInv, PromiseInv', RunnerStep
    PROVE  [Promise!Next]_(Promise!vars)
<1>. USE DEF Promise!Alive, Promise!InScope, Promise!Inner, Promise!Close,
             InSuite, InTestCase, Opened, UserCode, AtRunner
<1>1. ScopeFacts /\ ScopeFacts' /\ ControlInv /\ ControlInv'
      /\ RunnerTypeOK /\ RunnerTypeOK'
  <2>1. ScopeFacts'
    BY ScopeIs, PTL
  <2>. QED  BY <2>1, ScopeIs DEF PromiseInv, ProgIInv
<1>2. /\ sPc = "idle" /\ pc = "idle" /\ rPc # "exited"
      /\ UNCHANGED <<collector, crashEnds>>
  BY DEF RunnerStep, StartRun, StartRunner, RunnerLoop, CallPlainTest,
         CallSuite, ItemReturned, EndRun, Exit, Enter, SuiteEnter, allVars,
         vars, resultVars, caseVars
<1>3. Running /\ ~InSuite /\ ~InTestCase /\ RunStatus = "alive"
      /\ UNCHANGED Recorded
  BY <1>1, <1>2, RecordedSame DEF Running, RunStatus, ControlInv
<1>4. ~InSuite' /\ ~InTestCase' /\ pc' # "dead"
  BY <1>2
     DEF RunnerStep, StartRun, StartRunner, RunnerLoop, CallPlainTest,
         CallSuite, ItemReturned, EndRun, Exit, Enter, SuiteEnter, Go,
         allVars, vars, caseVars, suiteVars
<1>5. /\ TestIsClean = TRUE /\ TestIsClean' = TRUE
      /\ SuiteIsClean = TRUE /\ SuiteIsClean' = TRUE
  BY <1>3, <1>4 DEF TestIsClean, SuiteIsClean
<1>6. ~Exit => Running' /\ RunStatus' = RunStatus
  BY <1>1, <1>2, <1>3, <1>4
     DEF RunnerStep, StartRun, StartRunner, RunnerLoop, CallPlainTest,
         CallSuite, ItemReturned, EndRun, Running, RunStatus
<1>7. CASE StartRun \/ RunnerLoop \/ CallPlainTest \/ CallSuite
           \/ ItemReturned
  <2>1. ~Exit /\ InRunner' = InRunner
    BY <1>7
       DEF StartRun, RunnerLoop, CallPlainTest, CallSuite, ItemReturned,
           Exit, InRunner
  <2>2. OpenScopes' = OpenScopes
    BY <1>1, <1>3, <1>4, <1>6, <2>1 DEF ScopeFacts
  <2>. QED  BY <1>3, <1>5, <1>6, <2>1, <2>2 DEF Promise!vars
<1>8. CASE StartRunner
  <2>1. ~InRunner /\ InRunner' /\ ~Exit
    BY <1>8 DEF StartRunner, Exit, InRunner
  <2>2. OpenScopes = <<>> /\ OpenScopes' = <<"runner">>
    BY <1>1, <1>3, <1>4, <1>6, <2>1 DEF ScopeFacts
  <2>3. Promise!StartRunner
    BY <1>3, <1>5, <1>6, <2>1, <2>2 DEF Promise!StartRunner
  <2>. QED  BY <2>3 DEF Promise!Next
<1>9. CASE EndRun
  <2>1. InRunner /\ ~InRunner' /\ ~Exit
    BY <1>9 DEF EndRun, Exit, InRunner
  <2>2. OpenScopes = <<"runner">> /\ OpenScopes' = <<>>
    BY <1>1, <1>3, <1>4, <1>6, <2>1 DEF ScopeFacts
  <2>3. Promise!EndRunner
    BY <1>3, <1>5, <1>6, <2>1, <2>2, Pop DEF Promise!EndRunner
  <2>. QED  BY <2>3 DEF Promise!Next
<1>10. CASE Exit
  <2>1. /\ ~InRunner /\ ~Running'
        /\ exitCode' = IF AllPassed THEN 0 ELSE 1
    BY <1>10 DEF Exit, InRunner, Running
  <2>2. OpenScopes = <<>> /\ OpenScopes' = <<>>
    BY <1>1, <1>3, <2>1 DEF ScopeFacts
  <2>3. /\ Recorded["nFailures"] = collector["nFailures"]
        /\ Recorded["nSuiteFailures"] = collector["nSuiteFailures"]
    BY DEF Recorded, Counters
  <2>4. RunStatus' = IF AllPassed THEN "success" ELSE "failure"
    BY <1>4, <2>1 DEF RunStatus
  <2>5. Promise!Exit
    BY <1>3, <1>5, <2>2, <2>3, <2>4 DEF Promise!Exit, AllPassed
  <2>. QED  BY <2>5 DEF Promise!Next
<1>. QED  BY <1>7, <1>8, <1>9, <1>10 DEF RunnerStep

(* A monitor and a signal can only end the run or leave it as it is.        *)
LEMMA OthersKeepPromise ==
    ASSUME PromiseInv, MonitorStep \/ signalHandler \/ UNCHANGED progVars
    PROVE  [Promise!Next]_(Promise!vars)
<1>1. RunnerTypeOK /\ ControlInv
  BY DEF PromiseInv, ProgIInv
<1>2. CASE UNCHANGED <<collector, marks, pc, running, successful, crashEnds,
                       sPc, suite, executed, rPc, exitCode>>
  <2>1. UNCHANGED <<RunStatus, OpenScopes, TestIsClean, SuiteIsClean, Recorded>>
    BY <1>2
       DEF RunStatus, OpenScopes, TestIsClean, SuiteIsClean, Recorded,
           Running, InRunner, InSuite, InTestCase
  <2>. QED  BY <2>1 DEF Promise!vars
<1>3. CASE MonitorStep
  BY <1>2, <1>3
     DEF MonitorStep, fixtureCollapsed, vars, resultVars, caseVars, runnerVars
<1>4. CASE signalHandler
  <2>1. /\ UNCHANGED <<collector, marks, running, successful, crashEnds, sPc,
                       suite>>
        /\ pc' \in {pc, "dead"}
    BY <1>1, <1>4, SignalInterrupts DEF resultVars
  <2>2. /\ pc # "dead" /\ rPc # "exited" /\ RunStatus = "alive"
        /\ UNCHANGED executed
    BY <1>1, <1>4 DEF signalHandler, ControlInv, RunStatus
  <2>3. CASE TooOften
    <3>1. rPc' = "exited" /\ exitCode' = 1 /\ pc' = pc
      BY <1>4, <2>3 DEF signalHandler
    <3>2. RunStatus' = "failure" /\ ~Running'
      BY <2>2, <3>1 DEF RunStatus, Running
    <3>. QED  BY <2>1, <2>2, <3>2, AbortStep DEF Promise!Next
  <2>4. CASE ~TooOften /\ pc' = "dead"
    <3>1. RunStatus' = "dead" /\ ~Running'
      BY <2>4 DEF RunStatus, Running
    <3>. QED  BY <2>1, <2>2, <3>1, AbortStep DEF Promise!Next
  <2>5. CASE ~TooOften /\ pc' = pc
    <3>1. UNCHANGED <<rPc, exitCode>>
      BY <1>4, <2>5 DEF signalHandler
    <3>. QED  BY <1>2, <2>1, <2>2, <2>5, <3>1
  <2>. QED  BY <2>1, <2>3, <2>4, <2>5
<1>5. CASE UNCHANGED progVars
  BY <1>2, <1>5
     DEF progVars, allVars, vars, resultVars, caseVars, suiteVars, runnerVars
<1>. QED  BY <1>3, <1>4, <1>5

-----------------------------------------------------------------------------
(* The promises are kept from the start.                                    *)
LEMMA InitPromise == ProgInit => PromiseInv /\ Promise!Init
<1>. SUFFICES ASSUME ProgInit PROVE PromiseInv /\ Promise!Init  OBVIOUS
<1>1. ProgIInv
  BY InitProgIInv
<1>2. /\ rPc = "loading" /\ exitCode = -1 /\ sPc = "idle" /\ pc = "idle"
      /\ running = NoTest /\ handler = "SIG_DFL" /\ crashEnds = 0
      /\ collector = [c \in Counters |-> 0]
  BY DEF ProgInit, RunnerInit, SuitesInit, SuiteInit, Init, CaseInit,
         ResultInit
<1>3. /\ Running /\ ~InRunner /\ ~InSuite /\ ~InTestCase
      /\ RunStatus = "alive"
  BY <1>2
     DEF Running, InRunner, InSuite, InTestCase, Opened, UserCode, RunStatus
<1>4. /\ OpenScopes = <<>> /\ TestIsClean = TRUE /\ SuiteIsClean = TRUE
  BY <1>3, ScopeIs DEF ScopeFacts, TestIsClean, SuiteIsClean
<1>5. Recorded = [c \in Promise!Counts |-> 0]
  BY <1>2 DEF Recorded, Counters, Promise!Counts
<1>6. Promise!Init
  BY <1>3, <1>4, <1>5 DEF Promise!Init
<1>. QED
  BY <1>1, <1>2, <1>6
     DEF PromiseInv, StartedInv, IdleInv, Opened, UserCode

(* Every step keeps the invariant of the refinement.                        *)
LEMMA StepPromiseInv == PromiseInv /\ [ProgNext]_progVars => PromiseInv'
  BY StepProgIInv, StepStarted, StepIdle DEF PromiseInv, ProgIInv

(* Every step keeps the promises.                                           *)
LEMMA StepPromise ==
    PromiseInv /\ [ProgNext]_progVars => [Promise!Next]_(Promise!vars)
<1>. SUFFICES ASSUME PromiseInv, [ProgNext]_progVars
              PROVE  [Promise!Next]_(Promise!vars)
  OBVIOUS
<1>1. PromiseInv'
  BY StepPromiseInv
<1>. QED
  BY <1>1, TestKeepsPromise, SuiteKeepsPromise, RunnerKeepsPromise,
     OthersKeepPromise
     DEF ProgNext

(* For any queue of tests and suites, whatever user code, fixtures, their   *)
(* monitors and signals do: events nest, a test is counted as passed        *)
(* exactly when nothing bad was recorded for it, a suite only when none of  *)
(* its tests failed, and success is the absence of counted failures.        *)
THEOREM ProgramKeepsPromises == ProgSpec => KeepsPromises
  BY InitPromise, StepPromiseInv, StepPromise, PTL
     DEF ProgSpec, KeepsPromises, Promise!Spec
===============================================================================
