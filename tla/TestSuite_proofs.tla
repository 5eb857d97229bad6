--------------------------- MODULE TestSuite_proofs ---------------------------
(***************************************************************************)
(* Proofs about TestSuite for any suites, tests, fixtures and crash        *)
(* signals: its fixtures nest, none leaks in silence, every test is        *)
(* entered on checked fixtures, and the verdict of a suite is sound and    *)
(* explained.  The inductive invariant says what holds at each location of *)
(* the suite's loop, one named conjunct for each part of its state.        *)
(*                                                                         *)
(* SuiteIInv speaks about the runs of a test with sPc = "idle" as well, so *)
(* that a caller that also runs plain tests can use it.                    *)
(***************************************************************************)
EXTENDS TestSuite, TestCase_proofs

(* The start event of the suite was sent, its end event was not.            *)
Active == sPc \in SuiteLocations \ {"idle", "startSuite"}

(* Where a test is about to be run or was just run.                         *)
InTestLoop == {"gate", "check", "decide", "restartDown", "restartUp",
               "recheck", "call", "inTest"}

(* Where all fixtures of the suite are set up.                              *)
OnFixtures == {"next", "gate", "check", "decide", "recheck", "call", "inTest"}

PositionInv ==
    /\ pc \notin {"idle", "dead"} => sPc \in {"idle", "inTest"}
    /\ sPc = "inTest" /\ pc \notin {"idle", "dead"} => running = tests[idx]
    /\ sPc = "next" => idx \in 1 .. Len(tests) + 1
    /\ sPc \in InTestLoop => idx \in 1 .. Len(tests)
    /\ sPc \in SettingUp \cup Checking => fi \in 1 .. Len(fixtures) + 1
    /\ sPc \in TearingDown => fi \in 0 .. Len(fixtures)

(* setup() has set up the fixtures it is past, tearDown() has torn down     *)
(* those it is past.                                                        *)
FixtureInv ==
    /\ FixturesNest
    /\ sPc \in SettingUp => \A j \in 1 .. fi - 1 : fixtures[j] \in up
    /\ sPc \in OnFixtures => MyFixtures \subseteq up
    /\ sPc \in TearingDown =>
           \A j \in fi + 1 .. Len(fixtures) : fixtures[j] \notin up

(* A check() loop that comes to its end has seen every fixture.             *)
CheckedInv ==
    /\ sPc \in Checking => \A j \in 1 .. fi - 1 : fixtures[j] \in verified
    /\ sPc = "decide" /\ fixtureOK[suite] => MyFixtures \subseteq verified
    /\ sPc = "call" => MyFixtures \subseteq verified

(* A collapse during a test leaves fixtureOK false until the fixtures are   *)
(* torn down for their restart.                                             *)
OwedInv ==
    /\ owed /\ sPc \in {"inTest", "next", "gate", "check", "decide"} =>
           ~fixtureOK[suite] /\ Len(fixtures) > 0
    /\ owed /\ sPc = "restartDown" => fi > 0
    /\ sPc \in {"startSuite", "setup", "restartUp", "recheck", "call"} => ~owed

(* The tests that were entered are those before the current one.            *)
ExecutedInv ==
    /\ sPc \in {"startSuite", "setup"} => executed = {}
    /\ sPc \in (InTestLoop \cup {"next"}) \ {"inTest"} =>
           executed = {tests[i] : i \in 1 .. idx - 1}
    /\ sPc = "inTest" => executed = {tests[i] : i \in 1 .. idx}

(* Where a suite that has not failed so far may stand with bad news.        *)
Undecided == sPc \in {"check", "decide"} /\ ~fixtureOK[suite]

(* The tests of this run whose verdict the suite has added to its own.      *)
Returned == {t \in executed : ~(sPc = "inTest" /\ t = tests[idx])}

(* As long as the suite has not failed, all is well, but for a collapse     *)
(* that is on its way to the decision.                                      *)
SoundInv ==
    /\ sPc = "startSuite" => sSuccessful[suite] /\ collapses \subseteq {"other"}
    /\ sPc = "setup" => collapses \subseteq {"other"}
    /\ sPc \in {"restartDown", "restartUp", "recheck", "endEarly"} =>
           ~sSuccessful[suite]
    /\ Active /\ sSuccessful[suite] =>
         /\ marks[suite] = {} \/ Undecided
         /\ \A t \in Returned : successful[t]
         /\ "check" \in collapses => Undecided
         /\ "earlier" \in collapses =>
                /\ ~fixtureOK[suite]
                /\ \/ (sPc = "inTest" /\ idx < Len(tests))
                   \/ (sPc = "next" /\ idx <= Len(tests))
                   \/ sPc \in {"gate", "check", "decide"}
         /\ sPc \in {"tearDown", "end"} => executed = Range(tests)

(* As soon as the suite has failed, there is a reason to show.              *)
Reason ==
    \/ marks[suite] # {}
    \/ "check" \in collapses
    \/ \E t \in Returned : ~successful[t]

ExplainedInv ==
    /\ Active /\ ~sSuccessful[suite] => Reason
    /\ Undecided => marks[suite] # {} \/ "check" \in collapses

(* The inductive invariant.                                                 *)
SuiteIInv ==
    /\ IInv
    /\ SuiteTypeOK
    /\ PositionInv
    /\ FixtureInv
    /\ NoSilentLeak
    /\ CheckedInv
    /\ OwedInv
    /\ ExecutedInv
    /\ SoundInv
    /\ ExplainedInv

-----------------------------------------------------------------------------
(* What the assumptions say of the lists of one suite.                      *)
LEMMA SuiteLists ==
    ASSUME NEW s \in Suites
    PROVE  /\ SuiteTests[s] \in Seq(Tests)
           /\ Len(SuiteTests[s]) \in Nat
           /\ \A i \in 1 .. Len(SuiteTests[s]) : SuiteTests[s][i] \in Tests
           /\ \A i, j \in 1 .. Len(SuiteTests[s]) :
                  SuiteTests[s][i] = SuiteTests[s][j] => i = j
           /\ Range(SuiteTests[s])
                = {SuiteTests[s][i] : i \in 1 .. Len(SuiteTests[s])}
           /\ SuiteFixtures[s] \in Seq(Fixtures)
           /\ Len(SuiteFixtures[s]) \in Nat
           /\ DOMAIN SuiteFixtures[s] = 1 .. Len(SuiteFixtures[s])
           /\ \A i \in 1 .. Len(SuiteFixtures[s]) :
                  SuiteFixtures[s][i] \in Fixtures
           /\ \A i, j \in 1 .. Len(SuiteFixtures[s]) :
                  SuiteFixtures[s][i] = SuiteFixtures[s][j] => i = j
           /\ Range(SuiteFixtures[s])
                = {SuiteFixtures[s][i] : i \in 1 .. Len(SuiteFixtures[s])}
  BY TestSuiteConstants DEF IsInjective, Range

(* A fixture has one suite and one place in it.                             *)
LEMMA FixturesApart ==
    ASSUME NEW r \in Suites, NEW s \in Suites,
           NEW i \in DOMAIN SuiteFixtures[r],
           NEW j \in DOMAIN SuiteFixtures[s],
           SuiteFixtures[r][i] = SuiteFixtures[s][j]
    PROVE  r = s /\ i = j
<1>1. /\ SuiteFixtures[r][i] \in Range(SuiteFixtures[r])
      /\ SuiteFixtures[s][j] \in Range(SuiteFixtures[s])
  BY DEF Range
<1>2. r = s
  BY <1>1, TestSuiteConstants
<1>. QED  BY <1>2, SuiteLists

(* Between two test runs, and in a dead process, the invariant of TestCase  *)
(* is about types and counters.                                             *)
LEMMA ClosedIInv ==
    ASSUME IInv, pc' \in {"idle", "dead"}, ResultTypeOK', CaseTypeOK',
           pc' = "idle" =>
               (collector["nPasses"] + collector["nFailures"]
                   = collector["nTests"] + crashEnds)'
    PROVE  IInv'
  BY DEF IInv, TypeOK, VerdictInv, VerdictExplained, CountsBalance,
         RepetitionInv, Opened, UserCode, ResultTypeOK, CaseTypeOK,
         Counters

(* A crash between two test runs sends an end event of any verdict.         *)
LEMMA ExtraEndIInv ==
    ASSUME IInv, pc = "idle", pc' = "idle", CaseTypeOK',
           marks' \in [Tests \cup Suites -> SUBSET Kinds],
           NEW ok \in BOOLEAN, endTest(ok), crashEnds' = crashEnds + 1
    PROVE  IInv'
<1>1. /\ ResultTypeOK /\ crashEnds \in Nat
      /\ collector["nPasses"] + collector["nFailures"]
            = collector["nTests"] + crashEnds
      /\ \A c \in {"nTests", "nPasses", "nFailures"} : collector[c] \in Nat
  BY DEF IInv, TypeOK, ResultTypeOK, CaseTypeOK, Counters, CountsBalance,
         Opened, UserCode
<1>2. /\ ResultTypeOK'
      /\ (collector["nPasses"] + collector["nFailures"]
            = collector["nTests"] + crashEnds)'
  BY <1>1, EndTestCounts DEF ResultTypeOK
<1>. QED  BY <1>2, ClosedIInv

(* What a suite can rely on when one of its tests takes a step: only that   *)
(* test's verdict changes, and no mark of a suite.                          *)
LEMMA CaseStepFacts ==
    ASSUME IInv, CaseStep
    PROVE  /\ pc \notin {"idle", "dead"} /\ running \in Tests
           /\ pc' \notin {"idle", "dead"} => running' = running
           /\ \A s \in Suites : marks'[s] = marks[s]
           /\ \A t \in Tests : t # running => successful'[t] = successful[t]
<1>. USE TestCaseConstants, DistinctObjects
     DEF IInv, TypeOK, ResultTypeOK, CaseTypeOK, Opened, UserCode, Locations,
         resultVars
<1>1. CASE StartTest
  BY <1>1 DEF StartTest, startTest
<1>2. CASE Loop \/ EndTest \/ EndEarly \/ SetupSucceeds
            \/ BodyReturns \/ TearDownReturns \/ Die
  BY <1>2 DEF Loop, EndTest, EndEarly, SetupSucceeds, BodyReturns,
              TearDownReturns, Die
<1>3. CASE SetupFails \/ Throws \/ CheckFails
  BY <1>3 DEF SetupFails, Throws, Catch, AfterCatch, CheckFails, AddTo
<1>4. CASE CrashCaught
  BY <1>4 DEF CrashCaught, run_signal_handler, AfterCatch, AddTo
<1>. QED  BY <1>1, <1>2, <1>3, <1>4 DEF CaseStep, CaseProgress

-----------------------------------------------------------------------------
(* Every step of TestSuite::run preserves the invariant.                    *)
LEMMA StepSuite == SuiteIInv /\ SuiteProgress => SuiteIInv'
<1>. SUFFICES ASSUME SuiteIInv, SuiteProgress PROVE SuiteIInv'  OBVIOUS
<1>. USE TestCaseConstants
     DEF SuiteIInv, At, Go, FailSuite, SettingUp, Checking, TearingDown,
         InFixture, SuiteLocations, Active, InTestLoop, OnFixtures, tests,
         fixtures, MyFixtures, SuiteTypeOK, PositionInv, vars, resultVars,
         caseVars, suiteVars
<1>t. /\ SuiteTypeOK
      /\ ResultTypeOK
      /\ suite \in Suites /\ suite # NoSuite
      /\ {suite} \in SUBSET (Tests \cup Suites)
  BY TestSuiteConstants DEF SuiteTypeOK, IInv, TypeOK, SuiteProgress,
     StartSuite, EndSuite, FixtureUp, SetupDone, FixtureUpFails,
     FixtureChecked, ChecksDone, FixtureCheckFails, FixtureDown,
     TearDownDone, FixtureThrows, FixtureCrashCaught, FixtureDies,
     NextTest, GateInterrupted, Gate, Decide, CallTest, TestReturned
<1>c. /\ CaseTypeOK /\ crashEnds \in Nat
      /\ collector["nPasses"] \in Nat /\ collector["nFailures"] \in Nat
      /\ collector["nTests"] \in Nat
      /\ pc = "idle" => collector["nPasses"] + collector["nFailures"]
                          = collector["nTests"] + crashEnds
  BY DEF IInv, TypeOK, ResultTypeOK, CaseTypeOK, Counters, CountsBalance,
         Opened, UserCode
<1>l. /\ Len(tests) \in Nat /\ Len(fixtures) \in Nat
      /\ \A i \in 1 .. Len(tests) : tests[i] \in Tests
      /\ \A i, j \in 1 .. Len(tests) : tests[i] = tests[j] => i = j
      /\ Range(tests) = {tests[i] : i \in 1 .. Len(tests)}
      /\ \A i \in 1 .. Len(fixtures) : fixtures[i] \in Fixtures
      /\ \A i, j \in 1 .. Len(fixtures) : fixtures[i] = fixtures[j] => i = j
      /\ MyFixtures = {fixtures[i] : i \in 1 .. Len(fixtures)}
      /\ \A s \in Suites : DOMAIN SuiteFixtures[s] = 1 .. Len(SuiteFixtures[s])
  BY <1>t, SuiteLists
<1>1. CASE StartSuite
  <2>a. marks'[suite] = {}
    BY <1>t, <1>1 DEF StartSuite, startTestSuite, ResultTypeOK
  <2>1. SuiteTypeOK' /\ PositionInv' /\ OwedInv'
    BY <1>t, <1>l, <1>1, <2>a DEF StartSuite, startTestSuite, OwedInv
  <2>2. FixtureInv' /\ NoSilentLeak' /\ CheckedInv'
    BY <1>t, <1>l, <1>1, <2>a
       DEF StartSuite, startTestSuite, FixtureInv, FixturesNest,
           NoSilentLeak, SoundInv, CheckedInv
  <2>3. ExecutedInv' /\ SoundInv' /\ ExplainedInv'
    BY <1>t, <1>l, <1>1, <2>a
       DEF StartSuite, startTestSuite, ExecutedInv, SoundInv, Undecided,
           Returned, ExplainedInv, Reason
  <2>4. IInv'
    <3>1. /\ collector' \in [Counters -> Nat]
          /\ collector'["nTests"] = collector["nTests"]
          /\ collector'["nPasses"] = collector["nPasses"]
          /\ collector'["nFailures"] = collector["nFailures"]
      BY <1>t, <1>1, BumpCounts DEF StartSuite, startTestSuite, Counters
    <3>2. ResultTypeOK'
      BY <1>t, <1>1, <3>1 DEF StartSuite, startTestSuite, ResultTypeOK
    <3>. QED
      BY <1>c, <1>1, <3>1, <3>2, ClosedIInv DEF StartSuite, CaseTypeOK
  <2>. QED  BY <2>1, <2>2, <2>3, <2>4
<1>2. CASE EndSuite
  <2>1. SuiteTypeOK' /\ PositionInv' /\ OwedInv'
    BY <1>t, <1>l, <1>2 DEF EndSuite, endTestSuite, OwedInv
  <2>2. FixtureInv' /\ NoSilentLeak' /\ CheckedInv'
    BY <1>t, <1>l, <1>2
       DEF EndSuite, endTestSuite, FixtureInv, FixturesNest, NoSilentLeak,
           SoundInv, CheckedInv
  <2>3. ExecutedInv' /\ SoundInv' /\ ExplainedInv'
    BY <1>t, <1>l, <1>2
       DEF EndSuite, endTestSuite, ExecutedInv, SoundInv, Undecided,
           Returned, ExplainedInv, Reason
  <2>4. IInv'
    <3>1. /\ collector' \in [Counters -> Nat]
          /\ collector'["nTests"] = collector["nTests"]
          /\ collector'["nPasses"] = collector["nPasses"]
          /\ collector'["nFailures"] = collector["nFailures"]
      BY <1>t, <1>2, BumpCounts DEF EndSuite, endTestSuite, Counters
    <3>. QED
      BY <1>t, <1>c, <1>2, <3>1, ClosedIInv
         DEF EndSuite, ResultTypeOK, CaseTypeOK
  <2>. QED  BY <2>1, <2>2, <2>3, <2>4
<1>3. CASE FixtureUp
  <2>1. SuiteTypeOK' /\ PositionInv' /\ OwedInv'
    BY <1>t, <1>l, <1>3 DEF FixtureUp, OwedInv
  <2>2. NoSilentLeak' /\ CheckedInv'
    BY <1>t, <1>l, <1>3
       DEF FixtureUp, NoSilentLeak, FixtureInv, SoundInv, CheckedInv
  <2>3. FixtureInv'
    <3>1. FixturesNest'
      <4>. SUFFICES ASSUME NEW s \in Suites,
                           NEW i \in DOMAIN SuiteFixtures[s],
                           NEW j \in DOMAIN SuiteFixtures[s],
                           i < j, SuiteFixtures[s][j] \in up'
                    PROVE  SuiteFixtures[s][i] \in up'
        BY DEF FixturesNest
      <4>1. CASE SuiteFixtures[s][j] \in up
        BY <1>3, <4>1 DEF FixtureUp, FixtureInv, FixturesNest
      <4>2. CASE SuiteFixtures[s][j] = fixtures[fi]
        <5>1. s = suite /\ j = fi
          BY <1>t, <1>l, <1>3, <4>2, FixturesApart DEF FixtureUp
        <5>. QED
          BY <1>3, <1>l, <5>1 DEF FixtureUp, FixtureInv
      <4>. QED  BY <1>3, <4>1, <4>2 DEF FixtureUp
    <3>. QED
      BY <1>t, <1>l, <1>3, <3>1 DEF FixtureUp, FixtureInv
  <2>4. ExecutedInv' /\ SoundInv' /\ ExplainedInv'
    BY <1>t, <1>l, <1>3
       DEF FixtureUp, ExecutedInv, SoundInv, Undecided, Returned,
           ExplainedInv, Reason
  <2>5. IInv'
    BY <1>3, StepIInv DEF FixtureUp
  <2>. QED  BY <2>1, <2>2, <2>3, <2>4, <2>5
<1>4. CASE SetupDone
  <2>1. SuiteTypeOK' /\ PositionInv' /\ OwedInv'
    BY <1>t, <1>l, <1>4 DEF SetupDone, OwedInv
  <2>2. FixtureInv' /\ NoSilentLeak' /\ CheckedInv'
    BY <1>t, <1>l, <1>4
       DEF SetupDone, FixtureInv, FixturesNest, NoSilentLeak, SoundInv,
           CheckedInv
  <2>3. ExecutedInv' /\ SoundInv' /\ ExplainedInv'
    BY <1>t, <1>l, <1>4
       DEF SetupDone, ExecutedInv, SoundInv, Undecided, Returned,
           ExplainedInv, Reason
  <2>4. IInv'
    BY <1>4, StepIInv DEF SetupDone
  <2>. QED  BY <2>1, <2>2, <2>3, <2>4
<1>5. CASE FixtureUpFails
  <2>a. marks'[suite] # {}
    BY <1>t, <1>5, AddToMarks DEF FixtureUpFails, Kinds
  <2>1. SuiteTypeOK' /\ PositionInv' /\ OwedInv'
    BY <1>t, <1>l, <1>5, <2>a DEF FixtureUpFails, OwedInv
  <2>2. FixtureInv' /\ NoSilentLeak' /\ CheckedInv'
    BY <1>t, <1>l, <1>5, <2>a
       DEF FixtureUpFails, FixtureInv, FixturesNest, NoSilentLeak, SoundInv,
           CheckedInv
  <2>3. ExecutedInv' /\ SoundInv' /\ ExplainedInv'
    BY <1>t, <1>l, <1>5, <2>a
       DEF FixtureUpFails, ExecutedInv, SoundInv, Undecided, Returned,
           ExplainedInv, Reason
  <2>4. IInv'
    BY <1>t, <1>c, <1>5, ClosedIInv, AddToMarks
       DEF FixtureUpFails, Kinds, ResultTypeOK, CaseTypeOK
  <2>. QED  BY <2>1, <2>2, <2>3, <2>4
<1>6. CASE FixtureChecked
  <2>1. SuiteTypeOK' /\ PositionInv' /\ OwedInv'
    BY <1>t, <1>l, <1>6 DEF FixtureChecked, OwedInv
  <2>2. FixtureInv' /\ NoSilentLeak' /\ CheckedInv'
    BY <1>t, <1>l, <1>6
       DEF FixtureChecked, FixtureInv, FixturesNest, NoSilentLeak, SoundInv,
           CheckedInv
  <2>3. ExecutedInv' /\ SoundInv' /\ ExplainedInv'
    BY <1>t, <1>l, <1>6
       DEF FixtureChecked, ExecutedInv, SoundInv, Undecided, Returned,
           ExplainedInv, Reason
  <2>4. IInv'
    BY <1>6, StepIInv DEF FixtureChecked
  <2>. QED  BY <2>1, <2>2, <2>3, <2>4
<1>7. CASE ChecksDone
  <2>a. MyFixtures \subseteq verified
    BY <1>l, <1>7 DEF ChecksDone, CheckedInv, PositionInv
  <2>1. SuiteTypeOK' /\ PositionInv' /\ OwedInv'
    BY <1>t, <1>l, <1>7, <2>a, ZenonT(30) DEF ChecksDone, OwedInv
  <2>2. FixtureInv' /\ NoSilentLeak' /\ CheckedInv'
    BY <1>t, <1>l, <1>7, <2>a
       DEF ChecksDone, FixtureInv, FixturesNest, NoSilentLeak, SoundInv,
           CheckedInv
  <2>3. ExecutedInv' /\ SoundInv' /\ ExplainedInv'
    BY <1>t, <1>l, <1>7, <2>a
       DEF ChecksDone, ExecutedInv, SoundInv, Undecided, Returned,
           ExplainedInv, Reason
  <2>4. IInv'
    BY <1>7, StepIInv DEF ChecksDone
  <2>. QED  BY <2>1, <2>2, <2>3, <2>4
<1>8. CASE FixtureCheckFails
  <2>a. marks'[suite] # {}
    BY <1>t, <1>8, AddToMarks DEF FixtureCheckFails, Kinds
  <2>1. SuiteTypeOK'
    <3>1. CASE sPc = "check"
      BY <1>t, <1>l, <1>8, <3>1 DEF FixtureCheckFails
    <3>2. CASE sPc # "check"
      BY <1>t, <1>l, <1>8, <3>2, ZenonT(30) DEF FixtureCheckFails
    <3>. QED  BY <3>1, <3>2
  <2>2. PositionInv'
    BY <1>t, <1>l, <1>8, <2>a DEF FixtureCheckFails
  <2>3. OwedInv'
    BY <1>t, <1>l, <1>8, <2>a DEF FixtureCheckFails, OwedInv
  <2>4. FixtureInv' /\ NoSilentLeak' /\ CheckedInv'
    BY <1>t, <1>l, <1>8, <2>a
       DEF FixtureCheckFails, FixtureInv, FixturesNest, NoSilentLeak,
           SoundInv, CheckedInv
  <2>5. ExecutedInv' /\ SoundInv' /\ ExplainedInv'
    BY <1>t, <1>l, <1>8, <2>a
       DEF FixtureCheckFails, ExecutedInv, SoundInv, Undecided, Returned,
           ExplainedInv, Reason
  <2>6. IInv'
    BY <1>t, <1>c, <1>8, ClosedIInv, AddToMarks
       DEF FixtureCheckFails, Kinds, ResultTypeOK, CaseTypeOK
  <2>. QED  BY <2>1, <2>2, <2>3, <2>4, <2>5, <2>6
<1>9. CASE FixtureDown
  <2>a. /\ fi \in 1 .. Len(fixtures)
        /\ fi' \in Nat /\ fi' \in 0 .. Len(fixtures)
    BY <1>l, <1>t, <1>9 DEF FixtureDown, MoreToTearDown
  <2>1. SuiteTypeOK' /\ PositionInv'
    BY <1>t, <1>l, <1>9, <2>a DEF FixtureDown, MoreToTearDown, NextDown
  <2>2. OwedInv'
    BY <1>t, <1>l, <1>9, <2>a
       DEF FixtureDown, MoreToTearDown, NextDown, OwedInv
  <2>3. FixtureInv'
    <3>1. FixturesNest'
      <4>. SUFFICES ASSUME NEW s \in Suites,
                           NEW i \in DOMAIN SuiteFixtures[s],
                           NEW j \in DOMAIN SuiteFixtures[s],
                           i < j, SuiteFixtures[s][j] \in up'
                    PROVE  SuiteFixtures[s][i] \in up'
        BY DEF FixturesNest
      <4>1. SuiteFixtures[s][i] \in up
        BY <1>9 DEF FixtureDown, FixtureInv, FixturesNest
      <4>2. SuiteFixtures[s][i] # fixtures[fi]
        <5>. SUFFICES ASSUME SuiteFixtures[s][i] = fixtures[fi] PROVE FALSE
          OBVIOUS
        <5>1. s = suite /\ i = fi
          BY <1>t, <1>l, <2>a, FixturesApart
        <5>. QED
          BY <1>l, <1>9, <2>a, <5>1 DEF FixtureDown, FixtureInv
      <4>. QED  BY <1>9, <4>1, <4>2 DEF FixtureDown, NextDown
    <3>2. \A j \in fi' + 1 .. Len(fixtures) : fixtures[j] \notin up'
      <4>. SUFFICES ASSUME NEW j \in fi .. Len(fixtures)
                    PROVE  fixtures[j] \notin up'
        BY <1>l, <1>9, <2>a DEF FixtureDown
      <4>1. CASE j = fi
        BY <1>9, <4>1 DEF FixtureDown, NextDown
      <4>2. CASE j # fi
        BY <1>l, <1>9, <2>a, <4>2 DEF FixtureDown, FixtureInv
      <4>. QED  BY <4>1, <4>2
    <3>. QED
      BY <1>9, <3>1, <3>2 DEF FixtureDown, FixtureInv
  <2>4. NoSilentLeak' /\ CheckedInv'
    BY <1>t, <1>l, <1>9, <2>a
       DEF FixtureDown, MoreToTearDown, NextDown, NoSilentLeak, FixtureInv,
           SoundInv, CheckedInv
  <2>5. ExecutedInv'
    BY <1>t, <1>l, <1>9, <2>a
       DEF FixtureDown, MoreToTearDown, NextDown, ExecutedInv
  <2>6. SoundInv'
    BY <1>t, <1>l, <1>9, <2>a
       DEF FixtureDown, MoreToTearDown, NextDown, SoundInv, Undecided,
           Returned
  <2>7. ExplainedInv'
    BY <1>t, <1>l, <1>9, <2>a
       DEF FixtureDown, MoreToTearDown, NextDown, ExplainedInv, Undecided,
           Returned, Reason, SoundInv
  <2>8. IInv'
    BY <1>9, StepIInv DEF FixtureDown
  <2>. QED  BY <2>1, <2>2, <2>3, <2>4, <2>5, <2>6, <2>7, <2>8
<1>10. CASE TearDownDone
  <2>1. SuiteTypeOK' /\ PositionInv' /\ OwedInv'
    BY <1>t, <1>l, <1>10 DEF TearDownDone, MoreToTearDown, OwedInv
  <2>2. FixtureInv' /\ NoSilentLeak' /\ CheckedInv'
    BY <1>t, <1>l, <1>10
       DEF TearDownDone, MoreToTearDown, FixtureInv, FixturesNest,
           NoSilentLeak, SoundInv, CheckedInv
  <2>3. ExecutedInv'
    BY <1>t, <1>l, <1>10 DEF TearDownDone, MoreToTearDown, ExecutedInv
  <2>4. SoundInv'
    BY <1>t, <1>l, <1>10
       DEF TearDownDone, MoreToTearDown, SoundInv, Undecided, Returned
  <2>5. ExplainedInv'
    BY <1>t, <1>l, <1>10
       DEF TearDownDone, MoreToTearDown, ExplainedInv, Undecided, Returned,
           Reason, SoundInv
  <2>6. IInv'
    BY <1>10, StepIInv DEF TearDownDone
  <2>. QED  BY <2>1, <2>2, <2>3, <2>4, <2>5, <2>6
<1>11. CASE FixtureThrows
  <2>a. marks'[suite] # {}
    BY <1>t, <1>11, AddToMarks, SMTT(20) DEF FixtureThrows, Kinds
  <2>1. SuiteTypeOK' /\ PositionInv' /\ OwedInv'
    BY <1>t, <1>l, <1>11, <2>a DEF FixtureThrows, SuiteCatch, OwedInv
  <2>2. FixtureInv' /\ NoSilentLeak' /\ CheckedInv'
    BY <1>t, <1>l, <1>11, <2>a
       DEF FixtureThrows, SuiteCatch, FixtureInv, FixturesNest, NoSilentLeak,
           SoundInv, CheckedInv
  <2>3. ExecutedInv' /\ SoundInv' /\ ExplainedInv'
    BY <1>t, <1>l, <1>11, <2>a
       DEF FixtureThrows, SuiteCatch, ExecutedInv, SoundInv, Undecided,
           Returned, ExplainedInv, Reason
  <2>4. IInv'
    BY <1>t, <1>c, <1>11, ClosedIInv, AddToMarks, SMTT(20)
       DEF FixtureThrows, Kinds, ResultTypeOK, CaseTypeOK
  <2>. QED  BY <2>1, <2>2, <2>3, <2>4
<1>12. CASE FixtureCrashCaught
  <2>a. marks'[suite] # {}
    BY <1>t, <1>12, AddToMarks DEF FixtureCrashCaught, Kinds
  <2>1. SuiteTypeOK' /\ PositionInv' /\ OwedInv'
    BY <1>t, <1>l, <1>12, <2>a DEF FixtureCrashCaught, SuiteCatch, OwedInv
  <2>2. FixtureInv' /\ NoSilentLeak' /\ CheckedInv'
    BY <1>t, <1>l, <1>12, <2>a
       DEF FixtureCrashCaught, SuiteCatch, FixtureInv, FixturesNest,
           NoSilentLeak, SoundInv, CheckedInv
  <2>3. ExecutedInv' /\ SoundInv' /\ ExplainedInv'
    BY <1>t, <1>l, <1>12, <2>a
       DEF FixtureCrashCaught, SuiteCatch, ExecutedInv, SoundInv, Undecided,
           Returned, ExplainedInv, Reason
  <2>4. IInv'
    <3>1. /\ {LastConstructed, suite} \in SUBSET (Tests \cup Suites)
          /\ successful[LastConstructed] \in BOOLEAN
      BY <1>t, <1>c DEF CaseTypeOK
    <3>2. marks' \in [Tests \cup Suites -> SUBSET Kinds]
      BY <1>t, <1>12, <3>1, AddToMarks DEF FixtureCrashCaught, Kinds
    <3>3. CaseTypeOK'
      BY <1>c, <1>12 DEF FixtureCrashCaught, CaseTypeOK
    <3>. QED
      BY <1>12, <3>1, <3>2, <3>3, ExtraEndIInv DEF FixtureCrashCaught
  <2>. QED  BY <2>1, <2>2, <2>3, <2>4
<1>13. CASE FixtureDies
  <2>1. SuiteTypeOK' /\ PositionInv' /\ OwedInv'
    BY <1>t, <1>l, <1>13 DEF FixtureDies, OwedInv
  <2>2. FixtureInv' /\ NoSilentLeak' /\ CheckedInv'
    BY <1>t, <1>l, <1>13
       DEF FixtureDies, FixtureInv, FixturesNest, NoSilentLeak, SoundInv,
           CheckedInv
  <2>3. ExecutedInv'
    BY <1>t, <1>l, <1>13 DEF FixtureDies, ExecutedInv
  <2>4. SoundInv'
    BY <1>t, <1>l, <1>13 DEF FixtureDies, SoundInv, Undecided, Returned
  <2>5. ExplainedInv'
    BY <1>t, <1>l, <1>13
       DEF FixtureDies, ExplainedInv, Undecided, Returned, Reason, SoundInv
  <2>6. IInv'
    BY <1>t, <1>c, <1>13, ClosedIInv
       DEF FixtureDies, ResultTypeOK, CaseTypeOK, Locations
  <2>. QED  BY <2>1, <2>2, <2>3, <2>4, <2>5, <2>6
<1>14. CASE NextTest
  <2>a. /\ idx > Len(tests) => executed = Range(tests)
        /\ idx <= Len(tests) => idx \in 1 .. Len(tests) /\ tests[idx] \in Tests
    <3>1. idx \in 1 .. Len(tests) + 1
      BY <1>14 DEF NextTest
    <3>2. idx > Len(tests) => 1 .. idx - 1 = 1 .. Len(tests)
      BY <1>l, <3>1
    <3>. QED  BY <1>l, <1>14, <3>1, <3>2 DEF NextTest, ExecutedInv
  <2>1. SuiteTypeOK'
    <3>1. CASE idx <= Len(tests)
      BY <1>t, <1>l, <1>14, <2>a, <3>1 DEF NextTest
    <3>2. CASE ~(idx <= Len(tests))
      BY <1>t, <1>l, <1>14, <2>a, <3>2 DEF NextTest
    <3>. QED  BY <3>1, <3>2
  <2>2. PositionInv'
    BY <1>t, <1>l, <1>14, <2>a DEF NextTest
  <2>3. OwedInv'
    BY <1>t, <1>l, <1>14, <2>a DEF NextTest, OwedInv
  <2>4. FixtureInv' /\ NoSilentLeak' /\ CheckedInv'
    BY <1>t, <1>l, <1>14, <2>a
       DEF NextTest, FixtureInv, FixturesNest, NoSilentLeak, SoundInv,
           CheckedInv
  <2>5. ExecutedInv'
    BY <1>t, <1>l, <1>14, <2>a DEF NextTest, ExecutedInv
  <2>6. SoundInv'
    <3>. SUFFICES ASSUME sSuccessful[suite]
                  PROVE  /\ marks[suite] = {}
                         /\ \A t \in executed : successful[t]
                         /\ "check" \notin collapses
                         /\ "earlier" \in collapses =>
                                ~fixtureOK[suite] /\ idx <= Len(tests)
      BY <1>14, <2>a DEF NextTest, SoundInv, Undecided, Returned
    <3>. QED
      BY <1>14 DEF NextTest, SoundInv, Undecided, Returned
  <2>7. ExplainedInv'
    BY <1>t, <1>l, <1>14, <2>a
       DEF NextTest, ExplainedInv, Undecided, Returned, Reason, SoundInv
  <2>8. IInv'
    BY <1>14, StepIInv DEF NextTest
  <2>. QED  BY <2>1, <2>2, <2>3, <2>4, <2>5, <2>6, <2>7, <2>8
<1>15. CASE GateInterrupted
  <2>a. marks'[suite] # {}
    BY <1>t, <1>15, AddToMarks DEF GateInterrupted, Kinds
  <2>1. SuiteTypeOK' /\ PositionInv' /\ OwedInv'
    BY <1>t, <1>l, <1>15, <2>a DEF GateInterrupted, SuiteCatch, OwedInv
  <2>2. FixtureInv' /\ NoSilentLeak' /\ CheckedInv'
    BY <1>t, <1>l, <1>15, <2>a
       DEF GateInterrupted, SuiteCatch, FixtureInv, FixturesNest,
           NoSilentLeak, SoundInv, CheckedInv
  <2>3. ExecutedInv' /\ SoundInv' /\ ExplainedInv'
    BY <1>t, <1>l, <1>15, <2>a
       DEF GateInterrupted, SuiteCatch, ExecutedInv, SoundInv, Undecided,
           Returned, ExplainedInv, Reason
  <2>4. IInv'
    BY <1>t, <1>c, <1>15, ClosedIInv, AddToMarks
       DEF GateInterrupted, Kinds, ResultTypeOK, CaseTypeOK
  <2>. QED  BY <2>1, <2>2, <2>3, <2>4
<1>16. CASE Gate
  <2>a. IF fixtureOK[suite] THEN marks' = marks ELSE marks'[suite] # {}
    BY <1>t, <1>16, AddToMarks DEF Gate, Kinds
  <2>1. SuiteTypeOK' /\ PositionInv' /\ OwedInv'
    BY <1>t, <1>l, <1>16, <2>a DEF Gate, OwedInv
  <2>2. FixtureInv' /\ NoSilentLeak' /\ CheckedInv'
    BY <1>t, <1>l, <1>16, <2>a
       DEF Gate, FixtureInv, FixturesNest, NoSilentLeak, SoundInv, CheckedInv
  <2>3. ExecutedInv' /\ SoundInv' /\ ExplainedInv'
    BY <1>t, <1>l, <1>16, <2>a
       DEF Gate, ExecutedInv, SoundInv, Undecided, Returned, ExplainedInv,
           Reason
  <2>4. IInv'
    BY <1>t, <1>c, <1>16, ClosedIInv, AddToMarks
       DEF Gate, Kinds, ResultTypeOK, CaseTypeOK
  <2>. QED  BY <2>1, <2>2, <2>3, <2>4
<1>17. CASE Decide
  <2>1. SuiteTypeOK'
    <3>1. CASE fixtureOK[suite]
      BY <1>t, <1>17, <3>1 DEF Decide
    <3>2. CASE ~fixtureOK[suite]
      BY <1>t, <1>l, <1>17, <3>2 DEF Decide
    <3>. QED  BY <3>1, <3>2
  <2>2. PositionInv'
    BY <1>t, <1>l, <1>17 DEF Decide
  <2>3. OwedInv'
    BY <1>t, <1>l, <1>17 DEF Decide, OwedInv
  <2>4. FixtureInv' /\ NoSilentLeak' /\ CheckedInv'
    BY <1>t, <1>l, <1>17
       DEF Decide, FixtureInv, FixturesNest, NoSilentLeak, SoundInv,
           CheckedInv
  <2>5. ExecutedInv' /\ SoundInv' /\ ExplainedInv'
    BY <1>t, <1>l, <1>17
       DEF Decide, ExecutedInv, SoundInv, Undecided, Returned, ExplainedInv,
           Reason
  <2>6. IInv'
    BY <1>17, StepIInv DEF Decide
  <2>. QED  BY <2>1, <2>2, <2>3, <2>4, <2>5, <2>6
<1>18. CASE CallTest
  <2>a. /\ Returned = executed /\ Returned' = executed
        /\ \A t \in executed : successful'[t] = successful[t]
    <3>1. tests[idx] \notin executed
      <4>1. /\ idx \in 1 .. Len(tests)
            /\ executed = {tests[i] : i \in 1 .. idx - 1}
        BY <1>18 DEF CallTest, ExecutedInv
      <4>2. \A i \in 1 .. idx - 1 : i \in 1 .. Len(tests) /\ i # idx
        BY <1>l, <4>1
      <4>. QED  BY <1>l, <4>1, <4>2
    <3>2. Returned = executed /\ Returned' = executed
      BY <1>18, <3>1 DEF CallTest, Returned
    <3>. QED
      BY <1>t, <1>18, <3>1, <3>2
         DEF CallTest, Enter, SuiteTypeOK, IInv, TypeOK, CaseTypeOK
  <2>1. SuiteTypeOK' /\ PositionInv' /\ OwedInv'
    BY <1>t, <1>l, <1>18, <2>a DEF CallTest, Enter, OwedInv
  <2>2. FixtureInv' /\ NoSilentLeak' /\ CheckedInv'
    BY <1>t, <1>l, <1>18, <2>a
       DEF CallTest, Enter, FixtureInv, FixturesNest, NoSilentLeak, SoundInv,
           CheckedInv
  <2>3. ExecutedInv' /\ SoundInv'
    BY <1>t, <1>l, <1>18, <2>a
       DEF CallTest, Enter, ExecutedInv, SoundInv, Undecided, Returned
  <2>4. ExplainedInv'
    BY <1>t, <1>l, <1>18, <2>a
       DEF CallTest, Enter, resultVars, Reason, ExplainedInv, Undecided
  <2>5. IInv'
    BY <1>l, <1>18, StepIInv DEF CallTest, RunStep
  <2>. QED  BY <2>1, <2>2, <2>3, <2>4, <2>5
<1>19. CASE TestReturned
  <2>a. /\ idx \in 1 .. Len(tests) /\ Returned' = executed
        /\ executed = Returned \cup {tests[idx]}
        /\ tests[idx] \notin Returned
    BY <1>l, <1>19 DEF TestReturned, ExecutedInv, PositionInv, Returned
  <2>b. sSuccessful'[suite] = (sSuccessful[suite] /\ successful[tests[idx]])
    BY <1>t, <1>19 DEF TestReturned, VerdictSoFar, SuiteTypeOK
  <2>1. SuiteTypeOK' /\ PositionInv' /\ OwedInv'
    BY <1>t, <1>l, <1>19, <2>a, <2>b DEF TestReturned, VerdictSoFar, OwedInv
  <2>2. FixtureInv' /\ NoSilentLeak' /\ CheckedInv'
    BY <1>t, <1>l, <1>19, <2>a, <2>b
       DEF TestReturned, VerdictSoFar, FixtureInv, FixturesNest,
           NoSilentLeak, SoundInv, CheckedInv
  <2>3. ExecutedInv'
    BY <1>t, <1>l, <1>19, <2>a, <2>b
       DEF TestReturned, VerdictSoFar, ExecutedInv
  <2>4. SoundInv'
    <3>. SUFFICES ASSUME sSuccessful'[suite]
                  PROVE  /\ marks[suite] = {}
                         /\ \A t \in executed : successful[t]
                         /\ "check" \notin collapses
                         /\ "earlier" \in collapses =>
                                ~fixtureOK[suite] /\ idx' <= Len(tests)
      BY <1>19, <2>a DEF TestReturned, SoundInv
    <3>1. sSuccessful[suite] /\ successful[tests[idx]]
      BY <2>b
    <3>2. sPc = "inTest" /\ idx' = idx + 1
      BY <1>19 DEF TestReturned
    <3>. QED
      BY <1>t, <1>l, <2>a, <3>1, <3>2 DEF SoundInv, Undecided
  <2>5. ExplainedInv'
    BY <1>t, <1>l, <1>19, <2>a, <2>b
       DEF TestReturned, Reason, ExplainedInv, Undecided, vars, resultVars,
           caseVars
  <2>6. IInv'
    BY <1>19, StepIInv DEF TestReturned
  <2>. QED  BY <2>1, <2>2, <2>3, <2>4, <2>5, <2>6
<1>. QED
  BY <1>1, <1>2, <1>3, <1>4, <1>5, <1>6, <1>7, <1>8, <1>9, <1>10, <1>11,
     <1>12, <1>13, <1>14, <1>15, <1>16, <1>17, <1>18, <1>19
     DEF SuiteProgress

(* Nothing is set up, nothing runs.                                         *)
LEMMA InitSuiteIInv == SuitesInit => SuiteIInv
<1>. SUFFICES ASSUME SuitesInit PROVE SuiteIInv  OBVIOUS
<1>. USE TestCaseConstants, TestSuiteConstants
     DEF SuitesInit, SuiteInit, SettingUp, Checking, TearingDown, InFixture,
         SuiteLocations, Active, InTestLoop, OnFixtures
<1>1. IInv
  BY InitIInv
<1>2. SuiteTypeOK /\ PositionInv
  BY DEF SuiteTypeOK, PositionInv, Init, CaseInit
<1>3. FixtureInv /\ NoSilentLeak /\ CheckedInv /\ OwedInv
  BY DEF FixtureInv, FixturesNest, NoSilentLeak, CheckedInv, OwedInv
<1>4. ExecutedInv /\ SoundInv /\ ExplainedInv
  BY DEF ExecutedInv, SoundInv, ExplainedInv, Undecided
<1>. QED  BY <1>1, <1>2, <1>3, <1>4 DEF SuiteIInv

(* A step of a suite, whoever calls run(), of its tests or of a plain test. *)
PlainTestStep ==
    /\ \E t \in Tests : (sPc = "idle" /\ Enter(t)) \/ Interrupt(t)
    /\ UNCHANGED suiteVars

SuiteRunStep ==
    \/ \E s \in Suites : SuiteEnter(s) \/ SuiteInterrupt(s)
    \/ \E s \in Suites, f \in Fixtures : fixtureCollapsed(s, f)
    \/ SuiteProgress
    \/ TestInSuite
    \/ PlainTestStep

(* The bound of an instance aside, a caller of suites takes such steps.     *)
LEMMA SuiteNextIsSuiteRunStep == [SuiteNext]_allVars => [SuiteRunStep]_allVars
  BY DEF SuiteNext, SuiteRunStep

(* The steps of the caller, the tests, the monitors and the signal handler  *)
(* preserve the invariant as well.                                          *)
LEMMA StepSuiteIInv == SuiteIInv /\ [SuiteRunStep]_allVars => SuiteIInv'
<1>. SUFFICES ASSUME SuiteIInv, [SuiteRunStep]_allVars PROVE SuiteIInv'
  OBVIOUS
<1>. USE TestCaseConstants
     DEF At, Go, SettingUp, Checking, TearingDown, InFixture,
         SuiteLocations, Active, InTestLoop, OnFixtures, tests, fixtures,
         MyFixtures, resultVars, caseVars, suiteVars
<1>t. /\ IInv /\ SuiteTypeOK /\ PositionInv
      /\ FixtureInv /\ NoSilentLeak /\ CheckedInv /\ OwedInv
      /\ ExecutedInv /\ SoundInv /\ ExplainedInv
      /\ NoSuite \notin Suites
  BY TestSuiteConstants DEF SuiteIInv
<1>1. ASSUME NEW s \in Suites, SuiteEnter(s) PROVE SuiteIInv'
  <2>1. IInv'
    BY <1>t, <1>1, StepIInv DEF SuiteEnter
  <2>2. SuiteTypeOK' /\ PositionInv'
    BY <1>t, <1>1 DEF SuiteEnter, SuiteTypeOK, PositionInv, vars
  <2>3. FixtureInv' /\ NoSilentLeak' /\ CheckedInv' /\ OwedInv'
    BY <1>t, <1>1
       DEF SuiteEnter, FixtureInv, FixturesNest, NoSilentLeak, CheckedInv,
           OwedInv
  <2>4. ExecutedInv' /\ SoundInv' /\ ExplainedInv'
    BY <1>t, <1>1
       DEF SuiteEnter, SuiteTypeOK, ExecutedInv, SoundInv, ExplainedInv,
           Undecided
  <2>. QED  BY <2>1, <2>2, <2>3, <2>4 DEF SuiteIInv
<1>2. ASSUME NEW s \in Suites, SuiteInterrupt(s) PROVE SuiteIInv'
  <2>1. IInv'
    <3>1. current[s] \in Tests \cup {NoTest}
      BY <1>t DEF SuiteTypeOK
    <3>2. \/ UNCHANGED vars
          \/ current[s] \in Tests /\ Interrupt(current[s])
      BY <1>2, <3>1
         DEF SuiteInterrupt, suiteInterrupt, Interrupt, vars
    <3>. QED  BY <1>t, <3>2, StepIInv DEF RunStep
  <2>2. SuiteTypeOK' /\ PositionInv'
    BY <1>t, <1>2
       DEF SuiteInterrupt, suiteInterrupt, interrupt, SuiteTypeOK,
           PositionInv
  <2>3. FixtureInv' /\ NoSilentLeak' /\ CheckedInv' /\ OwedInv'
    BY <1>t, <1>2
       DEF SuiteInterrupt, FixtureInv, FixturesNest, NoSilentLeak,
           CheckedInv, OwedInv
  <2>4. ExecutedInv' /\ SoundInv' /\ ExplainedInv'
    BY <1>t, <1>2
       DEF SuiteInterrupt, ExecutedInv, SoundInv, ExplainedInv, Undecided,
           Returned, Reason
  <2>. QED  BY <2>1, <2>2, <2>3, <2>4 DEF SuiteIInv
<1>3. ASSUME NEW s \in Suites, NEW f \in Fixtures, fixtureCollapsed(s, f)
      PROVE  SuiteIInv'
  <2>1. IInv'
    BY <1>t, <1>3, StepIInv DEF fixtureCollapsed
  <2>2. SuiteTypeOK' /\ PositionInv'
    BY <1>t, <1>3
       DEF fixtureCollapsed, CollapsedAt, SuiteTypeOK, PositionInv, vars
  <2>3. FixtureInv' /\ NoSilentLeak' /\ CheckedInv'
    BY <1>t, <1>3
       DEF fixtureCollapsed, FixtureInv, FixturesNest, NoSilentLeak,
           CheckedInv, SuiteTypeOK, vars
  <2>4. OwedInv'
    <3>1. s = suite => Len(fixtures) > 0
      <4>. SUFFICES ASSUME s = suite PROVE DOMAIN fixtures # {}
        BY SuiteLists
      <4>. QED  BY <1>3 DEF fixtureCollapsed, Range
    <3>. QED
      BY <1>t, <1>3, <3>1 DEF fixtureCollapsed, OwedInv, SuiteTypeOK
  <2>5. ExecutedInv' /\ ExplainedInv'
    BY <1>t, <1>3
       DEF fixtureCollapsed, CollapsedAt, ExecutedInv, ExplainedInv,
           Undecided, Returned, Reason, SuiteTypeOK, vars
  <2>6. SoundInv'
    <3>1. CASE s # suite
      BY <1>t, <1>3, <3>1
         DEF fixtureCollapsed, SoundInv, Undecided, Returned, SuiteTypeOK,
             vars
    <3>2. CASE s = suite
      <4>1. /\ UNCHANGED <<vars, sPc, suite, idx, sSuccessful, executed>>
            /\ ~fixtureOK'[suite]
            /\ collapses' = collapses \cup {CollapsedAt}
        BY <1>t, <1>3, <3>2 DEF fixtureCollapsed, SuiteTypeOK
      <4>. QED
        BY <1>t, <4>1
           DEF SoundInv, CollapsedAt, Undecided, Returned, vars
    <3>. QED  BY <3>1, <3>2
  <2>. QED  BY <2>1, <2>2, <2>3, <2>4, <2>5, <2>6 DEF SuiteIInv
<1>4. CASE SuiteProgress
  BY <1>4, StepSuite
<1>5. CASE TestInSuite
  <2>1. IInv'
    BY <1>t, <1>5, StepIInv DEF TestInSuite, RunStep
  <2>2. CaseStep /\ UNCHANGED suiteVars
    BY <1>5 DEF TestInSuite
  <2>3. SuiteTypeOK' /\ PositionInv'
    BY <1>t, <2>2, CaseStepFacts DEF SuiteTypeOK, PositionInv
  <2>4. FixtureInv' /\ CheckedInv' /\ OwedInv' /\ ExecutedInv'
    BY <1>t, <2>2
       DEF FixtureInv, FixturesNest, CheckedInv, OwedInv, ExecutedInv
  <2>5. NoSilentLeak'
    BY <1>t, <2>2, CaseStepFacts DEF NoSilentLeak, SuiteTypeOK
  <2>6. sPc # "idle" => \A t \in Returned : successful'[t] = successful[t]
    BY <1>t, <2>2, CaseStepFacts DEF Returned, SuiteTypeOK, PositionInv
  <2>7. SoundInv' /\ ExplainedInv'
    BY <1>t, <2>2, <2>6, CaseStepFacts
       DEF SoundInv, ExplainedInv, Undecided, Returned, Reason, SuiteTypeOK
  <2>. QED  BY <2>1, <2>3, <2>4, <2>5, <2>7 DEF SuiteIInv
<1>6. CASE PlainTestStep
  <2>1. IInv' /\ UNCHANGED suiteVars
    BY <1>t, <1>6, StepIInv DEF PlainTestStep, RunStep
  <2>2. /\ UNCHANGED marks
        /\ sPc # "idle" => UNCHANGED <<running, successful>>
        /\ pc' \notin {"idle", "dead"} => sPc = "idle" \/ pc' = pc
    BY <1>6 DEF PlainTestStep, Enter, Interrupt, interrupt
  <2>3. SuiteTypeOK' /\ PositionInv'
    BY <1>t, <2>1, <2>2 DEF SuiteTypeOK, PositionInv
  <2>4. FixtureInv' /\ NoSilentLeak' /\ CheckedInv' /\ OwedInv'
    BY <1>t, <2>1, <2>2
       DEF FixtureInv, FixturesNest, NoSilentLeak, CheckedInv, OwedInv
  <2>5. ExecutedInv' /\ SoundInv' /\ ExplainedInv'
    BY <1>t, <2>1, <2>2
       DEF ExecutedInv, SoundInv, ExplainedInv, Undecided, Returned, Reason
  <2>. QED  BY <2>1, <2>3, <2>4, <2>5 DEF SuiteIInv
<1>7. CASE UNCHANGED allVars
  <2>1. IInv'
    BY <1>t, <1>7, StepIInv DEF allVars
  <2>2. SuiteTypeOK' /\ PositionInv' /\ FixtureInv' /\ NoSilentLeak'
        /\ CheckedInv' /\ OwedInv' /\ ExecutedInv'
    BY <1>t, <1>7
       DEF allVars, vars, SuiteTypeOK, PositionInv, FixtureInv, FixturesNest,
           NoSilentLeak, CheckedInv, OwedInv, ExecutedInv
  <2>3. SoundInv' /\ ExplainedInv'
    BY <1>t, <1>7
       DEF allVars, vars, SoundInv, ExplainedInv, Undecided, Returned, Reason
  <2>. QED  BY <2>1, <2>2, <2>3 DEF SuiteIInv
<1>. QED
  BY <1>1, <1>2, <1>3, <1>4, <1>5, <1>6, <1>7 DEF SuiteRunStep

(* The invariant holds in every reachable state.                            *)
LEMMA SuiteInvariance == SuiteSpec => []SuiteIInv
  BY InitSuiteIInv, StepSuiteIInv, SuiteNextIsSuiteRunStep, PTL DEF SuiteSpec

-----------------------------------------------------------------------------
(* Type correctness of suites, their tests and the counters.                *)
THEOREM SuitesTypeCorrect == SuiteSpec => []SuitesTypeOK
<1>1. SuiteIInv => SuitesTypeOK
  BY DEF SuiteIInv, IInv, SuitesTypeOK
<1>. QED  BY <1>1, SuiteInvariance, PTL

(* What TestCase promises of verdicts and counters holds for tests run by   *)
(* suites as well, crashes in fixtures and interruptions included.          *)
THEOREM TestsKeepPromisesInSuites ==
    SuiteSpec => [](VerdictExplained /\ CountsBalance)
<1>1. SuiteIInv => VerdictExplained /\ CountsBalance
  BY DEF SuiteIInv, IInv, VerdictInv
<1>. QED  BY <1>1, SuiteInvariance, PTL

(* A suite never passes unless all of its tests were run and succeeded,     *)
(* nothing bad was recorded for it and no collapse was notified during a    *)
(* test before the last or between the two reads of fixtureOK, whatever the *)
(* fixtures, their monitors and the tests do.                               *)
THEOREM VerdictIsSound == SuiteSpec => []SuiteVerdictSound
<1>1. SuiteIInv => SuiteVerdictSound
  BY DEF SuiteIInv, SoundInv, SuiteVerdictSound, Active, SuiteLocations,
         Undecided, Returned, SuiteTypeOK
<1>. QED  BY <1>1, SuiteInvariance, PTL

(* A suite never fails without a reason the reports can show.               *)
THEOREM FailureIsExplained == SuiteSpec => []SuiteFailureExplained
<1>1. SuiteIInv => SuiteFailureExplained
  BY DEF SuiteIInv, ExplainedInv, Reason, Returned, SuiteFailureExplained,
         Active, SuiteLocations
<1>. QED  BY <1>1, SuiteInvariance, PTL

(* However setup() and tearDown() of the fixtures end, the set-up fixtures  *)
(* of a suite are always its first ones.                                    *)
THEOREM FixturesAlwaysNest == SuiteSpec => []FixturesNest
<1>1. SuiteIInv => FixturesNest
  BY DEF SuiteIInv, FixtureInv
<1>. QED  BY <1>1, SuiteInvariance, PTL

(* A suite that leaves a fixture running has failed and said so.            *)
THEOREM LeaksAreReported == SuiteSpec => []NoSilentLeak
<1>1. SuiteIInv => NoSilentLeak
  BY DEF SuiteIInv
<1>. QED  BY <1>1, SuiteInvariance, PTL

(* No interleaving of monitors with the suite's loop lets a test start on a *)
(* fixture that is down or unchecked, or before the restart that a collapse *)
(* notified during an earlier test calls for.                               *)
THEOREM TestsStartOnVerifiedFixtures == SuiteSpec => TestsOnVerifiedFixtures
<1>1. SuiteIInv /\ [SuiteNext]_allVars
        => [CallTest => MyFixtures \subseteq up \cap verified /\ ~owed]_allVars
  BY DEF SuiteIInv, FixtureInv, CheckedInv, OwedInv, CallTest, At, OnFixtures
<1>. QED
  BY <1>1, SuiteInvariance, PTL DEF SuiteSpec, TestsOnVerifiedFixtures
===============================================================================
