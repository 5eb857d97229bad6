---------------------------- MODULE TestCase_proofs ----------------------------
(***************************************************************************)
(* Proofs about TestCase for any tests, repetitions and crash signals:     *)
(* type correctness, an inductive invariant that implies VerdictExplained, *)
(* CountsBalance and RepetitionsComplete, and the refinement of TestRun.   *)
(***************************************************************************)
EXTENDS TestCase, TLAPS

(* The loop counter and the number of executed bodies agree, which is what  *)
(* makes RepetitionsComplete inductive.                                     *)
RepetitionInv ==
    pc \in Opened \cup {"startTest"} /\ Repetition[running] < UIntMax =>
        /\ rep = bodies
        /\ rep <= Repetition[running] + 1
        /\ pc \in {"startTest", "setup"} => rep = 0
        /\ pc = "body" => rep <= Repetition[running]
        /\ pc \in {"tearDown", "endTest"}
              /\ successful[running] /\ ~interrupted[running] =>
                 rep = Repetition[running] + 1

(* The verdict is reset before the start event forgets the old events, so   *)
(* that the two agree from the moment the test is open.                     *)
VerdictInv ==
    /\ VerdictExplained
    /\ pc = "startTest" => successful[running]

(* The inductive invariant.                                                 *)
IInv ==
    /\ TypeOK
    /\ VerdictInv
    /\ CountsBalance
    /\ RepetitionInv

-----------------------------------------------------------------------------
(* What the event operators of TestResult do.                               *)

(* An event counter goes up by one and the others stay (the collector's     *)
(* nTests++, nPasses++ and nFailures++).                                    *)
LEMMA BumpCounts ==
    ASSUME ResultTypeOK, NEW c \in Counters, Bump(c)
    PROVE  /\ collector' \in [Counters -> Nat]
           /\ collector'[c] = collector[c] + 1
           /\ \A d \in Counters \ {c} : collector'[d] = collector[d]
  BY DEF ResultTypeOK, Bump, Counters

(* An end event counts one more test, as passed or as failed.               *)
LEMMA EndTestCounts ==
    ASSUME ResultTypeOK, NEW ok \in BOOLEAN, endTest(ok)
    PROVE  /\ collector' \in [Counters -> Nat]
           /\ \A d \in Counters \ {"nPasses", "nFailures"} :
                  collector'[d] = collector[d]
           /\ collector'["nTests"] = collector["nTests"]
           /\ collector'["nPasses"] + collector'["nFailures"]
                = collector["nPasses"] + collector["nFailures"] + 1
           /\ ok => /\ collector'["nPasses"] = collector["nPasses"] + 1
                    /\ collector'["nFailures"] = collector["nFailures"]
           /\ ~ok => /\ collector'["nFailures"] = collector["nFailures"] + 1
                     /\ collector'["nPasses"] = collector["nPasses"]
<1>1. /\ "nPasses" \in Counters /\ "nFailures" \in Counters
      /\ "nTests" \in Counters
  BY DEF Counters
<1>2. \A c \in Counters : collector[c] \in Nat
  BY DEF ResultTypeOK
<1>3. CASE ok
  BY <1>1, <1>2, <1>3, BumpCounts DEF endTest
<1>4. CASE ~ok
  BY <1>1, <1>2, <1>4, BumpCounts DEF endTest
<1>. QED  BY <1>3, <1>4

(* A start event counts one more started test and forgets its old marks.    *)
LEMMA StartTestCounts ==
    ASSUME ResultTypeOK, NEW t \in Tests, startTest(t)
    PROVE  /\ ResultTypeOK'
           /\ collector'["nTests"] = collector["nTests"] + 1
           /\ collector'["nPasses"] = collector["nPasses"]
           /\ collector'["nFailures"] = collector["nFailures"]
           /\ \A d \in Counters \ {"nTests"} : collector'[d] = collector[d]
           /\ marks'[t] = {}
<1>1. /\ "nPasses" \in Counters /\ "nFailures" \in Counters
      /\ "nTests" \in Counters
  BY DEF Counters
<1>2. Bump("nTests") /\ marks' = [marks EXCEPT ![t] = {}]
  BY DEF startTest
<1>3. marks' \in [Tests \cup Suites -> SUBSET Kinds] /\ marks'[t] = {}
  BY <1>2 DEF ResultTypeOK
<1>. QED  BY <1>1, <1>2, <1>3, BumpCounts DEF ResultTypeOK

(* addError and addFailure leave a mark on everything they name, and on     *)
(* nothing else.                                                            *)
LEMMA AddToMarks ==
    ASSUME ResultTypeOK, NEW X \in SUBSET (Tests \cup Suites),
           NEW kind \in Kinds, AddTo(X, kind)
    PROVE  /\ marks' \in [Tests \cup Suites -> SUBSET Kinds]
           /\ \A x \in X : marks'[x] # {}
           /\ \A x \in Tests \cup Suites :
                  x \notin X => marks'[x] = marks[x]
  BY DEF ResultTypeOK, AddTo

-----------------------------------------------------------------------------
(* Initially everything is idle and nothing was counted.                    *)
LEMMA InitIInv == Init => IInv
<1>. SUFFICES ASSUME Init PROVE IInv  OBVIOUS
<1>. USE TestCaseConstants
<1>1. TypeOK
  BY DEF Init, ResultInit, CaseInit, TypeOK, ResultTypeOK, CaseTypeOK,
         Locations, Opened, UserCode
<1>2. VerdictInv /\ CountsBalance /\ RepetitionInv
  BY
       DEF Init, ResultInit, CaseInit, VerdictInv, VerdictExplained,
           CountsBalance,
         RepetitionInv, Opened, UserCode, Counters
<1>. QED  BY <1>1, <1>2 DEF IInv

(* A step of a test, whoever calls run() and however often.                 *)
RunStep ==
    \/ \E t \in Tests : Enter(t) \/ Interrupt(t)
    \/ CaseStep

(* The bound of an instance aside, that is all the caller does.             *)
LEMMA NextIsRunStep == [Next]_vars => [RunStep]_vars
  BY DEF Next, RunStep

(* Every step of the caller, the framework and the user's code preserves    *)
(* the invariant.                                                           *)
LEMMA StepIInv == IInv /\ [RunStep]_vars => IInv'
<1>. SUFFICES ASSUME IInv, [RunStep]_vars PROVE IInv'  OBVIOUS
<1>. USE TestCaseConstants DEF IInv, Locations, Opened, UserCode
<1>t. /\ ResultTypeOK /\ CaseTypeOK
      /\ \A c \in Counters : collector[c] \in Nat
      /\ {"nTests", "nPasses", "nFailures"} \subseteq Counters
  BY DEF TypeOK, ResultTypeOK, Counters
<1>1. ASSUME NEW t \in Tests, Enter(t) PROVE IInv'
  <2>1. TypeOK'
    BY <1>t, <1>1 DEF TypeOK, ResultTypeOK, CaseTypeOK, Enter, resultVars
  <2>2. VerdictInv'
    BY <1>t, <1>1
       DEF VerdictInv, VerdictExplained, TypeOK, ResultTypeOK, CaseTypeOK,
           Enter, resultVars
  <2>3. CountsBalance'
    BY <1>t, <1>1 DEF CountsBalance, TypeOK, CaseTypeOK, Enter, resultVars
  <2>4. RepetitionInv'
    BY <1>t, <1>1 DEF RepetitionInv, TypeOK, CaseTypeOK, Enter
  <2>. QED  BY <2>1, <2>2, <2>3, <2>4
<1>2. CASE StartTest
  <2>1. TypeOK'
    BY <1>t, <1>2, StartTestCounts
       DEF TypeOK, ResultTypeOK, CaseTypeOK, StartTest
  <2>2. VerdictInv'
    BY <1>t, <1>2, StartTestCounts
       DEF VerdictInv, VerdictExplained, TypeOK, ResultTypeOK, CaseTypeOK,
           StartTest
  <2>3. CountsBalance'
    BY <1>t, <1>2, StartTestCounts
       DEF CountsBalance, TypeOK, CaseTypeOK, StartTest
  <2>4. RepetitionInv'
    BY <1>t, <1>2 DEF RepetitionInv, TypeOK, CaseTypeOK, StartTest
  <2>. QED  BY <2>1, <2>2, <2>3, <2>4
<1>3. CASE Loop
  <2>1. TypeOK'
    BY <1>t, <1>3
       DEF TypeOK, ResultTypeOK, CaseTypeOK, Loop, resultVars, LoopGoesOn
  <2>2. VerdictInv'
    BY <1>t, <1>3
       DEF VerdictInv, VerdictExplained, TypeOK, ResultTypeOK, CaseTypeOK,
           Loop, resultVars, LoopGoesOn
  <2>3. CountsBalance'
    BY <1>t, <1>3
       DEF CountsBalance, TypeOK, CaseTypeOK, Loop, resultVars, LoopGoesOn
  <2>4. RepetitionInv'
    BY <1>t, <1>3 DEF RepetitionInv, TypeOK, CaseTypeOK, Loop, LoopGoesOn
  <2>. QED  BY <2>1, <2>2, <2>3, <2>4
<1>4. CASE EndTest
  <2>1. TypeOK'
    BY <1>t, <1>4, EndTestCounts DEF TypeOK, ResultTypeOK, CaseTypeOK, EndTest
  <2>2. VerdictInv'
    BY <1>t, <1>4, EndTestCounts
       DEF VerdictInv, VerdictExplained, TypeOK, ResultTypeOK, CaseTypeOK,
           EndTest
  <2>3. CountsBalance'
    BY <1>t, <1>4, EndTestCounts DEF CountsBalance, TypeOK, CaseTypeOK, EndTest
  <2>4. RepetitionInv'
    BY <1>t, <1>4 DEF RepetitionInv, TypeOK, CaseTypeOK, EndTest
  <2>. QED  BY <2>1, <2>2, <2>3, <2>4
<1>5. CASE EndEarly
  <2>1. TypeOK'
    BY <1>t, <1>5, EndTestCounts DEF TypeOK, ResultTypeOK, CaseTypeOK, EndEarly
  <2>2. VerdictInv'
    BY <1>t, <1>5, EndTestCounts
       DEF VerdictInv, VerdictExplained, TypeOK, ResultTypeOK, CaseTypeOK,
           EndEarly
  <2>3. CountsBalance'
    BY <1>t, <1>5, EndTestCounts
       DEF CountsBalance, TypeOK, CaseTypeOK, EndEarly
  <2>4. RepetitionInv'
    BY <1>t, <1>5 DEF RepetitionInv, TypeOK, CaseTypeOK, EndEarly
  <2>. QED  BY <2>1, <2>2, <2>3, <2>4
<1>6. CASE SetupSucceeds
  <2>1. TypeOK'
    BY <1>t, <1>6
       DEF TypeOK, ResultTypeOK, CaseTypeOK, SetupSucceeds, resultVars
  <2>2. VerdictInv'
    BY <1>t, <1>6
       DEF VerdictInv, VerdictExplained, TypeOK, ResultTypeOK, CaseTypeOK,
           SetupSucceeds, resultVars
  <2>3. CountsBalance'
    BY <1>t, <1>6
       DEF CountsBalance, TypeOK, CaseTypeOK, SetupSucceeds, resultVars
  <2>4. RepetitionInv'
    BY <1>t, <1>6 DEF RepetitionInv, TypeOK, CaseTypeOK, SetupSucceeds
  <2>. QED  BY <2>1, <2>2, <2>3, <2>4
<1>7. CASE SetupFails
  <2>1. TypeOK'
    BY <1>t, <1>7, AddToMarks
       DEF TypeOK, ResultTypeOK, CaseTypeOK, SetupFails, Kinds
  <2>2. VerdictInv'
    BY <1>t, <1>7, AddToMarks
       DEF VerdictInv, VerdictExplained, TypeOK, ResultTypeOK, CaseTypeOK,
           SetupFails, Kinds
  <2>3. CountsBalance'
    BY <1>t, <1>7, AddToMarks
       DEF CountsBalance, TypeOK, CaseTypeOK, SetupFails, Kinds
  <2>4. RepetitionInv'
    BY <1>t, <1>7 DEF RepetitionInv, TypeOK, CaseTypeOK, SetupFails, Kinds
  <2>. QED  BY <2>1, <2>2, <2>3, <2>4
<1>8. CASE BodyReturns
  <2>1. TypeOK'
    BY <1>t, <1>8
       DEF TypeOK, ResultTypeOK, CaseTypeOK, BodyReturns, resultVars, NextRep
  <2>2. VerdictInv'
    BY <1>t, <1>8
       DEF VerdictInv, VerdictExplained, TypeOK, ResultTypeOK, CaseTypeOK,
           BodyReturns, resultVars, NextRep
  <2>3. CountsBalance'
    BY <1>t, <1>8
       DEF CountsBalance, TypeOK, CaseTypeOK, BodyReturns, resultVars, NextRep
  <2>4. RepetitionInv'
    BY <1>t, <1>8 DEF RepetitionInv, TypeOK, CaseTypeOK, BodyReturns, NextRep
  <2>. QED  BY <2>1, <2>2, <2>3, <2>4
<1>9. CASE TearDownReturns
  <2>1. TypeOK'
    BY <1>t, <1>9
       DEF TypeOK, ResultTypeOK, CaseTypeOK, TearDownReturns, resultVars
  <2>2. VerdictInv'
    BY <1>t, <1>9
       DEF VerdictInv, VerdictExplained, TypeOK, ResultTypeOK, CaseTypeOK,
           TearDownReturns, resultVars
  <2>3. CountsBalance'
    BY <1>t, <1>9
       DEF CountsBalance, TypeOK, CaseTypeOK, TearDownReturns, resultVars
  <2>4. RepetitionInv'
    BY <1>t, <1>9 DEF RepetitionInv, TypeOK, CaseTypeOK, TearDownReturns
  <2>. QED  BY <2>1, <2>2, <2>3, <2>4
<1>10. CASE CheckFails
  <2>1. TypeOK'
    BY <1>t, <1>10, AddToMarks
       DEF TypeOK, ResultTypeOK, CaseTypeOK, CheckFails, Kinds
  <2>2. VerdictInv'
    BY <1>t, <1>10, AddToMarks
       DEF VerdictInv, VerdictExplained, TypeOK, ResultTypeOK, CaseTypeOK,
           CheckFails, Kinds
  <2>3. CountsBalance'
    BY <1>t, <1>10, AddToMarks
       DEF CountsBalance, TypeOK, CaseTypeOK, CheckFails, Kinds
  <2>4. RepetitionInv'
    BY <1>t, <1>10 DEF RepetitionInv, TypeOK, CaseTypeOK, CheckFails, Kinds
  <2>. QED  BY <2>1, <2>2, <2>3, <2>4
<1>11. CASE Throws
  <2>1. TypeOK'
    BY <1>t, <1>11, AddToMarks
       DEF TypeOK, ResultTypeOK, CaseTypeOK, Throws, Catch, AfterCatch, Kinds
  <2>2. VerdictInv'
    BY <1>t, <1>11, AddToMarks
       DEF VerdictInv, VerdictExplained, TypeOK, ResultTypeOK, CaseTypeOK,
           Throws, Catch, AfterCatch, Kinds
  <2>3. CountsBalance'
    BY <1>t, <1>11, AddToMarks
       DEF CountsBalance, TypeOK, CaseTypeOK, Throws, Catch, AfterCatch, Kinds
  <2>4. RepetitionInv'
    BY <1>t, <1>11
       DEF RepetitionInv, TypeOK, CaseTypeOK, Throws, Catch, AfterCatch, Kinds
  <2>. QED  BY <2>1, <2>2, <2>3, <2>4
<1>12. CASE Die
  <2>1. TypeOK'
    BY <1>t, <1>12 DEF TypeOK, ResultTypeOK, CaseTypeOK, Die, resultVars
  <2>2. VerdictInv'
    BY <1>t, <1>12
       DEF VerdictInv, VerdictExplained, TypeOK, ResultTypeOK, CaseTypeOK,
           Die, resultVars
  <2>3. CountsBalance'
    BY <1>t, <1>12 DEF CountsBalance, TypeOK, CaseTypeOK, Die, resultVars
  <2>4. RepetitionInv'
    BY <1>t, <1>12 DEF RepetitionInv, TypeOK, CaseTypeOK, Die
  <2>. QED  BY <2>1, <2>2, <2>3, <2>4
<1>13. CASE CrashCaught
  <2>1. TypeOK'
    BY <1>t, <1>13, AddToMarks, EndTestCounts
       DEF TypeOK, ResultTypeOK, CaseTypeOK, CrashCaught, run_signal_handler,
           AfterCatch, Kinds
  <2>2. VerdictInv'
    BY <1>t, <1>13, AddToMarks, EndTestCounts
       DEF VerdictInv, VerdictExplained, TypeOK, ResultTypeOK, CaseTypeOK,
           CrashCaught, run_signal_handler, AfterCatch, Kinds
  <2>3. CountsBalance'
    BY <1>t, <1>13, AddToMarks, EndTestCounts
       DEF CountsBalance, TypeOK, CaseTypeOK, CrashCaught, run_signal_handler,
           AfterCatch, Kinds
  <2>4. RepetitionInv'
    BY <1>t, <1>13
       DEF RepetitionInv, TypeOK, CaseTypeOK, CrashCaught, run_signal_handler,
           AfterCatch, Kinds
  <2>. QED  BY <2>1, <2>2, <2>3, <2>4
<1>14. ASSUME NEW t \in Tests, Interrupt(t) PROVE IInv'
  <2>1. TypeOK'
    BY <1>t, <1>14
       DEF TypeOK, ResultTypeOK, CaseTypeOK, Interrupt, resultVars, interrupt
  <2>2. VerdictInv'
    BY <1>t, <1>14
       DEF VerdictInv, VerdictExplained, TypeOK, ResultTypeOK, CaseTypeOK,
           Interrupt, resultVars, interrupt
  <2>3. CountsBalance'
    BY <1>t, <1>14
       DEF CountsBalance, TypeOK, CaseTypeOK, Interrupt, resultVars, interrupt
  <2>4. RepetitionInv'
    BY <1>t, <1>14 DEF RepetitionInv, TypeOK, CaseTypeOK, Interrupt, interrupt
  <2>. QED  BY <2>1, <2>2, <2>3, <2>4
<1>15. CASE UNCHANGED vars
  BY <1>15 DEF vars, resultVars, caseVars, TypeOK, ResultTypeOK, CaseTypeOK,
     VerdictInv, VerdictExplained, CountsBalance, RepetitionInv
<1>. QED
  BY <1>1, <1>2, <1>3, <1>4, <1>5, <1>6, <1>7, <1>8, <1>9, <1>10, <1>11,
     <1>12, <1>13, <1>14, <1>15
     DEF RunStep, CaseStep, CaseProgress

(* The invariant holds in every reachable state.                            *)
LEMMA Invariance == Spec => []IInv
  BY InitIInv, StepIInv, NextIsRunStep, PTL DEF Spec

(* Type correctness, for any tests, repetitions and crash signals.          *)
THEOREM TypeCorrect == Spec => []TypeOK
<1>1. IInv => TypeOK
  BY DEF IInv
<1>. QED  BY <1>1, Invariance, PTL

(* A test's verdict always agrees with the events recorded for it while it  *)
(* is open: neither a catch clause nor the crash handler can lose one.      *)
THEOREM VerdictIsExplained == Spec => []VerdictExplained
<1>1. IInv => VerdictExplained
  BY DEF IInv, VerdictInv
<1>. QED  BY <1>1, Invariance, PTL

(* Passed and failed tests add up to the started ones, up to the one that   *)
(* is open and one more end event for each crash that was handled.          *)
THEOREM CountsAreBalanced == Spec => []CountsBalance
<1>1. IInv => CountsBalance
  BY DEF IInv
<1>. QED  BY <1>1, Invariance, PTL

(* A test that passes uninterrupted was run repetition + 1 times, whatever  *)
(* the width of unsigned int, unless repetition is its largest value.       *)
THEOREM AllRepetitionsRun == Spec => []RepetitionsComplete
<1>1. IInv => RepetitionsComplete
  BY TestCaseConstants
     DEF IInv, RepetitionInv, RepetitionsComplete, TypeOK, CaseTypeOK, Opened,
         UserCode
<1>. QED  BY <1>1, Invariance, PTL

-----------------------------------------------------------------------------
(* The refinement of TestRun: every action is an abstract one or a stutter. *)

(* Initially no test is open and nothing was counted.                       *)
LEMMA InitContract == Init => Contract!Init
  BY DEF Init, ResultInit, CaseInit, Contract!Init, Opened, UserCode, Counters

(* Every step of a test run is allowed by the contract.                     *)
LEMMA StepContract == IInv /\ [RunStep]_vars => [Contract!Next]_(Contract!vars)
<1>. SUFFICES ASSUME IInv, [RunStep]_vars
              PROVE  [Contract!Next]_(Contract!vars)
  OBVIOUS
<1>. USE TestCaseConstants
     DEF IInv, Locations, Opened, UserCode, Contract!Next, Contract!vars
<1>t. /\ ResultTypeOK /\ CaseTypeOK
      /\ pc \in Opened \cup {"startTest"} =>
             running \in Tests /\ running # NoTest
      /\ NoTest \notin Tests
  BY DEF TypeOK
<1>1. ASSUME NEW t \in Tests, Enter(t) PROVE UNCHANGED Contract!vars
  BY <1>1 DEF Enter, resultVars
<1>2. CASE StartTest
  BY <1>t, <1>2, StartTestCounts DEF StartTest, Contract!Start
<1>3. CASE Loop
  BY <1>t, <1>3 DEF Loop, resultVars
<1>4. CASE EndTest
  BY <1>t, <1>4, EndTestCounts
     DEF EndTest, VerdictInv, VerdictExplained, CaseTypeOK, Contract!Finish,
         Contract!Count
<1>5. CASE EndEarly
  BY <1>t, <1>5, EndTestCounts
     DEF EndEarly, VerdictInv, VerdictExplained, CaseTypeOK, Contract!Finish,
         Contract!Count
<1>6. CASE SetupSucceeds
  BY <1>t, <1>6 DEF SetupSucceeds, resultVars
<1>7. CASE SetupFails
  BY <1>t, <1>7, AddToMarks DEF SetupFails, Kinds, Contract!Report
<1>8. CASE BodyReturns
  BY <1>t, <1>8 DEF BodyReturns, resultVars
<1>9. CASE TearDownReturns
  BY <1>t, <1>9 DEF TearDownReturns, resultVars
<1>10. CASE CheckFails
  BY <1>t, <1>10, AddToMarks DEF CheckFails, Kinds, Contract!Report
<1>11. CASE Throws
  BY <1>t, <1>11, AddToMarks
     DEF Throws, Catch, AfterCatch, Kinds, Contract!Report
<1>12. CASE Die
  BY <1>t, <1>12 DEF Die, resultVars, Contract!Die
<1>13. CASE CrashCaught
  BY <1>t, <1>13, AddToMarks, EndTestCounts
     DEF CrashCaught, run_signal_handler, AfterCatch, Kinds, CaseTypeOK,
         Contract!CrashRecorded, Contract!Count
<1>14. ASSUME NEW t \in Tests, Interrupt(t)
       PROVE  Contract!Die \/ UNCHANGED Contract!vars
  BY <1>t, <1>14 DEF Interrupt, interrupt, resultVars, Contract!Die
<1>15. CASE UNCHANGED vars
  BY <1>15 DEF vars, resultVars, caseVars
<1>. QED
  BY <1>1, <1>2, <1>3, <1>4, <1>5, <1>6, <1>7, <1>8, <1>9, <1>10, <1>11,
     <1>12, <1>13, <1>14, <1>15
     DEF RunStep, CaseStep, CaseProgress

(* However the test bodies behave, and whenever they are interrupted, the   *)
(* events that reach the listeners keep the contract of TestRun.            *)
THEOREM RunsKeepContract == Spec => ImplementsContract
  BY Invariance, InitContract, StepContract, NextIsRunStep, PTL
     DEF Spec, ImplementsContract, Contract!Spec
===============================================================================
