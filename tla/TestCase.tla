------------------------------- MODULE TestCase -------------------------------
(***************************************************************************)
(* TestCase::run(TestResult&) and what can happen to it: the user's        *)
(* setup(), run() and tearDown() return, fail assertions, throw or crash,  *)
(* and interrupt() is called on the object from a signal handler, between  *)
(* any two steps.  The main thread is the only thread that runs tests, so  *)
(* one location "pc" and one "running" test describe it.                   *)
(*                                                                         *)
(* The user's code is the environment: each of its calls may end in any of *)
(* the ways the framework distinguishes.                                   *)
(***************************************************************************)
EXTENDS TestResult

CONSTANTS
    NoTest,            \* "no test": current == nullptr
    Repetition,        \* Repetition[t]: the test's repetition member
    UIntMax,           \* the largest unsigned int
    LastConstructed,   \* _currentTestCase: the TestCase constructed last
    CrashSignals       \* the fatal signals user code raises in the instance;
                       \* with none of them it throws only std::exceptions

ASSUME TestCaseConstants ==
    /\ NoTest \notin Tests \cup Suites
    /\ UIntMax \in Nat \ {0}
    /\ Repetition \in [Tests -> 0 .. UIntMax]
    /\ LastConstructed \in Tests
    /\ CrashSignals \subseteq {"SIGSEGV", "SIGABRT"}

VARIABLES
    pc,           \* where the main thread is in TestCase::run
    running,      \* the test whose run() is active
    rep,          \* the loop counter of TestCase::run, an unsigned int
    successful,   \* per test: the member
    interrupted,  \* per test: the member
    attached,     \* per test: result != nullptr
    handler,      \* the disposition of SIGSEGV and SIGABRT
    blocked       \* fatal signals left blocked by a throw out of their handler

\* Observed by the properties only.
VARIABLES
    bodies,       \* run() calls of the active run that returned, up to the
                  \* number a run that terminates can reach, UIntMax + 1
    crashEnds     \* endTest events issued by the crash handler

caseVars == <<pc, running, rep, successful, interrupted, attached,
              handler, blocked, bodies, crashEnds>>
vars == <<resultVars, caseVars>>

UserCode == {"setup", "body", "tearDown"}
Opened == UserCode \cup {"loop", "endTest", "endEarly"}
Locations == Opened \cup {"idle", "startTest", "dead"}

CaseTypeOK ==
    /\ pc \in Locations
    /\ running \in Tests \cup {NoTest}
    /\ rep \in 0 .. UIntMax
    /\ successful \in [Tests -> BOOLEAN]
    /\ interrupted \in [Tests -> BOOLEAN]
    /\ attached \in [Tests -> BOOLEAN]
    /\ handler \in {"SIG_DFL", "run_signal_handler"}
    /\ blocked \subseteq {"SIGSEGV", "SIGABRT"}
    /\ bodies \in 0 .. UIntMax + 1
    /\ crashEnds \in Nat

(* Types, and that a test is running exactly between Enter and its end.     *)
TypeOK ==
    /\ ResultTypeOK
    /\ CaseTypeOK
    /\ pc \in Opened \cup {"startTest"} => running \in Tests

CaseInit ==
    /\ pc = "idle"
    /\ running = NoTest
    /\ rep = 0
    /\ successful = [t \in Tests |-> TRUE]
    /\ interrupted = [t \in Tests |-> FALSE]
    /\ attached = [t \in Tests |-> FALSE]
    /\ handler = "SIG_DFL"
    /\ blocked = {}
    /\ bodies = 0
    /\ crashEnds = 0

-----------------------------------------------------------------------------
(* The framework's own steps.                                               *)

EnterKeepsVerdict(t) ==    \* mutant: successful is not reset
    /\ pc = "idle"
    /\ pc' = "startTest"
    /\ running' = t
    /\ rep' = 0 /\ bodies' = 0
    /\ interrupted' = [interrupted EXCEPT ![t] = FALSE]
    /\ attached' = [attached EXCEPT ![t] = TRUE]
    /\ handler' = "run_signal_handler"
    /\ UNCHANGED <<resultVars, successful, blocked, crashEnds>>

(* The prologue of run(): the flags are reset and the handlers installed.   *)
Enter(t) ==
    /\ pc = "idle"
    /\ pc' = "startTest"
    /\ running' = t
    /\ rep' = 0 /\ bodies' = 0
    /\ successful' = [successful EXCEPT ![t] = TRUE]
    /\ interrupted' = [interrupted EXCEPT ![t] = FALSE]
    /\ attached' = [attached EXCEPT ![t] = TRUE]
    /\ handler' = "run_signal_handler"
    /\ UNCHANGED <<resultVars, blocked, crashEnds>>

StartTest ==
    /\ pc = "startTest"
    /\ startTest(running)
    /\ pc' = "setup"
    /\ UNCHANGED <<running, rep, successful, interrupted, attached,
                   handler, blocked, bodies, crashEnds>>

(* mutant: < for <= *)
LoopOffByOne(t) == rep < Repetition[t] /\ successful[t] /\ ~interrupted[t]
LoopGoesOn(t) == rep <= Repetition[t] /\ successful[t] /\ ~interrupted[t]

Loop ==
    /\ pc = "loop"
    /\ pc' = IF LoopGoesOn(running) THEN "body" ELSE "tearDown"
    /\ UNCHANGED <<resultVars, running, rep, successful, interrupted, attached,
                   handler, blocked, bodies, crashEnds>>

(* The common end: the handlers are reset, then the end event is sent.      *)
EndTest ==
    /\ pc = "endTest"
    /\ endTest(successful[running])
    /\ handler' = "SIG_DFL"
    /\ pc' = "idle"
    /\ running' = NoTest
    /\ UNCHANGED <<marks, rep, successful, interrupted, attached,
                   blocked, bodies, crashEnds>>

EndEarlySilent ==    \* mutant: the early return sends no end event
    /\ pc = "endEarly"
    /\ pc' = "idle"
    /\ running' = NoTest
    /\ UNCHANGED <<resultVars, rep, successful, interrupted, attached,
                   handler, blocked, bodies, crashEnds>>

(* The early return after a failed setup(): the handlers stay installed.    *)
EndEarly ==
    /\ pc = "endEarly"
    /\ endTest(successful[running])
    /\ pc' = "idle"
    /\ running' = NoTest
    /\ UNCHANGED <<marks, rep, successful, interrupted, attached,
                   handler, blocked, bodies, crashEnds>>

-----------------------------------------------------------------------------
(* The user's code.                                                         *)

(* Asserter::testFail and testCheck on a false condition: the test is        *)
(* failed, a failure is recorded, and the user's code goes on.              *)
CheckFails ==
    /\ pc \in UserCode
    /\ successful' = [successful EXCEPT ![running] = FALSE]
    /\ AddTo({running}, "failure")
    /\ UNCHANGED <<collector, pc, running, rep, interrupted, attached,
                   handler, blocked, bodies, crashEnds>>

SetupSucceeds ==
    /\ pc = "setup"
    /\ pc' = "loop"
    /\ UNCHANGED <<resultVars, running, rep, successful, interrupted, attached,
                   handler, blocked, bodies, crashEnds>>

SetupFails ==
    /\ pc = "setup"
    /\ AddTo({running}, "error")
    /\ successful' = [successful EXCEPT ![running] = FALSE]
    /\ pc' = "endEarly"
    /\ UNCHANGED <<collector, running, rep, interrupted, attached,
                   handler, blocked, bodies, crashEnds>>

RepWithoutIncrement == rep   \* mutant
RepUnbounded == rep + 1      \* mutant: an unsigned int that never wraps
NextRep == (rep + 1) % (UIntMax + 1)

BodyReturns ==
    /\ pc = "body"
    /\ rep' = NextRep
    /\ bodies' = IF bodies > UIntMax THEN bodies ELSE bodies + 1
    /\ pc' = "loop"
    /\ UNCHANGED <<resultVars, running, successful, interrupted, attached,
                   handler, blocked, crashEnds>>

TearDownReturns ==
    /\ pc = "tearDown"
    /\ pc' = "endTest"
    /\ UNCHANGED <<resultVars, running, rep, successful, interrupted, attached,
                   handler, blocked, bodies, crashEnds>>

(* The location a catch clause continues at: tearDown() is still called     *)
(* after an exception in setup() or run(), nothing after one in tearDown(). *)
AfterCatch == IF pc = "tearDown" THEN "endTest" ELSE "tearDown"

(* mutant: the second try block forgets successful = false *)
TearDownCatchKeepsVerdict(kind) ==
    /\ successful' = IF pc = "tearDown" THEN successful
                     ELSE [successful EXCEPT ![running] = FALSE]
    /\ AddTo({running}, kind)
    /\ pc' = AfterCatch

(* The catch clauses.  Only the first try block tells a failure from an     *)
(* error: in tearDown() a TestFailureException is a std::exception.         *)
Catch(kind) ==
    /\ successful' = [successful EXCEPT ![running] = FALSE]
    /\ AddTo({running}, kind)
    /\ pc' = AfterCatch

Throws ==
    /\ pc \in UserCode
    /\ \E kind \in IF pc = "tearDown" THEN {"error"} ELSE Kinds : Catch(kind)
    /\ UNCHANGED <<collector, running, rep, interrupted, attached,
                   handler, blocked, bodies, crashEnds>>

-----------------------------------------------------------------------------
(* Crashes.                                                                 *)

(* The process ends: the default disposition of a fatal signal, a signal    *)
(* that is blocked, a null result in the handler, an exception no clause    *)
(* catches, or std::terminate while the handler's exception is propagated.  *)
Die ==
    /\ pc \in UserCode
    /\ CrashSignals # {}
    /\ pc' = "dead"
    /\ UNCHANGED <<resultVars, running, rep, successful, interrupted, attached,
                   handler, blocked, bodies, crashEnds>>

(* abort() unblocks SIGABRT before it raises it.                            *)
Handled(sig) ==
    /\ handler = "run_signal_handler"
    /\ sig = "SIGABRT" \/ sig \notin blocked
    /\ attached[LastConstructed]

(* mutant: the handler's own error event is forgotten *)
HandlerIsSilent(sig) ==
    /\ endTest(successful[LastConstructed])
    /\ AddTo({}, "error")
    /\ crashEnds' = crashEnds + 1
    /\ handler' = "SIG_DFL"
    /\ blocked' = blocked \cup {sig}

(* run_signal_handler: an error and an end event for the test constructed   *)
(* last, whichever is running; then it throws, and the catch clause adds    *)
(* an error to the running test.  The signal stays blocked.                 *)
run_signal_handler(sig) ==
    /\ endTest(successful[LastConstructed])
    /\ AddTo({LastConstructed, running}, "error")
    /\ crashEnds' = crashEnds + 1
    /\ handler' = "SIG_DFL"
    /\ blocked' = blocked \cup {sig}

CrashCaught ==
    /\ pc \in UserCode
    /\ \E sig \in CrashSignals : Handled(sig) /\ run_signal_handler(sig)
    /\ successful' = [successful EXCEPT ![running] = FALSE]
    /\ pc' = AfterCatch
    /\ UNCHANGED <<running, rep, interrupted, attached, bodies>>

-----------------------------------------------------------------------------
(* TestCase::interrupt(), called on any test object: it sets the flag and   *)
(* reports through result, which is null until the first run.  The process  *)
(* dies of it even with crash handlers left over from another test: the     *)
(* handler reports through the result of the test constructed last, and     *)
(* where an interrupt can reach a test without a result that one has none   *)
(* either (ConstructedInOrder in TestRunner).                               *)
interrupt(t) ==
    IF attached[t]
    THEN /\ interrupted' = [interrupted EXCEPT ![t] = TRUE]
         /\ UNCHANGED pc
    ELSE /\ pc' = "dead"
         /\ UNCHANGED interrupted

Interrupt(t) ==
    /\ pc # "dead"
    /\ interrupt(t)
    /\ UNCHANGED <<resultVars, running, rep, successful, attached,
                   handler, blocked, bodies, crashEnds>>

-----------------------------------------------------------------------------
(* The steps of the main thread inside TestCase::run.  A failed check leaves *)
(* it where it is; every other step brings the run closer to its end.       *)
CaseProgress ==
    \/ StartTest \/ Loop \/ EndTest \/ EndEarly
    \/ SetupSucceeds \/ SetupFails \/ BodyReturns \/ TearDownReturns
    \/ Throws
    \/ Die \/ CrashCaught

CaseStep == CaseProgress \/ CheckFails

(* A caller that runs the tests in any order, each as often as it likes, at *)
(* most MaxStarts runs in all, and interrupts any of them at any time.      *)
CONSTANT MaxStarts

Next ==
    \/ \E t \in Tests : collector["nTests"] < MaxStarts /\ Enter(t)
    \/ CaseStep
    \/ \E t \in Tests : Interrupt(t)

Init == ResultInit /\ CaseInit

(* Every call of the user's code returns.                                   *)
Spec == Init /\ [][Next]_vars /\ WF_vars(CaseProgress)

-----------------------------------------------------------------------------
(* While a test is open its verdict agrees with the events recorded for it: *)
(* it is unsuccessful exactly when a failure or an error was recorded since *)
(* its start event, whichever call of the user's code, catch clause or      *)
(* crash put it there (TestCase.cpp:129-208).                               *)
VerdictExplained ==
    pc \in Opened => (successful[running] <=> marks[running] = {})

(* Every started test is counted once as passed or as failed, except that   *)
(* each crash handled by run_signal_handler counts one test twice           *)
(* (TestCase.cpp:43-56, TestResultCollector.cpp:102-115).                   *)
CountsBalance ==
    pc # "dead" =>
        collector["nPasses"] + collector["nFailures"]
          + (IF pc \in Opened THEN 1 ELSE 0)
        = collector["nTests"] + crashEnds

(* What TestResultCollector.h:65-84 says of the three counters, "the number *)
(* of test cases", "of failed test cases" and "of passed test cases": once  *)
(* no test is running each test case is counted once.  A crash handled by   *)
(* run_signal_handler breaks it: the test is ended twice.                   *)
TotalsAddUp ==
    pc = "idle" =>
        collector["nPasses"] + collector["nFailures"] = collector["nTests"]

(* A run that ends well and was not interrupted has executed the body       *)
(* repetition + 1 times, and no run executes it more often, unless          *)
(* repetition is the largest unsigned int (TestCase.cpp:169-171).           *)
RepetitionsComplete ==
    pc \in {"tearDown", "endTest"} /\ Repetition[running] < UIntMax =>
        /\ bodies <= Repetition[running] + 1
        /\ successful[running] /\ ~interrupted[running] =>
               bodies = Repetition[running] + 1

(* When every call of the user's code returns, a run comes to its end event *)
(* (or the process dies), unless repetition is the largest unsigned int: a  *)
(* suite file's repetition="-1" becomes that, rep <= repetition never turns *)
(* false, and the loop runs for ever (TestCase.cpp:169, SuiteRunner.cpp:177)*)
RunTerminates ==
    \A t \in Tests :
        (running = t /\ Repetition[t] < UIntMax) ~> pc \in {"idle", "dead"}

(* The events a sequence of test runs sends keep the contract of TestRun.   *)
Contract == INSTANCE TestRun WITH
    alive    <- pc # "dead",
    open     <- IF pc \in Opened THEN running ELSE NoTest,
    reported <- pc \in Opened /\ marks[running] # {},
    passes   <- collector["nPasses"],
    failures <- collector["nFailures"],
    starts   <- collector["nTests"],
    extra    <- crashEnds

ImplementsContract == Contract!Spec
===============================================================================
