------------------------------ MODULE TestResult ------------------------------
(***************************************************************************)
(* What the framework's listeners see of a run.  TestResult forwards every *)
(* event to every listener, so one listener stands for all of them: the    *)
(* TestResultCollector, whose counters decide the runner's exit code.      *)
(*                                                                         *)
(* collector  the six counters of TestResultCollector.                     *)
(* marks      the collector's event list, abstracted to what a verdict     *)
(*            must agree with: for each test or suite, the kinds of bad    *)
(*            news ("failure", "error") recorded for it since its last     *)
(*            start event.  Reports carry no verdict and are left out.     *)
(***************************************************************************)
EXTENDS Naturals

CONSTANTS
    Tests,   \* the TestCase objects
    Suites   \* the TestSuite objects

ASSUME DistinctObjects == Tests \cap Suites = {}

VARIABLES collector, marks

resultVars == <<collector, marks>>

Counters == {"nTests", "nPasses", "nFailures",
             "nTestSuites", "nSuitePasses", "nSuiteFailures"}

Kinds == {"failure", "error"}

ResultTypeOK ==
    /\ collector \in [Counters -> Nat]
    /\ marks \in [Tests \cup Suites -> SUBSET Kinds]

ResultInit ==
    /\ collector = [c \in Counters |-> 0]
    /\ marks = [x \in Tests \cup Suites |-> {}]

-----------------------------------------------------------------------------
(* The events.  The test or suite is asked for its verdict (succeeded) when *)
(* the end event is recorded, and "ok" is the answer it gives then.         *)

Bump(c) == collector' = [collector EXCEPT ![c] = @ + 1]

startTest(t) ==
    /\ Bump("nTests")
    /\ marks' = [marks EXCEPT ![t] = {}]

endTest(ok) == Bump(IF ok THEN "nPasses" ELSE "nFailures")

startTestSuite(s) ==
    /\ Bump("nTestSuites")
    /\ marks' = [marks EXCEPT ![s] = {}]

endTestSuite(ok) == Bump(IF ok THEN "nSuitePasses" ELSE "nSuiteFailures")

(* addError and addFailure for every member of X at once: the crash handler  *)
(* blames one test and the catch clause another in the same step.            *)
AddTo(X, kind) ==
    marks' = [x \in Tests \cup Suites |->
                 IF x \in X THEN marks[x] \cup {kind} ELSE marks[x]]
===============================================================================
