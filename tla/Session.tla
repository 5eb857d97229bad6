-------------------------------- MODULE Session --------------------------------
(***************************************************************************)
(* What one run of robottestingframework-testrunner promises to the        *)
(* listeners and, through the collector's counters, to the caller of the   *)
(* program.                                                                *)
(*                                                                         *)
(*   - events nest: a suite is opened only between the runner's start and  *)
(*     end, a test inside the runner or one suite, and every end event     *)
(*     closes what was opened last;                                        *)
(*   - a test is counted as passed exactly when nothing bad was recorded   *)
(*     for it while it was open;                                           *)
(*   - a suite is counted as passed only when nothing bad was recorded for *)
(*     it and none of its tests was counted as failed;                     *)
(*   - a handled crash may add one end event of any verdict ("extra");     *)
(*   - the process exits with success only from outside every scope and    *)
(*     only when no failure was ever counted.                              *)
(***************************************************************************)
EXTENDS Naturals, Sequences

CONSTANTS Tests, Suites, Runner

VARIABLES
    status,       \* "alive", "dead", "success" or "failure"
    scope,        \* what is open, outermost first
    testClean,    \* nothing bad recorded for the open test
    suiteClean,   \* nothing bad recorded for the open suite, no test failed
    count         \* the collector's counters, and "extra"

vars == <<status, scope, testClean, suiteClean, count>>

Counts == {"nTests", "nPasses", "nFailures",
           "nTestSuites", "nSuitePasses", "nSuiteFailures", "extra"}

Init ==
    /\ status = "alive"
    /\ scope = <<>>
    /\ testClean = TRUE /\ suiteClean = TRUE
    /\ count = [c \in Counts |-> 0]

Alive == status = "alive"
Inner == scope[Len(scope)]
InScope(X) == scope # <<>> /\ Inner \in X
Add(C) == count' = [c \in Counts |-> count[c] + IF c \in C THEN 1 ELSE 0]
TestVerdict(ok) == IF ok THEN "nPasses" ELSE "nFailures"

StartRunner ==
    /\ Alive /\ scope = <<>>
    /\ scope' = <<Runner>>
    /\ UNCHANGED <<status, testClean, suiteClean, count>>

StartSuite(s) ==
    /\ Alive /\ InScope({Runner})
    /\ scope' = Append(scope, s)
    /\ suiteClean' = TRUE
    /\ Add({"nTestSuites"})
    /\ UNCHANGED <<status, testClean>>

StartTest(t) ==
    /\ Alive /\ InScope({Runner} \cup Suites)
    /\ scope' = Append(scope, t)
    /\ testClean' = TRUE
    /\ Add({"nTests"})
    /\ UNCHANGED <<status, suiteClean>>

(* Bad news for whatever is open.                                           *)
Trouble ==
    /\ Alive /\ InScope(Tests \cup Suites)
    /\ IF Inner \in Tests
       THEN testClean' = FALSE /\ UNCHANGED suiteClean
       ELSE suiteClean' = FALSE /\ UNCHANGED testClean
    /\ UNCHANGED <<status, scope>>

BadNews == Trouble /\ UNCHANGED count

(* A crash that was handled: bad news, and an end event too many.           *)
Crash(ok) ==
    /\ Trouble
    /\ count["nTests"] > 0
    /\ Add({"extra", TestVerdict(ok)})

Close == scope' = SubSeq(scope, 1, Len(scope) - 1)

EndTest ==
    /\ Alive /\ InScope(Tests)
    /\ Close
    /\ Add({TestVerdict(testClean)})
    /\ suiteClean' = IF Len(scope) = 3 THEN suiteClean /\ testClean
                                       ELSE suiteClean
    /\ testClean' = TRUE
    /\ UNCHANGED status

EndSuite(ok) ==
    /\ Alive /\ InScope(Suites)
    /\ ok => suiteClean
    /\ Close
    /\ Add({IF ok THEN "nSuitePasses" ELSE "nSuiteFailures"})
    /\ suiteClean' = TRUE
    /\ UNCHANGED <<status, testClean>>

EndRunner ==
    /\ Alive /\ InScope({Runner})
    /\ Close
    /\ UNCHANGED <<status, testClean, suiteClean, count>>

Exit ==
    /\ Alive /\ scope = <<>>
    /\ status' = IF count["nFailures"] = 0 /\ count["nSuiteFailures"] = 0
                 THEN "success" ELSE "failure"
    /\ UNCHANGED <<scope, testClean, suiteClean, count>>

(* The process is killed, or kills itself when it is interrupted too often. *)
Abort ==
    /\ Alive
    /\ status' \in {"dead", "failure"}
    /\ scope' = <<>> /\ testClean' = TRUE /\ suiteClean' = TRUE
    /\ UNCHANGED count

Next ==
    \/ StartRunner \/ EndRunner \/ EndTest \/ BadNews \/ Exit \/ Abort
    \/ \E s \in Suites : StartSuite(s)
    \/ \E t \in Tests : StartTest(t)
    \/ \E ok \in BOOLEAN : EndSuite(ok) \/ Crash(ok)

Spec == Init /\ [][Next]_vars
===============================================================================
