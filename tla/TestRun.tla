-------------------------------- MODULE TestRun --------------------------------
(***************************************************************************)
(* What running one test after another promises to the listeners, however  *)
(* a test body behaves.                                                    *)
(*                                                                         *)
(*   - a start event opens a test, and only when no test is open;          *)
(*   - the open test is closed by one end event, which counts it as passed *)
(*     exactly when no failure or error was recorded for it meanwhile;     *)
(*   - a test that raises SIGSEGV or SIGABRT may add one more end event,   *)
(*     of whatever verdict, before its own: "extra" counts these;          *)
(*   - the process may die, after which nothing is recorded.               *)
(***************************************************************************)
EXTENDS Naturals

CONSTANTS Tests, NoTest

VARIABLES alive, open, reported, passes, failures, starts, extra

vars == <<alive, open, reported, passes, failures, starts, extra>>

Init ==
    /\ alive = TRUE
    /\ open = NoTest
    /\ reported = FALSE
    /\ passes = 0 /\ failures = 0 /\ starts = 0 /\ extra = 0

Count(ok) ==
    IF ok THEN passes' = passes + 1 /\ UNCHANGED failures
          ELSE failures' = failures + 1 /\ UNCHANGED passes

Start(t) ==
    /\ alive /\ open = NoTest
    /\ open' = t
    /\ starts' = starts + 1
    /\ reported' = FALSE
    /\ UNCHANGED <<alive, passes, failures, extra>>

Report ==
    /\ alive /\ open # NoTest
    /\ reported' = TRUE
    /\ UNCHANGED <<alive, open, passes, failures, starts, extra>>

Finish ==
    /\ alive /\ open # NoTest
    /\ open' = NoTest
    /\ reported' = FALSE
    /\ Count(~reported)
    /\ UNCHANGED <<alive, starts, extra>>

CrashRecorded ==
    /\ alive /\ open # NoTest
    /\ reported' = TRUE
    /\ extra' = extra + 1
    /\ \E ok \in BOOLEAN : Count(ok)
    /\ UNCHANGED <<alive, open, starts>>

Die ==
    /\ alive
    /\ alive' = FALSE /\ open' = NoTest /\ reported' = FALSE
    /\ UNCHANGED <<passes, failures, starts, extra>>

Next ==
    \/ \E t \in Tests : Start(t)
    \/ Report
    \/ Finish
    \/ CrashRecorded
    \/ Die

Spec == Init /\ [][Next]_vars
===============================================================================
