----------------------------- MODULE MCTestRunner -----------------------------
(* One suite of one fixture and two tests, then the suite's first test on   *)
(* its own: the same object runs twice.                                     *)
EXTENDS TestRunner, TLC

CONSTANTS t1, t2, s1, f1

MCTests == {t1, t2}
MCSuites == {s1}
MCFixtures == {f1}
MCSuiteTests == s1 :> <<t1, t2>>
MCSuiteFixtures == s1 :> <<f1>>
MCQueue == <<s1, t1>>
MCRepetition == [t \in MCTests |-> 0]
===============================================================================
