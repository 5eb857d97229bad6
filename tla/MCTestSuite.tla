------------------------------ MODULE MCTestSuite ------------------------------
(* One suite of two fixtures and two tests.                                 *)
EXTENDS TestSuite, TLC

CONSTANTS t1, t2, s1, f1, f2

MCTests == {t1, t2}
MCSuites == {s1}
MCFixtures == {f1, f2}
MCSuiteTests == s1 :> <<t1, t2>>
MCSuiteFixtures == s1 :> <<f1, f2>>
MCRepetition == [t \in MCTests |-> 0]
===============================================================================
