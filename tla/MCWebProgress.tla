---------------------------- MODULE MCWebProgress ----------------------------
(* One suite, and one test that may run several times in it and outside it.  *)
EXTENDS WebProgress

CONSTANTS t1, s1

MCTests == {t1}
MCSuites == {s1}
MCSuiteSize == [s \in MCSuites |-> 3]
===============================================================================
