-------------------------------- MODULE MCUnits --------------------------------
(* Two tests and two suites, the crash handler blaming the second test;     *)
(* argv of three entries; lists of up to four objects.                      *)
EXTENDS Units

CONSTANTS t1, t2, s1, s2, o1, o2, o3, o4

MCTests == {t1, t2}
MCSuites == {s1, s2}
MCObjects == {o1, o2, o3, o4}
===============================================================================
