------------------------------ MODULE MCTestCase ------------------------------
(* Two tests, of which t2 was constructed last: t1 repeats its body once,   *)
(* t2 has the repetition a suite file's "-1" is converted to, for a 2-bit   *)
(* unsigned int.  Three runs in all, so that a test can be run again and a  *)
(* second crash can meet what the first one left behind.                    *)
EXTENDS TestCase, TLC

CONSTANTS t1, t2

MCTests == {t1, t2}
MCSuites == {}
MCUIntMax == 3
MCRepetition == (t1 :> 1) @@ (t2 :> MCUIntMax)
===============================================================================
