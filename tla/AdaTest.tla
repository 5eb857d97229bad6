------------------------------- MODULE AdaTest -------------------------------
(***************************************************************************)
(* AdaTest.cpp, compiled into a test library: its constructor makes itself *)
(* the one test the Ada code can reach, and nothing undoes that.  The      *)
(* pointer is one per library.  The Ada tests of a session are here the    *)
(* objects of one library, opened several times; those of another library  *)
(* have a pointer of their own and meet these nowhere.                     *)
(***************************************************************************)
EXTENDS LoadedTests

VARIABLE testInstance    \* the object of this library constructed last

AdaInit == testInstance = Nobody

AdaConstructed(l) == testInstance' = l
===============================================================================
