------------------------------ MODULE RubyLoader ------------------------------
(***************************************************************************)
(* RubyPluginLoaderImpl: one virtual machine for all Ruby tests, set up by *)
(* every open() and cleaned up by every destructor.  All test files define *)
(* the one class TestCase, and its constant TESTCASE_IMPL names the test   *)
(* the callbacks go to.                                                    *)
(***************************************************************************)
EXTENDS LoadedTests

VARIABLES
    rubyVM,          \* "none", "up", or "cleaned" once ruby_cleanup was called
    TESTCASE_IMPL    \* the test it names

rubyVars == <<rubyVM, TESTCASE_IMPL>>

RubyInit == rubyVM = "none" /\ TESTCASE_IMPL = Nobody

(* ruby_init() does nothing once there was a machine.                       *)
ruby_init == rubyVM' = IF rubyVM = "none" THEN "up" ELSE rubyVM

(* A new object overwrites the constant.                                    *)
RubyOpens(l) == ruby_init /\ TESTCASE_IMPL' = l

(* The file cannot be loaded: open() returns at once, and the machine stays *)
(* up for the tests loaded before.                                          *)
RubyFailsAndCleansUp == rubyVM' = "cleaned" /\ UNCHANGED TESTCASE_IMPL  \* mutant
RubyFails == ruby_init /\ UNCHANGED TESTCASE_IMPL

(* The destructor, opened or not.                                           *)
RubyCloses == rubyVM' = "cleaned" /\ UNCHANGED TESTCASE_IMPL

getImpFromRuby == TESTCASE_IMPL
===============================================================================
