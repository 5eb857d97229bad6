------------------------------ MODULE Registry ------------------------------
(***************************************************************************)
(* The lists a run works on: TestRunner's and TestSuite's tests, built and *)
(* changed by their owner before run().                                    *)
(***************************************************************************)
EXTENDS Naturals, SequencesExt, Functions

CONSTANTS Objects   \* Test objects, added and removed in any order

VARIABLES runnerTests, suiteTests

\* Observed by the properties only.
VARIABLES
    asked,      \* the objects asked for, in the order of their first request
    erased      \* TestRunner::removeTest was called since the last reset

registryVars == <<runnerTests, suiteTests, asked, erased>>

RegistryInit ==
    /\ runnerTests = <<>> /\ suiteTests = <<>>
    /\ asked = <<>> /\ erased = FALSE

Appended(list, x) == Append(list, x)   \* mutant: no look for a duplicate
Added(list, x) == IF x \in Range(list) THEN list ELSE Append(list, x)

addTest(x) ==
    /\ runnerTests' = Added(runnerTests, x)
    /\ suiteTests' = Added(suiteTests, x)
    /\ asked' = IF x \in Range(asked) THEN asked ELSE Append(asked, x)
    /\ UNCHANGED erased

(* TestRunner::removeTest erases at 0, then at 1 of what is left, and so on:*)
(* every other test, whichever it was given.                                *)
EveryOther(list) == [i \in 1 .. Len(list) \div 2 |-> list[2 * i]]
Without(list, x) == SelectSeq(list, LAMBDA y : y # x)

removeTest(x) ==
    /\ runnerTests' = EveryOther(runnerTests)
    /\ suiteTests' = Without(suiteTests, x)
    /\ asked' = SelectSeq(asked, LAMBDA y : y # x)
    /\ erased' = TRUE

reset ==
    /\ runnerTests' = <<>> /\ suiteTests' = <<>>
    /\ asked' = <<>> /\ erased' = FALSE

RegistryNext ==
    reset \/ \E x \in Objects : addTest(x) \/ removeTest(x)

(* The suite runs exactly the tests asked for and not removed since, once   *)
(* each and in order; so does a runner nothing was removed from, and after  *)
(* a removal the runner's list still has no test twice                      *)
(* (TestRunner.cpp:41-59, TestSuite.cpp:43-66).                             *)
ListsHoldWhatWasAsked ==
    /\ suiteTests = asked
    /\ ~erased => runnerTests = asked
    /\ IsInjective(runnerTests)
===============================================================================
