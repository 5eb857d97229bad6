-------------------------------- MODULE Units --------------------------------
(***************************************************************************)
(* The sequential parts of the framework, each fed with every small input: *)
(* the outputters with the events of a session, the argument parser with a *)
(* text, the assertion macros with a condition and the test lists with     *)
(* calls.  One part at a time grows its input, one event, character or     *)
(* call per step.                                                          *)
(***************************************************************************)
EXTENDS Outputters, Arguments, Assertions, Registry

CONSTANT MaxText   \* bound on the length of a parameter text

VARIABLES
    unit,    \* the part at work
    text,    \* the parameter text so far
    check    \* the macro call looked at

unitVars == <<streamVars, registryVars, unit, text, check>>

NoCheck == [macro |-> "TEST_REPORT", cond |-> [op |-> "value", a |-> 0, b |-> 0],
            inTestCase |-> TRUE]
Checks == [macro : Macros, cond : Conditions, inTestCase : BOOLEAN]

UnitsInit ==
    /\ unit \in {"outputters", "arguments", "assertions", "registry"}
    /\ StreamInit /\ RegistryInit
    /\ text = <<>> /\ check = NoCheck

SessionGoesOn ==
    /\ unit = "outputters"
    /\ StreamStep
    /\ UNCHANGED <<registryVars, unit, text, check>>

TextGrows ==
    /\ unit = "arguments" /\ Len(text) < MaxText
    /\ \E c \in Characters : text' = Append(text, c)
    /\ UNCHANGED <<streamVars, registryVars, unit, check>>

MacroIsCalled ==
    /\ unit = "assertions" /\ check = NoCheck
    /\ check' \in Checks
    /\ UNCHANGED <<streamVars, registryVars, unit, text>>

ListsChange ==
    /\ unit = "registry"
    /\ RegistryNext
    /\ UNCHANGED <<streamVars, unit, text, check>>

UnitsNext == SessionGoesOn \/ TextGrows \/ MacroIsCalled \/ ListsChange

UnitsSpec == UnitsInit /\ [][UnitsNext]_unitVars

-----------------------------------------------------------------------------
(* Every parameter text is parsed as a reader of its quotes expects, and    *)
(* the terminator written after the arguments fits: always for a test, and  *)
(* for a fixture with fewer words than argv has entries (Arguments.cpp:     *)
(* 30-92, TestCase.cpp:144-151, FixtureManager.cpp:46-53).                  *)
ParameterIsParsed ==
    LET argc == Len(parse(text)) IN
    /\ ParsesLikeQuoting(text)
    /\ TerminatorFits(argc, TestCaseRoom)
    /\ Cardinality(WordStarts(text)) < MaxArgs - 1 =>
          TerminatorFits(argc, FixtureRoom)

(* A macro does what its comment documents, for conditions that are one     *)
(* operand: an ASSERT_FAIL throws a failure and an ASSERT_ERROR an error,   *)
(* and nothing else does but a recording macro with no TestCase to report   *)
(* to; a TEST macro records its failure and does not throw, and only        *)
(* TEST_REPORT and a TEST_CHECK that holds report their message             *)
(* (TestAssert.h:49-192, Asserter.cpp:31-113).                              *)
MacrosDecide ==
    LET m == check.macro
        done == Outcome(m, check.cond, check.inTestCase)
        outside == m \in Recording /\ ~check.inTestCase
        failed == \/ m \in {"ASSERT_FAIL", "ASSERT_ERROR"}
                  \/ m \in IfTrue /\ IsTrue(check.cond)
                  \/ m \notin IfTrue \cup {"TEST_REPORT"} /\ ~IsTrue(check.cond)
        errors == {"ASSERT_ERROR", "ASSERT_ERROR_IF_TRUE", "ASSERT_ERROR_IF_FALSE"}
    IN  m \notin IfTrue \/ check.cond.op = "value" \/ outside =>
        /\ done = "throws failure" <=> m \in Throwing \ errors /\ failed
        /\ done = "throws error" <=> outside \/ (m \in errors /\ failed)
        /\ done = "failure" <=> m \in Recording /\ ~outside /\ failed
        /\ done = "report" <=>
              /\ m \in {"TEST_REPORT", "TEST_CHECK"}
              /\ ~outside /\ ~failed

(* What TestAssert.h says of the conditional macros: "If this condition     *)
(* evaluates to true then the test failed."  The macros write !condition    *)
(* without parentheses (TestAssert.h:63-67, 99-103, 162-169).               *)
TrueConditionFails ==
    check.macro \in IfTrue /\ IsTrue(check.cond) =>
        Fails(Outcome(check.macro, check.cond, check.inTestCase))
===============================================================================
