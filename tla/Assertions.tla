------------------------------ MODULE Assertions ------------------------------
(***************************************************************************)
(* The assertion macros a test body calls, down to what Asserter does.  A  *)
(* condition is a C++ expression of one or two integer operands; a macro   *)
(* that negates it writes ! in front of its text.                          *)
(***************************************************************************)
EXTENDS Integers

Operands == 0 .. 2
Conditions == [op : {"value", "||", "&&", "<", "=="}, a : Operands, b : Operands]

Not(v) == IF v = 0 THEN 1 ELSE 0

(* The value of the expression as written: true when not 0.                 *)
IsTrue(c) ==
    \/ c.op = "value" /\ c.a # 0
    \/ c.op = "||" /\ (c.a # 0 \/ c.b # 0)
    \/ c.op = "&&" /\ c.a # 0 /\ c.b # 0
    \/ c.op = "<" /\ c.a < c.b
    \/ c.op = "==" /\ c.a = c.b

(* ! binds tighter than any of the operators: it takes the first operand.   *)
NegatedText(c) == IsTrue([c EXCEPT !.a = Not(@)])

Throwing == {"ASSERT_FAIL", "ASSERT_FAIL_IF_TRUE", "ASSERT_FAIL_IF_FALSE",
             "ASSERT_ERROR", "ASSERT_ERROR_IF_TRUE", "ASSERT_ERROR_IF_FALSE"}
IfTrue == {"ASSERT_FAIL_IF_TRUE", "ASSERT_ERROR_IF_TRUE", "TEST_FAIL_IF_TRUE"}
Recording == {"TEST_REPORT", "TEST_FAIL_IF_TRUE", "TEST_FAIL_IF_FALSE", "TEST_CHECK"}
Macros == Throwing \cup Recording

Swapped(macro, c) ==   \* mutant
    IF macro \in IfTrue THEN IsTrue(c) ELSE NegatedText(c)

(* The bool the macro passes to Asserter, false when it passes none.        *)
Condition(macro, c) ==
    /\ macro \notin {"ASSERT_FAIL", "ASSERT_ERROR"}
    /\ IF macro \in IfTrue THEN NegatedText(c) ELSE IsTrue(c)

Exception(macro) ==
    IF macro \in {"ASSERT_FAIL", "ASSERT_FAIL_IF_TRUE", "ASSERT_FAIL_IF_FALSE"}
    THEN "throws failure" ELSE "throws error"

(* Inside a class that is no TestCase the recording macros have nobody to   *)
(* report to.                                                               *)
Outcome(macro, c, inTestCase) ==
    IF macro \in Throwing
    THEN IF Condition(macro, c) THEN "none" ELSE Exception(macro)
    ELSE IF ~inTestCase THEN "throws error"
    ELSE CASE macro = "TEST_REPORT" -> "report"
           [] macro = "TEST_CHECK" -> IF Condition(macro, c) THEN "report" ELSE "failure"
           [] OTHER -> IF Condition(macro, c) THEN "none" ELSE "failure"

Fails(outcome) == outcome \notin {"none", "report"}
===============================================================================
