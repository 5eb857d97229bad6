----------------------------- MODULE Units_proofs -----------------------------
(***************************************************************************)
(* What holds of the sequential parts for inputs of any length: every      *)
(* parameter text is parsed as its quotes say, the macros decide as they   *)
(* are documented, the test lists hold what was asked, and the reports     *)
(* tell what happened in the session they are written of.                  *)
(***************************************************************************)
EXTENDS Units, Arguments_proofs

-----------------------------------------------------------------------------
(* The parameter text.                                                      *)

(* The parser is given characters.                                          *)
TextIsRead == text \in Seq(Characters)

LEMMA TextIsCharacters == UnitsSpec => []TextIsRead
<1>. USE DEF TextIsRead
<1>1. UnitsInit => TextIsRead
  BY EmptySeq DEF UnitsInit
<1>2. TextIsRead /\ [UnitsNext]_unitVars => TextIsRead'
  <2>. SUFFICES ASSUME text \in Seq(Characters), [UnitsNext]_unitVars
                PROVE  text' \in Seq(Characters)
    OBVIOUS
  <2>1. CASE TextGrows
    <3>1. PICK c \in Characters : text' = Append(text, c)
      BY <2>1 DEF TextGrows
    <3>. QED  BY <3>1, AppendProperties
  <2>2. CASE SessionGoesOn
    BY <2>2 DEF SessionGoesOn
  <2>3. CASE MacroIsCalled
    BY <2>3 DEF MacroIsCalled
  <2>4. CASE ListsChange
    BY <2>4 DEF ListsChange
  <2>5. CASE UNCHANGED unitVars
    BY <2>5 DEF unitVars
  <2>. QED  BY <2>1, <2>2, <2>3, <2>4, <2>5 DEF UnitsNext
<1>. QED  BY <1>1, <1>2, PTL DEF UnitsSpec

(* Every parameter text, of any length, is parsed as a reader of its quotes *)
(* expects, for an argv of any size, and its terminator fits where the code *)
(* leaves room for it.                                                      *)
THEOREM EveryParameterIsParsed == UnitsSpec => []ParameterIsParsed
<1>1. TextIsRead => ParameterIsParsed
  <2>. SUFFICES ASSUME text \in Seq(Characters) PROVE ParameterIsParsed
    BY DEF TextIsRead
  <2>1. PICK t \in Seq(Characters) : t = text
    OBVIOUS
  <2>2. PICK w \in Nat : w = Cardinality(WordStarts(t))
    BY ParseReads
  <2>3. PICK l \in {0, 1} : l = Lead(t)
    BY LeadIs
  <2>4. PICK n : n = Len(parse(t))
    OBVIOUS
  <2>5. n = IF w + l < MaxArgs THEN w + l ELSE MaxArgs
    BY <2>2, <2>3, <2>4, ParseReads
  <2>6. MaxArgs \in Nat
    BY ArgumentsConstants
  <2>7. n < MaxArgs + 1 /\ (w < MaxArgs - 1 => n < MaxArgs)
    BY <2>5, <2>6
  <2>8. ParsesLikeQuoting(t)
    BY ParseReads
  <2>. QED  BY <2>1, <2>2, <2>4, <2>7, <2>8
            DEF ParameterIsParsed, TerminatorFits, TestCaseRoom, FixtureRoom
<1>. QED  BY <1>1, TextIsCharacters, PTL

-----------------------------------------------------------------------------
(* The macros.                                                              *)

CheckIsCall == check \in Checks

LEMMA CheckIsMacroCall == UnitsSpec => []CheckIsCall
<1>. USE DEF CheckIsCall
<1>1. UnitsInit => CheckIsCall
  BY DEF UnitsInit, NoCheck, Checks, Macros, Throwing, Recording, Conditions,
         Operands
<1>2. CheckIsCall /\ [UnitsNext]_unitVars => CheckIsCall'
  <2>. SUFFICES ASSUME check \in Checks, [UnitsNext]_unitVars
                PROVE  check' \in Checks
    OBVIOUS
  <2>1. CASE SessionGoesOn
    BY <2>1 DEF SessionGoesOn
  <2>2. CASE TextGrows
    BY <2>2 DEF TextGrows
  <2>3. CASE MacroIsCalled
    BY <2>3 DEF MacroIsCalled
  <2>4. CASE ListsChange
    BY <2>4 DEF ListsChange
  <2>5. CASE UNCHANGED unitVars
    BY <2>5 DEF unitVars
  <2>. QED  BY <2>1, <2>2, <2>3, <2>4, <2>5 DEF UnitsNext
<1>. QED  BY <1>1, <1>2, PTL DEF UnitsSpec

LEMMA NegatedValue ==
    ASSUME NEW c \in Conditions, c.op = "value"
    PROVE  NegatedText(c) <=> ~IsTrue(c)
<1>1. PICK n : n = [c EXCEPT !.a = Not(@)]
  OBVIOUS
<1>2. n.op = c.op /\ n.a = Not(c.a)
  BY <1>1 DEF Conditions
<1>3. IsTrue(c) <=> c.a # 0
  BY Zenon DEF IsTrue
<1>4. IsTrue(n) <=> n.a # 0
  BY <1>2, Zenon DEF IsTrue
<1>5. Not(c.a) # 0 <=> c.a = 0
  BY DEF Not
<1>. QED  BY <1>1, <1>2, <1>3, <1>4, <1>5 DEF NegatedText

(* Every call of an assertion macro with a condition of one operand does    *)
(* what the macro's comment documents: it throws a failure or an error,     *)
(* records a failure, reports, or does nothing; and a recording macro       *)
(* outside of a TestCase throws an error, whatever its condition.           *)
THEOREM EveryMacroDecides == UnitsSpec => []MacrosDecide
<1>1. CheckIsCall => MacrosDecide
  <2>. SUFFICES ASSUME check \in Checks PROVE MacrosDecide
    BY DEF CheckIsCall
  <2>1. PICK m \in Macros, c \in Conditions, i \in BOOLEAN :
           m = check.macro /\ c = check.cond /\ i = check.inTestCase
    BY DEF Checks
  <2> DEFINE done == Outcome(m, c, i)
             outside == m \in Recording /\ ~i
             failed == \/ m \in {"ASSERT_FAIL", "ASSERT_ERROR"}
                       \/ m \in IfTrue /\ IsTrue(c)
                       \/ m \notin IfTrue \cup {"TEST_REPORT"} /\ ~IsTrue(c)
             errors == {"ASSERT_ERROR", "ASSERT_ERROR_IF_TRUE",
                        "ASSERT_ERROR_IF_FALSE"}
             holds == Condition(m, c)
  <2>2. SUFFICES ASSUME m \notin IfTrue \/ c.op = "value" \/ outside
                 PROVE  /\ done = "throws failure" <=> m \in Throwing \ errors /\ failed
                        /\ done = "throws error" <=> outside \/ (m \in errors /\ failed)
                        /\ done = "failure" <=> m \in Recording /\ ~outside /\ failed
                        /\ done = "report" <=>
                              /\ m \in {"TEST_REPORT", "TEST_CHECK"}
                              /\ ~outside /\ ~failed
    BY <2>1, Zenon DEF MacrosDecide
  <2>3. m \notin Recording \/ i => (holds <=> (~failed /\ (m # "TEST_REPORT" \/ IsTrue(c))))
    <3>1. CASE m \in IfTrue
      <4>1. CASE m \in Recording /\ ~i
        BY <4>1
      <4>2. CASE c.op = "value"
        <5>1. m \notin {"ASSERT_FAIL", "ASSERT_ERROR"} /\ m # "TEST_REPORT"
          BY <3>1 DEF IfTrue
        <5>2. holds <=> ~IsTrue(c)
          BY <3>1, <4>2, <5>1, NegatedValue, Zenon DEF Condition
        <5>. QED  BY <3>1, <5>1, <5>2, Zenon
      <4>. QED  BY <2>2, <3>1, <4>1, <4>2
    <3>2. CASE m \notin IfTrue
      BY <3>2, Zenon DEF Condition
    <3>. QED  BY <3>1, <3>2
  <2>4. CASE m \in errors
    <3>1. m \in Throwing /\ m \notin Recording /\ m # "TEST_REPORT" /\ m # "TEST_CHECK"
      BY <2>4 DEF Throwing, Recording
    <3>2. done = IF holds THEN "none" ELSE "throws error"
      BY <2>4, <3>1, Zenon DEF Outcome, Exception
    <3>. HIDE DEF done, failed, holds, errors
    <3>. QED  BY <2>3, <2>4, <3>1, <3>2, Zenon
  <2>5. CASE m \in Throwing \ errors
    <3>1. m \notin Recording /\ m # "TEST_REPORT" /\ m # "TEST_CHECK"
      BY <2>5 DEF Throwing, Recording
    <3>2. m \in {"ASSERT_FAIL", "ASSERT_FAIL_IF_TRUE", "ASSERT_FAIL_IF_FALSE"}
      BY <2>5 DEF Throwing
    <3>3. done = IF holds THEN "none" ELSE "throws failure"
      BY <2>5, <3>2, Zenon DEF Outcome, Exception
    <3>. HIDE DEF done, failed, holds, errors
    <3>. QED  BY <2>3, <2>5, <3>1, <3>3, Zenon
  <2>6. CASE m \in Recording
    <3>1. m \notin Throwing /\ m \notin errors
      BY <2>6 DEF Throwing, Recording
    <3>2. CASE ~i
      <4>1. done = "throws error"
        BY <3>1, <3>2, Zenon DEF Outcome
      <4>. HIDE DEF done, failed, errors
      <4>. QED  BY <2>6, <3>1, <3>2, <4>1, Zenon
    <3>3. CASE i /\ m = "TEST_REPORT"
      <4>1. done = "report"
        BY <3>1, <3>3, Zenon DEF Outcome
      <4>2. ~failed
        BY <3>3, Zenon DEF IfTrue
      <4>. HIDE DEF done, failed, errors
      <4>. QED  BY <2>6, <3>1, <3>3, <4>1, <4>2, Zenon
    <3>4. CASE i /\ m = "TEST_CHECK"
      <4>1. done = IF holds THEN "report" ELSE "failure"
        BY <3>1, <3>4, Zenon DEF Outcome
      <4>2. m # "TEST_REPORT"
        BY <3>4
      <4>. HIDE DEF done, failed, holds, errors
      <4>. QED  BY <2>3, <2>6, <3>1, <3>4, <4>1, <4>2, Zenon
    <3>5. CASE i /\ m # "TEST_REPORT" /\ m # "TEST_CHECK"
      <4>1. done = IF holds THEN "none" ELSE "failure"
        BY <3>1, <3>5, Zenon DEF Outcome
      <4>. HIDE DEF done, failed, holds, errors
      <4>. QED  BY <2>3, <2>6, <3>1, <3>5, <4>1, Zenon
    <3>. QED  BY <3>2, <3>3, <3>4, <3>5
  <2>. QED  BY <2>1, <2>4, <2>5, <2>6 DEF Macros
<1>. QED  BY <1>1, CheckIsMacroCall, PTL

-----------------------------------------------------------------------------
(* The test lists.                                                          *)

(* The runner's list has no test twice, and is the one asked for until a    *)
(* test is removed.                                                         *)
ListsInv ==
    /\ suiteTests = asked
    /\ ~erased => runnerTests = asked
    /\ runnerTests \in Seq(Objects) /\ IsInjective(runnerTests)

LEMMA AddedOnce ==
    ASSUME NEW list \in Seq(Objects), NEW x \in Objects, IsInjective(list)
    PROVE  Added(list, x) \in Seq(Objects) /\ IsInjective(Added(list, x))
<1>1. CASE x \in Range(list)
  BY <1>1 DEF Added
<1>2. CASE x \notin Range(list)
  <2>1. PICK n \in Nat : n = Len(list) /\ DOMAIN list = 1 .. n
    BY LenProperties
  <2>2. PICK more \in Seq(Objects) :
           /\ more = Append(list, x) /\ Len(more) = n + 1
           /\ \A i \in 1 .. n : more[i] = list[i]
           /\ more[n + 1] = x
    BY <2>1, AppendProperties
  <2>3. DOMAIN more = 1 .. n + 1
    BY <2>2, LenProperties
  <2>4. \A i \in 1 .. n : list[i] # x
    BY <1>2, <2>1 DEF Range
  <2>5. \A i, j \in 1 .. n : list[i] = list[j] => i = j
    BY <2>1 DEF IsInjective
  <2>6. ASSUME NEW i \in 1 .. n + 1, NEW j \in 1 .. n + 1, more[i] = more[j]
        PROVE  i = j
    <3>1. CASE i \in 1 .. n /\ j \in 1 .. n
      BY <2>2, <2>5, <2>6, <3>1
    <3>2. CASE i = n + 1 \/ j = n + 1
      <4>1. \A k \in 1 .. n + 1 : k # n + 1 => k \in 1 .. n /\ more[k] # x
        BY <2>2, <2>4
      <4>. QED  BY <2>2, <2>6, <3>2, <4>1
    <3>. QED  BY <3>1, <3>2
  <2>. QED  BY <1>2, <2>2, <2>3, <2>6 DEF Added, IsInjective
<1>. QED  BY <1>1, <1>2

LEMMA EveryOtherOnce ==
    ASSUME NEW list \in Seq(Objects), IsInjective(list)
    PROVE  EveryOther(list) \in Seq(Objects) /\ IsInjective(EveryOther(list))
<1>1. PICK n \in Nat : n = Len(list) /\ DOMAIN list = 1 .. n
  BY LenProperties
<1>2. PICK m \in Nat : m = n \div 2 /\ 2 * m <= n
  OBVIOUS
<1>3. EveryOther(list) = [i \in 1 .. m |-> list[2 * i]]
  BY <1>1, <1>2 DEF EveryOther
<1>4. \A i \in 1 .. m : 2 * i \in 1 .. n
  BY <1>2
<1>5. \A i \in 1 .. m : list[2 * i] \in Objects
  BY <1>1, <1>4, ElementOfSeq
<1>6. EveryOther(list) \in Seq(Objects)
  BY <1>3, <1>5, IsASeq
<1>7. \A i, j \in 1 .. m : list[2 * i] = list[2 * j] => i = j
  <2>1. \A i, j \in 1 .. n : list[i] = list[j] => i = j
    BY <1>1 DEF IsInjective
  <2>. QED  BY <1>4, <2>1
<1>8. IsInjective(EveryOther(list))
  BY <1>3, <1>7 DEF IsInjective
<1>. QED  BY <1>6, <1>8

(* The suite's list is the one asked for, whatever is added and removed,    *)
(* the runner's is until a test is removed, and neither has a test twice.   *)
THEOREM ListsAreAsAsked == UnitsSpec => []ListsHoldWhatWasAsked
<1>1. UnitsInit => ListsInv
  <2>1. \A f : f = <<>> => IsInjective(f)
    BY DEF IsInjective
  <2>. QED  BY <2>1, EmptySeq DEF UnitsInit, RegistryInit, ListsInv
<1>2. ListsInv /\ [UnitsNext]_unitVars => ListsInv'
  <2>. SUFFICES ASSUME ListsInv, [UnitsNext]_unitVars PROVE ListsInv'
    OBVIOUS
  <2>1. CASE UNCHANGED registryVars
    BY <2>1 DEF ListsInv, registryVars
  <2>2. CASE reset
    <3>1. runnerTests' = <<>> /\ IsInjective(runnerTests')
      BY <2>2 DEF reset, IsInjective
    <3>2. runnerTests' \in Seq(Objects)
      BY <3>1, EmptySeq
    <3>. QED  BY <2>2, <3>1, <3>2 DEF reset, ListsInv
  <2>3. ASSUME NEW x \in Objects, addTest(x) PROVE ListsInv'
    <3>1. runnerTests' \in Seq(Objects) /\ IsInjective(runnerTests')
      <4>1. PICK list \in Seq(Objects) : list = runnerTests /\ IsInjective(list)
        BY DEF ListsInv
      <4>2. runnerTests' = Added(list, x)
        BY <2>3, <4>1 DEF addTest
      <4>. QED  BY <4>1, <4>2, AddedOnce
    <3>2. asked' = Added(asked, x)
      BY <2>3 DEF addTest, Added
    <3>. QED  BY <2>3, <3>1, <3>2 DEF addTest, ListsInv
  <2>4. ASSUME NEW x \in Objects, removeTest(x) PROVE ListsInv'
    <3>1. runnerTests' \in Seq(Objects) /\ IsInjective(runnerTests')
      <4>1. PICK list \in Seq(Objects) : list = runnerTests /\ IsInjective(list)
        BY DEF ListsInv
      <4>2. runnerTests' = EveryOther(list)
        BY <2>4, <4>1 DEF removeTest
      <4>. QED  BY <4>1, <4>2, EveryOtherOnce
    <3>2. suiteTests' = asked'
      BY <2>4 DEF removeTest, Without, ListsInv
    <3>. QED  BY <2>4, <3>1, <3>2 DEF removeTest, ListsInv
  <2>5. CASE SessionGoesOn \/ TextGrows \/ MacroIsCalled
    BY <2>1, <2>5 DEF SessionGoesOn, TextGrows, MacroIsCalled
  <2>6. CASE ListsChange
    BY <2>2, <2>3, <2>4, <2>6 DEF ListsChange, RegistryNext
  <2>7. CASE UNCHANGED unitVars
    BY <2>1, <2>7 DEF unitVars
  <2>. QED  BY <2>5, <2>6, <2>7 DEF UnitsNext
<1>3. ListsInv => ListsHoldWhatWasAsked
  BY DEF ListsInv, ListsHoldWhatWasAsked
<1>. QED  BY <1>1, <1>2, <1>3, PTL DEF UnitsSpec

-----------------------------------------------------------------------------
(* The events of a session, as the outputters find them in the collector.   *)

Messages == {"report", "failure", "error"}
TestKinds == {"startTest", "endTest"}
LogEvents ==
    {e \in [kind : {"startSuite", "endSuite"} \cup TestKinds \cup Messages,
            obj : Tests \cup Suites, ok : BOOLEAN] :
        /\ e.kind \in TestKinds => e.obj \in Tests
        /\ e.kind \in {"startSuite", "endSuite"} => e.obj \in Suites}
RunnerEvents == [kind : {"startRunner", "endRunner"}, obj : {Runner}, ok : BOOLEAN]

(* Only the innermost of what is open can be a test, and there is one suite *)
(* at most, right inside the runner.                                        *)
Nested(open) ==
    /\ open \in Seq(Tests \cup Suites \cup {Runner})
    /\ \A i \in 1 .. Len(open) :
          /\ open[i] \in Tests => i = Len(open)
          /\ open[i] \in Suites => i = 2
          /\ open[i] = Runner <=> i = 1
SuiteIn(open) == Len(open) > 1 /\ open[2] \in Suites
TestIn(open) == open # <<>> /\ open[Len(open)] \in Tests
SessionInv ==
    /\ events \in Seq(LogEvents \cup RunnerEvents)
    /\ count \in [Counts -> Nat] /\ testClean \in BOOLEAN
    /\ Nested(scope)
    /\ Collected(events) \in Seq(LogEvents)

(* No suite ends twice.                                                     *)
EndsMatched(log) ==
    \A i, k \in Places(log, "endSuite") :
       i < k => \E m \in Places(log, "startSuite") : i < m /\ m < k
AllEndedBefore(log) ==
    \A i \in Places(log, "endSuite") : \E m \in Places(log, "startSuite") : i < m

(* The counters count the ends of tests.                                    *)
FailedEnds(log) == {i \in Places(log, "endTest") : ~log[i].ok}
Totals(log, passes, failures) ==
    /\ Cardinality(Places(log, "endTest")) = passes + failures
    /\ Cardinality(FailedEnds(log)) = failures

(* A test ran from its start at j to its end at k, or runs since j: only    *)
(* its own messages came, and its verdict is bad when one of them was.      *)
OnlyMessages(log, j, k) ==
    \A q \in j + 1 .. k - 1 :
       log[q].kind \in Messages /\ log[q].obj = log[j].obj
NothingBad(log, j, k) == \A q \in j + 1 .. k - 1 : log[q].kind \notin Bad
Ran(log, j, k) ==
    /\ j \in Places(log, "startTest") /\ k \in Places(log, "endTest") /\ j < k
    /\ log[k].obj = log[j].obj /\ OnlyMessages(log, j, k)
    /\ log[k].ok <=> NothingBad(log, j, k)
Runs(log, j, test, clean) ==
    /\ j \in Places(log, "startTest")
    /\ log[j].obj = test /\ OnlyMessages(log, j, Len(log) + 1)
    /\ clean <=> NothingBad(log, j, Len(log) + 1)
TestsMatched(log, running, test, clean) ==
    /\ \A k \in Places(log, "endTest") : \E j : Ran(log, j, k)
    /\ \A j \in Places(log, "startTest") :
          (running /\ Runs(log, j, test, clean)) \/ \E k : Ran(log, j, k)
    /\ running => \E j : Runs(log, j, test, clean)

ReportsInv ==
    /\ SessionInv
    /\ EndsMatched(Collected(events))
    /\ SuiteIn(scope) => AllEndedBefore(Collected(events))
    /\ Totals(Collected(events), count["nPasses"], count["nFailures"])
    /\ count["extra"] = 0 =>
          TestsMatched(Collected(events), TestIn(scope), Inner, testClean)

-----------------------------------------------------------------------------
(* The collector's list, one event longer.                                  *)

LEMMA CollectType ==
    ASSUME NEW V, NEW kept \in Seq(V), NEW e \in V
    PROVE  Collect(kept, e) \in Seq(V)
  BY AppendProperties DEF Collect

LEMMA CollectRuns ==
    ASSUME NEW V, NEW es \in Seq(V)
    PROVE  \E g : /\ g[0] = <<>> /\ Collected(es) = g[Len(es)]
                  /\ \A i \in 1 .. Len(es) : g[i] = Collect(g[i - 1], es[i])
                  /\ \A i \in 0 .. Len(es) : g[i] \in Seq(V)
<1> DEFINE Solves(it) ==
              it = [s \in SUBSET DOMAIN es |->
                       IF s = {} THEN <<>>
                       ELSE Collect(it[s \ {Max(s)}], es[Max(s)])]
           iter == CHOOSE it : Solves(it)
<1>1. Collected(es) = iter[DOMAIN es]
  BY DEF Collected, FoldLeft, MapThenFoldSet
<1>2. PICK n \in Nat : n = Len(es) /\ DOMAIN es = 1 .. n
  BY LenProperties
<1>3. \A i \in 1 .. n : es[i] \in V
  BY <1>2
<1>4. \E it \in [SUBSET (1 .. n) -> Seq(V)] : Solves(it)
  <2> DEFINE F == [p \in Seq(V) \X (1 .. n) |-> Collect(p[1], es[p[2]])]
  <2>1. <<>> \in Seq(V)
    BY EmptySeq
  <2>2. F \in [Seq(V) \X (1 .. n) -> Seq(V)]
    BY <1>3, CollectType
  <2>. HIDE DEF F, Solves, iter
  <2>3. PICK it \in [SUBSET (1 .. n) -> Seq(V)] : FoldOf(it, <<>>, n, F)
    BY <2>1, <2>2, FoldExists
  <2>4. ASSUME NEW s \in SUBSET (1 .. n), s # {}
        PROVE  F[<<it[s \ {Max(s)}], Max(s)>>]
                  = Collect(it[s \ {Max(s)}], es[Max(s)])
    <3>1. it[s \ {Max(s)}] \in Seq(V)
      OBVIOUS
    <3>2. Max(s) \in 1 .. n
      BY <2>4, LargestOf
    <3>. QED  BY <3>1, <3>2 DEF F
  <2>5. it = [s \in SUBSET (1 .. n) |->
                 IF s = {} THEN <<>>
                 ELSE Collect(it[s \ {Max(s)}], es[Max(s)])]
    BY <2>3, <2>4 DEF FoldOf
  <2>. QED  BY <1>2, <2>5 DEF Solves
<1>5. Solves(iter)
  <2>. HIDE DEF Solves
  <2>. QED  BY <1>4
<1>6. iter[{}] = <<>>
  BY <1>5
<1>7. ASSUME NEW i \in 1 .. n
      PROVE  iter[1 .. i] = Collect(iter[1 .. i - 1], es[i])
  <2>1. /\ 1 .. i \in SUBSET DOMAIN es /\ 1 .. i # {}
        /\ Max(1 .. i) = i /\ (1 .. i) \ {i} = 1 .. i - 1
    BY <1>2, Prefix
  <2>2. iter[1 .. i] = IF 1 .. i = {} THEN <<>>
                       ELSE Collect(iter[(1 .. i) \ {Max(1 .. i)}],
                                    es[Max(1 .. i)])
    <3>. HIDE DEF iter
    <3>. QED  BY <1>5, <2>1
  <2>. HIDE DEF iter
  <2>. QED  BY <2>1, <2>2
<1>. HIDE DEF iter
<1> DEFINE g == [i \in 0 .. n |-> iter[1 .. i]]
<1>8. g[0] = <<>> /\ Collected(es) = g[n]
  <2>1. 1 .. 0 = {}
    OBVIOUS
  <2>. QED  BY <1>1, <1>2, <1>6, <2>1
<1>9. \A i \in 1 .. n : g[i] = Collect(g[i - 1], es[i])
  BY <1>7
<1>. HIDE DEF g
<1>10. \A i \in 0 .. n : g[i] \in Seq(V)
  <2> DEFINE S == {i \in 0 .. n : g[i] \in Seq(V)}
  <2>1. 0 \in S
    <3>1. g[0] \in Seq(V) /\ 0 \in 0 .. n
      BY <1>8, EmptySeq
    <3>. QED  BY <3>1
  <2>2. \A i \in 0 .. n - 1 : i \in S => i + 1 \in S
    <3>1. ASSUME NEW i \in 0 .. n - 1, i \in S PROVE i + 1 \in S
      <4>1. i + 1 \in 1 .. n /\ (i + 1) - 1 = i /\ g[i] \in Seq(V)
        BY <3>1
      <4>2. g[i + 1] = Collect(g[i], es[i + 1])
        BY <1>9, <4>1
      <4>3. g[i + 1] \in Seq(V)
        BY <1>3, <4>1, <4>2, CollectType
      <4>. QED  BY <4>1, <4>3
    <3>. QED  BY <3>1
  <2>3. \A i \in 0 .. n : i \in S
    <3>. HIDE DEF S
    <3>. QED  BY <2>1, <2>2, UpTo
  <2>. QED  BY <2>3
<1>. QED  BY <1>2, <1>8, <1>9, <1>10

LEMMA CollectedMore ==
    ASSUME NEW V, NEW es \in Seq(V), NEW e \in V
    PROVE  /\ Collected(es) \in Seq(V)
           /\ Collected(Append(es, e)) = Collect(Collected(es), e)
<1>1. PICK n \in Nat : n = Len(es)
  BY LenProperties
<1>2. PICK more \in Seq(V) :
         /\ more = Append(es, e) /\ Len(more) = n + 1 /\ more[n + 1] = e
         /\ \A i \in 1 .. n : more[i] = es[i]
  <2>1. /\ Append(es, e) \in Seq(V) /\ Len(Append(es, e)) = n + 1
        /\ Append(es, e)[n + 1] = e
        /\ \A i \in 1 .. n : Append(es, e)[i] = es[i]
    BY <1>1, AppendProperties
  <2>. QED  BY <2>1
<1>3. PICK g : /\ g[0] = <<>> /\ Collected(es) = g[n]
               /\ \A i \in 1 .. n : g[i] = Collect(g[i - 1], es[i])
               /\ \A i \in 0 .. n : g[i] \in Seq(V)
  BY <1>1, CollectRuns
<1>4. PICK h : /\ h[0] = <<>> /\ Collected(more) = h[n + 1]
               /\ \A i \in 1 .. n + 1 : h[i] = Collect(h[i - 1], more[i])
  <2>1. PICK h : /\ h[0] = <<>> /\ Collected(more) = h[Len(more)]
                 /\ \A i \in 1 .. Len(more) : h[i] = Collect(h[i - 1], more[i])
    BY CollectRuns
  <2>. QED  BY <1>2, <2>1
<1> DEFINE S == {i \in 0 .. n : h[i] = g[i]}
<1>5. 0 \in S
  BY <1>3, <1>4
<1>6. \A i \in 0 .. n - 1 : i \in S => i + 1 \in S
  <2>1. ASSUME NEW i \in 0 .. n - 1, i \in S PROVE i + 1 \in S
    <3>1. /\ i + 1 \in 1 .. n /\ i + 1 \in 1 .. n + 1 /\ (i + 1) - 1 = i
          /\ h[i] = g[i]
      BY <2>1
    <3>2. h[i + 1] = Collect(h[i], more[i + 1])
      BY <1>4, <3>1
    <3>3. g[i + 1] = Collect(g[i], es[i + 1])
      BY <1>3, <3>1
    <3>4. more[i + 1] = es[i + 1]
      BY <1>2, <3>1
    <3>. QED  BY <3>1, <3>2, <3>3, <3>4
  <2>. QED  BY <2>1
<1>7. h[n] = g[n]
  <2>1. \A i \in 0 .. n : i \in S
    <3>. HIDE DEF S
    <3>. QED  BY <1>5, <1>6, UpTo
  <2>. QED  BY <2>1
<1>8. h[n + 1] = Collect(h[n], more[n + 1])
  <2>1. n + 1 \in 1 .. n + 1 /\ (n + 1) - 1 = n
    OBVIOUS
  <2>. QED  BY <1>4, <2>1
<1>. QED  BY <1>2, <1>3, <1>4, <1>7, <1>8

-----------------------------------------------------------------------------
(* What is open, and a list with an event more.                             *)

LEMMA Opened ==
    ASSUME NEW open, Nested(open), open # <<>>,
           NEW x \in Tests \cup Suites,
           ~TestIn(open), x \in Suites => open[Len(open)] = Runner
    PROVE  /\ Nested(Append(open, x))
           /\ Append(open, x)[Len(Append(open, x))] = x /\ Append(open, x) # <<>>
           /\ SuiteIn(Append(open, x)) => SuiteIn(open) \/ x \in Suites
<1> DEFINE X == Tests \cup Suites \cup {Runner}
<1>1. open \in Seq(X)
  BY DEF Nested
<1>2. PICK n \in Nat \ {0} : n = Len(open)
  BY <1>1, EmptySeq
<1>3. PICK more \in Seq(X) :
         /\ more = Append(open, x) /\ Len(more) = n + 1 /\ more[n + 1] = x
         /\ \A i \in 1 .. n : more[i] = open[i]
  <2>1. /\ Append(open, x) \in Seq(X) /\ Len(Append(open, x)) = n + 1
        /\ Append(open, x)[n + 1] = x
        /\ \A i \in 1 .. n : Append(open, x)[i] = open[i]
    BY <1>1, <1>2, AppendProperties
  <2>. QED  BY <2>1
<1>4. \A i \in 1 .. n : /\ open[i] \in Tests => i = n
                        /\ open[i] \in Suites => i = 2
                        /\ open[i] = Runner <=> i = 1
  BY <1>2 DEF Nested
<1>5. open[n] \notin Tests
  BY <1>2 DEF TestIn
<1>6. Tests \cap Suites = {} /\ Runner \notin Tests \cup Suites
  BY StreamConstants
<1>7. x \in Suites => n = 1
  BY <1>2, <1>4
<1>8. \A i \in 1 .. n + 1 : i = n + 1 \/ i \in 1 .. n
  OBVIOUS
<1>9. Nested(more)
  <2>1. ASSUME NEW i \in 1 .. n + 1
        PROVE  /\ more[i] \in Tests => i = n + 1
               /\ more[i] \in Suites => i = 2
               /\ more[i] = Runner <=> i = 1
    <3>1. CASE i = n + 1
      BY <1>3, <1>6, <1>7, <3>1
    <3>2. CASE i \in 1 .. n
      BY <1>3, <1>4, <1>5, <3>2
    <3>. QED  BY <1>8, <3>1, <3>2
  <2>. QED  BY <1>3, <2>1 DEF Nested
<1>10. more # <<>> /\ more[Len(more)] = x
  BY <1>3, EmptySeq
<1>11. SuiteIn(more) => SuiteIn(open) \/ x \in Suites
  <2>1. CASE n = 1
    BY <1>3, <2>1 DEF SuiteIn
  <2>2. CASE n > 1
    <3>1. more[2] = open[2]
      BY <1>3, <2>2
    <3>. QED  BY <1>2, <2>2, <3>1 DEF SuiteIn
  <2>. QED  BY <2>1, <2>2
<1>. QED  BY <1>3, <1>9, <1>10, <1>11

LEMMA Closed ==
    ASSUME NEW open, Nested(open), open # <<>>,
           NEW less, less = SubSeq(open, 1, Len(open) - 1)
    PROVE  /\ Nested(less) /\ ~TestIn(less)
           /\ SuiteIn(less) => SuiteIn(open)
           /\ open[Len(open)] \in Suites => SuiteIn(open) /\ ~SuiteIn(less)
           /\ less # <<>> \/ open[Len(open)] = Runner
<1> DEFINE X == Tests \cup Suites \cup {Runner}
<1>1. open \in Seq(X)
  BY DEF Nested
<1>2. PICK n \in Nat \ {0} : n = Len(open)
  BY <1>1, EmptySeq
<1>3. PICK m \in Nat : m = n - 1
  OBVIOUS
<1>4. /\ less \in Seq(X) /\ Len(less) = m
      /\ \A i \in 1 .. m : less[i] = open[i]
  <2>1. \A i \in 1 .. m : open[i] \in X
    BY <1>1, <1>2, <1>3, ElementOfSeq
  <2>2. /\ SubSeq(open, 1, m) \in Seq(X)
        /\ Len(SubSeq(open, 1, m)) = IF 1 <= m THEN m - 1 + 1 ELSE 0
        /\ \A i \in 1 .. m - 1 + 1 : SubSeq(open, 1, m)[i] = open[1 + i - 1]
    BY <2>1, SubSeqProperties
  <2>3. \A i \in 1 .. m : i \in 1 .. m - 1 + 1 /\ 1 + i - 1 = i
    OBVIOUS
  <2>4. \A i \in 1 .. m : SubSeq(open, 1, m)[i] = open[i]
    BY <2>2, <2>3
  <2>5. Len(SubSeq(open, 1, m)) = m
    BY <2>2
  <2>6. less = SubSeq(open, 1, m)
    BY <1>2, <1>3
  <2>. QED  BY <2>2, <2>4, <2>5, <2>6
<1>5. \A i \in 1 .. n : /\ open[i] \in Tests => i = n
                        /\ open[i] \in Suites => i = 2
                        /\ open[i] = Runner <=> i = 1
  BY <1>2 DEF Nested
<1>6. \A i \in 1 .. m : i \in 1 .. n /\ i # n
  BY <1>3
<1>7. \A i \in 1 .. m : less[i] \notin Tests
  BY <1>4, <1>5, <1>6
<1>8. Nested(less)
  BY <1>4, <1>5, <1>6, <1>7 DEF Nested
<1>9. ~TestIn(less)
  <2>1. less # <<>> => m \in 1 .. m
    BY <1>4, EmptySeq
  <2>. QED  BY <1>4, <1>7, <2>1 DEF TestIn
<1>10. SuiteIn(less) => SuiteIn(open)
  <2>1. m > 1 => 2 \in 1 .. m /\ n > 1
    BY <1>3
  <2>. QED  BY <1>2, <1>4, <2>1 DEF SuiteIn
<1>11. open[n] \in Suites => SuiteIn(open) /\ ~SuiteIn(less)
  <2>1. open[n] \in Suites => n = 2 /\ m = 1
    BY <1>3, <1>5
  <2>. QED  BY <1>2, <1>4, <2>1 DEF SuiteIn
<1>12. less # <<>> \/ open[n] = Runner
  <2>1. CASE n = 1
    BY <1>5, <2>1
  <2>2. CASE n # 1
    <3>0. m # 0
      BY <1>3, <2>2
    <3>1. Len(less) # 0
      BY <1>4, <3>0
    <3>2. Len(<<>>) = 0
      BY EmptySeq
    <3>. QED  BY <3>1, <3>2
  <2>. QED  BY <2>1, <2>2
<1>. QED  BY <1>2, <1>8, <1>9, <1>10, <1>11, <1>12

(* The places of a kind, when an event more comes at n.                     *)
PlacesWith(places, e, kind, n) ==
    IF e.kind = kind THEN places \cup {n} ELSE places

LEMMA PlacesMore ==
    ASSUME NEW V, NEW log \in Seq(V), NEW e \in V, NEW kind
    PROVE  /\ Places(log, kind) \in SUBSET (1 .. Len(log))
           /\ Places(Append(log, e), kind)
                 = PlacesWith(Places(log, kind), e, kind, Len(log) + 1)
<1>1. PICK n \in Nat : n = Len(log)
  BY LenProperties
<1>2. PICK more \in Seq(V) :
         /\ more = Append(log, e) /\ Len(more) = n + 1 /\ more[n + 1] = e
         /\ \A i \in 1 .. n : more[i] = log[i]
  <2>1. /\ Append(log, e) \in Seq(V) /\ Len(Append(log, e)) = n + 1
        /\ Append(log, e)[n + 1] = e
        /\ \A i \in 1 .. n : Append(log, e)[i] = log[i]
    BY <1>1, AppendProperties
  <2>. QED  BY <2>1
<1>3. DOMAIN log = 1 .. n /\ DOMAIN more = 1 .. n + 1
  BY <1>1, <1>2, LenProperties
<1>4. Places(log, kind) = {i \in 1 .. n : log[i].kind = kind}
  BY <1>3 DEF Places
<1>5. Places(more, kind) = {i \in 1 .. n + 1 : more[i].kind = kind}
  BY <1>3 DEF Places
<1>6. \A i \in 1 .. n + 1 : i = n + 1 \/ i \in 1 .. n
  OBVIOUS
<1>7. \A i \in 1 .. n : i \in 1 .. n + 1 /\ i # n + 1
  OBVIOUS
<1>8. Places(more, kind) = PlacesWith(Places(log, kind), e, kind, n + 1)
  BY <1>2, <1>4, <1>5, <1>6, <1>7 DEF PlacesWith
<1>. QED  BY <1>1, <1>2, <1>4, <1>8

LEMMA PlacesAre ==
    ASSUME NEW V, NEW log \in Seq(V), NEW kind, NEW i
    PROVE  i \in Places(log, kind) <=> i \in 1 .. Len(log) /\ log[i].kind = kind
<1>1. DOMAIN log = 1 .. Len(log)
  BY LenProperties
<1>. QED  BY <1>1 DEF Places

(* The counters, when a test ends or something else happens.                *)
LEMMA TotalsMore ==
    ASSUME NEW log \in Seq(LogEvents), NEW e \in LogEvents,
           NEW p \in Nat, NEW f \in Nat, Totals(log, p, f)
    PROVE  /\ e.kind # "endTest" => Totals(Append(log, e), p, f)
           /\ e.kind = "endTest" /\ e.ok => Totals(Append(log, e), p + 1, f)
           /\ e.kind = "endTest" /\ ~e.ok => Totals(Append(log, e), p, f + 1)
<1>1. PICK n \in Nat : n = Len(log)
  BY LenProperties
<1>2. PICK more : more = Append(log, e)
  OBVIOUS
<1>3. /\ more[n + 1] = e
      /\ \A i \in 1 .. n : more[i] = log[i]
      /\ Places(log, "endTest") \in SUBSET (1 .. n)
      /\ e.kind = "endTest" =>
            Places(more, "endTest") = Places(log, "endTest") \cup {n + 1}
      /\ e.kind # "endTest" => Places(more, "endTest") = Places(log, "endTest")
  <2>1. ASSUME NEW kind
        PROVE  /\ Places(log, kind) \in SUBSET (1 .. n)
               /\ e.kind = kind =>
                     Places(more, kind) = Places(log, kind) \cup {n + 1}
               /\ e.kind # kind => Places(more, kind) = Places(log, kind)
    <3>1. Places(log, kind) \in SUBSET (1 .. n)
      BY <1>1, PlacesMore
    <3>2. Places(more, kind) = PlacesWith(Places(log, kind), e, kind, n + 1)
      BY <1>1, <1>2, PlacesMore
    <3>. QED  BY <3>1, <3>2 DEF PlacesWith
  <2>2. /\ more[n + 1] = e
        /\ \A i \in 1 .. n : more[i] = log[i]
    BY <1>1, <1>2, AppendProperties
  <2>. QED  BY <2>1, <2>2
<1>4. /\ IsFiniteSet(Places(log, "endTest")) /\ IsFiniteSet(FailedEnds(log))
      /\ FailedEnds(log) \in SUBSET Places(log, "endTest")
  <2>1. IsFiniteSet(1 .. n)
    BY FS_Interval
  <2>2. FailedEnds(log) \in SUBSET Places(log, "endTest")
    BY DEF FailedEnds
  <2>. QED  BY <1>3, <2>1, <2>2, FS_Subset
<1>5. n + 1 \notin Places(log, "endTest") /\ n + 1 \notin FailedEnds(log)
  <2>1. n + 1 \notin 1 .. n
    OBVIOUS
  <2>. QED  BY <1>3, <1>4, <2>1
<1>6. \A i \in Places(log, "endTest") : more[i] = log[i]
  BY <1>3
<1>7. /\ Cardinality(Places(log, "endTest")) = p + f
      /\ Cardinality(FailedEnds(log)) = f
  BY DEF Totals
<1>8. CASE e.kind # "endTest"
  <2>1. Places(more, "endTest") = Places(log, "endTest")
    BY <1>3, <1>8
  <2>2. FailedEnds(more) = FailedEnds(log)
    BY <1>6, <2>1 DEF FailedEnds
  <2>. QED  BY <1>2, <1>7, <1>8, <2>1, <2>2 DEF Totals
<1>9. CASE e.kind = "endTest"
  <2>1. Places(more, "endTest") = Places(log, "endTest") \cup {n + 1}
    BY <1>3, <1>9
  <2>2. Cardinality(Places(more, "endTest")) = p + f + 1
    <3>1. Cardinality(Places(log, "endTest") \cup {n + 1})
             = Cardinality(Places(log, "endTest")) + 1
      BY <1>4, <1>5, FS_AddElement
    <3>. QED  BY <1>7, <2>1, <3>1
  <2>3. CASE e.ok
    <3>1. FailedEnds(more) = FailedEnds(log)
      BY <1>3, <1>6, <2>1, <2>3 DEF FailedEnds
    <3>2. p + f + 1 = (p + 1) + f
      OBVIOUS
    <3>. QED  BY <1>2, <1>7, <1>9, <2>2, <2>3, <3>1, <3>2 DEF Totals
  <2>4. CASE ~e.ok
    <3>1. FailedEnds(more) = FailedEnds(log) \cup {n + 1}
      BY <1>3, <1>6, <2>1, <2>4 DEF FailedEnds
    <3>2. Cardinality(FailedEnds(more)) = f + 1
      <4>1. Cardinality(FailedEnds(log) \cup {n + 1})
               = Cardinality(FailedEnds(log)) + 1
        BY <1>4, <1>5, FS_AddElement
      <4>. QED  BY <1>7, <3>1, <4>1
    <3>3. p + f + 1 = p + (f + 1)
      OBVIOUS
    <3>. QED  BY <1>2, <1>7, <1>9, <2>2, <2>4, <3>2, <3>3 DEF Totals
  <2>. QED  BY <2>3, <2>4
<1>. QED  BY <1>8, <1>9

(* The suites' ends.                                                        *)
LEMMA EndsMore ==
    ASSUME NEW log \in Seq(LogEvents), NEW e \in LogEvents, EndsMatched(log)
    PROVE  /\ e.kind # "endSuite" => EndsMatched(Append(log, e))
           /\ e.kind # "endSuite" /\ AllEndedBefore(log)
                 => AllEndedBefore(Append(log, e))
           /\ e.kind = "startSuite" => AllEndedBefore(Append(log, e))
           /\ e.kind = "endSuite" /\ AllEndedBefore(log)
                 => EndsMatched(Append(log, e))
<1>1. PICK n \in Nat : n = Len(log)
  BY LenProperties
<1>2. PICK more : more = Append(log, e)
  OBVIOUS
<1>3. /\ Places(log, "endSuite") \in SUBSET (1 .. n)
      /\ Places(log, "startSuite") \in SUBSET (1 .. n)
      /\ e.kind = "endSuite" =>
            Places(more, "endSuite") = Places(log, "endSuite") \cup {n + 1}
      /\ e.kind # "endSuite" => Places(more, "endSuite") = Places(log, "endSuite")
      /\ e.kind = "startSuite" =>
            Places(more, "startSuite") = Places(log, "startSuite") \cup {n + 1}
      /\ e.kind # "startSuite" =>
            Places(more, "startSuite") = Places(log, "startSuite")
  <2>1. ASSUME NEW kind
        PROVE  /\ Places(log, kind) \in SUBSET (1 .. n)
               /\ e.kind = kind =>
                     Places(more, kind) = Places(log, kind) \cup {n + 1}
               /\ e.kind # kind => Places(more, kind) = Places(log, kind)
    <3>1. Places(log, kind) \in SUBSET (1 .. n)
      BY <1>1, PlacesMore
    <3>2. Places(more, kind) = PlacesWith(Places(log, kind), e, kind, n + 1)
      BY <1>1, <1>2, PlacesMore
    <3>. QED  BY <3>1, <3>2 DEF PlacesWith
  <2>. QED  BY <2>1
<1>4. Places(log, "startSuite") \in SUBSET Places(more, "startSuite")
  BY <1>3
<1>5. CASE e.kind # "endSuite"
  <2>1. EndsMatched(more)
    BY <1>3, <1>4, <1>5 DEF EndsMatched
  <2>2. AllEndedBefore(log) => AllEndedBefore(more)
    BY <1>3, <1>4, <1>5 DEF AllEndedBefore
  <2>3. e.kind = "startSuite" => AllEndedBefore(more)
    <3>1. \A i \in 1 .. n : i < n + 1
      OBVIOUS
    <3>. QED  BY <1>3, <1>5, <3>1 DEF AllEndedBefore
  <2>. QED  BY <1>2, <1>5, <2>1, <2>2, <2>3
<1>6. CASE e.kind = "endSuite"
  <2>1. ASSUME AllEndedBefore(log) PROVE EndsMatched(more)
    <3>1. ASSUME NEW i \in Places(more, "endSuite"),
                 NEW k \in Places(more, "endSuite"), i < k
          PROVE  \E m \in Places(more, "startSuite") : i < m /\ m < k
      <4>1. \A q \in Places(more, "endSuite") :
               q = n + 1 \/ (q \in Places(log, "endSuite") /\ q \in 1 .. n)
        <5>1. \A q \in Places(log, "endSuite") : q \in 1 .. n
          BY <1>3
        <5>. QED  BY <1>3, <1>6, <5>1
      <4>2. i \in Places(log, "endSuite")
        BY <3>1, <4>1
      <4>3. CASE k \in Places(log, "endSuite")
        BY <1>4, <3>1, <4>2, <4>3 DEF EndsMatched
      <4>4. CASE k = n + 1
        <5>1. PICK m \in Places(log, "startSuite") : i < m
          BY <2>1, <4>2 DEF AllEndedBefore
        <5>2. m < k
          BY <1>3, <4>4, <5>1
        <5>. QED  BY <1>4, <5>1, <5>2
      <4>. QED  BY <4>1, <4>3, <4>4
    <3>. QED  BY <3>1 DEF EndsMatched
  <2>. QED  BY <1>2, <1>6, <2>1
<1>. QED  BY <1>5, <1>6

(* The tests' events: what ran stays so, a test starts, sends messages and  *)
(* ends.                                                                    *)
LEMMA TestsMore ==
    ASSUME NEW log \in Seq(LogEvents), NEW e \in LogEvents,
           NEW running \in BOOLEAN, NEW test, NEW clean \in BOOLEAN,
           TestsMatched(log, running, test, clean)
    PROVE  /\ ~running /\ e.kind = "startTest"
                 => TestsMatched(Append(log, e), TRUE, e.obj, TRUE)
           /\ running /\ e.kind \in Messages /\ e.obj = test =>
                 /\ e.kind \in Bad => TestsMatched(Append(log, e), TRUE, test, FALSE)
                 /\ e.kind \notin Bad =>
                       TestsMatched(Append(log, e), TRUE, test, clean)
           /\ running /\ e.kind = "endTest" /\ e.obj = test /\ (e.ok <=> clean)
                 => \A t, c : TestsMatched(Append(log, e), FALSE, t, c)
           /\ ~running /\ e.kind \notin TestKinds
                 => \A t, c : TestsMatched(Append(log, e), FALSE, t, c)
<1>1. PICK n \in Nat : n = Len(log)
  BY LenProperties
<1>2. PICK more \in Seq(LogEvents) :
         /\ more = Append(log, e) /\ Len(more) = n + 1 /\ more[n + 1] = e
         /\ \A i \in 1 .. n : more[i] = log[i]
  <2>1. /\ Append(log, e) \in Seq(LogEvents) /\ Len(Append(log, e)) = n + 1
        /\ Append(log, e)[n + 1] = e
        /\ \A i \in 1 .. n : Append(log, e)[i] = log[i]
    BY <1>1, AppendProperties
  <2>. QED  BY <2>1
<1>3. ASSUME NEW kind
      PROVE  /\ Places(log, kind) \in SUBSET (1 .. n)
             /\ e.kind = kind =>
                   Places(more, kind) = Places(log, kind) \cup {n + 1}
             /\ e.kind # kind => Places(more, kind) = Places(log, kind)
  <2>1. Places(log, kind) \in SUBSET (1 .. n)
    BY <1>1, PlacesMore
  <2>2. Places(more, kind) = PlacesWith(Places(log, kind), e, kind, n + 1)
    BY <1>1, <1>2, PlacesMore
  <2>. QED  BY <2>1, <2>2 DEF PlacesWith
<1>4. ASSUME NEW j \in 1 .. n, NEW k \in 1 .. n + 1
      PROVE  /\ OnlyMessages(log, j, k) <=> OnlyMessages(more, j, k)
             /\ NothingBad(log, j, k) <=> NothingBad(more, j, k)
  <2>1. \A q \in j + 1 .. k - 1 : q \in 1 .. n
    OBVIOUS
  <2>2. \A q \in j + 1 .. k - 1 : more[q] = log[q]
    BY <1>2, <2>1
  <2>3. more[j] = log[j]
    BY <1>2
  <2>. QED  BY <2>2, <2>3 DEF OnlyMessages, NothingBad
<1>5. ASSUME NEW j, NEW k, Ran(log, j, k) PROVE Ran(more, j, k)
  <2>1. /\ j \in Places(log, "startTest") /\ k \in Places(log, "endTest") /\ j < k
        /\ log[k].obj = log[j].obj /\ OnlyMessages(log, j, k)
        /\ log[k].ok <=> NothingBad(log, j, k)
    BY <1>5 DEF Ran
  <2>2. j \in 1 .. n /\ k \in 1 .. n /\ k \in 1 .. n + 1
    BY <1>3, <2>1
  <2>3. j \in Places(more, "startTest") /\ k \in Places(more, "endTest")
    BY <1>3, <2>1
  <2>4. more[j] = log[j] /\ more[k] = log[k]
    BY <1>2, <2>2
  <2>5. OnlyMessages(more, j, k) /\ (log[k].ok <=> NothingBad(more, j, k))
    BY <1>4, <2>1, <2>2
  <2>. QED  BY <2>1, <2>3, <2>4, <2>5 DEF Ran
<1>6. /\ \A k \in Places(log, "endTest") : \E j : Ran(more, j, k)
      /\ \A j \in Places(log, "startTest") :
            (running /\ Runs(log, j, test, clean)) \/ \E k : Ran(more, j, k)
      /\ running => \E j : Runs(log, j, test, clean)
  BY <1>5 DEF TestsMatched
<1>7. ASSUME NEW j, Runs(log, j, test, clean)
      PROVE  /\ j \in 1 .. n /\ log[j].obj = test /\ more[j] = log[j]
             /\ j \in Places(more, "startTest")
             /\ OnlyMessages(more, j, n + 1)
             /\ clean <=> NothingBad(more, j, n + 1)
  <2>1. /\ j \in Places(log, "startTest") /\ log[j].obj = test
        /\ OnlyMessages(log, j, n + 1) /\ (clean <=> NothingBad(log, j, n + 1))
    BY <1>1, <1>7 DEF Runs
  <2>2. j \in 1 .. n /\ n + 1 \in 1 .. n + 1
    BY <1>3, <2>1
  <2>3. more[j] = log[j]
    BY <1>2, <2>2
  <2>4. j \in Places(more, "startTest")
    BY <1>3, <2>1
  <2>5. OnlyMessages(more, j, n + 1) /\ (clean <=> NothingBad(more, j, n + 1))
    BY <1>4, <2>1, <2>2
  <2>. QED  BY <2>1, <2>2, <2>3, <2>4, <2>5
<1>8. ASSUME ~running, e.kind = "startTest"
      PROVE  TestsMatched(more, TRUE, e.obj, TRUE)
  <2>1. Runs(more, n + 1, e.obj, TRUE)
    <3>1. n + 1 \in Places(more, "startTest")
      BY <1>3, <1>8
    <3>2. \A q \in (n + 1) + 1 .. (Len(more) + 1) - 1 : FALSE
      BY <1>2
    <3>. QED  BY <1>2, <3>1, <3>2 DEF Runs, OnlyMessages, NothingBad
  <2>2. \A j \in Places(more, "startTest") : j = n + 1 \/ \E k : Ran(more, j, k)
    BY <1>3, <1>6, <1>8
  <2>3. \A k \in Places(more, "endTest") : \E j : Ran(more, j, k)
    BY <1>3, <1>6, <1>8
  <2>. QED  BY <2>1, <2>2, <2>3 DEF TestsMatched
<1>9. ASSUME running, e.kind \in Messages, e.obj = test,
             NEW c \in BOOLEAN, c <=> clean /\ e.kind \notin Bad
      PROVE  TestsMatched(more, TRUE, test, c)
  <2>1. ASSUME NEW j, Runs(log, j, test, clean) PROVE Runs(more, j, test, c)
    <3>1. /\ j \in 1 .. n /\ log[j].obj = test /\ more[j] = log[j]
          /\ j \in Places(more, "startTest")
          /\ OnlyMessages(more, j, n + 1)
          /\ clean <=> NothingBad(more, j, n + 1)
      BY <1>7, <2>1
    <3>2. \A q \in j + 1 .. (Len(more) + 1) - 1 :
             q = n + 1 \/ q \in j + 1 .. (n + 1) - 1
      BY <1>2, <3>1
    <3>3. \A q \in j + 1 .. (n + 1) - 1 : q \in j + 1 .. (Len(more) + 1) - 1
      BY <1>2, <3>1
    <3>4. n + 1 \in j + 1 .. (Len(more) + 1) - 1
      BY <1>2, <3>1
    <3>5. OnlyMessages(more, j, Len(more) + 1)
      BY <1>2, <1>9, <3>1, <3>2 DEF OnlyMessages
    <3>6. NothingBad(more, j, Len(more) + 1)
             <=> NothingBad(more, j, n + 1) /\ e.kind \notin Bad
      BY <1>2, <3>2, <3>3, <3>4 DEF NothingBad
    <3>7. c <=> NothingBad(more, j, Len(more) + 1)
      BY <1>9, <3>1, <3>6
    <3>. QED  BY <3>1, <3>5, <3>7 DEF Runs
  <2>2. "startTest" \notin Messages /\ "endTest" \notin Messages
    BY DEF Messages
  <2>3. /\ Places(more, "startTest") = Places(log, "startTest")
        /\ Places(more, "endTest") = Places(log, "endTest")
    BY <1>3, <1>9, <2>2
  <2>4. \E j : Runs(more, j, test, c)
    BY <1>6, <1>9, <2>1
  <2>5. \A j \in Places(more, "startTest") :
           Runs(more, j, test, c) \/ \E k : Ran(more, j, k)
    BY <1>6, <2>1, <2>3
  <2>. QED  BY <1>6, <2>3, <2>4, <2>5 DEF TestsMatched
<1>10. ASSUME running, e.kind = "endTest", e.obj = test, e.ok <=> clean, NEW t, NEW c
       PROVE  TestsMatched(more, FALSE, t, c)
  <2>1. ASSUME NEW j, Runs(log, j, test, clean) PROVE Ran(more, j, n + 1)
    <3>1. /\ j \in 1 .. n /\ log[j].obj = test /\ more[j] = log[j]
          /\ j \in Places(more, "startTest")
          /\ OnlyMessages(more, j, n + 1)
          /\ clean <=> NothingBad(more, j, n + 1)
      BY <1>7, <2>1
    <3>2. n + 1 \in Places(more, "endTest") /\ j < n + 1
      BY <1>3, <1>10, <3>1
    <3>. QED  BY <1>2, <1>10, <3>1, <3>2 DEF Ran
  <2>2. Places(more, "startTest") = Places(log, "startTest")
    BY <1>3, <1>10
  <2>3. \A j \in Places(more, "startTest") : \E k : Ran(more, j, k)
    BY <1>6, <2>1, <2>2
  <2>4. \A k \in Places(more, "endTest") : \E j : Ran(more, j, k)
    <3>1. PICK j : Ran(more, j, n + 1)
      BY <1>6, <1>10, <2>1
    <3>. QED  BY <1>3, <1>6, <1>10, <3>1
  <2>. QED  BY <2>3, <2>4 DEF TestsMatched
<1>11. ASSUME ~running, e.kind \notin TestKinds, NEW t, NEW c
       PROVE  TestsMatched(more, FALSE, t, c)
  <2>1. /\ Places(more, "startTest") = Places(log, "startTest")
        /\ Places(more, "endTest") = Places(log, "endTest")
    BY <1>3, <1>11 DEF TestKinds
  <2>. QED  BY <1>6, <1>11, <2>1 DEF TestsMatched
<1>. QED  BY <1>2, <1>8, <1>9, <1>10, <1>11

-----------------------------------------------------------------------------
(* The steps of the session.                                                *)

LEMMA EmitLogged ==
    ASSUME SessionInv, NEW e \in LogEvents, Emit(<<e>>)
    PROVE  /\ events' \in Seq(LogEvents \cup RunnerEvents)
           /\ Collected(events)' = Append(Collected(events), e)
           /\ Append(Collected(events), e) \in Seq(LogEvents)
<1> DEFINE V == LogEvents \cup RunnerEvents
<1>1. events \in Seq(V) /\ Collected(events) \in Seq(LogEvents) /\ e \in V
  BY DEF SessionInv
<1>2. events' = Append(events, e) /\ events' \in Seq(V)
  BY <1>1, AppendIsConcat, AppendProperties DEF Emit
<1>3. Collected(Append(events, e)) = Collect(Collected(events), e)
  BY <1>1, CollectedMore
<1>4. e.kind \notin {"startRunner", "endRunner"}
  BY DEF LogEvents, TestKinds, Messages
<1>5. Collect(Collected(events), e) = Append(Collected(events), e)
  BY <1>4 DEF Collect
<1>6. Append(Collected(events), e) \in Seq(LogEvents)
  BY <1>1, AppendProperties
<1>. QED  BY <1>2, <1>3, <1>5, <1>6

LEMMA EmitNotLogged ==
    ASSUME SessionInv, NEW e \in RunnerEvents, Emit(<<e>>)
    PROVE  /\ events' \in Seq(LogEvents \cup RunnerEvents)
           /\ Collected(events)' = Collected(events)
<1> DEFINE V == LogEvents \cup RunnerEvents
<1>1. events \in Seq(V) /\ e \in V
  BY DEF SessionInv
<1>2. events' = Append(events, e) /\ events' \in Seq(V)
  BY <1>1, AppendIsConcat, AppendProperties DEF Emit
<1>3. Collected(Append(events, e)) = Collect(Collected(events), e)
  BY <1>1, CollectedMore
<1>4. e.kind \in {"startRunner", "endRunner"}
  BY DEF RunnerEvents
<1>5. Collect(Collected(events), e) = Collected(events)
  BY <1>4 DEF Collect
<1>. QED  BY <1>2, <1>3, <1>5

LEMMA Counted ==
    ASSUME SessionInv, NEW C, Add(C)
    PROVE  /\ count' \in [Counts -> Nat]
           /\ \A c \in Counts \ C : count'[c] = count[c]
           /\ \A c \in Counts \cap C : count'[c] = count[c] + 1
<1>1. count \in [Counts -> Nat]
  BY DEF SessionInv
<1>2. count' = [c \in Counts |-> count[c] + IF c \in C THEN 1 ELSE 0]
  BY DEF Add
<1>. QED  BY <1>1, <1>2

(* What a step keeps or must show anew of the reports' invariant.           *)
TestsOK(log, open, clean, extra) ==
    extra = 0 => TestsMatched(log, TestIn(open), open[Len(open)], clean)

LEMMA Reported ==
    /\ ReportsInv <=>
          /\ SessionInv /\ EndsMatched(Collected(events))
          /\ SuiteIn(scope) => AllEndedBefore(Collected(events))
          /\ Totals(Collected(events), count["nPasses"], count["nFailures"])
          /\ TestsOK(Collected(events), scope, testClean, count["extra"])
    /\ ReportsInv' <=>
          /\ SessionInv' /\ EndsMatched(Collected(events)')
          /\ SuiteIn(scope') => AllEndedBefore(Collected(events)')
          /\ Totals(Collected(events)', count'["nPasses"], count'["nFailures"])
          /\ TestsOK(Collected(events)', scope', testClean', count'["extra"])
    /\ SessionInv' <=>
          /\ events' \in Seq(LogEvents \cup RunnerEvents)
          /\ count' \in [Counts -> Nat] /\ testClean' \in BOOLEAN
          /\ Nested(scope') /\ Collected(events)' \in Seq(LogEvents)
  BY DEF ReportsInv, SessionInv, TestsOK, Inner, TestIn, SuiteIn, Nested,
         EndsMatched, AllEndedBefore, Totals, TestsMatched, FailedEnds, Ran, Runs,
         OnlyMessages, NothingBad, Places

LEMMA ReportsInitially == UnitsInit => ReportsInv
<1>. SUFFICES ASSUME UnitsInit PROVE ReportsInv
  OBVIOUS
<1> DEFINE V == LogEvents \cup RunnerEvents
<1>1. /\ events = <<>> /\ scope = <<>> /\ testClean = TRUE
      /\ count = [c \in Counts |-> 0]
  BY DEF UnitsInit, StreamInit, Init
<1>2. <<>> \in Seq(V) /\ Len(<<>>) = 0 /\ <<>> \in Seq(LogEvents)
      /\ <<>> \in Seq(Tests \cup Suites \cup {Runner})
  BY EmptySeq
<1>3. Collected(<<>>) = <<>>
  <2>. HIDE DEF V
  <2>1. PICK g : /\ g[0] = <<>> /\ Collected(<<>>) = g[Len(<<>>)]
    BY <1>2, CollectRuns, ZenonT(30)
  <2>. QED  BY <1>2, <2>1
<1>4. count \in [Counts -> Nat] /\ count["nPasses"] = 0 /\ count["nFailures"] = 0
  BY <1>1 DEF Counts
<1>5. Nested(<<>>) /\ ~SuiteIn(<<>>) /\ ~TestIn(<<>>)
  BY <1>2 DEF Nested, SuiteIn, TestIn
<1>6. SessionInv
  BY <1>1, <1>2, <1>3, <1>4, <1>5 DEF SessionInv
<1>7. \A kind : Places(<<>>, kind) = {}
  BY <1>2 DEF Places
<1>8. EndsMatched(<<>>)
  BY <1>7 DEF EndsMatched
<1>9. Totals(<<>>, 0, 0)
  <2>1. FailedEnds(<<>>) = {}
    BY <1>7 DEF FailedEnds
  <2>2. 0 + 0 = 0
    OBVIOUS
  <2>. QED  BY <1>7, <2>1, <2>2, FS_EmptySet DEF Totals
<1>10. TestsOK(<<>>, <<>>, testClean, count["extra"])
  BY <1>5, <1>7 DEF TestsOK, TestsMatched
<1>. QED  BY <1>1, <1>3, <1>4, <1>5, <1>6, <1>8, <1>9, <1>10, Reported
LEMMA TestsOKIs ==
    ASSUME NEW log, NEW open, NEW clean, NEW extra
    PROVE  /\ TestIn(open) =>
                 (TestsOK(log, open, clean, extra) <=>
                     (extra = 0 => TestsMatched(log, TRUE, open[Len(open)], clean)))
           /\ ~TestIn(open) => \A t, c :
                 (TestsOK(log, open, clean, extra) <=>
                     (extra = 0 => TestsMatched(log, FALSE, t, c)))
<1>1. CASE TestIn(open)
  BY <1>1 DEF TestsOK, TestsMatched
<1>2. CASE ~TestIn(open)
  BY <1>2 DEF TestsOK, TestsMatched
<1>. QED  BY <1>1, <1>2

(* The tests' part, when something else happens; a test starts, gets a      *)
(* message, or ends.                                                        *)
LEMMA OthersMore ==
    ASSUME NEW log \in Seq(LogEvents), NEW e \in LogEvents,
           NEW open, NEW then, NEW clean \in BOOLEAN, NEW c, NEW extra,
           TestsOK(log, open, clean, extra), ~TestIn(open), ~TestIn(then)
    PROVE  /\ TestsOK(log, then, c, extra)
           /\ e.kind \notin TestKinds => TestsOK(Append(log, e), then, c, extra)
<1>1. PICK x : x = open[Len(open)]
  OBVIOUS
<1>2. extra = 0 => TestsMatched(log, FALSE, x, clean)
  BY TestsOKIs
<1>3. ASSUME extra = 0, e.kind \notin TestKinds, NEW t, NEW d
      PROVE  TestsMatched(Append(log, e), FALSE, t, d)
  BY <1>2, <1>3, TestsMore
<1>4. TestsOK(log, then, c, extra)
  BY TestsOKIs
<1>5. e.kind \notin TestKinds => TestsOK(Append(log, e), then, c, extra)
  BY <1>3, TestsOKIs
<1>. QED  BY <1>4, <1>5

LEMMA StartMore ==
    ASSUME NEW log \in Seq(LogEvents), NEW e \in LogEvents,
           NEW open, NEW then, NEW clean \in BOOLEAN, NEW extra,
           TestsOK(log, open, clean, extra), ~TestIn(open), TestIn(then),
           e.kind = "startTest", then[Len(then)] = e.obj
    PROVE  TestsOK(Append(log, e), then, TRUE, extra)
<1>1. PICK x : x = open[Len(open)]
  OBVIOUS
<1>2. extra = 0 => TestsMatched(log, FALSE, x, clean)
  BY TestsOKIs
<1>3. extra = 0 => TestsMatched(Append(log, e), TRUE, e.obj, TRUE)
  BY <1>2, TestsMore
<1>. QED  BY <1>3, TestsOKIs

LEMMA MessageMore ==
    ASSUME NEW log \in Seq(LogEvents), NEW e \in LogEvents,
           NEW open, NEW clean \in BOOLEAN, NEW extra,
           TestsOK(log, open, clean, extra), TestIn(open),
           e.kind \in Messages, e.obj = open[Len(open)]
    PROVE  /\ e.kind \in Bad => TestsOK(Append(log, e), open, FALSE, extra)
           /\ e.kind \notin Bad => TestsOK(Append(log, e), open, clean, extra)
<1>1. PICK x : x = open[Len(open)]
  OBVIOUS
<1>2. extra = 0 => TestsMatched(log, TRUE, x, clean)
  BY <1>1, TestsOKIs
<1>3. extra = 0 /\ e.kind \in Bad => TestsMatched(Append(log, e), TRUE, x, FALSE)
  BY <1>1, <1>2, TestsMore
<1>4. extra = 0 /\ e.kind \notin Bad
         => TestsMatched(Append(log, e), TRUE, x, clean)
  BY <1>1, <1>2, TestsMore
<1>. QED  BY <1>1, <1>3, <1>4, TestsOKIs

LEMMA EndMore ==
    ASSUME NEW log \in Seq(LogEvents), NEW e \in LogEvents,
           NEW open, NEW then, NEW clean \in BOOLEAN, NEW c, NEW extra,
           TestsOK(log, open, clean, extra), TestIn(open), ~TestIn(then),
           e.kind = "endTest", e.obj = open[Len(open)], e.ok <=> clean
    PROVE  TestsOK(Append(log, e), then, c, extra)
<1>1. PICK x : x = open[Len(open)]
  OBVIOUS
<1>2. extra = 0 => TestsMatched(log, TRUE, x, clean)
  BY <1>1, TestsOKIs
<1>3. ASSUME extra = 0, NEW t, NEW d
      PROVE  TestsMatched(Append(log, e), FALSE, t, d)
  BY <1>1, <1>2, <1>3, TestsMore
<1>. QED  BY <1>3, TestsOKIs

LEMMA OthersSame ==
    ASSUME NEW log, NEW open, NEW then, NEW clean, NEW c, NEW extra,
           TestsOK(log, open, clean, extra), ~TestIn(open), ~TestIn(then)
    PROVE  TestsOK(log, then, c, extra)
<1>1. PICK x : x = open[Len(open)]
  OBVIOUS
<1>2. extra = 0 => TestsMatched(log, FALSE, x, clean)
  BY TestsOKIs
<1>. QED  BY TestsOKIs

LEMMA MadeEvents ==
    /\ Happened("startRunner", Runner) \in RunnerEvents
    /\ Happened("endRunner", Runner) \in RunnerEvents
    /\ \A t \in Tests : Happened("startTest", t) \in LogEvents
    /\ \A s \in Suites : Happened("startSuite", s) \in LogEvents
    /\ \A kind \in Messages, x \in Tests \cup Suites : Happened(kind, x) \in LogEvents
    /\ \A kind, x : Happened(kind, x).kind = kind /\ Happened(kind, x).obj = x
<1>. USE DEF Event, Happened
<1>1. \A t \in Tests : Happened("startTest", t) \in LogEvents
  BY DEF LogEvents, TestKinds
<1>2. \A s \in Suites : Happened("startSuite", s) \in LogEvents
  BY DEF LogEvents, TestKinds
<1>3. \A kind \in Messages, x \in Tests \cup Suites : Happened(kind, x) \in LogEvents
  BY DEF LogEvents, TestKinds, Messages
<1>4. /\ Happened("startRunner", Runner) \in RunnerEvents
      /\ Happened("endRunner", Runner) \in RunnerEvents
  BY DEF RunnerEvents
<1>5. \A kind, x : Happened(kind, x).kind = kind /\ Happened(kind, x).obj = x
  OBVIOUS
<1>. QED  BY <1>1, <1>2, <1>3, <1>4, <1>5

LEMMA MadeEnds ==
    ASSUME NEW ok \in BOOLEAN
    PROVE  /\ \A t \in Tests : Event("endTest", t, ok) \in LogEvents
           /\ \A s \in Suites : Event("endSuite", s, ok) \in LogEvents
           /\ \A kind, x : /\ Event(kind, x, ok).kind = kind
                           /\ Event(kind, x, ok).obj = x
                           /\ Event(kind, x, ok).ok = ok
<1>. USE DEF Event
<1>1. \A t \in Tests : Event("endTest", t, ok) \in LogEvents
  BY DEF LogEvents, TestKinds
<1>2. \A s \in Suites : Event("endSuite", s, ok) \in LogEvents
  BY DEF LogEvents, TestKinds
<1>. QED  BY <1>1, <1>2

LEMMA StepOpens ==
    ASSUME ReportsInv
    PROVE  /\ RunnerStarts => ReportsInv'
           /\ \A s \in Suites : SuiteStarts(s) => ReportsInv'
           /\ \A t \in Tests : TestStarts(t) => ReportsInv'
<1> DEFINE L == Collected(events)
           M == Collected(events)'
<1>1. /\ SessionInv /\ EndsMatched(L)
      /\ SuiteIn(scope) => AllEndedBefore(L)
      /\ Totals(L, count["nPasses"], count["nFailures"])
      /\ TestsOK(L, scope, testClean, count["extra"])
  BY Reported
<1>2. /\ events \in Seq(LogEvents \cup RunnerEvents) /\ L \in Seq(LogEvents)
      /\ count \in [Counts -> Nat] /\ testClean \in BOOLEAN /\ Nested(scope)
      /\ count["nPasses"] \in Nat /\ count["nFailures"] \in Nat
  <2>1. count \in [Counts -> Nat]
    BY <1>1 DEF SessionInv
  <2>2. count["nPasses"] \in Nat /\ count["nFailures"] \in Nat
    BY <2>1 DEF Counts
  <2>. QED  BY <1>1, <2>1, <2>2 DEF SessionInv
<1>3. Tests \cap Suites = {} /\ Runner \notin Tests \cup Suites
  BY StreamConstants
<1>4. /\ Happened("startRunner", Runner) \in RunnerEvents
      /\ \A t \in Tests : Happened("startTest", t) \in LogEvents
      /\ \A s \in Suites : Happened("startSuite", s) \in LogEvents
      /\ \A kind, x : /\ Happened(kind, x).kind = kind
                      /\ Happened(kind, x).obj = x
  BY MadeEvents
<1>. HIDE DEF L, M
<1>5. ASSUME RunnerStarts PROVE ReportsInv'
  <2>1. /\ scope = <<>> /\ scope' = <<Runner>> /\ UNCHANGED <<testClean, count>>
        /\ Emit(<<Happened("startRunner", Runner)>>)
    BY <1>5 DEF RunnerStarts, StartRunner
  <2>2. events' \in Seq(LogEvents \cup RunnerEvents) /\ M = L
    BY <1>1, <1>4, <2>1, EmitNotLogged DEF L, M
  <2>3. Nested(scope') /\ ~SuiteIn(scope') /\ ~TestIn(scope')
    <3>1. /\ <<Runner>> \in Seq(Tests \cup Suites \cup {Runner})
          /\ Len(<<Runner>>) = 1 /\ <<Runner>>[1] = Runner
      OBVIOUS
    <3>2. \A i \in 1 .. 1 : i = 1
      OBVIOUS
    <3>. QED  BY <1>3, <2>1, <3>1, <3>2 DEF Nested, SuiteIn, TestIn
  <2>4. ~TestIn(scope)
    BY <2>1 DEF TestIn
  <2>5. TestsOK(M, scope', testClean', count'["extra"])
    BY <1>1, <2>1, <2>2, <2>3, <2>4, OthersSame
  <2>6. SessionInv'
    BY <1>2, <2>1, <2>2, <2>3, Reported DEF L, M
  <2>7. Totals(M, count'["nPasses"], count'["nFailures"])
    BY <1>1, <2>1, <2>2
  <2>. QED  BY <1>1, <2>2, <2>3, <2>5, <2>6, <2>7, Reported DEF M
<1>6. ASSUME NEW s \in Suites, SuiteStarts(s) PROVE ReportsInv'
  <2>1. PICK e \in LogEvents : e = Happened("startSuite", s) /\ e.kind = "startSuite"
    BY <1>4
  <2>2. /\ scope # <<>> /\ scope[Len(scope)] = Runner
        /\ scope' = Append(scope, s)
        /\ testClean' = testClean /\ Add({"nTestSuites"}) /\ Emit(<<e>>)
    BY <1>6, <2>1 DEF SuiteStarts, StartSuite, InScope, Inner
  <2>3. /\ events' \in Seq(LogEvents \cup RunnerEvents)
        /\ M = Append(L, e) /\ M \in Seq(LogEvents)
    BY <1>1, <2>2, EmitLogged DEF L, M
  <2>4. ~TestIn(scope)
    BY <1>3, <2>2 DEF TestIn
  <2>5. /\ Nested(scope') /\ scope' # <<>> /\ scope'[Len(scope')] = s
    BY <1>2, <2>2, <2>4, Opened
  <2>6. ~TestIn(scope')
    BY <1>3, <2>5 DEF TestIn
  <2>7. /\ count' \in [Counts -> Nat] /\ count'["nPasses"] = count["nPasses"]
        /\ count'["nFailures"] = count["nFailures"]
        /\ count'["extra"] = count["extra"]
    BY <1>1, <2>2, Counted DEF Counts
  <2>8. EndsMatched(M) /\ AllEndedBefore(M)
    BY <1>1, <1>2, <2>1, <2>3, EndsMore
  <2>9. Totals(M, count'["nPasses"], count'["nFailures"])
    BY <1>1, <1>2, <2>1, <2>3, <2>7, TotalsMore
  <2>10. TestsOK(M, scope', testClean', count'["extra"])
    <3>1. e.kind \notin TestKinds
      BY <2>1 DEF TestKinds
    <3>. QED  BY <1>1, <1>2, <2>3, <2>4, <2>6, <2>7, <3>1, OthersMore
  <2>11. SessionInv'
    BY <1>2, <2>2, <2>3, <2>5, <2>7, Reported DEF M
  <2>. QED  BY <2>8, <2>9, <2>10, <2>11, Reported DEF M
<1>7. ASSUME NEW t \in Tests, TestStarts(t) PROVE ReportsInv'
  <2>1. PICK e \in LogEvents : /\ e = Happened("startTest", t)
                               /\ e.kind = "startTest" /\ e.obj = t
    BY <1>4
  <2>2. /\ scope # <<>> /\ scope[Len(scope)] \in {Runner} \cup Suites
        /\ scope' = Append(scope, t)
        /\ testClean' = TRUE /\ Add({"nTests"}) /\ Emit(<<e>>)
    BY <1>7, <2>1 DEF TestStarts, StartTest, InScope, Inner
  <2>3. /\ events' \in Seq(LogEvents \cup RunnerEvents)
        /\ M = Append(L, e) /\ M \in Seq(LogEvents)
    BY <1>1, <2>2, EmitLogged DEF L, M
  <2>4. ~TestIn(scope)
    BY <1>3, <2>2 DEF TestIn
  <2>5. /\ Nested(scope') /\ scope' # <<>> /\ scope'[Len(scope')] = t
        /\ SuiteIn(scope') => SuiteIn(scope)
    BY <1>2, <1>3, <2>2, <2>4, Opened
  <2>6. TestIn(scope')
    BY <2>5 DEF TestIn
  <2>7. /\ count' \in [Counts -> Nat] /\ count'["nPasses"] = count["nPasses"]
        /\ count'["nFailures"] = count["nFailures"]
        /\ count'["extra"] = count["extra"]
    BY <1>1, <2>2, Counted DEF Counts
  <2>8. EndsMatched(M) /\ (SuiteIn(scope') => AllEndedBefore(M))
    BY <1>1, <1>2, <2>1, <2>3, <2>5, EndsMore
  <2>9. Totals(M, count'["nPasses"], count'["nFailures"])
    BY <1>1, <1>2, <2>1, <2>3, <2>7, TotalsMore
  <2>10. TestsOK(M, scope', testClean', count'["extra"])
    <3>1. TestsOK(Append(L, e), scope', TRUE, count["extra"])
      BY <1>1, <1>2, <2>1, <2>4, <2>5, <2>6, StartMore
    <3>. QED  BY <2>2, <2>3, <2>7, <3>1
  <2>11. SessionInv'
    BY <1>2, <2>2, <2>3, <2>5, <2>7, Reported DEF M
  <2>. QED  BY <2>8, <2>9, <2>10, <2>11, Reported DEF M
<1>. QED  BY <1>5, <1>6, <1>7
LEMMA StepCloses ==
    ASSUME ReportsInv
    PROVE  /\ RunnerEnds => ReportsInv'
           /\ TestEnds => ReportsInv'
           /\ \A ok \in BOOLEAN : SuiteEnds(ok) => ReportsInv'
<1> DEFINE L == Collected(events)
           M == Collected(events)'
<1>1. /\ SessionInv /\ EndsMatched(L)
      /\ SuiteIn(scope) => AllEndedBefore(L)
      /\ Totals(L, count["nPasses"], count["nFailures"])
      /\ TestsOK(L, scope, testClean, count["extra"])
  BY Reported
<1>2. /\ events \in Seq(LogEvents \cup RunnerEvents) /\ L \in Seq(LogEvents)
      /\ count \in [Counts -> Nat] /\ testClean \in BOOLEAN /\ Nested(scope)
      /\ count["nPasses"] \in Nat /\ count["nFailures"] \in Nat
  <2>1. count \in [Counts -> Nat]
    BY <1>1 DEF SessionInv
  <2>2. count["nPasses"] \in Nat /\ count["nFailures"] \in Nat
    BY <2>1 DEF Counts
  <2>. QED  BY <1>1, <2>1, <2>2 DEF SessionInv
<1>3. Tests \cap Suites = {} /\ Runner \notin Tests \cup Suites
  BY StreamConstants
<1>. HIDE DEF L, M
<1>4. ASSUME scope # <<>>, Close
      PROVE  /\ Nested(scope') /\ ~TestIn(scope')
             /\ SuiteIn(scope') => SuiteIn(scope)
             /\ scope[Len(scope)] \in Suites => SuiteIn(scope) /\ ~SuiteIn(scope')
  <2>1. PICK less : less = SubSeq(scope, 1, Len(scope) - 1)
    OBVIOUS
  <2>2. scope' = less
    BY <1>4, <2>1 DEF Close
  <2>. QED  BY <1>2, <1>4, <2>1, <2>2, Closed
<1>5. ASSUME RunnerEnds PROVE ReportsInv'
  <2>1. PICK e \in RunnerEvents : e = Happened("endRunner", Runner)
    BY MadeEvents
  <2>2. /\ scope # <<>> /\ scope[Len(scope)] = Runner /\ Close
        /\ UNCHANGED <<testClean, count>> /\ Emit(<<e>>)
    BY <1>5, <2>1 DEF RunnerEnds, EndRunner, InScope, Inner
  <2>3. events' \in Seq(LogEvents \cup RunnerEvents) /\ M = L
    BY <1>1, <2>2, EmitNotLogged DEF L, M
  <2>4. ~TestIn(scope)
    BY <1>3, <2>2 DEF TestIn
  <2>5. /\ Nested(scope') /\ ~TestIn(scope')
        /\ SuiteIn(scope') => SuiteIn(scope)
    BY <1>4, <2>2
  <2>6. TestsOK(M, scope', testClean', count'["extra"])
    BY <1>1, <2>2, <2>3, <2>4, <2>5, OthersSame
  <2>7. SessionInv'
    BY <1>2, <2>2, <2>3, <2>5, Reported DEF L, M
  <2>8. Totals(M, count'["nPasses"], count'["nFailures"])
    BY <1>1, <2>2, <2>3
  <2>. QED  BY <1>1, <2>3, <2>5, <2>6, <2>7, <2>8, Reported DEF M
<1>6. ASSUME TestEnds PROVE ReportsInv'
  <2>1. PICK t : t = scope[Len(scope)]
    OBVIOUS
  <2>2. PICK clean \in BOOLEAN : clean = testClean
    BY <1>2
  <2>3. /\ scope # <<>> /\ t \in Tests /\ Close
        /\ testClean' = TRUE /\ Add({TestVerdict(clean)})
        /\ Emit(<<Event("endTest", t, clean)>>)
    BY <1>6, <2>1, <2>2 DEF TestEnds, EndTest, InScope, Inner
  <2>4. PICK e \in LogEvents : /\ e = Event("endTest", t, clean)
                               /\ e.kind = "endTest" /\ e.obj = t /\ e.ok = clean
    BY <2>3, MadeEnds
  <2>5. /\ events' \in Seq(LogEvents \cup RunnerEvents)
        /\ M = Append(L, e) /\ M \in Seq(LogEvents)
    BY <1>1, <2>3, <2>4, EmitLogged DEF L, M
  <2>6. TestIn(scope)
    BY <2>1, <2>3 DEF TestIn
  <2>7. /\ Nested(scope') /\ ~TestIn(scope')
        /\ SuiteIn(scope') => SuiteIn(scope)
    BY <1>4, <2>3
  <2>8. /\ count' \in [Counts -> Nat] /\ count'["extra"] = count["extra"]
        /\ clean => /\ count'["nPasses"] = count["nPasses"] + 1
                    /\ count'["nFailures"] = count["nFailures"]
        /\ ~clean => /\ count'["nPasses"] = count["nPasses"]
                     /\ count'["nFailures"] = count["nFailures"] + 1
    <3>1. CASE clean
      <4>1. TestVerdict(clean) = "nPasses"
        BY <3>1 DEF TestVerdict
      <4>2. Add({"nPasses"})
        BY <2>3, <4>1
      <4>. QED  BY <1>1, <3>1, <4>2, Counted DEF Counts
    <3>2. CASE ~clean
      <4>1. TestVerdict(clean) = "nFailures"
        BY <3>2 DEF TestVerdict
      <4>2. Add({"nFailures"})
        BY <2>3, <4>1
      <4>. QED  BY <1>1, <3>2, <4>2, Counted DEF Counts
    <3>. QED  BY <3>1, <3>2
  <2>9. EndsMatched(M) /\ (SuiteIn(scope') => AllEndedBefore(M))
    BY <1>1, <1>2, <2>4, <2>5, <2>7, EndsMore
  <2>10. Totals(M, count'["nPasses"], count'["nFailures"])
    <3>1. CASE clean
      <4>1. e.ok
        BY <2>4, <3>1
      <4>2. Totals(Append(L, e), count["nPasses"] + 1, count["nFailures"])
        BY <1>1, <1>2, <2>4, <4>1, TotalsMore
      <4>. QED  BY <2>5, <2>8, <3>1, <4>2
    <3>2. CASE ~clean
      BY <1>1, <1>2, <2>4, <2>5, <2>8, <3>2, TotalsMore
    <3>. QED  BY <3>1, <3>2
  <2>11. TestsOK(M, scope', testClean', count'["extra"])
    <3>1. TestsOK(L, scope, clean, count["extra"])
      BY <1>1, <2>2
    <3>2. TestsOK(Append(L, e), scope', TRUE, count["extra"])
      BY <1>2, <2>1, <2>4, <2>6, <2>7, <3>1, EndMore
    <3>. QED  BY <2>3, <2>5, <2>8, <3>2
  <2>12. SessionInv'
    BY <1>2, <2>3, <2>5, <2>7, <2>8, Reported DEF M
  <2>. QED  BY <2>9, <2>10, <2>11, <2>12, Reported DEF M
<1>7. ASSUME NEW ok \in BOOLEAN, SuiteEnds(ok) PROVE ReportsInv'
  <2>1. PICK s : s = scope[Len(scope)]
    OBVIOUS
  <2>2. /\ scope # <<>> /\ s \in Suites /\ Close
        /\ testClean' = testClean
        /\ Add({IF ok THEN "nSuitePasses" ELSE "nSuiteFailures"})
        /\ Emit(<<Event("endSuite", s, ok)>>)
    BY <1>7, <2>1 DEF SuiteEnds, EndSuite, InScope, Inner
  <2>3. PICK e \in LogEvents : /\ e = Event("endSuite", s, ok)
                               /\ e.kind = "endSuite"
    BY <2>2, MadeEnds
  <2>4. /\ events' \in Seq(LogEvents \cup RunnerEvents)
        /\ M = Append(L, e) /\ M \in Seq(LogEvents)
    BY <1>1, <2>2, <2>3, EmitLogged DEF L, M
  <2>5. ~TestIn(scope)
    BY <1>3, <2>1, <2>2 DEF TestIn
  <2>6. /\ Nested(scope') /\ ~TestIn(scope')
        /\ SuiteIn(scope) /\ ~SuiteIn(scope')
    BY <1>4, <2>1, <2>2
  <2>7. /\ count' \in [Counts -> Nat] /\ count'["nPasses"] = count["nPasses"]
        /\ count'["nFailures"] = count["nFailures"]
        /\ count'["extra"] = count["extra"]
    BY <1>1, <2>2, Counted DEF Counts
  <2>8. EndsMatched(M)
    BY <1>1, <1>2, <2>3, <2>4, <2>6, EndsMore
  <2>9. Totals(M, count'["nPasses"], count'["nFailures"])
    BY <1>1, <1>2, <2>3, <2>4, <2>7, TotalsMore
  <2>10. TestsOK(M, scope', testClean', count'["extra"])
    <3>1. e.kind \notin TestKinds
      BY <2>3 DEF TestKinds
    <3>. QED  BY <1>1, <1>2, <2>4, <2>5, <2>6, <2>7, <3>1, OthersMore
  <2>11. SessionInv'
    BY <1>2, <2>2, <2>4, <2>6, <2>7, Reported DEF M
  <2>. QED  BY <2>6, <2>8, <2>9, <2>10, <2>11, Reported DEF M
<1>. QED  BY <1>5, <1>6, <1>7

LEMMA StepMessages ==
    ASSUME ReportsInv
    PROVE  /\ ReportArrives => ReportsInv'
           /\ \A kind \in Kinds \cap Bad : BadNewsArrives(kind) => ReportsInv'
<1> DEFINE L == Collected(events)
           M == Collected(events)'
<1>1. /\ SessionInv /\ EndsMatched(L)
      /\ SuiteIn(scope) => AllEndedBefore(L)
      /\ Totals(L, count["nPasses"], count["nFailures"])
      /\ TestsOK(L, scope, testClean, count["extra"])
  BY Reported
<1>2. /\ events \in Seq(LogEvents \cup RunnerEvents) /\ L \in Seq(LogEvents)
      /\ count \in [Counts -> Nat] /\ testClean \in BOOLEAN /\ Nested(scope)
      /\ count["nPasses"] \in Nat /\ count["nFailures"] \in Nat
  <2>1. count \in [Counts -> Nat]
    BY <1>1 DEF SessionInv
  <2>2. count["nPasses"] \in Nat /\ count["nFailures"] \in Nat
    BY <2>1 DEF Counts
  <2>. QED  BY <1>1, <2>1, <2>2 DEF SessionInv
<1>3. Tests \cap Suites = {}
  BY StreamConstants
<1>. HIDE DEF L, M
<1>4. ASSUME NEW kind \in Messages, NEW x, x \in Tests \cup Suites,
             scope # <<>>, x = scope[Len(scope)],
             Emit(<<Happened(kind, x)>>), UNCHANGED <<scope, count>>,
             testClean' = IF kind \in Bad /\ x \in Tests THEN FALSE ELSE testClean
      PROVE  ReportsInv'
  <2>1. PICK e \in LogEvents : /\ e = Happened(kind, x)
                               /\ e.kind = kind /\ e.obj = x
    BY <1>4, MadeEvents
  <2>2. /\ events' \in Seq(LogEvents \cup RunnerEvents)
        /\ M = Append(L, e) /\ M \in Seq(LogEvents)
    BY <1>1, <1>4, <2>1, EmitLogged DEF L, M
  <2>3. e.kind # "endSuite" /\ e.kind # "endTest" /\ e.kind \notin TestKinds
    BY <2>1 DEF Messages, TestKinds
  <2>4. EndsMatched(M) /\ (SuiteIn(scope') => AllEndedBefore(M))
    BY <1>1, <1>2, <1>4, <2>2, <2>3, EndsMore
  <2>5. Totals(M, count'["nPasses"], count'["nFailures"])
    BY <1>1, <1>2, <1>4, <2>2, <2>3, TotalsMore
  <2>6. TestsOK(M, scope', testClean', count'["extra"])
    <3>1. CASE x \in Tests
      <4>1. TestIn(scope)
        BY <1>4, <3>1 DEF TestIn
      <4>2. CASE kind \in Bad
        <5>1. TestsOK(Append(L, e), scope, FALSE, count["extra"])
          BY <1>1, <1>2, <1>4, <2>1, <4>1, <4>2, MessageMore
        <5>2. testClean' = FALSE
          BY <1>4, <3>1, <4>2
        <5>. QED  BY <1>4, <2>2, <5>1, <5>2
      <4>3. CASE kind \notin Bad
        <5>1. TestsOK(Append(L, e), scope, testClean, count["extra"])
          BY <1>1, <1>2, <1>4, <2>1, <4>1, <4>3, MessageMore
        <5>2. testClean' = testClean
          BY <1>4, <4>3
        <5>. QED  BY <1>4, <2>2, <5>1, <5>2
      <4>. QED  BY <4>2, <4>3
    <3>2. CASE x \notin Tests
      <4>1. ~TestIn(scope) /\ ~TestIn(scope')
        BY <1>4, <3>2 DEF TestIn
      <4>2. TestsOK(Append(L, e), scope', testClean', count["extra"])
        BY <1>1, <1>2, <2>3, <4>1, OthersMore
      <4>. QED  BY <1>4, <2>2, <4>2
    <3>. QED  BY <3>1, <3>2
  <2>7. testClean' \in BOOLEAN
    BY <1>2, <1>4
  <2>8. SessionInv'
    BY <1>2, <1>4, <2>2, <2>7, Reported DEF M
  <2>. QED  BY <2>4, <2>5, <2>6, <2>8, Reported DEF M
<1>5. ASSUME ReportArrives PROVE ReportsInv'
  <2>1. PICK x : x = scope[Len(scope)]
    OBVIOUS
  <2>2. /\ scope # <<>> /\ x \in Tests \cup Suites
        /\ Emit(<<Happened("report", x)>>) /\ UNCHANGED <<scope, count, testClean>>
    BY <1>5, <2>1 DEF ReportArrives, InScope, Inner, vars
  <2>3. "report" \in Messages /\ "report" \notin Bad
    BY DEF Messages, Bad
  <2>. QED  BY <1>4, <2>1, <2>2, <2>3
<1>6. ASSUME NEW kind \in Kinds \cap Bad, BadNewsArrives(kind) PROVE ReportsInv'
  <2>1. PICK x : x = scope[Len(scope)]
    OBVIOUS
  <2>2. /\ scope # <<>> /\ x \in Tests \cup Suites
        /\ Emit(<<Happened(kind, x)>>) /\ UNCHANGED <<scope, count>>
        /\ testClean' = IF x \in Tests THEN FALSE ELSE testClean
    BY <1>6, <2>1 DEF BadNewsArrives, BadNews, Trouble, InScope, Inner
  <2>3. kind \in Messages /\ kind \in Bad
    BY DEF Messages, Bad
  <2>. QED  BY <1>4, <2>1, <2>2, <2>3
<1>. QED  BY <1>5, <1>6

(* The crash handler's end event is one too many, and counted as such.      *)
LEMMA StepCrash == ReportsInv /\ CrashArrives => ReportsInv'
<1>. SUFFICES ASSUME ReportsInv, CrashArrives PROVE ReportsInv'
  OBVIOUS
<1> DEFINE V == LogEvents \cup RunnerEvents
           L == Collected(events)
           M == Collected(events)'
<1>1. /\ SessionInv /\ EndsMatched(L)
      /\ SuiteIn(scope) => AllEndedBefore(L)
      /\ Totals(L, count["nPasses"], count["nFailures"])
  BY Reported
<1>2. /\ events \in Seq(V) /\ L \in Seq(LogEvents)
      /\ count \in [Counts -> Nat] /\ testClean \in BOOLEAN /\ Nested(scope)
      /\ count["nPasses"] \in Nat /\ count["nFailures"] \in Nat
      /\ count["extra"] \in Nat
  <2>1. count \in [Counts -> Nat]
    BY <1>1 DEF SessionInv
  <2>2. /\ count["nPasses"] \in Nat /\ count["nFailures"] \in Nat
        /\ count["extra"] \in Nat
    BY <2>1 DEF Counts
  <2>. QED  BY <1>1, <2>1, <2>2 DEF SessionInv
<1>3. PICK x : x = scope[Len(scope)]
  OBVIOUS
<1>4. PICK ok \in BOOLEAN :
         ok = IF LastConstructed = x THEN testClean ELSE Succeeded(events, LastConstructed)
  <2>1. Succeeded(events, LastConstructed) \in BOOLEAN
    BY DEF Succeeded
  <2>. QED  BY <1>2, <2>1
<1>5. /\ x \in Tests \cup Suites /\ scope' = scope /\ Add({"extra", TestVerdict(ok)})
      /\ testClean' \in BOOLEAN
      /\ Emit(<<Happened("error", LastConstructed),
                Event("endTest", LastConstructed, ok), Happened("error", x)>>)
  BY <1>2, <1>3, <1>4 DEF CrashArrives, Crash, Trouble, InScope, Inner
<1>6. LastConstructed \in Tests
  BY StreamConstants
<1>7. PICK e1 \in LogEvents : e1 = Happened("error", LastConstructed) /\ e1.kind = "error"
  BY <1>6, MadeEvents DEF Messages
<1>8. PICK e2 \in LogEvents : /\ e2 = Event("endTest", LastConstructed, ok)
                              /\ e2.kind = "endTest" /\ e2.ok = ok
  BY <1>6, MadeEnds
<1>9. PICK e3 \in LogEvents : e3 = Happened("error", x) /\ e3.kind = "error"
  BY <1>5, MadeEvents DEF Messages
<1>10. /\ events' = Append(Append(Append(events, e1), e2), e3)
       /\ Append(events, e1) \in Seq(V) /\ Append(Append(events, e1), e2) \in Seq(V)
       /\ events' \in Seq(V)
  <2>1. e1 \in V /\ e2 \in V /\ e3 \in V
    OBVIOUS
  <2>2. events' = events \o <<e1, e2, e3>>
    BY <1>5, <1>7, <1>8, <1>9 DEF Emit
  <2>. HIDE DEF V
  <2>3. /\ <<e1>> \in Seq(V) /\ <<e1, e2>> \in Seq(V)
        /\ <<e1, e2>> = Append(<<e1>>, e2)
        /\ <<e1, e2, e3>> = Append(<<e1, e2>>, e3)
    <3>1. <<e1>> \in Seq(V)
      BY <2>1
    <3>2. <<e1, e2>> \in Seq(V)
      BY <2>1
    <3>3. <<e1, e2>> = Append(<<e1>>, e2)
      OBVIOUS
    <3>4. <<e1, e2, e3>> = Append(<<e1, e2>>, e3)
      OBVIOUS
    <3>. QED  BY <3>1, <3>2, <3>3, <3>4
  <2>4. \A s \in Seq(V), t \in Seq(V), e \in V :
           s \o Append(t, e) = Append(s \o t, e)
    <3>1. ASSUME NEW s \in Seq(V), NEW t \in Seq(V), NEW e \in V
          PROVE  s \o Append(t, e) = Append(s \o t, e)
      <4>1. /\ <<e>> \in Seq(V) /\ Append(t, e) = t \o <<e>> /\ s \o t \in Seq(V)
            /\ Append(s \o t, e) = (s \o t) \o <<e>>
        BY AppendIsConcat, ConcatProperties
      <4>. QED  BY <4>1, ConcatAssociative
    <3>. QED  BY <3>1
  <2>5. events \o <<e1>> = Append(events, e1)
    BY <1>2, <2>1, AppendIsConcat
  <2>6. events \o <<e1, e2>> = Append(Append(events, e1), e2)
    BY <1>2, <2>1, <2>3, <2>4, <2>5
  <2>7. events \o <<e1, e2, e3>> = Append(Append(Append(events, e1), e2), e3)
    BY <1>2, <2>1, <2>3, <2>4, <2>6
  <2>. QED  BY <1>2, <2>1, <2>2, <2>7, AppendProperties
<1> DEFINE L1 == Append(L, e1)
           L2 == Append(L1, e2)
           L3 == Append(L2, e3)
<1>11. /\ L1 \in Seq(LogEvents) /\ L2 \in Seq(LogEvents) /\ L3 \in Seq(LogEvents)
       /\ M = L3
  <2>1. /\ L1 \in Seq(LogEvents) /\ L2 \in Seq(LogEvents) /\ L3 \in Seq(LogEvents)
    <3>. HIDE DEF L
    <3>. QED  BY <1>2, AppendProperties
  <2>2. \A e \in LogEvents : \A kept : Collect(kept, e) = Append(kept, e)
    BY DEF Collect, LogEvents, TestKinds, Messages
  <2>3. e1 \in V /\ e2 \in V /\ e3 \in V
    OBVIOUS
  <2>. HIDE DEF V
  <2>4. Collected(Append(events, e1)) = L1
    BY <1>2, <2>2, <2>3, CollectedMore
  <2>5. PICK es1 \in Seq(V) : es1 = Append(events, e1)
    BY <1>10
  <2>6. Collected(Append(es1, e2)) = Collect(Collected(es1), e2)
    BY <2>3, CollectedMore
  <2>7. Collected(Append(es1, e2)) = L2
    BY <2>2, <2>4, <2>5, <2>6
  <2>8. PICK es2 \in Seq(V) : es2 = Append(es1, e2)
    BY <1>10, <2>5
  <2>9. Collected(Append(es2, e3)) = Collect(Collected(es2), e3)
    BY <2>3, CollectedMore
  <2>10. Collected(Append(es2, e3)) = L3
    BY <2>2, <2>7, <2>8, <2>9
  <2>. QED  BY <1>10, <2>1, <2>5, <2>8, <2>10
<1>. HIDE DEF L, M, L1, L2, L3
<1>12. EndsMatched(L3) /\ (SuiteIn(scope) => AllEndedBefore(L3))
  <2>1. EndsMatched(L1) /\ (SuiteIn(scope) => AllEndedBefore(L1))
    BY <1>1, <1>2, <1>7, EndsMore DEF L1
  <2>2. EndsMatched(L2) /\ (SuiteIn(scope) => AllEndedBefore(L2))
    BY <1>8, <1>11, <2>1, EndsMore DEF L2
  <2>. QED  BY <1>9, <1>11, <2>2, EndsMore DEF L3
<1>13. /\ count' \in [Counts -> Nat] /\ count'["extra"] = count["extra"] + 1
       /\ ok => /\ count'["nPasses"] = count["nPasses"] + 1
                /\ count'["nFailures"] = count["nFailures"]
       /\ ~ok => /\ count'["nPasses"] = count["nPasses"]
                 /\ count'["nFailures"] = count["nFailures"] + 1
  <2>1. CASE ok
    <3>1. Add({"extra", "nPasses"})
      BY <1>5, <2>1 DEF TestVerdict
    <3>. QED  BY <1>1, <2>1, <3>1, Counted DEF Counts
  <2>2. CASE ~ok
    <3>1. Add({"extra", "nFailures"})
      BY <1>5, <2>2 DEF TestVerdict
    <3>. QED  BY <1>1, <2>2, <3>1, Counted DEF Counts
  <2>. QED  BY <2>1, <2>2
<1>14. Totals(L3, count'["nPasses"], count'["nFailures"])
  <2>1. Totals(L1, count["nPasses"], count["nFailures"])
    BY <1>1, <1>2, <1>7, TotalsMore DEF L1
  <2>2. CASE ok
    <3>1. e2.ok
      BY <1>8, <2>2
    <3>2. Totals(L2, count["nPasses"] + 1, count["nFailures"])
      BY <1>2, <1>8, <1>11, <2>1, <3>1, TotalsMore DEF L2
    <3>3. Totals(L2, count'["nPasses"], count'["nFailures"])
      BY <1>13, <2>2, <3>2
    <3>4. count'["nPasses"] \in Nat /\ count'["nFailures"] \in Nat
      BY <1>13 DEF Counts
    <3>. QED  BY <1>9, <1>11, <3>3, <3>4, TotalsMore DEF L3
  <2>3. CASE ~ok
    <3>1. ~e2.ok
      BY <1>8, <2>3
    <3>2. Totals(L2, count["nPasses"], count["nFailures"] + 1)
      BY <1>2, <1>8, <1>11, <2>1, <3>1, TotalsMore DEF L2
    <3>3. Totals(L2, count'["nPasses"], count'["nFailures"])
      BY <1>13, <2>3, <3>2
    <3>4. count'["nPasses"] \in Nat /\ count'["nFailures"] \in Nat
      BY <1>13 DEF Counts
    <3>. QED  BY <1>9, <1>11, <3>3, <3>4, TotalsMore DEF L3
  <2>. QED  BY <2>2, <2>3
<1>15. TestsOK(L3, scope', testClean', count'["extra"])
  BY <1>2, <1>13 DEF TestsOK
<1>16. SessionInv'
  BY <1>2, <1>5, <1>10, <1>11, <1>13, Reported DEF M
<1>. QED  BY <1>5, <1>11, <1>12, <1>14, <1>15, <1>16, Reported DEF M

THEOREM ReportsInvariance == UnitsSpec => []ReportsInv
<1>1. ReportsInv /\ UNCHANGED <<events, scope, testClean, count>> => ReportsInv'
  BY DEF ReportsInv, SessionInv, Inner
<1>2. ReportsInv /\ SessionGoesOn => ReportsInv'
  <2>. SUFFICES ASSUME ReportsInv, StreamStep PROVE ReportsInv'
    BY DEF SessionGoesOn
  <2>1. CASE ProgramExits
    BY <1>1, <2>1 DEF ProgramExits, Exit
  <2>2. CASE CrashArrives
    BY <2>2, StepCrash
  <2>3. ASSUME NEW s \in Suites, SuiteStarts(s) PROVE ReportsInv'
    BY <2>3, StepOpens
  <2>4. ASSUME NEW t \in Tests, TestStarts(t) PROVE ReportsInv'
    BY <2>4, StepOpens
  <2>5. ASSUME NEW ok \in BOOLEAN, SuiteEnds(ok) PROVE ReportsInv'
    BY <2>5, StepCloses
  <2>6. ASSUME NEW kind \in Kinds \cap Bad, BadNewsArrives(kind) PROVE ReportsInv'
    BY <2>6, StepMessages
  <2>7. CASE RunnerStarts
    BY <2>7, StepOpens
  <2>8. CASE RunnerEnds \/ TestEnds
    BY <2>8, StepCloses
  <2>9. CASE ReportArrives
    BY <2>9, StepMessages
  <2>. QED  BY <2>1, <2>2, <2>3, <2>4, <2>5, <2>6, <2>7, <2>8, <2>9 DEF StreamStep
<1>3. ReportsInv /\ [UnitsNext]_unitVars => ReportsInv'
  <2>1. ASSUME TextGrows \/ MacroIsCalled \/ ListsChange \/ UNCHANGED unitVars
        PROVE  UNCHANGED <<events, scope, testClean, count>>
    BY <2>1 DEF TextGrows, MacroIsCalled, ListsChange, unitVars, streamVars, vars
  <2>. QED  BY <1>1, <1>2, <2>1 DEF UnitsNext
<1>. QED  BY <1>3, ReportsInitially, PTL DEF UnitsSpec

-----------------------------------------------------------------------------
(* The JSON file of a list of events.                                       *)

JSONStart == [tests |-> <<>>, suites |-> <<>>, reports |-> {}]

LEMMA JSONRuns ==
    ASSUME NEW V, NEW es \in Seq(V)
    PROVE  \E g : /\ g[0] = JSONStart /\ JSON(es) = g[Len(es)]
                  /\ \A p \in 1 .. Len(es) : g[p] = JSONEvent(es, g[p - 1], p)
<1>1. PICK n \in Nat : n = Len(es)
  BY LenProperties
<1> DEFINE Solves(g, k) ==
              g = [p \in 0 .. k |->
                     IF p = 0 THEN JSONStart ELSE JSONEvent(es, g[p - 1], p)]
           S == {k \in 0 .. n : \E g : Solves(g, k)}
           file == CHOOSE g : Solves(g, n)
<1>2. 0 \in S
  <2> DEFINE one == [p \in 0 .. 0 |-> JSONStart]
  <2>1. \A p \in 0 .. 0 : p = 0
    OBVIOUS
  <2>2. Solves(one, 0)
    BY <2>1
  <2>. HIDE DEF one, Solves
  <2>. QED  BY <2>2
<1>3. ASSUME NEW k \in 0 .. n - 1, k \in S PROVE k + 1 \in S
  <2>1. PICK g : Solves(g, k)
    BY <1>3
  <2> DEFINE more == [p \in 0 .. k + 1 |->
                        IF p = 0 THEN JSONStart ELSE JSONEvent(es, g[p - 1], p)]
  <2>2. ASSUME NEW p \in 0 .. k + 1, p # 0 PROVE more[p - 1] = g[p - 1]
    <3>1. p - 1 \in 0 .. k /\ p - 1 \in 0 .. k + 1
      BY <2>2
    <3>2. PICK q \in 0 .. k : q = p - 1 /\ q \in 0 .. k + 1
      BY <3>1
    <3>3. more[q] = IF q = 0 THEN JSONStart ELSE JSONEvent(es, g[q - 1], q)
      BY <3>2
    <3>4. g[q] = IF q = 0 THEN JSONStart ELSE JSONEvent(es, g[q - 1], q)
      BY <2>1
    <3>. HIDE DEF more
    <3>. QED  BY <3>2, <3>3, <3>4
  <2>3. Solves(more, k + 1)
    BY <2>2
  <2>4. k + 1 \in 0 .. n
    OBVIOUS
  <2>. HIDE DEF more, Solves
  <2>. QED  BY <2>3, <2>4
<1>4. n \in S
  <2>1. n \in 0 .. n
    OBVIOUS
  <2>2. \A k \in 0 .. n - 1 : k \in S => k + 1 \in S
    BY <1>3
  <2>. HIDE DEF S
  <2>. QED  BY <1>2, <2>1, <2>2, UpTo
<1>5. Solves(file, n)
  <2>1. \E g : Solves(g, n)
    BY <1>4
  <2>. HIDE DEF Solves
  <2>. QED  BY <2>1
<1>6. JSON(es) = file[n]
  BY <1>1 DEF JSON, JSONStart
<1>. HIDE DEF file
<1>7. file[0] = JSONStart
  <2>1. 0 \in 0 .. n
    OBVIOUS
  <2>. QED  BY <1>5, <2>1
<1>8. ASSUME NEW p \in 1 .. n PROVE file[p] = JSONEvent(es, file[p - 1], p)
  <2>1. p \in 0 .. n /\ p # 0
    OBVIOUS
  <2>. QED  BY <1>5, <2>1
<1>. QED  BY <1>1, <1>6, <1>7, <1>8

(* The messages an end at p finds, the object it makes of them, and the     *)
(* ends of tests up to p.                                                   *)
ReportsAt(es, p) ==
    {q \in 1 .. p : es[q].kind \in Messages
                       /\ \A m \in q + 1 .. p : es[m].kind # "startTest"}
TestObject(es, k) ==
    [name |-> es[k].obj, result |-> VerdictAtWrite(es, es[k]),
     reports |-> ReportsAt(es, k)]
EndsUpTo(es, p) == {k \in Places(es, "endTest") : k <= p}
BadEndsUpTo(es, p) == {k \in EndsUpTo(es, p) : ~VerdictAtWrite(es, es[k])}
BadObjects(objects) == {m \in DOMAIN objects : ~objects[m].result}

(* The file after p events.                                                 *)
TestObjects(es) ==
    [name : Tests, result : BOOLEAN, reports : SUBSET (1 .. Len(es))]
SuiteObjects == [name : Suites, result : BOOLEAN]
JSONStates(es) ==
    [tests : Seq(TestObjects(es)), suites : Seq(SuiteObjects),
     reports : SUBSET (1 .. Len(es))]
TestsTold(es, objects, p) ==
    /\ \A m \in 1 .. Len(objects) :
          \E k \in EndsUpTo(es, p) : objects[m] = TestObject(es, k)
    /\ \A k \in EndsUpTo(es, p) :
          \E m \in 1 .. Len(objects) : objects[m] = TestObject(es, k)
    /\ Cardinality(EndsUpTo(es, p)) = Len(objects)
    /\ Cardinality(BadEndsUpTo(es, p)) = Cardinality(BadObjects(objects))
SuitesTold(es, objects, p) ==
    \/ objects = <<>>
    \/ /\ Len(objects) = 1
       /\ \E k \in Places(es, "endSuite") :
             k <= p /\ \A m \in k + 1 .. p : es[m].kind # "startSuite"
JSONTold(es, st, p) ==
    /\ st \in JSONStates(es)
    /\ st.reports = ReportsAt(es, p)
    /\ TestsTold(es, st.tests, p)
    /\ EndsMatched(es) => SuitesTold(es, st.suites, p)

LEMMA ReportsAtMore ==
    ASSUME NEW es \in Seq(LogEvents), NEW p \in 1 .. Len(es)
    PROVE  /\ ReportsAt(es, 0) = {}
           /\ ReportsAt(es, p) \in SUBSET (1 .. Len(es))
           /\ es[p].kind = "startTest" => ReportsAt(es, p) = {}
           /\ es[p].kind \in Messages
                 => ReportsAt(es, p) = ReportsAt(es, p - 1) \cup {p}
           /\ es[p].kind \notin Messages \cup {"startTest"}
                 => ReportsAt(es, p) = ReportsAt(es, p - 1)
<1>1. PICK n \in Nat : n = Len(es)
  BY LenProperties
<1>2. p \in Nat /\ p >= 1 /\ p <= n
  BY <1>1
<1>3. \A q \in 1 .. p - 1 : q \in 1 .. p /\ q # p
  BY <1>2
<1>4. \A q \in 1 .. p : q = p \/ q \in 1 .. p - 1
  BY <1>2
<1>5. \A q \in 1 .. p - 1 : p \in q + 1 .. p
  BY <1>2
<1>6. \A q \in 1 .. p - 1 : \A m \in q + 1 .. p : m = p \/ m \in q + 1 .. p - 1
  BY <1>2
<1>7. \A q \in 1 .. p - 1 : \A m \in q + 1 .. p - 1 : m \in q + 1 .. p
  BY <1>2
<1>8. \A m \in p + 1 .. p : FALSE
  BY <1>2
<1>9. "startTest" \notin Messages
  BY DEF Messages
<1>10. ReportsAt(es, 0) = {}
  BY DEF ReportsAt
<1>11. ReportsAt(es, p) \in SUBSET (1 .. n)
  BY <1>2 DEF ReportsAt
<1>12. CASE es[p].kind = "startTest"
  BY <1>1, <1>4, <1>5, <1>9, <1>10, <1>11, <1>12 DEF ReportsAt
<1>13. ASSUME es[p].kind # "startTest"
       PROVE  \A q \in 1 .. p : q \in ReportsAt(es, p) <=>
                 (q = p /\ es[p].kind \in Messages) \/ q \in ReportsAt(es, p - 1)
  <2>1. ASSUME NEW q \in 1 .. p - 1
        PROVE  q \in ReportsAt(es, p) <=> q \in ReportsAt(es, p - 1)
    BY <1>3, <1>6, <1>7, <1>13 DEF ReportsAt
  <2>2. p \in ReportsAt(es, p) <=> es[p].kind \in Messages
    BY <1>2, <1>8 DEF ReportsAt
  <2>3. p \notin ReportsAt(es, p - 1)
    BY <1>2 DEF ReportsAt
  <2>. QED  BY <1>3, <1>4, <2>1, <2>2, <2>3
<1>14. /\ \A q \in ReportsAt(es, p) : q \in 1 .. p
       /\ \A q \in ReportsAt(es, p - 1) : q \in 1 .. p
  BY <1>3 DEF ReportsAt
<1>15. CASE es[p].kind \in Messages
  <2>1. ReportsAt(es, p) = ReportsAt(es, p - 1) \cup {p}
    BY <1>2, <1>9, <1>13, <1>14, <1>15
  <2>. QED  BY <1>1, <1>9, <1>10, <1>11, <1>15, <2>1
<1>16. CASE es[p].kind \notin Messages \cup {"startTest"}
  <2>1. ReportsAt(es, p) = ReportsAt(es, p - 1)
    BY <1>2, <1>13, <1>14, <1>16
  <2>. QED  BY <1>1, <1>10, <1>11, <1>16, <2>1
<1>. QED  BY <1>12, <1>15, <1>16

LEMMA EndsUpToMore ==
    ASSUME NEW es \in Seq(LogEvents), NEW p \in 1 .. Len(es)
    PROVE  /\ EndsUpTo(es, p - 1) \in SUBSET (1 .. p - 1)
           /\ es[p].kind # "endTest" => EndsUpTo(es, p) = EndsUpTo(es, p - 1)
           /\ es[p].kind = "endTest"
                 => EndsUpTo(es, p) = EndsUpTo(es, p - 1) \cup {p}
<1>1. PICK n \in Nat : n = Len(es)
  BY LenProperties
<1>2. p \in Nat /\ p >= 1 /\ p <= n
  BY <1>1
<1>3. \A k : k \in Places(es, "endTest") <=> k \in 1 .. n /\ es[k].kind = "endTest"
  BY <1>1, PlacesAre
<1>4. \A k \in 1 .. n : /\ k <= p <=> k = p \/ k <= p - 1
                        /\ k <= p - 1 => k \in 1 .. p - 1
  BY <1>2
<1>5. p \in 1 .. n
  BY <1>1
<1>. QED  BY <1>3, <1>4, <1>5 DEF EndsUpTo

LEMMA VerdictIs ==
    ASSUME NEW es, NEW e
    PROVE  VerdictAtWrite(es, e) \in BOOLEAN
  BY DEF VerdictAtWrite, Succeeded

LEMMA TestsToldSame ==
    ASSUME NEW es \in Seq(LogEvents), NEW p \in 1 .. Len(es),
           NEW objects, TestsTold(es, objects, p - 1), es[p].kind # "endTest"
    PROVE  TestsTold(es, objects, p)
<1>1. EndsUpTo(es, p) = EndsUpTo(es, p - 1)
  BY EndsUpToMore
<1>2. BadEndsUpTo(es, p) = BadEndsUpTo(es, p - 1)
  BY <1>1 DEF BadEndsUpTo
<1>. QED  BY <1>1, <1>2 DEF TestsTold

LEMMA TestsToldMore ==
    ASSUME NEW es \in Seq(LogEvents), NEW p \in 1 .. Len(es),
           NEW objects \in Seq(TestObjects(es)), TestsTold(es, objects, p - 1),
           es[p].kind = "endTest", NEW o \in TestObjects(es), o = TestObject(es, p)
    PROVE  TestsTold(es, Append(objects, o), p)
<1>1. PICK n \in Nat : n = Len(objects)
  BY LenProperties
<1>2. PICK more \in Seq(TestObjects(es)) :
         /\ more = Append(objects, o) /\ Len(more) = n + 1 /\ more[n + 1] = o
         /\ \A i \in 1 .. n : more[i] = objects[i]
  <2>1. /\ Append(objects, o) \in Seq(TestObjects(es))
        /\ Len(Append(objects, o)) = n + 1 /\ Append(objects, o)[n + 1] = o
        /\ \A i \in 1 .. n : Append(objects, o)[i] = objects[i]
    BY <1>1, AppendProperties
  <2>. QED  BY <2>1
<1>3. /\ EndsUpTo(es, p - 1) \in SUBSET (1 .. p - 1)
      /\ EndsUpTo(es, p) = EndsUpTo(es, p - 1) \cup {p}
  BY EndsUpToMore
<1>4. p \in Nat /\ p \notin 1 .. p - 1
  BY LenProperties
<1>5. /\ \A m \in 1 .. n :
            \E k \in EndsUpTo(es, p - 1) : objects[m] = TestObject(es, k)
      /\ \A k \in EndsUpTo(es, p - 1) :
            \E m \in 1 .. n : objects[m] = TestObject(es, k)
      /\ Cardinality(EndsUpTo(es, p - 1)) = n
      /\ Cardinality(BadEndsUpTo(es, p - 1)) = Cardinality(BadObjects(objects))
  BY <1>1 DEF TestsTold
<1>6. \A m \in 1 .. n + 1 : m = n + 1 \/ m \in 1 .. n
  OBVIOUS
<1>7. \A m \in 1 .. n : m \in 1 .. n + 1
  OBVIOUS
<1>8. ASSUME NEW m \in 1 .. n + 1
      PROVE  \E k \in EndsUpTo(es, p) : more[m] = TestObject(es, k)
  <2>1. CASE m = n + 1
    <3>1. more[m] = TestObject(es, p) /\ p \in EndsUpTo(es, p)
      BY <1>2, <1>3, <2>1
    <3>. QED  BY <3>1
  <2>2. CASE m \in 1 .. n
    <3>1. PICK k \in EndsUpTo(es, p - 1) : objects[m] = TestObject(es, k)
      BY <1>5, <2>2
    <3>2. more[m] = TestObject(es, k) /\ k \in EndsUpTo(es, p)
      BY <1>2, <1>3, <2>2, <3>1
    <3>. QED  BY <3>2
  <2>. QED  BY <1>6, <2>1, <2>2
<1>9. \A k \in EndsUpTo(es, p) : \E m \in 1 .. n + 1 : more[m] = TestObject(es, k)
  <2>1. n + 1 \in 1 .. n + 1
    OBVIOUS
  <2>. QED  BY <1>2, <1>3, <1>5, <1>7, <2>1
<1>10. /\ IsFiniteSet(EndsUpTo(es, p - 1)) /\ IsFiniteSet(BadEndsUpTo(es, p - 1))
       /\ BadEndsUpTo(es, p - 1) \in SUBSET (1 .. p - 1)
  <2>1. IsFiniteSet(1 .. p - 1)
    BY <1>4, FS_Interval
  <2>2. BadEndsUpTo(es, p - 1) \in SUBSET (1 .. p - 1)
    BY <1>3 DEF BadEndsUpTo
  <2>. QED  BY <1>3, <2>1, <2>2, FS_Subset
<1>11. Cardinality(EndsUpTo(es, p)) = n + 1
  <2>1. p \notin EndsUpTo(es, p - 1)
    BY <1>3, <1>4
  <2>2. Cardinality(EndsUpTo(es, p - 1) \cup {p})
           = Cardinality(EndsUpTo(es, p - 1)) + 1
    BY <1>10, <2>1, FS_AddElement
  <2>3. Cardinality(EndsUpTo(es, p - 1)) = n
    BY <1>5
  <2>. QED  BY <1>3, <2>2, <2>3
<1>12. DOMAIN objects = 1 .. n /\ DOMAIN more = 1 .. n + 1
  BY <1>1, <1>2, LenProperties
<1>13. IsFiniteSet(BadObjects(objects)) /\ n + 1 \notin BadObjects(objects)
  <2>1. IsFiniteSet(1 .. n)
    BY FS_Interval
  <2>2. BadObjects(objects) \in SUBSET (1 .. n)
    BY <1>12 DEF BadObjects
  <2>3. n + 1 \notin 1 .. n
    OBVIOUS
  <2>. QED  BY <2>1, <2>2, <2>3, FS_Subset
<1>14. o.result = VerdictAtWrite(es, es[p])
  BY DEF TestObject
<1>15. Cardinality(BadEndsUpTo(es, p)) = Cardinality(BadObjects(more))
  <2>1. CASE o.result
    <3>1. BadEndsUpTo(es, p) = BadEndsUpTo(es, p - 1)
      BY <1>3, <1>14, <2>1 DEF BadEndsUpTo
    <3>2. BadObjects(more) = BadObjects(objects)
      BY <1>2, <1>6, <1>7, <1>12, <2>1 DEF BadObjects
    <3>. QED  BY <1>5, <3>1, <3>2
  <2>2. CASE ~o.result
    <3>1. BadEndsUpTo(es, p) = BadEndsUpTo(es, p - 1) \cup {p}
      BY <1>3, <1>14, <2>2 DEF BadEndsUpTo
    <3>2. BadObjects(more) = BadObjects(objects) \cup {n + 1}
      <4>1. n + 1 \in 1 .. n + 1
        OBVIOUS
      <4>. QED  BY <1>2, <1>6, <1>7, <1>12, <2>2, <4>1 DEF BadObjects
    <3>3. Cardinality(BadEndsUpTo(es, p)) = Cardinality(BadEndsUpTo(es, p - 1)) + 1
      BY <1>4, <1>10, <3>1, FS_AddElement
    <3>4. Cardinality(BadObjects(more)) = Cardinality(BadObjects(objects)) + 1
      BY <1>13, <3>2, FS_AddElement
    <3>. QED  BY <1>5, <3>3, <3>4
  <2>. QED  BY <2>1, <2>2
<1>. QED  BY <1>2, <1>8, <1>9, <1>11, <1>15 DEF TestsTold

LEMMA SuitesToldMore ==
    ASSUME NEW es \in Seq(LogEvents), NEW p \in 1 .. Len(es), EndsMatched(es),
           NEW objects \in Seq(SuiteObjects), SuitesTold(es, objects, p - 1)
    PROVE  /\ es[p].kind # "startSuite" => SuitesTold(es, objects, p)
           /\ es[p].kind = "endSuite"
                 => \A o \in SuiteObjects : SuitesTold(es, Append(objects, o), p)
<1>1. PICK n \in Nat : n = Len(es)
  BY LenProperties
<1>2. p \in Nat /\ p >= 1 /\ p <= n
  BY <1>1
<1>3. \A kind, k : k \in Places(es, kind) <=> k \in 1 .. n /\ es[k].kind = kind
  BY <1>1, PlacesAre
<1>4. ASSUME es[p].kind # "startSuite" PROVE SuitesTold(es, objects, p)
  <2>1. ASSUME NEW k \in Places(es, "endSuite"), k <= p - 1,
               \A m \in k + 1 .. p - 1 : es[m].kind # "startSuite"
        PROVE  k <= p /\ \A m \in k + 1 .. p : es[m].kind # "startSuite"
    <3>1. k \in 1 .. n
      BY <1>3
    <3>2. \A m \in k + 1 .. p : m = p \/ m \in k + 1 .. p - 1
      BY <1>2, <3>1
    <3>3. k <= p
      BY <1>2, <2>1, <3>1
    <3>. QED  BY <1>4, <2>1, <3>2, <3>3
  <2>. QED  BY <2>1 DEF SuitesTold
<1>5. ASSUME es[p].kind = "endSuite", NEW o \in SuiteObjects
      PROVE  SuitesTold(es, Append(objects, o), p)
  <2>1. p \in Places(es, "endSuite")
    BY <1>1, <1>3, <1>5
  <2>2. objects = <<>>
    <3>1. ASSUME NEW k \in Places(es, "endSuite"), k <= p - 1,
                 \A m \in k + 1 .. p - 1 : es[m].kind # "startSuite"
          PROVE  FALSE
      <4>1. k \in 1 .. n /\ k < p
        BY <1>2, <1>3, <3>1
      <4>2. PICK m \in Places(es, "startSuite") : k < m /\ m < p
        BY <2>1, <4>1 DEF EndsMatched
      <4>3. m \in 1 .. n /\ es[m].kind = "startSuite"
        BY <1>3
      <4>4. m \in k + 1 .. p - 1
        BY <1>2, <4>1, <4>2, <4>3
      <4>. QED  BY <3>1, <4>3, <4>4
    <3>. QED  BY <3>1 DEF SuitesTold
  <2>3. Len(Append(objects, o)) = 1
    <3>1. Len(Append(objects, o)) = Len(objects) + 1
      BY AppendProperties
    <3>. QED  BY <2>2, <3>1, EmptySeq
  <2>4. \A m \in p + 1 .. p : FALSE
    BY <1>2
  <2>. QED  BY <1>2, <2>1, <2>3, <2>4 DEF SuitesTold
<1>. QED  BY <1>4, <1>5

LEMMA JSONStep ==
    ASSUME NEW es \in Seq(LogEvents), NEW p \in 1 .. Len(es),
           NEW st, JSONTold(es, st, p - 1)
    PROVE  JSONTold(es, JSONEvent(es, st, p), p)
<1>0. st \in JSONStates(es)
  BY DEF JSONTold
<1>1. /\ st \in JSONStates(es) /\ st.reports = ReportsAt(es, p - 1)
      /\ TestsTold(es, st.tests, p - 1)
      /\ EndsMatched(es) => SuitesTold(es, st.suites, p - 1)
  BY DEF JSONTold
<1>2. /\ st.tests \in Seq(TestObjects(es)) /\ st.suites \in Seq(SuiteObjects)
      /\ st.reports \in SUBSET (1 .. Len(es))
  BY <1>1 DEF JSONStates
<1>3. PICK e \in LogEvents : e = es[p]
  BY ElementOfSeq
<1>4. /\ e.kind \in {"startSuite", "endSuite", "startTest", "endTest"} \cup Messages
      /\ e.kind = "endTest" => e.obj \in Tests
      /\ e.kind = "endSuite" => e.obj \in Suites
  BY DEF LogEvents, TestKinds
<1>5. PICK next : next = JSONEvent(es, st, p)
  OBVIOUS
<1>6. ASSUME NEW tests, NEW suites, NEW reports,
             next = [tests |-> tests, suites |-> suites, reports |-> reports],
             tests \in Seq(TestObjects(es)), suites \in Seq(SuiteObjects),
             reports = ReportsAt(es, p), TestsTold(es, tests, p),
             EndsMatched(es) => SuitesTold(es, suites, p)
      PROVE  JSONTold(es, next, p)
  <2>1. next.tests = tests /\ next.suites = suites /\ next.reports = reports
    BY <1>6
  <2>2. reports \in SUBSET (1 .. Len(es))
    BY <1>6, ReportsAtMore
  <2>3. next \in JSONStates(es)
    BY <1>6, <2>2 DEF JSONStates
  <2>. QED  BY <1>6, <2>1, <2>3 DEF JSONTold
<1>7. \A kind \in Messages : kind \notin {"startSuite", "endSuite", "startTest", "endTest"}
  BY DEF Messages
<1>8. "endSuite" \notin Messages /\ "startSuite" \notin Messages /\ "endTest" \notin Messages
  BY DEF Messages
<1>9. CASE e.kind = "startSuite"
  <2>1. next = [tests |-> st.tests, suites |-> <<>>, reports |-> st.reports]
    BY <1>0, <1>3, <1>5, <1>9 DEF JSONEvent, JSONStates, Messages
  <2>2. <<>> \in Seq(SuiteObjects)
    BY EmptySeq
  <2>3. SuitesTold(es, <<>>, p)
    BY DEF SuitesTold
  <2>4. TestsTold(es, st.tests, p)
    BY <1>1, <1>3, <1>9, TestsToldSame
  <2>5. st.reports = ReportsAt(es, p)
    BY <1>1, <1>3, <1>8, <1>9, ReportsAtMore
  <2>. QED  BY <1>2, <1>5, <1>6, <2>1, <2>2, <2>3, <2>4, <2>5
<1>10. CASE e.kind = "endSuite"
  <2>1. PICK o : o = [name |-> e.obj, result |-> VerdictAtWrite(es, e)]
    OBVIOUS
  <2>2. o \in SuiteObjects
    BY <1>4, <1>10, <2>1, VerdictIs DEF SuiteObjects
  <2>3. next = [tests |-> st.tests, suites |-> Append(st.suites, o),
                reports |-> st.reports]
    BY <1>0, <1>3, <1>5, <1>10, <2>1 DEF JSONEvent, JSONStates, Messages
  <2>4. Append(st.suites, o) \in Seq(SuiteObjects)
    BY <1>2, <2>2, AppendProperties
  <2>5. EndsMatched(es) => SuitesTold(es, Append(st.suites, o), p)
    BY <1>1, <1>2, <1>3, <1>10, <2>2, SuitesToldMore
  <2>6. TestsTold(es, st.tests, p)
    BY <1>1, <1>3, <1>10, TestsToldSame
  <2>7. st.reports = ReportsAt(es, p)
    BY <1>1, <1>3, <1>8, <1>10, ReportsAtMore
  <2>. QED  BY <1>2, <1>5, <1>6, <2>3, <2>4, <2>5, <2>6, <2>7
<1>11. CASE e.kind = "startTest"
  <2>1. next = [tests |-> st.tests, suites |-> st.suites, reports |-> {}]
    BY <1>0, <1>3, <1>5, <1>11 DEF JSONEvent, JSONStates, Messages
  <2>2. EndsMatched(es) => SuitesTold(es, st.suites, p)
    BY <1>1, <1>2, <1>3, <1>11, SuitesToldMore
  <2>3. TestsTold(es, st.tests, p)
    BY <1>1, <1>3, <1>11, TestsToldSame
  <2>4. ReportsAt(es, p) = {}
    BY <1>3, <1>11, ReportsAtMore
  <2>. QED  BY <1>2, <1>5, <1>6, <2>1, <2>2, <2>3, <2>4
<1>12. CASE e.kind = "endTest"
  <2>1. st.reports = ReportsAt(es, p)
    BY <1>1, <1>3, <1>8, <1>12, ReportsAtMore
  <2>2. PICK o : o = [name |-> e.obj, result |-> VerdictAtWrite(es, e),
                      reports |-> st.reports]
    OBVIOUS
  <2>3. o \in TestObjects(es) /\ o = TestObject(es, p)
    BY <1>2, <1>3, <1>4, <1>12, <2>1, <2>2, VerdictIs DEF TestObjects, TestObject
  <2>4. next = [tests |-> Append(st.tests, o), suites |-> st.suites,
                reports |-> st.reports]
    BY <1>0, <1>3, <1>5, <1>12, <2>2 DEF JSONEvent, JSONStates, Messages
  <2>5. Append(st.tests, o) \in Seq(TestObjects(es))
    BY <1>2, <2>3, AppendProperties
  <2>6. TestsTold(es, Append(st.tests, o), p)
    BY <1>1, <1>2, <1>3, <1>12, <2>3, TestsToldMore
  <2>7. EndsMatched(es) => SuitesTold(es, st.suites, p)
    BY <1>1, <1>2, <1>3, <1>12, SuitesToldMore
  <2>. QED  BY <1>2, <1>5, <1>6, <2>1, <2>4, <2>5, <2>6, <2>7
<1>13. CASE e.kind \in Messages
  <2>1. next = [tests |-> st.tests, suites |-> st.suites,
                reports |-> st.reports \cup {p}]
    BY <1>0, <1>3, <1>5, <1>13 DEF JSONEvent, JSONStates, Messages
  <2>2. EndsMatched(es) => SuitesTold(es, st.suites, p)
    BY <1>1, <1>2, <1>3, <1>8, <1>13, SuitesToldMore
  <2>3. TestsTold(es, st.tests, p)
    BY <1>1, <1>3, <1>8, <1>13, TestsToldSame
  <2>4. st.reports \cup {p} = ReportsAt(es, p)
    BY <1>1, <1>3, <1>13, ReportsAtMore
  <2>. QED  BY <1>2, <1>5, <1>6, <2>1, <2>2, <2>3, <2>4
<1>. QED  BY <1>4, <1>5, <1>9, <1>10, <1>11, <1>12, <1>13

(* The JSON file has one object per end of a test, with the messages since  *)
(* the test that started last, and the last suite at most.                  *)
LEMMA JSONTells ==
    ASSUME NEW es \in Seq(LogEvents)
    PROVE  JSONTold(es, JSON(es), Len(es))
<1>1. PICK n \in Nat : n = Len(es)
  BY LenProperties
<1>2. PICK g : /\ g[0] = JSONStart /\ JSON(es) = g[n]
               /\ \A p \in 1 .. n : g[p] = JSONEvent(es, g[p - 1], p)
  BY <1>1, JSONRuns
<1> DEFINE S == {p \in 0 .. n : JSONTold(es, g[p], p)}
<1>3. 0 \in S
  <2>1. /\ JSONStart.tests = <<>> /\ JSONStart.suites = <<>>
        /\ JSONStart.reports = {} /\ JSONStart \in JSONStates(es)
    <3>1. <<>> \in Seq(TestObjects(es)) /\ <<>> \in Seq(SuiteObjects)
      BY EmptySeq
    <3>. QED  BY <3>1 DEF JSONStart, JSONStates
  <2>2. ReportsAt(es, 0) = {}
    BY DEF ReportsAt
  <2>3. EndsUpTo(es, 0) = {} /\ BadEndsUpTo(es, 0) = {}
    <3>1. \A k \in Places(es, "endTest") : k \in 1 .. n
      BY <1>1, PlacesAre
    <3>2. EndsUpTo(es, 0) = {}
      BY <3>1 DEF EndsUpTo
    <3>. QED  BY <3>2 DEF BadEndsUpTo
  <2>4. TestsTold(es, <<>>, 0)
    <3>1. BadObjects(<<>>) = {}
      BY DEF BadObjects
    <3>2. Len(<<>>) = 0 /\ Cardinality({}) = 0
      BY FS_EmptySet
    <3>3. \A m \in 1 .. 0 : FALSE
      OBVIOUS
    <3>. QED  BY <2>3, <3>1, <3>2, <3>3 DEF TestsTold
  <2>5. SuitesTold(es, <<>>, 0)
    BY DEF SuitesTold
  <2>6. JSONTold(es, g[0], 0)
    BY <1>2, <2>1, <2>2, <2>4, <2>5 DEF JSONTold
  <2>7. 0 \in 0 .. n
    OBVIOUS
  <2>. QED  BY <2>6, <2>7
<1>4. \A p \in 0 .. n - 1 : p \in S => p + 1 \in S
  <2>1. ASSUME NEW p \in 0 .. n - 1, p \in S PROVE p + 1 \in S
    <3>1. PICK q \in 1 .. n : q = p + 1 /\ q - 1 = p /\ q \in 0 .. n
      OBVIOUS
    <3>2. JSONTold(es, g[q - 1], q - 1)
      BY <2>1, <3>1
    <3>3. JSONTold(es, JSONEvent(es, g[q - 1], q), q)
      BY <1>1, <3>2, JSONStep
    <3>4. JSONTold(es, g[q], q)
      BY <1>2, <3>3
    <3>. QED  BY <3>1, <3>4
  <2>. QED  BY <2>1
<1>5. n \in S
  <2>1. n \in 0 .. n
    OBVIOUS
  <2>. HIDE DEF S
  <2>. QED  BY <1>3, <1>4, <2>1, UpTo
<1>. QED  BY <1>1, <1>2, <1>5

-----------------------------------------------------------------------------
(* The JUnit file of a list of events.                                      *)

LEMMA JUnitRuns ==
    ASSUME NEW V, NEW es \in Seq(V)
    PROVE  \E g : /\ g[0] = JUnitStart(es) /\ JUnit(es) = g[Len(es)]
                  /\ \A p \in 1 .. Len(es) : g[p] = JUnitEvent(es, g[p - 1], p)
<1>1. PICK n \in Nat : n = Len(es)
  BY LenProperties
<1> DEFINE Solves(g, k) ==
              g = [p \in 0 .. k |->
                     IF p = 0 THEN JUnitStart(es) ELSE JUnitEvent(es, g[p - 1], p)]
           S == {k \in 0 .. n : \E g : Solves(g, k)}
           file == CHOOSE g : Solves(g, n)
<1>2. 0 \in S
  <2> DEFINE one == [p \in 0 .. 0 |-> JUnitStart(es)]
  <2>1. \A p \in 0 .. 0 : p = 0
    OBVIOUS
  <2>2. Solves(one, 0)
    BY <2>1
  <2>. HIDE DEF one, Solves
  <2>. QED  BY <2>2
<1>3. ASSUME NEW k \in 0 .. n - 1, k \in S PROVE k + 1 \in S
  <2>1. PICK g : Solves(g, k)
    BY <1>3
  <2> DEFINE more == [p \in 0 .. k + 1 |->
                        IF p = 0 THEN JUnitStart(es) ELSE JUnitEvent(es, g[p - 1], p)]
  <2>2. ASSUME NEW p \in 0 .. k + 1, p # 0 PROVE more[p - 1] = g[p - 1]
    <3>1. p - 1 \in 0 .. k /\ p - 1 \in 0 .. k + 1
      BY <2>2
    <3>2. PICK q \in 0 .. k : q = p - 1 /\ q \in 0 .. k + 1
      BY <3>1
    <3>3. more[q] = IF q = 0 THEN JUnitStart(es) ELSE JUnitEvent(es, g[q - 1], q)
      BY <3>2
    <3>4. g[q] = IF q = 0 THEN JUnitStart(es) ELSE JUnitEvent(es, g[q - 1], q)
      BY <2>1
    <3>. HIDE DEF more
    <3>. QED  BY <3>2, <3>3, <3>4
  <2>3. Solves(more, k + 1)
    BY <2>2
  <2>4. k + 1 \in 0 .. n
    OBVIOUS
  <2>. HIDE DEF more, Solves
  <2>. QED  BY <2>3, <2>4
<1>4. n \in S
  <2>1. n \in 0 .. n
    OBVIOUS
  <2>2. \A k \in 0 .. n - 1 : k \in S => k + 1 \in S
    BY <1>3
  <2>. HIDE DEF S
  <2>. QED  BY <1>2, <2>1, <2>2, UpTo
<1>5. Solves(file, n)
  <2>1. \E g : Solves(g, n)
    BY <1>4
  <2>. HIDE DEF Solves
  <2>. QED  BY <2>1
<1>6. JUnit(es) = file[n]
  BY <1>1 DEF JUnit
<1>. HIDE DEF file
<1>7. file[0] = JUnitStart(es)
  <2>1. 0 \in 0 .. n
    OBVIOUS
  <2>. QED  BY <1>5, <2>1
<1>8. ASSUME NEW p \in 1 .. n PROVE file[p] = JUnitEvent(es, file[p - 1], p)
  <2>1. p \in 0 .. n /\ p # 0
    OBVIOUS
  <2>. QED  BY <1>5, <2>1
<1>. QED  BY <1>1, <1>6, <1>7, <1>8


(* The tests' starts up to p the file knows of: not the ones before the     *)
(* first suite's, if a suite starts at all.                                 *)
Knows(es, j) ==
    \/ Places(es, "startSuite") = {}
    \/ \E s \in Places(es, "startSuite") : s < j
KnownStarts(es, p) == {j \in Places(es, "startTest") : j <= p /\ Knows(es, j)}

(* The messages gathered at p, since the last known start; and the ones     *)
(* between j and k, where no other test starts.                             *)
MessagesAt(es, p, tag) ==
    {q \in 1 .. p : es[q].kind = tag /\ \A j \in KnownStarts(es, p) : j <= q}
Between(es, j, k, tag) == {q \in j + 1 .. k : es[q].kind = tag}
Follows(es, j, k) == j < k /\ \A q \in j + 1 .. k : es[q].kind # "startTest"

(* A test case tells of the start at j: its elements are the bad news that  *)
(* each end up to p found since then.                                       *)
Tells(es, c, j, p) ==
    /\ c.name = es[j].obj
    /\ \A el \in BadElements(c) : \E k \in EndsUpTo(es, p) :
          /\ Follows(es, j, k) /\ el.messages = Between(es, j, k, el.tag)
          /\ el.messages # {}
    /\ \A k \in EndsUpTo(es, p), tag \in Bad :
          Follows(es, j, k) /\ Between(es, j, k, tag) # {} =>
             \E el \in BadElements(c) :
                el.tag = tag /\ el.messages = Between(es, j, k, tag)

(* The last test case is the one of the test that started last.             *)
Past(es, j, p) == \E i \in KnownStarts(es, p) : j < i
CaseOf(es, cases, m, j, p) ==
    Tells(es, cases[m], j, p) /\ (m < Len(cases) <=> Past(es, j, p))
CasesTold(es, cases, p) ==
    /\ \A m \in 1 .. Len(cases) :
          \E j \in KnownStarts(es, p) : CaseOf(es, cases, m, j, p)
    /\ \A j \in KnownStarts(es, p) :
          \E m \in 1 .. Len(cases) : CaseOf(es, cases, m, j, p)

(* The file after p events.                                                 *)
Tags == {"failure", "error", "system-out"}
ElementsOf(es) == [tag : Tags, messages : SUBSET (1 .. Len(es))]
CasesOf(es) == [suite : Nat, name : Tests, elements : Seq(ElementsOf(es))]
JUnitStates(es) ==
    [suites : Seq(Suites \cup {"default"}), cases : Seq(CasesOf(es)),
     messages : [Tags -> SUBSET (1 .. Len(es))]]
JUnitTold(es, st, p) ==
    /\ st \in JUnitStates(es)
    /\ st.suites # <<>> <=> Knows(es, p + 1)
    /\ \A tag \in Bad : st.messages[tag] = MessagesAt(es, p, tag)
    /\ CasesTold(es, st.cases, p)

LEMMA KnowsIs ==
    ASSUME NEW es \in Seq(LogEvents), NEW j \in Nat
    PROVE  JUnitKnows(es, j) <=> Knows(es, j)
<1>1. PICK S : S = Places(es, "startSuite")
  OBVIOUS
<1>2. \A s \in S : s \in Nat
  <2>1. \A s \in S : s \in 1 .. Len(es)
    BY <1>1, PlacesAre
  <2>. QED  BY <2>1, LenProperties
<1>3. CASE S = {}
  BY <1>1, <1>3 DEF JUnitKnows, Knows
<1>4. CASE S # {}
  <2>1. Min(S) \in S /\ \A s \in S : Min(S) <= s
    <3>1. PICK m \in S : \A s \in S : m <= s
      BY <1>2, <1>4, LeastNumber
    <3>. QED  BY <3>1 DEF Min
  <2>2. PICK m \in Nat : m = Min(S)
    BY <1>2, <2>1
  <2>3. m < j <=> \E s \in S : s < j
    BY <1>2, <2>1, <2>2
  <2>. QED  BY <1>1, <1>4, <2>2, <2>3 DEF JUnitKnows, Knows
<1>. QED  BY <1>3, <1>4

LEMMA KnowsMore ==
    ASSUME NEW es \in Seq(LogEvents), NEW p \in 1 .. Len(es)
    PROVE  /\ es[p].kind = "startSuite" => Knows(es, p + 1)
           /\ es[p].kind # "startSuite" => (Knows(es, p + 1) <=> Knows(es, p))
           /\ \A j \in 1 .. p - 1 : Knows(es, j) => Knows(es, p)
<1>1. PICK n \in Nat : n = Len(es)
  BY LenProperties
<1>2. p \in Nat /\ p \in 1 .. n
  BY <1>1
<1>3. \A s : s \in Places(es, "startSuite") <=> s \in 1 .. n /\ es[s].kind = "startSuite"
  BY <1>1, PlacesAre
<1>4. \A s \in 1 .. n : s < p + 1 <=> s = p \/ s < p
  BY <1>2
<1>5. \A s \in 1 .. n : \A j \in 1 .. p - 1 : s < j => s < p
  BY <1>2
<1>. QED  BY <1>2, <1>3, <1>4, <1>5 DEF Knows

LEMMA KnownStartsMore ==
    ASSUME NEW es \in Seq(LogEvents), NEW p \in 1 .. Len(es)
    PROVE  /\ KnownStarts(es, p - 1) \in SUBSET (1 .. p - 1)
           /\ es[p].kind = "startTest" /\ Knows(es, p)
                 => KnownStarts(es, p) = KnownStarts(es, p - 1) \cup {p}
           /\ es[p].kind # "startTest" \/ ~Knows(es, p)
                 => KnownStarts(es, p) = KnownStarts(es, p - 1)
<1>1. PICK n \in Nat : n = Len(es)
  BY LenProperties
<1>2. p \in Nat /\ p \in 1 .. n
  BY <1>1
<1>3. \A j : j \in Places(es, "startTest") <=> j \in 1 .. n /\ es[j].kind = "startTest"
  BY <1>1, PlacesAre
<1>4. \A j \in 1 .. n : /\ j <= p <=> j = p \/ j <= p - 1
                        /\ j <= p - 1 => j \in 1 .. p - 1
  BY <1>2
<1>. QED  BY <1>2, <1>3, <1>4 DEF KnownStarts

LEMMA MessagesAtMore ==
    ASSUME NEW es \in Seq(LogEvents), NEW p \in 1 .. Len(es), NEW tag \in Bad
    PROVE  /\ es[p].kind = "startTest" /\ Knows(es, p) => MessagesAt(es, p, tag) = {}
           /\ es[p].kind = tag
                 => MessagesAt(es, p, tag) = MessagesAt(es, p - 1, tag) \cup {p}
           /\ es[p].kind # tag /\ (es[p].kind # "startTest" \/ ~Knows(es, p))
                 => MessagesAt(es, p, tag) = MessagesAt(es, p - 1, tag)
<1>1. PICK n \in Nat : n = Len(es)
  BY LenProperties
<1>2. p \in Nat /\ p \in 1 .. n
  BY <1>1
<1>3. KnownStarts(es, p - 1) \in SUBSET (1 .. p - 1)
  BY KnownStartsMore
<1>4. \A q \in 1 .. p - 1 : q \in 1 .. p /\ q # p /\ ~(p <= q) /\ q <= p
  BY <1>2
<1>5. \A q \in 1 .. p : q = p \/ q \in 1 .. p - 1
  BY <1>2
<1>6. tag # "startTest"
  BY DEF Bad
<1>7. CASE es[p].kind = "startTest" /\ Knows(es, p)
  <2>1. KnownStarts(es, p) = KnownStarts(es, p - 1) \cup {p}
    BY <1>7, KnownStartsMore
  <2>2. MessagesAt(es, p, tag) = {}
    BY <1>4, <1>5, <1>6, <1>7, <2>1 DEF MessagesAt
  <2>. QED  BY <1>6, <1>7, <2>2
<1>8. CASE es[p].kind # "startTest" \/ ~Knows(es, p)
  <2>1. KnownStarts(es, p) = KnownStarts(es, p - 1)
    BY <1>8, KnownStartsMore
  <2>2. \A q \in 1 .. p - 1 :
           q \in MessagesAt(es, p, tag) <=> q \in MessagesAt(es, p - 1, tag)
    BY <1>4, <2>1 DEF MessagesAt
  <2>3. p \in MessagesAt(es, p, tag) <=> es[p].kind = tag
    BY <1>2, <1>3, <1>4, <2>1 DEF MessagesAt
  <2>4. /\ \A q \in MessagesAt(es, p, tag) : q \in 1 .. p
        /\ \A q \in MessagesAt(es, p - 1, tag) : q \in 1 .. p - 1
    BY DEF MessagesAt
  <2>5. es[p].kind = tag
           => MessagesAt(es, p, tag) = MessagesAt(es, p - 1, tag) \cup {p}
    BY <1>2, <1>5, <2>2, <2>3, <2>4
  <2>6. es[p].kind # tag => MessagesAt(es, p, tag) = MessagesAt(es, p - 1, tag)
    BY <1>5, <2>2, <2>3, <2>4
  <2>. QED  BY <1>8, <2>5, <2>6
<1>. QED  BY <1>7, <1>8

(* What an end adds to its test case.                                       *)
Found(messages, el) ==
    /\ el.tag \in Bad /\ messages[el.tag] # {}
    /\ el = [tag |-> el.tag, messages |-> messages[el.tag]]

LEMMA ElementsAre ==
    ASSUME NEW es, NEW messages \in [Tags -> SUBSET (1 .. Len(es))]
    PROVE  /\ Elements(messages) \in Seq(ElementsOf(es))
           /\ \A el : el \in Range(Elements(messages)) /\ el.tag \in Bad
                         <=> Found(messages, el)
<1>1. ASSUME NEW tag \in Tags
      PROVE  /\ Element(tag, messages) \in Seq(ElementsOf(es))
             /\ Range(Element(tag, messages))
                   = {el \in {[tag |-> tag, messages |-> messages[tag]]} :
                         messages[tag] # {}}
  <2>1. PICK x \in ElementsOf(es) : x = [tag |-> tag, messages |-> messages[tag]]
    BY DEF ElementsOf
  <2>2. CASE messages[tag] = {}
    <3>1. Element(tag, messages) = <<>>
      BY <2>2 DEF Element
    <3>2. Range(<<>>) = {}
      BY DEF Range
    <3>. QED  BY <2>2, <3>1, <3>2, EmptySeq
  <2>3. CASE messages[tag] # {}
    <3>1. Element(tag, messages) = <<x>>
      BY <2>1, <2>3 DEF Element
    <3>2. <<x>> \in Seq(ElementsOf(es))
      OBVIOUS
    <3>3. Range(<<x>>) = {x}
      <4>1. Range(<<x>>) = {<<x>>[i] : i \in 1 .. 1}
        BY <3>2, RangeEquality
      <4>2. \A i : i \in 1 .. 1 <=> i = 1
        OBVIOUS
      <4>. QED  BY <4>1, <4>2
    <3>. QED  BY <2>1, <2>3, <3>1, <3>2, <3>3
  <2>. QED  BY <2>2, <2>3
<1>2. PICK f \in Seq(ElementsOf(es)) : f = Element("failure", messages)
  BY <1>1 DEF Tags
<1>3. PICK e \in Seq(ElementsOf(es)) : e = Element("error", messages)
  BY <1>1 DEF Tags
<1>4. PICK o \in Seq(ElementsOf(es)) : o = Element("system-out", messages)
  BY <1>1 DEF Tags
<1>5. /\ Elements(messages) = f \o e \o o
      /\ f \o e \in Seq(ElementsOf(es))
      /\ f \o e \o o \in Seq(ElementsOf(es))
  BY <1>2, <1>3, <1>4, ConcatProperties DEF Elements
<1>6. Range(Elements(messages)) = Range(f) \cup Range(e) \cup Range(o)
  <2>1. PICK fe \in Seq(ElementsOf(es)) : fe = f \o e
    BY <1>5
  <2>2. Range(f \o e) = Range(f) \cup Range(e)
    BY RangeConcatenation
  <2>3. Range(fe \o o) = Range(fe) \cup Range(o)
    BY RangeConcatenation
  <2>. QED  BY <1>5, <2>1, <2>2, <2>3
<1>7. \A el : el \in Range(f) <=>
         el = [tag |-> "failure", messages |-> messages["failure"]]
            /\ messages["failure"] # {}
  BY <1>1, <1>2 DEF Tags
<1>8. \A el : el \in Range(e) <=>
         el = [tag |-> "error", messages |-> messages["error"]]
            /\ messages["error"] # {}
  BY <1>1, <1>3 DEF Tags
<1>9. \A el : el \in Range(o) <=>
         el = [tag |-> "system-out", messages |-> messages["system-out"]]
            /\ messages["system-out"] # {}
  BY <1>1, <1>4 DEF Tags
<1>10. ASSUME NEW el
       PROVE  el \in Range(Elements(messages)) /\ el.tag \in Bad <=> Found(messages, el)
  <2>1. el \in Range(o) => el.tag \notin Bad
    BY <1>9 DEF Bad
  <2>2. el \in Range(f) \cup Range(e) => el.tag \in Bad /\ Found(messages, el)
    BY <1>7, <1>8 DEF Bad, Found
  <2>3. Found(messages, el) => el.tag \in Bad /\ el \in Range(f) \cup Range(e)
    BY <1>7, <1>8 DEF Bad, Found
  <2>. QED  BY <1>6, <2>1, <2>2, <2>3
<1>. QED  BY <1>5, <1>10

LEMMA TellsSame ==
    ASSUME NEW es \in Seq(LogEvents), NEW p \in 1 .. Len(es), NEW c, NEW j,
           Tells(es, c, j, p - 1),
           es[p].kind # "endTest" \/ ~Follows(es, j, p)
    PROVE  Tells(es, c, j, p)
<1>1. CASE es[p].kind # "endTest"
  <2>1. EndsUpTo(es, p) = EndsUpTo(es, p - 1)
    BY <1>1, EndsUpToMore
  <2>. QED  BY <2>1 DEF Tells
<1>2. CASE es[p].kind = "endTest"
  <2>1. EndsUpTo(es, p) = EndsUpTo(es, p - 1) \cup {p}
    BY <1>2, EndsUpToMore
  <2>. QED  BY <1>2, <2>1 DEF Tells
<1>. QED  BY <1>1, <1>2

(* The cases, when no known test starts and none ends.                      *)
LEMMA CasesToldSame ==
    ASSUME NEW es \in Seq(LogEvents), NEW p \in 1 .. Len(es),
           NEW cases, CasesTold(es, cases, p - 1),
           es[p].kind # "startTest" \/ ~Knows(es, p), es[p].kind # "endTest"
    PROVE  CasesTold(es, cases, p)
<1>1. KnownStarts(es, p) = KnownStarts(es, p - 1)
  BY KnownStartsMore
<1>2. \A m, j : CaseOf(es, cases, m, j, p - 1) => CaseOf(es, cases, m, j, p)
  <2>1. ASSUME NEW m, NEW j, CaseOf(es, cases, m, j, p - 1)
        PROVE  CaseOf(es, cases, m, j, p)
    <3>1. Tells(es, cases[m], j, p)
      BY <2>1, TellsSame DEF CaseOf
    <3>2. Past(es, j, p) <=> Past(es, j, p - 1)
      BY <1>1 DEF Past
    <3>. QED  BY <2>1, <3>1, <3>2 DEF CaseOf
  <2>. QED  BY <2>1
<1>. QED  BY <1>1, <1>2 DEF CasesTold

(* A known test starts.                                                     *)
LEMMA CasesToldStart ==
    ASSUME NEW es \in Seq(LogEvents), NEW p \in 1 .. Len(es),
           NEW cases \in Seq(CasesOf(es)), CasesTold(es, cases, p - 1),
           es[p].kind = "startTest", Knows(es, p),
           NEW c \in CasesOf(es), c.name = es[p].obj, c.elements = <<>>
    PROVE  CasesTold(es, Append(cases, c), p)
<1>1. PICK n \in Nat : n = Len(cases)
  BY LenProperties
<1>2. PICK more \in Seq(CasesOf(es)) :
         /\ more = Append(cases, c) /\ Len(more) = n + 1 /\ more[n + 1] = c
         /\ \A i \in 1 .. n : more[i] = cases[i]
  <2>1. /\ Append(cases, c) \in Seq(CasesOf(es))
        /\ Len(Append(cases, c)) = n + 1 /\ Append(cases, c)[n + 1] = c
        /\ \A i \in 1 .. n : Append(cases, c)[i] = cases[i]
    BY <1>1, AppendProperties
  <2>. QED  BY <2>1
<1>3. p \in Nat
  BY LenProperties
<1>4. /\ KnownStarts(es, p - 1) \in SUBSET (1 .. p - 1)
      /\ KnownStarts(es, p) = KnownStarts(es, p - 1) \cup {p}
  BY KnownStartsMore
<1>5. EndsUpTo(es, p) \in SUBSET (1 .. p - 1)
  BY EndsUpToMore
<1>6. \A j \in 1 .. p - 1 : j < p /\ ~(p < j)
  BY <1>3
<1>7. ASSUME NEW m \in 1 .. n, NEW j \in KnownStarts(es, p - 1),
             CaseOf(es, cases, m, j, p - 1)
      PROVE  CaseOf(es, more, m, j, p) /\ m \in 1 .. n + 1
  <2>1. Tells(es, more[m], j, p)
    BY <1>2, <1>7, TellsSame DEF CaseOf
  <2>2. Past(es, j, p)
    BY <1>4, <1>6 DEF Past
  <2>3. m < n + 1 /\ m \in 1 .. n + 1
    OBVIOUS
  <2>. QED  BY <1>2, <2>1, <2>2, <2>3 DEF CaseOf
<1>8. CaseOf(es, more, n + 1, p, p)
  <2>1. BadElements(c) = {}
    BY DEF BadElements, Range
  <2>2. \A k \in EndsUpTo(es, p) : ~Follows(es, p, k)
    BY <1>5, <1>6 DEF Follows
  <2>3. Tells(es, c, p, p)
    BY <2>1, <2>2 DEF Tells
  <2>4. ~Past(es, p, p)
    BY <1>3, <1>4, <1>6 DEF Past
  <2>5. ~(n + 1 < n + 1)
    OBVIOUS
  <2>. QED  BY <1>2, <2>3, <2>4, <2>5 DEF CaseOf
<1>9. \A m \in 1 .. n + 1 : m \in 1 .. n \/ m = n + 1
  OBVIOUS
<1>10. n + 1 \in 1 .. n + 1
  OBVIOUS
<1>11. \A m \in 1 .. n + 1 : \E j \in KnownStarts(es, p) : CaseOf(es, more, m, j, p)
  <2>1. \A m \in 1 .. n : \E j \in KnownStarts(es, p - 1) :
           CaseOf(es, cases, m, j, p - 1)
    BY <1>1 DEF CasesTold
  <2>. QED  BY <1>4, <1>7, <1>8, <1>9, <2>1
<1>12. \A j \in KnownStarts(es, p) : \E m \in 1 .. n + 1 : CaseOf(es, more, m, j, p)
  <2>1. \A j \in KnownStarts(es, p - 1) : \E m \in 1 .. n :
           CaseOf(es, cases, m, j, p - 1)
    BY <1>1 DEF CasesTold
  <2>. QED  BY <1>4, <1>7, <1>8, <1>10, <2>1
<1>. QED  BY <1>2, <1>11, <1>12 DEF CasesTold

(* A test ends: the last case, the one of the test started last, gets what  *)
(* came since then.                                                         *)
LEMMA CasesToldEnd ==
    ASSUME NEW es \in Seq(LogEvents), NEW p \in 1 .. Len(es),
           NEW cases \in Seq(CasesOf(es)), CasesTold(es, cases, p - 1),
           es[p].kind = "endTest",
           NEW messages, \A tag \in Bad : messages[tag] = MessagesAt(es, p - 1, tag),
           NEW c, c.name = cases[Len(cases)].name,
           \A el : el \in BadElements(c) <=>
              el \in BadElements(cases[Len(cases)]) \/ Found(messages, el),
           NEW more, Len(more) = Len(cases), more[Len(cases)] = c,
           \A m \in 1 .. Len(cases) : m < Len(cases) => more[m] = cases[m]
    PROVE  CasesTold(es, more, p)
<1>1. PICK n \in Nat : n = Len(cases)
  BY LenProperties
<1>2. p \in Nat /\ p \in 1 .. Len(es)
  BY LenProperties
<1>3. /\ KnownStarts(es, p - 1) \in SUBSET (1 .. p - 1)
      /\ KnownStarts(es, p) = KnownStarts(es, p - 1)
  BY KnownStartsMore
<1>4. EndsUpTo(es, p) = EndsUpTo(es, p - 1) \cup {p}
  BY EndsUpToMore
<1>5. \A j : Past(es, j, p) <=> Past(es, j, p - 1)
  BY <1>3 DEF Past
<1>6. \A j \in KnownStarts(es, p - 1) : j \in 1 .. p - 1 /\ es[j].kind = "startTest"
  <2>1. \A j \in KnownStarts(es, p - 1) : j \in Places(es, "startTest")
    BY DEF KnownStarts
  <2>. QED  BY <1>3, <2>1, PlacesAre
<1>7. ASSUME NEW j \in KnownStarts(es, p - 1), Past(es, j, p - 1)
      PROVE  ~Follows(es, j, p)
  <2>1. PICK i \in KnownStarts(es, p - 1) : j < i
    BY <1>7 DEF Past
  <2>2. i \in j + 1 .. p /\ es[i].kind = "startTest"
    BY <1>2, <1>6, <2>1
  <2>. QED  BY <2>2 DEF Follows
<1>8. ASSUME NEW j \in KnownStarts(es, p - 1), ~Past(es, j, p - 1)
      PROVE  /\ Follows(es, j, p)
             /\ \A tag \in Bad : MessagesAt(es, p - 1, tag) = Between(es, j, p, tag)
  <2>1. j \in 1 .. p - 1 /\ j < p /\ es[j].kind = "startTest"
    BY <1>2, <1>6
  <2>2. \A i \in KnownStarts(es, p - 1) : i <= j
    <3>1. \A i \in 1 .. p - 1 : ~(j < i) => i <= j
      BY <1>2, <2>1
    <3>. QED  BY <1>3, <1>8, <3>1 DEF Past
  <2>3. ASSUME NEW q \in j + 1 .. p, es[q].kind = "startTest" PROVE FALSE
    <3>1. q # p
      BY <2>3
    <3>2. q \in 1 .. p - 1 /\ q <= p - 1 /\ q \in 1 .. Len(es) /\ ~(q <= j) /\ j < q
      BY <1>2, <2>1, <3>1, LenProperties
    <3>3. Knows(es, j)
      BY DEF KnownStarts
    <3>4. Knows(es, q)
      <4>1. \A s \in Places(es, "startSuite") : s < j => s < q
        <5>1. \A s \in Places(es, "startSuite") : s \in 1 .. Len(es)
          BY PlacesAre
        <5>2. \A s \in 1 .. Len(es) : s < j => s < q
          BY <1>2, <2>1, <3>2, LenProperties
        <5>. QED  BY <5>1, <5>2
      <4>. QED  BY <3>3, <4>1 DEF Knows
    <3>5. q \in KnownStarts(es, p - 1)
      BY <2>3, <3>2, <3>4, PlacesAre DEF KnownStarts
    <3>. QED  BY <2>2, <3>2, <3>5
  <2>4. Follows(es, j, p)
    BY <2>1, <2>3 DEF Follows
  <2>5. ASSUME NEW tag \in Bad
        PROVE  MessagesAt(es, p - 1, tag) = Between(es, j, p, tag)
    <3>1. tag # "startTest" /\ tag # "endTest"
      BY DEF Bad
    <3>2. \A q \in 1 .. p - 1 : es[q].kind = tag =>
             (q \in j + 1 .. p <=> \A i \in KnownStarts(es, p - 1) : i <= q)
      <4>1. \A q \in 1 .. p - 1 : q = j \/ (q \in j + 1 .. p <=> j <= q)
        BY <1>2, <2>1
      <4>2. \A q \in 1 .. p - 1 : es[q].kind = tag => q # j
        BY <2>1, <3>1
      <4>3. \A q \in 1 .. p - 1, i \in 1 .. p - 1 : i <= j /\ j <= q => i <= q
        BY <1>2, <2>1
      <4>. QED  BY <1>3, <2>2, <4>1, <4>2, <4>3
    <3>3. \A q \in j + 1 .. p : q = p \/ q \in 1 .. p - 1
      BY <1>2, <2>1
    <3>. QED  BY <3>1, <3>2, <3>3 DEF MessagesAt, Between
  <2>. QED  BY <2>4, <2>5
<1>9. ASSUME NEW m \in 1 .. n, NEW j \in KnownStarts(es, p - 1),
             CaseOf(es, cases, m, j, p - 1)
      PROVE  CaseOf(es, more, m, j, p)
  <2>1. Tells(es, cases[m], j, p - 1) /\ (m < n <=> Past(es, j, p - 1))
    BY <1>1, <1>9 DEF CaseOf
  <2>2. CASE m < n
    <3>1. Tells(es, cases[m], j, p)
      BY <1>7, <2>1, <2>2, TellsSame
    <3>. QED  BY <1>1, <1>5, <2>1, <2>2, <3>1 DEF CaseOf
  <2>3. CASE m = n
    <3>1. ~Past(es, j, p - 1)
      BY <2>1, <2>3
    <3>2. /\ Follows(es, j, p)
          /\ \A tag \in Bad : messages[tag] = Between(es, j, p, tag)
      BY <1>8, <3>1
    <3>3. PICK last : last = cases[n]
      OBVIOUS
    <3>4. /\ more[m] = c /\ c.name = last.name
          /\ \A el : el \in BadElements(c) <=>
                el \in BadElements(last) \/ Found(messages, el)
          /\ Tells(es, last, j, p - 1)
      BY <1>1, <2>1, <2>3, <3>3
    <3>5. ASSUME NEW el \in BadElements(c)
          PROVE  \E k \in EndsUpTo(es, p) :
                    /\ Follows(es, j, k) /\ el.messages = Between(es, j, k, el.tag)
                    /\ el.messages # {}
      <4>1. CASE el \in BadElements(last)
        BY <1>4, <3>4, <4>1 DEF Tells
      <4>2. CASE Found(messages, el)
        <5>1. el.tag \in Bad /\ el.messages = messages[el.tag] /\ el.messages # {}
          BY <4>2 DEF Found
        <5>. QED  BY <1>4, <3>2, <5>1
      <4>. QED  BY <3>4, <4>1, <4>2
    <3>6. ASSUME NEW k \in EndsUpTo(es, p), NEW tag \in Bad,
                 Follows(es, j, k), Between(es, j, k, tag) # {}
          PROVE  \E el \in BadElements(c) :
                    el.tag = tag /\ el.messages = Between(es, j, k, tag)
      <4>1. CASE k \in EndsUpTo(es, p - 1)
        BY <3>4, <3>6, <4>1 DEF Tells
      <4>2. CASE k = p
        <5>1. PICK el : el = [tag |-> tag, messages |-> messages[tag]]
          OBVIOUS
        <5>2. /\ el.tag = tag /\ el.messages = messages[tag]
              /\ el = [tag |-> el.tag, messages |-> messages[el.tag]]
          BY <5>1
        <5>3. messages[tag] = Between(es, j, k, tag)
          BY <3>2, <4>2
        <5>4. Found(messages, el)
          BY <3>6, <5>2, <5>3 DEF Found
        <5>. QED  BY <3>4, <5>2, <5>3, <5>4
      <4>. QED  BY <1>4, <4>1, <4>2
    <3>7. c.name = es[j].obj
      BY <3>4 DEF Tells
    <3>8. Tells(es, c, j, p)
      BY <3>5, <3>6, <3>7 DEF Tells
    <3>. QED  BY <1>1, <1>5, <2>1, <3>4, <3>8 DEF CaseOf
  <2>. QED  BY <2>2, <2>3
<1>. QED  BY <1>1, <1>3, <1>9 DEF CasesTold

LEMMA JUnitStep ==
    ASSUME NEW es \in Seq(LogEvents), NEW p \in 1 .. Len(es),
           NEW st, JUnitTold(es, st, p - 1)
    PROVE  JUnitTold(es, JUnitEvent(es, st, p), p)
<1>0. st \in JUnitStates(es)
  BY DEF JUnitTold
<1>1. /\ st.suites # <<>> <=> Knows(es, p)
      /\ \A tag \in Bad : st.messages[tag] = MessagesAt(es, p - 1, tag)
      /\ CasesTold(es, st.cases, p - 1)
  <2>1. (p - 1) + 1 = p
    BY LenProperties
  <2>. QED  BY <2>1 DEF JUnitTold
<1>2. /\ st.suites \in Seq(Suites \cup {"default"}) /\ st.cases \in Seq(CasesOf(es))
      /\ st.messages \in [Tags -> SUBSET (1 .. Len(es))]
      /\ st = [suites |-> st.suites, cases |-> st.cases, messages |-> st.messages]
  BY <1>0 DEF JUnitStates
<1>3. PICK e \in LogEvents : e = es[p]
  BY ElementOfSeq
<1>4. /\ e.kind \in {"startSuite", "endSuite", "startTest", "endTest"} \cup Messages
      /\ e.kind \in {"startTest", "endTest"} => e.obj \in Tests
      /\ e.kind \in {"startSuite", "endSuite"} => e.obj \in Suites
  BY DEF LogEvents, TestKinds
<1>5. PICK next : next = JUnitEvent(es, st, p)
  OBVIOUS
<1>6. ASSUME NEW suites, NEW cases, NEW messages,
             next = [suites |-> suites, cases |-> cases, messages |-> messages],
             suites \in Seq(Suites \cup {"default"}), cases \in Seq(CasesOf(es)),
             messages \in [Tags -> SUBSET (1 .. Len(es))],
             suites # <<>> <=> Knows(es, p + 1),
             \A tag \in Bad : messages[tag] = MessagesAt(es, p, tag),
             CasesTold(es, cases, p)
      PROVE  JUnitTold(es, next, p)
  <2>1. next.suites = suites /\ next.cases = cases /\ next.messages = messages
    BY <1>6
  <2>2. next \in JUnitStates(es)
    BY <1>6 DEF JUnitStates
  <2>. QED  BY <1>6, <2>1, <2>2 DEF JUnitTold
<1>7. /\ \A tag \in Bad : tag \in Tags /\ tag \in Messages
      /\ "report" \in Messages /\ "report" \notin Bad /\ "system-out" \notin Bad
      /\ \A kind \in Messages : kind = "report" \/ kind \in Bad
      /\ \A kind \in Messages :
            kind \notin {"startSuite", "endSuite", "startTest", "endTest"}
  BY DEF Bad, Tags, Messages
<1>8. st.cases = <<>> <=> Len(st.cases) = 0
  BY <1>2, EmptySeq
<1>9. CASE e.kind = "startSuite"
  <2>1. next = [suites |-> Append(st.suites, e.obj), cases |-> st.cases,
                messages |-> st.messages]
    BY <1>2, <1>3, <1>5, <1>9 DEF JUnitEvent, Bad
  <2>2. Append(st.suites, e.obj) \in Seq(Suites \cup {"default"})
        /\ Append(st.suites, e.obj) # <<>>
    BY <1>2, <1>4, <1>9, AppendProperties
  <2>3. Knows(es, p + 1)
    BY <1>3, <1>9, KnowsMore
  <2>4. \A tag \in Bad : st.messages[tag] = MessagesAt(es, p, tag)
    BY <1>1, <1>3, <1>7, <1>9, MessagesAtMore
  <2>5. CasesTold(es, st.cases, p)
    BY <1>1, <1>3, <1>9, CasesToldSame
  <2>. QED  BY <1>2, <1>5, <1>6, <2>1, <2>2, <2>3, <2>4, <2>5
<1>10. ASSUME next = st, e.kind \notin Messages, e.kind # "startSuite",
              e.kind # "startTest" \/ ~Knows(es, p),
              CasesTold(es, st.cases, p)
       PROVE  JUnitTold(es, next, p)
  <2>1. st.suites # <<>> <=> Knows(es, p + 1)
    BY <1>1, <1>3, <1>10, KnowsMore
  <2>2. \A tag \in Bad : st.messages[tag] = MessagesAt(es, p, tag)
    BY <1>1, <1>3, <1>7, <1>10, MessagesAtMore
  <2>. QED  BY <1>2, <1>6, <1>10, <2>1, <2>2
<1>11. CASE e.kind = "endSuite"
  <2>1. next = st
    BY <1>2, <1>3, <1>5, <1>11 DEF JUnitEvent, Bad
  <2>2. CasesTold(es, st.cases, p)
    BY <1>1, <1>3, <1>11, CasesToldSame
  <2>. QED  BY <1>5, <1>7, <1>10, <1>11, <2>1, <2>2
<1>12. CASE e.kind = "startTest" /\ ~Knows(es, p)
  <2>1. next = st
    BY <1>1, <1>2, <1>3, <1>5, <1>12 DEF JUnitEvent, Bad
  <2>2. CasesTold(es, st.cases, p)
    BY <1>1, <1>3, <1>12, CasesToldSame
  <2>. QED  BY <1>5, <1>7, <1>10, <1>12, <2>1, <2>2
<1>13. CASE e.kind = "startTest" /\ Knows(es, p)
  <2>1. PICK c : c = [suite |-> Len(st.suites), name |-> e.obj, elements |-> <<>>]
    OBVIOUS
  <2>2. /\ c \in CasesOf(es) /\ c.name = e.obj /\ c.elements = <<>>
    <3>1. <<>> \in Seq(ElementsOf(es)) /\ Len(st.suites) \in Nat
      BY <1>2, EmptySeq, LenProperties
    <3>. QED  BY <1>4, <1>13, <2>1, <3>1 DEF CasesOf
  <2>3. next = [suites |-> st.suites, cases |-> Append(st.cases, c),
                messages |-> NoMessages]
    BY <1>1, <1>2, <1>3, <1>5, <1>13, <2>1 DEF JUnitEvent, JUnitTest, Cleared, Bad
  <2>4. /\ NoMessages \in [Tags -> SUBSET (1 .. Len(es))]
        /\ \A tag \in Bad : NoMessages[tag] = {}
    BY <1>7 DEF NoMessages, Tags
  <2>5. \A tag \in Bad : NoMessages[tag] = MessagesAt(es, p, tag)
    BY <1>3, <1>13, <2>4, MessagesAtMore
  <2>6. Append(st.cases, c) \in Seq(CasesOf(es))
    BY <1>2, <2>2, AppendProperties
  <2>7. CasesTold(es, Append(st.cases, c), p)
    BY <1>1, <1>2, <1>3, <1>13, <2>2, CasesToldStart
  <2>8. st.suites # <<>> <=> Knows(es, p + 1)
    BY <1>1, <1>3, <1>13, KnowsMore
  <2>. QED  BY <1>2, <1>5, <1>6, <2>3, <2>4, <2>5, <2>6, <2>7, <2>8
<1>14. CASE e.kind = "endTest" /\ st.cases = <<>>
  <2>1. next = st
    BY <1>2, <1>3, <1>5, <1>14 DEF JUnitEvent, Bad
  <2>2. CasesTold(es, st.cases, p)
    <3>1. \A m \in 1 .. 0 : FALSE
      OBVIOUS
    <3>2. KnownStarts(es, p - 1) = {}
      BY <1>1, <1>8, <1>14, <3>1 DEF CasesTold
    <3>3. KnownStarts(es, p) = {}
      BY <1>3, <1>14, <3>2, KnownStartsMore
    <3>. QED  BY <1>8, <1>14, <3>1, <3>3 DEF CasesTold
  <2>. QED  BY <1>5, <1>7, <1>10, <1>14, <2>1, <2>2
<1>15. CASE e.kind = "endTest" /\ st.cases # <<>>
  <2>1. PICK n \in Nat : n = Len(st.cases) /\ n # 0 /\ n \in 1 .. n
    <3>1. PICK n \in Nat : n = Len(st.cases)
      BY <1>2, LenProperties
    <3>2. n # 0
      BY <1>8, <1>15, <3>1
    <3>. QED  BY <3>1, <3>2
  <2>2. PICK last \in CasesOf(es) : last = st.cases[n]
    BY <1>2, <2>1, ElementOfSeq
  <2>3. last.elements \in Seq(ElementsOf(es)) /\ last.suite \in Nat /\ last.name \in Tests
    BY DEF CasesOf
  <2>4. PICK added \in Seq(ElementsOf(es)) :
           /\ added = Elements(st.messages)
           /\ \A el : el \in Range(added) /\ el.tag \in Bad <=> Found(st.messages, el)
    BY <1>2, ElementsAre
  <2>5. PICK c : c = [suite |-> last.suite, name |-> last.name,
                      elements |-> last.elements \o added]
    OBVIOUS
  <2>6. c \in CasesOf(es)
    <3>1. last.elements \o added \in Seq(ElementsOf(es))
      BY <2>3, <2>4, ConcatProperties
    <3>. QED  BY <2>3, <2>5, <3>1 DEF CasesOf
  <2>7. PICK more : more = [st.cases EXCEPT ![n] = c]
    OBVIOUS
  <2>8. /\ more \in Seq(CasesOf(es)) /\ Len(more) = n /\ more[n] = c
        /\ \A m \in 1 .. n : m < n => more[m] = st.cases[m]
    <3>1. /\ more \in Seq(CasesOf(es)) /\ Len(more) = n
          /\ \A m \in 1 .. n : more[m] = IF m = n THEN c ELSE st.cases[m]
      BY <1>2, <2>1, <2>6, <2>7, ExceptSeq
    <3>2. \A m \in 1 .. n : m < n => m # n
      OBVIOUS
    <3>. QED  BY <2>1, <3>1, <3>2
  <2>9. next = [suites |-> st.suites, cases |-> more, messages |-> st.messages]
    <3>1. [last EXCEPT !.elements = @ \o added] = c
      <4>1. last = [suite |-> last.suite, name |-> last.name,
                    elements |-> last.elements]
        BY DEF CasesOf
      <4>2. PICK both : both = last.elements \o added
        OBVIOUS
      <4>3. [last EXCEPT !.elements = both]
               = [suite |-> last.suite, name |-> last.name, elements |-> both]
        BY <4>1
      <4>4. [last EXCEPT !.elements = @ \o added] = [last EXCEPT !.elements = both]
        BY <4>2
      <4>. QED  BY <2>5, <4>2, <4>3, <4>4
    <3>2. [st.cases EXCEPT ![n].elements = @ \o added] = more
      BY <2>2, <2>7, <3>1
    <3>3. next = [st EXCEPT !.cases[n].elements = @ \o added]
      BY <1>3, <1>5, <1>15, <2>1, <2>4 DEF JUnitEvent, Bad
    <3>4. next = [st EXCEPT !.cases = [st.cases EXCEPT ![n].elements = @ \o added]]
      BY <3>3
    <3>. QED  BY <1>2, <3>2, <3>4
  <2>10. \A el : el \in BadElements(c) <=>
            el \in BadElements(last) \/ Found(st.messages, el)
    <3>1. Range(last.elements \o added) = Range(last.elements) \cup Range(added)
      BY <2>3, <2>4, RangeConcatenation
    <3>2. c.elements = last.elements \o added
      BY <2>5
    <3>3. \A el : Found(st.messages, el) => el.tag \in Bad
      BY DEF Found
    <3>. QED  BY <2>4, <3>1, <3>2, <3>3 DEF BadElements
  <2>11. c.name = last.name
    BY <2>5
  <2>12. CasesTold(es, more, p)
    BY <1>1, <1>2, <1>3, <1>15, <2>1, <2>2, <2>8, <2>10, <2>11, CasesToldEnd
  <2>13. st.suites # <<>> <=> Knows(es, p + 1)
    BY <1>1, <1>3, <1>15, KnowsMore
  <2>14. \A tag \in Bad : st.messages[tag] = MessagesAt(es, p, tag)
    BY <1>1, <1>3, <1>7, <1>15, MessagesAtMore
  <2>. QED  BY <1>2, <1>5, <1>6, <2>8, <2>9, <2>12, <2>13, <2>14
<1>16. CASE e.kind \in Messages
  <2>1. PICK messages : messages = next.messages
    OBVIOUS
  <2>2. /\ next = [suites |-> st.suites, cases |-> st.cases, messages |-> messages]
        /\ messages \in [Tags -> SUBSET (1 .. Len(es))]
        /\ \A tag \in Bad : messages[tag] = IF e.kind = tag THEN st.messages[tag] \cup {p}
                                            ELSE st.messages[tag]
    <3>1. CASE e.kind = "report"
      <4>1. next = [st EXCEPT !.messages["system-out"] = @ \cup {p}]
        BY <1>3, <1>5, <3>1 DEF JUnitEvent, Bad
      <4>2. messages = [st.messages EXCEPT !["system-out"] = @ \cup {p}]
        BY <1>2, <2>1, <4>1
      <4>3. next = [suites |-> st.suites, cases |-> st.cases, messages |-> messages]
        BY <1>2, <4>1, <4>2
      <4>. QED  BY <1>2, <1>7, <3>1, <4>2, <4>3 DEF Tags
    <3>2. CASE e.kind \in Bad
      <4>1. next = [st EXCEPT !.messages[e.kind] = @ \cup {p},
                              !.messages["system-out"] = @ \cup {p}]
        BY <1>3, <1>5, <1>7, <3>2 DEF JUnitEvent
      <4>2. messages = [st.messages EXCEPT ![e.kind] = @ \cup {p},
                                           !["system-out"] = @ \cup {p}]
        BY <1>2, <2>1, <4>1
      <4>3. next = [suites |-> st.suites, cases |-> st.cases, messages |-> messages]
        BY <1>2, <4>1, <4>2
      <4>. QED  BY <1>2, <1>7, <3>2, <4>2, <4>3 DEF Tags
    <3>. QED  BY <1>7, <1>16, <3>1, <3>2
  <2>3. e.kind # "startSuite" /\ e.kind # "startTest" /\ e.kind # "endTest"
    BY <1>7, <1>16
  <2>4. \A tag \in Bad : messages[tag] = MessagesAt(es, p, tag)
    BY <1>1, <1>3, <2>2, <2>3, MessagesAtMore
  <2>5. CasesTold(es, st.cases, p)
    BY <1>1, <1>3, <2>3, CasesToldSame
  <2>6. st.suites # <<>> <=> Knows(es, p + 1)
    BY <1>1, <1>3, <2>3, KnowsMore
  <2>. QED  BY <1>2, <1>5, <1>6, <2>2, <2>4, <2>5, <2>6
<1>. QED  BY <1>4, <1>5, <1>9, <1>11, <1>12, <1>13, <1>14, <1>15, <1>16

(* The JUnit file has one test case per known start of a test, in which     *)
(* each end that follows puts the bad news it found.                        *)
LEMMA JUnitTells ==
    ASSUME NEW es \in Seq(LogEvents)
    PROVE  JUnitTold(es, JUnit(es), Len(es))
<1>1. PICK n \in Nat : n = Len(es)
  BY LenProperties
<1>2. PICK g : /\ g[0] = JUnitStart(es) /\ JUnit(es) = g[n]
               /\ \A p \in 1 .. n : g[p] = JUnitEvent(es, g[p - 1], p)
  BY <1>1, JUnitRuns
<1> DEFINE S == {p \in 0 .. n : JUnitTold(es, g[p], p)}
<1>3. 0 \in S
  <2>1. PICK st : st = JUnitStart(es)
    OBVIOUS
  <2>2. \A kind : \A s \in Places(es, kind) : s \in 1 .. n
    BY <1>1, PlacesAre
  <2>3. /\ st.suites \in Seq(Suites \cup {"default"})
        /\ st.suites # <<>> <=> Places(es, "startSuite") = {}
    <3>1. /\ <<"default">> \in Seq(Suites \cup {"default"}) /\ <<"default">> # <<>>
          /\ <<>> \in Seq(Suites \cup {"default"})
      <4>1. <<"default">> \in Seq(Suites \cup {"default"}) /\ <<"default">> # <<>>
        OBVIOUS
      <4>. QED  BY <4>1, EmptySeq
    <3>. QED  BY <2>1, <3>1 DEF JUnitStart
  <2>4. /\ st = [suites |-> st.suites, cases |-> <<>>, messages |-> NoMessages]
        /\ st.cases = <<>> /\ st.messages = NoMessages
    BY <2>1 DEF JUnitStart
  <2>5. NoMessages \in [Tags -> SUBSET (1 .. Len(es))]
        /\ \A tag \in Bad : NoMessages[tag] = {}
    BY DEF NoMessages, Tags, Bad
  <2>6. st \in JUnitStates(es)
    <3>1. <<>> \in Seq(CasesOf(es))
      BY EmptySeq
    <3>. QED  BY <2>3, <2>4, <2>5, <3>1 DEF JUnitStates
  <2>7. Knows(es, 0 + 1) <=> Places(es, "startSuite") = {}
    <3>1. \A s \in 1 .. n : ~(s < 0 + 1)
      OBVIOUS
    <3>. QED  BY <2>2, <3>1 DEF Knows
  <2>8. \A tag \in Bad : MessagesAt(es, 0, tag) = {}
    BY DEF MessagesAt
  <2>9. KnownStarts(es, 0) = {}
    BY <2>2 DEF KnownStarts
  <2>10. CasesTold(es, <<>>, 0)
    <3>1. Len(<<>>) = 0 /\ \A m \in 1 .. 0 : FALSE
      BY EmptySeq
    <3>. QED  BY <2>9, <3>1 DEF CasesTold
  <2>11. JUnitTold(es, st, 0)
    BY <2>3, <2>4, <2>5, <2>6, <2>7, <2>8, <2>10 DEF JUnitTold
  <2>12. 0 \in 0 .. n
    OBVIOUS
  <2>. QED  BY <1>2, <2>1, <2>11, <2>12
<1>4. \A p \in 0 .. n - 1 : p \in S => p + 1 \in S
  <2>1. ASSUME NEW p \in 0 .. n - 1, p \in S PROVE p + 1 \in S
    <3>1. PICK q \in 1 .. n : q = p + 1 /\ q - 1 = p /\ q \in 0 .. n
      OBVIOUS
    <3>2. JUnitTold(es, g[q - 1], q - 1)
      BY <2>1, <3>1
    <3>3. JUnitTold(es, JUnitEvent(es, g[q - 1], q), q)
      BY <1>1, <3>2, JUnitStep
    <3>4. JUnitTold(es, g[q], q)
      BY <1>2, <3>3
    <3>. QED  BY <3>1, <3>4
  <2>. QED  BY <2>1
<1>5. n \in S
  <2>1. n \in 0 .. n
    OBVIOUS
  <2>. HIDE DEF S
  <2>. QED  BY <1>3, <1>4, <2>1, UpTo
<1>. QED  BY <1>1, <1>2, <1>5

-----------------------------------------------------------------------------
(* The reports.                                                             *)

(* The start that an end without another start in between follows, is the   *)
(* one whose test ran until then.                                           *)
LEMMA OneRun ==
    ASSUME NEW es \in Seq(LogEvents), NEW j \in Places(es, "startTest"),
           NEW k, Follows(es, j, k), NEW i, Ran(es, i, k)
    PROVE  i = j
<1>1. PICK n \in Nat : n = Len(es)
  BY LenProperties
<1>2. /\ i \in 1 .. n /\ es[i].kind = "startTest" /\ k \in 1 .. n
      /\ j \in 1 .. n /\ es[j].kind = "startTest" /\ i < k /\ j < k
  BY <1>1, PlacesAre DEF Ran, Follows
<1>3. CASE i < j
  <2>1. j \in i + 1 .. k - 1
    BY <1>2, <1>3
  <2>2. es[j].kind \in Messages
    BY <2>1 DEF Ran, OnlyMessages
  <2>. QED  BY <1>2, <2>2 DEF Messages
<1>4. CASE j < i
  <2>1. i \in j + 1 .. k
    BY <1>2, <1>4
  <2>. QED  BY <1>2, <2>1 DEF Follows
<1>. QED  BY <1>2, <1>3, <1>4

LEMMA JUnitCaseOf ==
    ASSUME NEW es \in Seq(LogEvents)
    PROVE  /\ \A c \in JUnitCases(es) : \E j \in Places(es, "startTest") :
                 Knows(es, j) /\ Tells(es, c, j, Len(es))
           /\ \A j \in Places(es, "startTest") : Knows(es, j) =>
                 \E c \in JUnitCases(es) : Tells(es, c, j, Len(es))
<1>1. PICK n \in Nat : n = Len(es)
  BY LenProperties
<1>2. PICK cases : cases = JUnit(es).cases
  OBVIOUS
<1>3. JUnitTold(es, JUnit(es), n)
  BY <1>1, JUnitTells
<1>4. cases \in Seq(CasesOf(es)) /\ CasesTold(es, cases, n)
  BY <1>2, <1>3 DEF JUnitTold, JUnitStates
<1>5. /\ JUnitCases(es) = {cases[m] : m \in 1 .. Len(cases)}
  BY <1>2, <1>4, RangeEquality DEF JUnitCases
<1>6. \A j : j \in KnownStarts(es, n) <=> j \in Places(es, "startTest") /\ Knows(es, j)
  <2>1. \A j \in Places(es, "startTest") : j <= n
    <3>1. \A j \in Places(es, "startTest") : j \in 1 .. n
      BY <1>1, PlacesAre
    <3>. QED  BY <3>1
  <2>. QED  BY <2>1 DEF KnownStarts
<1>7. \A m \in 1 .. Len(cases) : \E j \in KnownStarts(es, n) : Tells(es, cases[m], j, n)
  BY <1>4 DEF CasesTold, CaseOf
<1>8. \A j \in KnownStarts(es, n) : \E m \in 1 .. Len(cases) : Tells(es, cases[m], j, n)
  BY <1>4 DEF CasesTold, CaseOf
<1>. QED  BY <1>1, <1>5, <1>6, <1>7, <1>8

LEMMA JSONObjectOf ==
    ASSUME NEW es \in Seq(LogEvents)
    PROVE  /\ \A o \in Range(JSON(es).tests) : \E k \in Places(es, "endTest") :
                 o = TestObject(es, k)
           /\ \A k \in Places(es, "endTest") : \E o \in Range(JSON(es).tests) :
                 o = TestObject(es, k)
           /\ EndsUpTo(es, Len(es)) = Places(es, "endTest")
<1>1. PICK n \in Nat : n = Len(es)
  BY LenProperties
<1>2. PICK tests : tests = JSON(es).tests
  OBVIOUS
<1>3. JSONTold(es, JSON(es), n)
  BY <1>1, JSONTells
<1>4. tests \in Seq(TestObjects(es)) /\ TestsTold(es, tests, n)
  BY <1>2, <1>3 DEF JSONTold, JSONStates
<1>5. /\ Range(tests) = {tests[m] : m \in 1 .. Len(tests)}
  BY <1>4, RangeEquality
<1>6. EndsUpTo(es, n) = Places(es, "endTest")
  <2>1. \A j \in Places(es, "endTest") : j <= n
    <3>1. \A j \in Places(es, "endTest") : j \in 1 .. n
      BY <1>1, PlacesAre
    <3>. QED  BY <3>1
  <2>. QED  BY <2>1 DEF EndsUpTo
<1>7. ASSUME NEW o \in Range(tests)
      PROVE  \E k \in Places(es, "endTest") : o = TestObject(es, k)
  <2>1. PICK m \in 1 .. Len(tests) : o = tests[m]
    BY <1>5
  <2>. QED  BY <1>4, <1>6, <2>1 DEF TestsTold
<1>8. ASSUME NEW k \in Places(es, "endTest")
      PROVE  \E o \in Range(tests) : o = TestObject(es, k)
  <2>1. PICK m \in 1 .. Len(tests) : tests[m] = TestObject(es, k)
    BY <1>4, <1>6 DEF TestsTold
  <2>2. tests[m] \in Range(tests)
    BY <1>5
  <2>. QED  BY <2>1, <2>2
<1>. QED  BY <1>1, <1>2, <1>6, <1>7, <1>8

(* A message of a test that ends is where its reader looks for it.          *)
LEMMA MessageIsShown ==
    ASSUME NEW es \in Seq(LogEvents), NEW i \in TestMessages(es)
    PROVE  /\ i \in ConsoleLines(es, TRUE)
           /\ \E o \in Range(JSON(es).tests) : i \in o.reports
           /\ JUnitKnows(es, Home(es, i)) =>
                 \E c \in JUnitCases(es) :
                    /\ c.name = es[Home(es, i)].obj
                    /\ \E el \in BadElements(c) :
                          el.tag = es[i].kind /\ i \in el.messages
<1>1. PICK n \in Nat : n = Len(es) /\ DOMAIN es = 1 .. n
  BY LenProperties
<1>2. /\ i \in 1 .. n /\ es[i].kind \in Bad /\ StartsBefore(es, i) # {}
      /\ \E k \in Places(es, "endTest") :
            k > i /\ StartsBefore(es, k) = StartsBefore(es, i)
  BY <1>1 DEF TestMessages
<1>3. PICK k \in Places(es, "endTest") :
         k > i /\ StartsBefore(es, k) = StartsBefore(es, i)
  BY <1>2
<1>4. k \in 1 .. n /\ es[k].kind = "endTest"
  BY <1>1, PlacesAre
<1>5. PICK h : h = Home(es, i)
  OBVIOUS
<1>6. StartsBefore(es, i) \in SUBSET (1 .. n)
  BY <1>1, PlacesAre DEF StartsBefore
<1>7. /\ h \in StartsBefore(es, i) /\ \A y \in StartsBefore(es, i) : h >= y
      /\ h \in 1 .. n /\ h < i /\ h \in Places(es, "startTest")
  <2>1. h \in StartsBefore(es, i) /\ \A y \in StartsBefore(es, i) : h >= y
    BY <1>2, <1>5, <1>6, LargestOf DEF Home
  <2>. QED  BY <1>6, <2>1 DEF StartsBefore
<1>8. \A m \in h + 1 .. k : es[m].kind # "startTest"
  <2>1. ASSUME NEW m \in h + 1 .. k, es[m].kind = "startTest" PROVE FALSE
    <3>1. m # k /\ m \in 1 .. n /\ ~(h >= m)
      BY <1>4, <1>7, <2>1
    <3>2. m < k
      BY <1>4, <3>1, <2>1
    <3>3. m \in StartsBefore(es, k)
      BY <1>1, <2>1, <3>1, <3>2, PlacesAre DEF StartsBefore
    <3>. QED  BY <1>3, <1>7, <3>1, <3>3
  <2>. QED  BY <2>1
<1>9. i \in ConsoleLines(es, TRUE)
  BY <1>1, <1>2 DEF ConsoleLines
<1>10. \E o \in Range(JSON(es).tests) : i \in o.reports
  <2>1. i \in ReportsAt(es, k)
    <3>1. i \in 1 .. k
      BY <1>2, <1>3, <1>4
    <3>2. es[i].kind \in Messages
      BY <1>2 DEF Bad, Messages
    <3>3. \A m \in i + 1 .. k : m \in h + 1 .. k
      BY <1>2, <1>4, <1>7
    <3>. QED  BY <1>8, <3>1, <3>2, <3>3 DEF ReportsAt
  <2>2. PICK o \in Range(JSON(es).tests) : o = TestObject(es, k)
    BY JSONObjectOf
  <2>. QED  BY <2>1, <2>2 DEF TestObject
<1>11. ASSUME JUnitKnows(es, h)
       PROVE  \E c \in JUnitCases(es) :
                 /\ c.name = es[h].obj
                 /\ \E el \in BadElements(c) :
                       el.tag = es[i].kind /\ i \in el.messages
  <2>1. Knows(es, h)
    BY <1>7, <1>11, KnowsIs
  <2>2. PICK c \in JUnitCases(es) : Tells(es, c, h, n)
    BY <1>1, <1>7, <2>1, JUnitCaseOf
  <2>3. k \in EndsUpTo(es, n)
    BY <1>1, <1>3, JSONObjectOf
  <2>4. Follows(es, h, k)
    BY <1>2, <1>3, <1>4, <1>7, <1>8 DEF Follows
  <2>5. i \in Between(es, h, k, es[i].kind)
    BY <1>2, <1>3, <1>4, <1>7 DEF Between
  <2>6. PICK el \in BadElements(c) :
           el.tag = es[i].kind /\ el.messages = Between(es, h, k, es[i].kind)
    BY <1>2, <2>2, <2>3, <2>4, <2>5 DEF Tells
  <2>. QED  BY <2>2, <2>5, <2>6 DEF Tells
<1>. QED  BY <1>5, <1>9, <1>10, <1>11

(* When every end ends the test that ran, no report blames another one.     *)
LEMMA NobodyElseIsBlamed ==
    ASSUME NEW es \in Seq(LogEvents),
           \A k \in Places(es, "endTest") : \E j : Ran(es, j, k)
    PROVE  /\ \A c \in JUnitCases(es) : \A el \in BadElements(c) :
                 \A i \in el.messages : es[i].obj = c.name
           /\ \A o \in Range(JSON(es).tests), i \in DOMAIN es :
                 i \in o.reports => es[i].obj = o.name
<1>1. PICK n \in Nat : n = Len(es) /\ DOMAIN es = 1 .. n
  BY LenProperties
<1>2. ASSUME NEW c \in JUnitCases(es), NEW el \in BadElements(c), NEW i \in el.messages
      PROVE  es[i].obj = c.name
  <2>1. PICK j \in Places(es, "startTest") : Tells(es, c, j, n)
    BY <1>1, JUnitCaseOf
  <2>2. PICK k \in EndsUpTo(es, n) :
           Follows(es, j, k) /\ el.messages = Between(es, j, k, el.tag)
    BY <2>1 DEF Tells
  <2>3. k \in Places(es, "endTest")
    BY <1>1, <2>2, JSONObjectOf
  <2>4. Ran(es, j, k)
    BY <2>2, <2>3, OneRun
  <2>5. /\ j \in 1 .. n /\ k \in 1 .. n /\ es[k].kind = "endTest"
        /\ i \in j + 1 .. k /\ es[i].kind = el.tag /\ el.tag \in Bad
    BY <1>1, <2>2, <2>3, PlacesAre DEF Between, BadElements
  <2>6. i # k
    BY <2>5 DEF Bad
  <2>7. i \in j + 1 .. k - 1
    BY <2>5, <2>6
  <2>. QED  BY <2>1, <2>4, <2>7 DEF Ran, OnlyMessages, Tells
<1>3. ASSUME NEW o \in Range(JSON(es).tests), NEW i \in 1 .. n, i \in o.reports
      PROVE  es[i].obj = o.name
  <2>1. PICK k \in Places(es, "endTest") : o = TestObject(es, k)
    BY JSONObjectOf
  <2>2. o.name = es[k].obj /\ i \in ReportsAt(es, k)
    BY <1>3, <2>1 DEF TestObject
  <2>3. PICK j : Ran(es, j, k)
    OBVIOUS
  <2>4. /\ j \in 1 .. n /\ es[j].kind = "startTest" /\ j < k
        /\ k \in 1 .. n /\ es[k].kind = "endTest"
        /\ es[k].obj = es[j].obj /\ OnlyMessages(es, j, k)
    BY <1>1, <2>3, PlacesAre DEF Ran
  <2>5. /\ i \in 1 .. k /\ es[i].kind \in Messages
        /\ \A m \in i + 1 .. k : es[m].kind # "startTest"
    BY <2>2 DEF ReportsAt
  <2>6. i # k /\ i # j
    BY <2>4, <2>5 DEF Messages
  <2>7. ~(i < j)
    <3>1. i < j => j \in i + 1 .. k
      BY <2>4, <2>5
    <3>. QED  BY <2>4, <2>5, <3>1
  <2>8. i \in j + 1 .. k - 1
    BY <2>4, <2>5, <2>6, <2>7
  <2>. QED  BY <2>2, <2>4, <2>8 DEF OnlyMessages
<1>. QED  BY <1>1, <1>2, <1>3

(* Bad news of a test reaches every reader, whatever the tests, suites and  *)
(* messages of a session; and without a crash it is blamed on no other      *)
(* test.                                                                    *)
THEOREM EveryReaderIsTold == UnitsSpec => []BadNewsReachesReports
<1>1. ReportsInv => BadNewsReachesReports
  <2>. SUFFICES ASSUME ReportsInv PROVE BadNewsReachesReports
    OBVIOUS
  <2>1. PICK es \in Seq(LogEvents) : es = Collected(events)
    BY DEF ReportsInv, SessionInv
  <2>2. ASSUME count["extra"] = 0
        PROVE  \A k \in Places(es, "endTest") : \E j : Ran(es, j, k)
    BY <2>1, <2>2 DEF ReportsInv, TestsMatched
  <2>3. ASSUME NEW i \in TestMessages(es)
        PROVE  /\ i \in ConsoleLines(es, TRUE)
               /\ \E o \in Range(JSON(es).tests) : i \in o.reports
               /\ JUnitKnows(es, Home(es, i)) =>
                     \E c \in JUnitCases(es) :
                        /\ c.name = es[Home(es, i)].obj
                        /\ \E el \in BadElements(c) :
                              el.tag = es[i].kind /\ i \in el.messages
    BY MessageIsShown
  <2>4. ASSUME count["extra"] = 0
        PROVE  /\ \A c \in JUnitCases(es) : \A el \in BadElements(c) :
                     \A i \in el.messages : es[i].obj = c.name
               /\ \A o \in Range(JSON(es).tests), i \in DOMAIN es :
                     i \in o.reports => es[i].obj = o.name
    BY <2>2, <2>4, NobodyElseIsBlamed
  <2>. QED  BY <2>1, <2>3, <2>4 DEF BadNewsReachesReports
<1>. QED  BY <1>1, ReportsInvariance, PTL

(* When no test runs twice, its verdict at the end of the session is the    *)
(* one of its end.                                                          *)
LEMMA VerdictKept ==
    ASSUME NEW es \in Seq(LogEvents),
           \A i, k \in Places(es, "endTest") : es[i].obj = es[k].obj => i = k,
           NEW k \in Places(es, "endTest")
    PROVE  Succeeded(es, es[k].obj) <=> es[k].ok
<1>1. PICK n \in Nat : n = Len(es) /\ DOMAIN es = 1 .. n
  BY LenProperties
<1>2. k \in 1 .. n /\ es[k].kind = "endTest"
  BY <1>1, PlacesAre
<1>3. es[k].obj \in Tests
  <2>1. es[k] \in LogEvents
    BY <1>1, <1>2, ElementOfSeq
  <2>. QED  BY <1>2, <2>1 DEF LogEvents, TestKinds
<1>4. {i \in DOMAIN es : /\ es[i].kind \in {"endTest", "endSuite"}
                         /\ es[i].obj = es[k].obj} = {k}
  <2>1. ASSUME NEW i \in 1 .. n, es[i].kind = "endSuite", es[i].obj = es[k].obj
        PROVE  FALSE
    <3>1. es[i] \in LogEvents
      BY <1>1, ElementOfSeq
    <3>2. es[i].obj \in Suites
      BY <2>1, <3>1 DEF LogEvents
    <3>. QED  BY <1>3, <2>1, <3>2, StreamConstants
  <2>2. \A i \in 1 .. n : es[i].kind = "endTest" => i \in Places(es, "endTest")
    BY <1>1, PlacesAre
  <2>. QED  BY <1>1, <1>2, <2>1, <2>2
<1>5. Max({k}) = k
  <2>1. {k} \in SUBSET (1 .. n) /\ {k} # {}
    BY <1>2
  <2>. QED  BY <2>1, LargestOf
<1>. QED  BY <1>4, <1>5 DEF Succeeded

(* The failed objects and lines, when no test runs twice.                   *)
LEMMA FailedAre ==
    ASSUME NEW es \in Seq(LogEvents),
           \A i, k \in Places(es, "endTest") : es[i].obj = es[k].obj => i = k
    PROVE  /\ Cardinality(BadObjects(JSON(es).tests)) = Cardinality(FailedEnds(es))
           /\ {i \in Places(es, "endTest") : ~TextLines(es)[i].ok} = FailedEnds(es)
<1>1. PICK n \in Nat : n = Len(es) /\ DOMAIN es = 1 .. n
  BY LenProperties
<1>2. \A k \in Places(es, "endTest") : VerdictAtWrite(es, es[k]) <=> es[k].ok
  BY VerdictKept DEF VerdictAtWrite
<1>3. BadEndsUpTo(es, n) = FailedEnds(es)
  <2>1. EndsUpTo(es, n) = Places(es, "endTest")
    BY <1>1, JSONObjectOf
  <2>. QED  BY <1>2, <2>1 DEF BadEndsUpTo, FailedEnds
<1>4. Cardinality(BadObjects(JSON(es).tests)) = Cardinality(BadEndsUpTo(es, n))
  <2>1. JSONTold(es, JSON(es), n)
    BY <1>1, JSONTells
  <2>. QED  BY <2>1 DEF JSONTold, TestsTold
<1>5. ASSUME NEW i \in Places(es, "endTest")
      PROVE  TextLines(es)[i].ok = VerdictAtWrite(es, es[i])
  <2>1. i \in 1 .. n /\ es[i].kind = "endTest"
    BY <1>1, PlacesAre
  <2>2. TextLines(es)[i] = [es[i] EXCEPT !.ok = VerdictAtWrite(es, es[i])]
    BY <1>1, <2>1 DEF TextLines
  <2>3. PICK e \in LogEvents : e = es[i]
    BY <1>1, <2>1, ElementOfSeq
  <2>4. PICK v : v = VerdictAtWrite(es, es[i])
    OBVIOUS
  <2>5. [e EXCEPT !.ok = v].ok = v
    BY DEF LogEvents
  <2>. QED  BY <2>2, <2>3, <2>4, <2>5
<1>6. {i \in Places(es, "endTest") : ~TextLines(es)[i].ok} = FailedEnds(es)
  BY <1>2, <1>5 DEF FailedEnds
<1>. QED  BY <1>3, <1>4, <1>6

(* A test case has bad news exactly when its test failed.                   *)
LEMMA CasesAgree ==
    ASSUME NEW es \in Seq(LogEvents),
           \A i, k \in Places(es, "endTest") : es[i].obj = es[k].obj => i = k,
           \A k \in Places(es, "endTest") : \E j : Ran(es, j, k),
           \A j \in Places(es, "startTest") : \E k : Ran(es, j, k),
           NEW c \in JUnitCases(es)
    PROVE  BadElements(c) # {} <=> ~Succeeded(es, c.name)
<1>1. PICK n \in Nat : n = Len(es) /\ DOMAIN es = 1 .. n
  BY LenProperties
<1>2. PICK j \in Places(es, "startTest") : Tells(es, c, j, n)
  BY <1>1, JUnitCaseOf
<1>3. PICK k : Ran(es, j, k)
  OBVIOUS
<1>4. /\ k \in Places(es, "endTest") /\ j < k /\ es[k].obj = es[j].obj
      /\ OnlyMessages(es, j, k) /\ (es[k].ok <=> NothingBad(es, j, k))
      /\ c.name = es[k].obj
  BY <1>2, <1>3 DEF Ran, Tells
<1>5. /\ j \in 1 .. n /\ k \in 1 .. n /\ es[k].kind = "endTest"
      /\ EndsUpTo(es, n) = Places(es, "endTest")
  BY <1>1, <1>4, PlacesAre, JSONObjectOf
<1>6. Succeeded(es, c.name) <=> NothingBad(es, j, k)
  BY <1>4, VerdictKept
<1>7. ASSUME NEW el \in BadElements(c) PROVE ~NothingBad(es, j, k)
  <2>1. PICK m \in EndsUpTo(es, n) :
           Follows(es, j, m) /\ el.messages = Between(es, j, m, el.tag)
           /\ el.messages # {}
    BY <1>2 DEF Tells
  <2>2. m \in Places(es, "endTest")
    BY <1>5, <2>1
  <2>3. PICK i : Ran(es, i, m)
    BY <2>2
  <2>4. i = j
    BY <2>1, <2>3, OneRun
  <2>5. es[m].obj = es[j].obj
    BY <2>3, <2>4 DEF Ran
  <2>6. m = k
    BY <1>4, <2>2, <2>5
  <2>7. PICK q \in j + 1 .. k : es[q].kind = el.tag
    BY <2>1, <2>6 DEF Between
  <2>8. el.tag \in Bad
    BY DEF BadElements
  <2>9. q # k
    BY <1>5, <2>7, <2>8 DEF Bad
  <2>10. q \in j + 1 .. k - 1
    BY <1>5, <2>7, <2>9
  <2>. QED  BY <2>7, <2>8, <2>10 DEF NothingBad
<1>8. ASSUME ~NothingBad(es, j, k) PROVE BadElements(c) # {}
  <2>1. PICK q \in j + 1 .. k - 1 : es[q].kind \in Bad
    BY <1>8 DEF NothingBad
  <2>2. q \in Between(es, j, k, es[q].kind)
    BY <1>5, <2>1 DEF Between
  <2>3. Follows(es, j, k)
    <3>1. \A m \in j + 1 .. k : m = k \/ m \in j + 1 .. k - 1
      BY <1>5
    <3>. QED  BY <1>4, <1>5, <3>1 DEF Follows, OnlyMessages, Messages
  <2>4. PICK tag \in Bad : tag = es[q].kind
    BY <2>1
  <2>5. Between(es, j, k, tag) # {}
    BY <2>2, <2>4
  <2>. QED  BY <1>2, <1>4, <1>5, <2>3, <2>5 DEF Tells
<1>. QED  BY <1>6, <1>7, <1>8

(* Once a session is over, the files agree with the counters and with each  *)
(* other, whatever was run.                                                 *)
THEOREM EveryReportAgrees == UnitsSpec => []ReportsAgree
<1>1. ReportsInv => ReportsAgree
  <2>. SUFFICES ASSUME ReportsInv, scope = <<>> PROVE ReportsAgree
    BY DEF ReportsAgree
  <2>1. PICK es \in Seq(LogEvents) : es = Collected(events)
    BY DEF ReportsInv, SessionInv
  <2>2. /\ Cardinality(Places(es, "endTest")) = count["nPasses"] + count["nFailures"]
        /\ Cardinality(FailedEnds(es)) = count["nFailures"]
        /\ EndsMatched(es)
    BY <2>1 DEF ReportsInv, Totals
  <2>3. ASSUME count["extra"] = 0
        PROVE  /\ \A k \in Places(es, "endTest") : \E j : Ran(es, j, k)
               /\ \A j \in Places(es, "startTest") : \E k : Ran(es, j, k)
    <3>1. ~TestIn(scope)
      BY DEF TestIn
    <3>. QED  BY <2>1, <2>3, <3>1 DEF ReportsInv, TestsMatched
  <2>4. PICK json : json = JSON(es)
    OBVIOUS
  <2>5. JSONTold(es, json, Len(es))
    BY <2>4, JSONTells
  <2>6. Len(json.tests) = count["nPasses"] + count["nFailures"]
    <3>1. Cardinality(EndsUpTo(es, Len(es))) = Len(json.tests)
      BY <2>5 DEF JSONTold, TestsTold
    <3>. QED  BY <2>2, <3>1, JSONObjectOf
  <2>7. Len(json.suites) <= 1
    <3>1. json.suites = <<>> \/ Len(json.suites) = 1
      BY <2>2, <2>5 DEF JSONTold, SuitesTold
    <3>2. Len(<<>>) = 0 /\ 0 <= 1 /\ 1 <= 1
      BY EmptySeq
    <3>3. CASE json.suites = <<>>
      BY <3>2, <3>3
    <3>4. CASE Len(json.suites) = 1
      BY <3>2, <3>4
    <3>. QED  BY <3>1, <3>3, <3>4
  <2>8. ASSUME count["extra"] = 0,
               \A i, k \in Places(es, "endTest") : es[i].obj = es[k].obj => i = k
        PROVE  /\ Cardinality({k \in DOMAIN json.tests : ~json.tests[k].result})
                     = count["nFailures"]
               /\ Cardinality({i \in Places(es, "endTest") : ~TextLines(es)[i].ok})
                     = count["nFailures"]
               /\ \A c \in JUnitCases(es) :
                     (BadElements(c) # {}) = ~Succeeded(es, c.name)
    <3>1. /\ Cardinality(BadObjects(json.tests)) = Cardinality(FailedEnds(es))
          /\ {i \in Places(es, "endTest") : ~TextLines(es)[i].ok} = FailedEnds(es)
      BY <2>4, <2>8, FailedAre
    <3>2. \A c \in JUnitCases(es) : BadElements(c) # {} <=> ~Succeeded(es, c.name)
      BY <2>3, <2>8, CasesAgree
    <3>3. \A c \in JUnitCases(es) : (BadElements(c) # {}) = ~Succeeded(es, c.name)
      BY <3>2
    <3>4. {k \in DOMAIN json.tests : ~json.tests[k].result} = BadObjects(json.tests)
      BY DEF BadObjects
    <3>. QED  BY <2>2, <3>1, <3>3, <3>4
  <2>. QED  BY <2>1, <2>4, <2>6, <2>7, <2>8 DEF ReportsAgree
<1>. QED  BY <1>1, ReportsInvariance, PTL
===============================================================================
