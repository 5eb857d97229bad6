------------------------------ MODULE EventStream ------------------------------
(***************************************************************************)
(* The events a session sends to its listeners, in the order in which      *)
(* TestResultCollector stores them: Session, which says what may happen,   *)
(* with the event list it leaves behind.  The listeners and outputters are *)
(* built on this list.                                                     *)
(***************************************************************************)
EXTENDS Session, SequencesExt, FiniteSets

CONSTANTS
    Kinds,             \* the kinds of messages the tests send in an instance
    LastConstructed,   \* the test the crash handler blames (TestCase.cpp:41, 66)
    MaxEvents          \* bound of an instance: nothing new starts beyond it

ASSUME StreamConstants ==
    /\ Tests \cap Suites = {} /\ Runner \notin Tests \cup Suites
    /\ Kinds \subseteq {"report", "failure", "error"}
    /\ LastConstructed \in Tests
    /\ MaxEvents \in Nat

VARIABLE events   \* TestResultCollector::events

streamVars == <<vars, events>>

(* An event names its test, suite or the runner; "ok" is the verdict an end *)
(* event finds in the object, and says nothing in the other events.         *)
Event(kind, obj, ok) == [kind |-> kind, obj |-> obj, ok |-> ok]
Happened(kind, obj) == Event(kind, obj, TRUE)
EventKinds == {"startRunner", "endRunner", "startSuite", "endSuite",
               "startTest", "endTest", "report", "failure", "error"}
Bad == {"failure", "error"}

Emit(es) == events' = events \o es
Room == Len(events) < MaxEvents

Places(es, kind) == {i \in DOMAIN es : es[i].kind = kind}

(* Test::succeeded() of an object, as its events tell it: a test or suite   *)
(* is successful from its construction or start until something bad happens *)
(* to it.                                                                   *)
Succeeded(es, x) ==
    LET ends == {i \in DOMAIN es : /\ es[i].kind \in {"endTest", "endSuite"}
                                   /\ es[i].obj = x}
    IN  ends = {} \/ es[Max(ends)].ok

-----------------------------------------------------------------------------
(* main() runs the runner once.                                             *)
RunnerStarts == events = <<>> /\ StartRunner /\ Emit(<<Happened("startRunner", Runner)>>)
RunnerEnds   == EndRunner /\ Emit(<<Happened("endRunner", Runner)>>)
ProgramExits == events # <<>> /\ Exit /\ UNCHANGED events
SuiteStarts(s) == Room /\ StartSuite(s) /\ Emit(<<Happened("startSuite", s)>>)
TestStarts(t) == Room /\ StartTest(t) /\ Emit(<<Happened("startTest", t)>>)
TestEnds == EndTest /\ Emit(<<Event("endTest", Inner, testClean)>>)
SuiteEnds(ok) == EndSuite(ok) /\ Emit(<<Event("endSuite", Inner, ok)>>)

BadNewsArrives(kind) ==
    /\ Room
    /\ BadNews
    /\ Emit(<<Happened(kind, Inner)>>)

(* A crash of the code under test: the signal handler blames one test and   *)
(* ends it, and its exception is recorded for what is open.  The verdict is *)
(* read before the exception changes it.                                    *)
CrashArrives ==
    LET x == LastConstructed
        ok == IF x = Inner THEN testClean ELSE Succeeded(events, x)
    IN  /\ Room
        /\ Crash(ok)
        /\ Emit(<<Happened("error", x), Event("endTest", x, ok),
                  Happened("error", Inner)>>)

ReportArrives ==
    /\ Room /\ Alive /\ InScope(Tests) /\ "report" \in Kinds
    /\ Emit(<<Happened("report", Inner)>>)
    /\ UNCHANGED vars

StreamInit == Init /\ events = <<>>

StreamStep ==
    \/ RunnerStarts \/ RunnerEnds \/ ProgramExits \/ TestEnds
    \/ ReportArrives \/ CrashArrives
    \/ \E s \in Suites : SuiteStarts(s)
    \/ \E t \in Tests : TestStarts(t)
    \/ \E ok \in BOOLEAN : SuiteEnds(ok)
    \/ \E kind \in Kinds \cap Bad : BadNewsArrives(kind)
===============================================================================
