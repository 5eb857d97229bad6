------------------------------ MODULE Outputters ------------------------------
(***************************************************************************)
(* What a reader is shown of a run: the console's lines and the text,      *)
(* JUnit and JSON files written from the collector's events when the run   *)
(* is over.  A message is known by the position of its event, so that the  *)
(* reports can be asked which messages reached them.                       *)
(***************************************************************************)
EXTENDS EventStream

(* TestResultCollector keeps every event but the runner's.                  *)
Collect(kept, e) ==
    IF e.kind \in {"startRunner", "endRunner"} THEN kept ELSE Append(kept, e)
Collected(es) == FoldLeft(Collect, <<>>, es)

-----------------------------------------------------------------------------
(* ConsoleListener prints at once; hidden, it prints bad news only.         *)
ConsoleLines(es, hideUncritical) ==
    {i \in DOMAIN es : hideUncritical => es[i].kind \in Bad}

(* TextOutputter writes a line per event and asks the object for its        *)
(* verdict when it writes, not when the event happened.                     *)
VerdictInverted(es, e) == ~Succeeded(es, e.obj)   \* mutant
VerdictAtWrite(es, e) == Succeeded(es, e.obj)
TextLines(es) ==
    [i \in DOMAIN es |->
        IF es[i].kind \in {"endTest", "endSuite"}
        THEN [es[i] EXCEPT !.ok = VerdictAtWrite(es, es[i])] ELSE es[i]]

-----------------------------------------------------------------------------
(* JUnitOutputter: suites, and the test case elements in the order they     *)
(* are added.  testcase points to the last one, into which an end event     *)
(* puts what was gathered since the last test that was taken in.            *)

NoMessages == [tag \in {"failure", "error", "system-out"} |-> {}]

JUnitStart(es) ==
    [suites   |-> IF Places(es, "startSuite") = {} THEN <<"default">> ELSE <<>>,
     cases    |-> <<>>,
     messages |-> NoMessages]

(* The elements an end event adds to its test case, none for an empty text. *)
Element(tag, messages) ==
    IF messages[tag] = {} THEN <<>> ELSE <<[tag |-> tag, messages |-> messages[tag]]>>
Elements(messages) ==
    Element("failure", messages) \o Element("error", messages)
       \o Element("system-out", messages)

MessagesKept(messages) == [messages EXCEPT !["failure"] = {}]   \* mutant
Cleared(messages) == NoMessages

JUnitTest(st, x) ==
    [st EXCEPT !.cases = Append(@, [suite |-> Len(st.suites), name |-> x,
                                    elements |-> <<>>]),
               !.messages = Cleared(@)]

JUnitEvent(es, st, i) ==
    LET e == es[i] IN
    CASE e.kind = "startSuite" -> [st EXCEPT !.suites = Append(@, e.obj)]
      [] e.kind = "startTest" /\ st.suites # <<>> -> JUnitTest(st, e.obj)
      [] e.kind = "endTest" /\ st.cases # <<>> ->
            [st EXCEPT !.cases[Len(st.cases)].elements = @ \o Elements(st.messages)]
      [] e.kind \in Bad ->
            [st EXCEPT !.messages[e.kind] = @ \cup {i},
                       !.messages["system-out"] = @ \cup {i}]
      [] e.kind = "report" -> [st EXCEPT !.messages["system-out"] = @ \cup {i}]
      [] OTHER -> st

(* The file, as it stands after each event in turn.                         *)
JUnit(es) ==
    LET file[p \in 0 .. Len(es)] ==
            IF p = 0 THEN JUnitStart(es) ELSE JUnitEvent(es, file[p - 1], p)
    IN  file[Len(es)]

-----------------------------------------------------------------------------
(* JSONOutputter: one object per end event; the suites are started afresh   *)
(* at every suite's start.  (A report whose detail is one blank is left     *)
(* out; the texts of messages are not modelled.)                            *)

JSONEvent(es, st, i) ==
    LET e == es[i] IN
    CASE e.kind = "startSuite" -> [st EXCEPT !.suites = <<>>]
      [] e.kind = "endSuite" ->
            [st EXCEPT !.suites =
                Append(@, [name |-> e.obj, result |-> VerdictAtWrite(es, e)])]
      [] e.kind = "startTest" -> [st EXCEPT !.reports = {}]
      [] e.kind = "endTest" ->
            [st EXCEPT !.tests =
                Append(@, [name |-> e.obj, result |-> VerdictAtWrite(es, e),
                           reports |-> st.reports])]
      [] e.kind \in {"report", "failure", "error"} ->
            [st EXCEPT !.reports = @ \cup {i}]
      [] OTHER -> st

JSON(es) ==
    LET file[p \in 0 .. Len(es)] ==
            IF p = 0 THEN [tests |-> <<>>, suites |-> <<>>, reports |-> {}]
            ELSE JSONEvent(es, file[p - 1], p)
    IN  file[Len(es)]

-----------------------------------------------------------------------------
(* What the events say, without the outputters.  A message belongs to the   *)
(* test started last before it, if that test ends after it.                 *)
StartsBefore(es, i) == {j \in Places(es, "startTest") : j < i}
Home(es, i) == Max(StartsBefore(es, i))
TestMessages(es) ==
    {i \in DOMAIN es :
        /\ es[i].kind \in Bad /\ StartsBefore(es, i) # {}
        /\ \E k \in Places(es, "endTest") :
              k > i /\ StartsBefore(es, k) = StartsBefore(es, i)}

(* A plain test that runs before the first suite has no place in the JUnit  *)
(* file.                                                                    *)
JUnitKnows(es, j) ==
    LET suites == Places(es, "startSuite") IN suites = {} \/ Min(suites) < j

JUnitCases(es) == Range(JUnit(es).cases)
BadElements(c) == {el \in Range(c.elements) : el.tag \in Bad}

(* Bad news of a test reaches every reader: the console even when it hides  *)
(* uncritical messages, the JSON object of the test, and the test's JUnit   *)
(* element under its own tag; without a crash nothing is blamed on a test   *)
(* it did not happen to (ConsoleListener.cpp:58-105, JUnitOutputter.cpp:    *)
(* 79-165, JSONOutputter.cpp:92-143).                                       *)
BadNewsReachesReports ==
    LET es == Collected(events)
        cases == JUnitCases(es)
        tests == Range(JSON(es).tests)
    IN  /\ \A i \in TestMessages(es) :
             LET x == es[Home(es, i)].obj IN
             /\ i \in ConsoleLines(es, TRUE)
             /\ \E o \in tests : i \in o.reports
             /\ JUnitKnows(es, Home(es, i)) =>
                   \E c \in cases :
                      /\ c.name = x
                      /\ \E el \in BadElements(c) :
                            el.tag = es[i].kind /\ i \in el.messages
        /\ count["extra"] = 0 =>
             /\ \A c \in cases : \A el \in BadElements(c) :
                   \A i \in el.messages : es[i].obj = c.name
             /\ \A o \in tests, i \in DOMAIN es :
                   i \in o.reports => es[i].obj = o.name

(* The files agree with the counters and with each other once the run is    *)
(* over: one JSON object per end event; the JSON suites hold one suite at   *)
(* most, the last; and when no object ran twice and no crash was handled,   *)
(* the failed lines and objects are as many as the failed tests, and a      *)
(* JUnit element tells of bad news exactly when its test failed             *)
(* (TextOutputter.cpp:89-96, JUnitOutputter.cpp:107-122,                    *)
(* JSONOutputter.cpp:76-104).                                               *)
ReportsAgree ==
    LET es == Collected(events)
        json == JSON(es)
        Failed(s) == Cardinality({k \in DOMAIN s : ~s[k].result})
        once == \A i, k \in Places(es, "endTest") : es[i].obj = es[k].obj => i = k
    IN  scope = <<>> =>
        /\ Len(json.tests) = count["nPasses"] + count["nFailures"]
        /\ Len(json.suites) <= 1
        /\ count["extra"] = 0 /\ once =>
             /\ Failed(json.tests) = count["nFailures"]
             /\ Cardinality({i \in Places(es, "endTest") : ~TextLines(es)[i].ok})
                   = count["nFailures"]
             /\ \A c \in JUnitCases(es) :
                   (BadElements(c) # {}) = ~Succeeded(es, c.name)
===============================================================================
