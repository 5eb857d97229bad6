------------------------------ MODULE WebProgress ------------------------------
(***************************************************************************)
(* WebProgressListener: the run's progress as a web page sees it.  Three   *)
(* actors share the text (result), the suite's name and size and the list  *)
(* of test states under one mutex (critical):                              *)
(*   - the main thread, which passes every event of the run on;            *)
(*   - the signal handler, on top of whatever the main thread is doing,    *)
(*     whose interrupt() reports to the same listener;                     *)
(*   - the updater thread, which answers the page's requests.              *)
(***************************************************************************)
EXTENDS EventStream

CONSTANTS
    SuiteSize,     \* [Suites -> Nat]: TestSuite::size()
    Nobody,        \* no name set, no request, critical not held
    MaxRequests,   \* bound on the page's requests
    SignalsBefore, \* signals handled while the plugins were loaded
    MaxSignals     \* bound on the signals; the fourth one exits

ASSUME WebConstants ==
    /\ SuiteSize \in [Suites -> Nat]
    /\ MaxRequests \in Nat /\ MaxSignals \in Nat /\ SignalsBefore \in 0 .. 3
    /\ Nobody \notin Tests \cup Suites \cup {Runner}
    /\ Nobody \notin {"main", "updater", "update", "status"}

VARIABLES
    sent,         \* how many events the main thread has taken up
    calls,        \* the listener calls open on the main thread, innermost last
    critical,     \* the mutex: Nobody or the thread that holds it
    result,       \* the page's text: the events written to it
    suite_name,   \* Nobody when empty
    suite_size,
    testStatus,   \* one entry per started test
    request,      \* what the page has asked for and not got
    uPc,          \* the updater: "poll", "lock", "copy", "unlock" or "done"
    reply,        \* what the updater has copied for its answer
    shown,        \* the last answers: the text and the status
    interuptCount,
    life          \* "running", "join", "lastPoll", "gone" of the main thread

\* Observed by the properties only.
VARIABLES log,    \* the events whose listener call has returned
          asked   \* how many requests were made

sharedVars == <<result, suite_name, suite_size, testStatus>>
mainVars == <<sent, calls, log>>
updaterVars == <<request, uPc, reply, shown, asked>>
endVars == <<interuptCount, life>>
webVars == <<streamVars, mainVars, critical, sharedVars, updaterVars, endVars>>

Requests == {"update", "status"}
Running == 1
Failed == 2
Success == 3

(* The body of a /status answer: name, entries and how many ",0" follow.    *)
Status(name, entries, size) ==
    [name |-> name, entries |-> entries,
     padding |-> IF Len(entries) < size THEN size - Len(entries) ELSE 0]
NoStatus == Status(Nobody, <<>>, 0)

WebTypeOK ==
    /\ sent \in 0 .. Len(events)
    /\ critical \in {Nobody, "main", "updater"}
    /\ \A i \in DOMAIN calls : calls[i].at \in {"lock", "first", "second"}
    /\ Range(result) \subseteq Range(events)
    /\ Range(testStatus) \subseteq {Running, Failed, Success}
    /\ request \in Requests \cup {Nobody}
    /\ uPc \in {"poll", "lock", "copy", "unlock", "done"}
    /\ interuptCount \in 1 .. 5
    /\ life \in {"running", "join", "lastPoll", "gone"}
    /\ (critical = "updater") = (uPc \in {"copy", "unlock"})

WebInit ==
    /\ StreamInit
    /\ sent = 0 /\ calls = <<>> /\ log = <<>>
    /\ critical = Nobody
    /\ result = <<>> /\ suite_name = Nobody /\ suite_size = 0 /\ testStatus = <<>>
    /\ request = Nobody /\ uPc = "poll" /\ asked = 0
    /\ reply = NoStatus /\ shown = [update |-> <<>>, status |-> NoStatus]
    /\ interuptCount = 1 + SignalsBefore /\ life = "running"

-----------------------------------------------------------------------------
(* The main thread inside the listener.                                     *)

Call == Last(calls)
Goes(at) == calls' = [calls EXCEPT ![Len(calls)].at = at]
InCall(at) == life = "running" /\ calls # <<>> /\ Call.at = at

(* The program takes its next step only when every event is passed on.      *)
Quiet == calls = <<>> /\ sent = Len(events)

ProgramStep ==
    /\ life = "running" /\ Quiet
    /\ StreamStep
    /\ UNCHANGED <<mainVars, critical, sharedVars, updaterVars, endVars>>

LockIgnored(who) == critical' = who   \* mutant
Lock(who) == critical = Nobody /\ critical' = who

(* The text is formatted before the mutex is taken.                         *)
Deliver ==
    /\ life = "running" /\ calls = <<>> /\ sent < Len(events)
    /\ Lock("main")
    /\ sent' = sent + 1
    /\ calls' = <<[ev |-> events[sent + 1], at |-> "first"]>>
    /\ UNCHANGED <<streamVars, log, sharedVars, updaterVars, endVars>>

(* The handler's own call, made before it has the mutex.                    *)
HandlerLocks ==
    /\ InCall("lock")
    /\ Lock("main")
    /\ Goes("first")
    /\ UNCHANGED <<streamVars, sent, log, sharedVars, updaterVars, endVars>>

Write(e) == result' = Append(result, e)
BackOverwritten(e) ==   \* mutant: the first entry instead of the last
    testStatus' = [testStatus EXCEPT ![1] = IF e.ok THEN Success ELSE Failed]
SetBack(e) ==
    testStatus' = [testStatus EXCEPT ![Len(testStatus)] =
                      IF e.ok THEN Success ELSE Failed]

(* What a call changes first, and what it changes after that.               *)
FirstHalf(e) ==
    \/ /\ e.kind = "startTest"
       /\ suite_name' = IF suite_name = Nobody THEN e.obj ELSE suite_name
       /\ testStatus' = Append(testStatus, Running)
       /\ UNCHANGED <<result, suite_size>>
    \/ /\ e.kind = "endTest"
       /\ SetBack(e)
       /\ UNCHANGED <<result, suite_name, suite_size>>
    \/ /\ e.kind = "startSuite"
       /\ Write(e) /\ suite_name' = e.obj
       /\ UNCHANGED <<suite_size, testStatus>>
    \/ /\ e.kind \notin {"startTest", "endTest", "startSuite"}
       /\ UNCHANGED sharedVars

SecondHalf(e) ==
    IF e.kind = "startSuite"
    THEN /\ suite_size' = SuiteSize[e.obj]
         /\ UNCHANGED <<result, suite_name, testStatus>>
    ELSE Write(e) /\ UNCHANGED <<suite_name, suite_size, testStatus>>

ListenerWrites ==
    /\ InCall("first")
    /\ FirstHalf(Call.ev)
    /\ Goes("second")
    /\ UNCHANGED <<streamVars, sent, log, critical, updaterVars, endVars>>

ListenerReturns ==
    /\ InCall("second")
    /\ SecondHalf(Call.ev)
    /\ critical' = Nobody
    /\ log' = Append(log, Call.ev)
    /\ calls' = Front(calls)
    /\ UNCHANGED <<streamVars, sent, updaterVars, endVars>>

-----------------------------------------------------------------------------
(* The signal handler, on the main thread.                                  *)

(* interrupt() reaches the test TestRunner or TestSuite calls current: the  *)
(* running one, or the last one before the next is set, or none.            *)
HandlerReports(x) ==
    /\ events' = InsertAt(events, sent + 1, Happened("report", x))
    /\ sent' = sent + 1
    /\ calls' = Append(calls, [ev |-> Happened("report", x), at |-> "lock"])
    /\ UNCHANGED <<vars, log, life>>

Kill ==    \* exit(EXIT_FAILURE)
    /\ life' = "join"
    /\ status' = "failure" /\ scope' = <<>>
    /\ testClean' = TRUE /\ suiteClean' = TRUE
    /\ UNCHANGED count

SignalArrives ==
    /\ life = "running" /\ interuptCount <= MaxSignals
    /\ interuptCount' = interuptCount + 1
    /\ IF interuptCount > 3
       THEN Kill /\ UNCHANGED <<events, mainVars>>
       ELSE \/ \E x \in Tests :
                  /\ IF InScope(Tests) THEN x = Inner
                     ELSE scope # <<>> /\ Happened("startTest", x) \in Range(events)
                  /\ HandlerReports(x)
            \/ ~InScope(Tests) /\ UNCHANGED <<streamVars, mainVars, life>>
    /\ UNCHANGED <<critical, sharedVars, updaterVars>>

-----------------------------------------------------------------------------
(* The page asks, the updater thread answers.                               *)

PageAsks ==
    /\ request = Nobody /\ asked < MaxRequests /\ life # "gone"
    /\ request' \in Requests
    /\ asked' = asked + 1
    /\ UNCHANGED <<streamVars, mainVars, critical, sharedVars, uPc, reply, shown,
                   endVars>>

StopForgotten == FALSE   \* mutant
shouldStop == life # "running"

StatusOnly == request = "status"   \* mutant: /update not recognised
Requested == request # Nobody

Poll ==
    /\ uPc = "poll"
    /\ IF shouldStop THEN uPc' = "done"
       ELSE Requested /\ uPc' = "lock"
    /\ UNCHANGED <<streamVars, mainVars, critical, sharedVars, request, reply,
                   shown, asked, endVars>>

UpdaterLocks ==
    /\ uPc = "lock"
    /\ Lock("updater")
    /\ uPc' = "copy"
    /\ UNCHANGED <<streamVars, mainVars, sharedVars, request, reply, shown, asked,
                   endVars>>

(* /status reads the name first and the list after it.                      *)
CopyName ==
    /\ uPc = "copy"
    /\ reply' = Status(suite_name, <<>>, 0)
    /\ uPc' = "unlock"
    /\ UNCHANGED <<streamVars, mainVars, critical, sharedVars, request, shown,
                   asked, endVars>>

AnswerWith(name) ==
    /\ shown' = IF request = "update"
                THEN [shown EXCEPT !.update = result]
                ELSE [shown EXCEPT !.status = Status(name, testStatus, suite_size)]
    /\ request' = Nobody

AnswerKeepsLock ==   \* mutant: no unlock
    /\ uPc = "unlock"
    /\ AnswerWith(reply.name)
    /\ reply' = NoStatus
    /\ uPc' = "poll"
    /\ UNCHANGED <<streamVars, mainVars, critical, sharedVars, asked, endVars>>

Answer ==
    /\ uPc = "unlock"
    /\ AnswerWith(reply.name)
    /\ critical' = Nobody
    /\ reply' = NoStatus
    /\ uPc' = "poll"
    /\ UNCHANGED <<streamVars, mainVars, sharedVars, asked, endVars>>

UpdaterStep == Poll \/ UpdaterLocks \/ CopyName \/ Answer

-----------------------------------------------------------------------------
(* The end of the process: the static listener is destroyed.                *)

MainReturns ==
    /\ life = "running" /\ Quiet /\ ~Alive
    /\ life' = "join"
    /\ UNCHANGED <<streamVars, mainVars, critical, sharedVars, updaterVars,
                   interuptCount>>

(* The updater is joined, the server polled once more, now on the main      *)
(* thread, and destroyed.  One poll may be too short for a request on its   *)
(* way.                                                                     *)
JoinUpdater ==
    /\ life = "join"
    /\ uPc = "done"
    /\ \/ life' = "gone"
       \/ life' = "lastPoll" /\ request # Nobody
    /\ UNCHANGED <<streamVars, mainVars, critical, sharedVars, updaterVars,
                   interuptCount>>

LastPoll ==
    /\ life = "lastPoll"
    /\ critical = Nobody
    /\ AnswerWith(suite_name)
    /\ life' = "gone"
    /\ UNCHANGED <<streamVars, mainVars, critical, sharedVars, uPc, reply, asked,
                   interuptCount>>

ListenerStep == Deliver \/ HandlerLocks \/ ListenerWrites \/ ListenerReturns
ShutdownStep == MainReturns \/ JoinUpdater \/ LastPoll

WebNext ==
    \/ ProgramStep \/ ListenerStep \/ ShutdownStep
    \/ SignalArrives \/ PageAsks \/ UpdaterStep

(* Both threads keep going; the code under test, and so the program between *)
(* two events, may take for ever.                                           *)
WebSpec ==
    /\ WebInit /\ [][WebNext]_webVars
    /\ WF_webVars(ListenerStep) /\ WF_webVars(ShutdownStep)
    /\ WF_webVars(UpdaterStep)

-----------------------------------------------------------------------------
(* What the page should show once the events of es were passed on, said     *)
(* without the listener's variables.                                        *)
NameAfter(es) ==
    LET suites == Places(es, "startSuite")
        tests  == Places(es, "startTest")
    IN  IF suites # {} THEN es[Max(suites)].obj
        ELSE IF tests # {} THEN es[Min(tests)].obj
        ELSE Nobody

SizeAfter(es) ==
    LET suites == Places(es, "startSuite")
    IN  IF suites = {} THEN 0 ELSE SuiteSize[es[Max(suites)].obj]

(* The end events of the test whose start event is in place i.              *)
EndsOf(es, i) ==
    {j \in Places(es, "endTest") :
        j > i /\ \A k \in Places(es, "startTest") : k > i => j < k}
EntryAfter(es, i) ==
    IF EndsOf(es, i) = {} THEN Running
    ELSE IF es[Max(EndsOf(es, i))].ok THEN Success ELSE Failed

(* Place i is that of the n-th event of its kind.                           *)
Rank(es, kind, i) == Cardinality({j \in Places(es, kind) : j <= i})

EntriesTell(entries, es) ==
    LET starts == Places(es, "startTest")
    IN  /\ Len(entries) = Cardinality(starts)
        /\ \A i \in starts :
              entries[Rank(es, "startTest", i)] = EntryAfter(es, i)

IsStatusAfter(st, es) ==
    /\ st = Status(NameAfter(es), st.entries, SizeAfter(es))
    /\ EntriesTell(st.entries, es)

(* The page never shows a half-written event: the text and the status it    *)
(* was given are those after some number of whole listener calls, although  *)
(* each call and each answer takes several steps of its thread              *)
(* (WebProgressListener.cpp:208-232, 277-361).                              *)
AnswersAreWhole ==
    LET prefixes == {SubSeq(log, 1, n) : n \in 0 .. Len(log)}
    IN  /\ shown.update \in prefixes
        /\ \E es \in prefixes : IsStatusAfter(shown.status, es)

(* With no crash handled, the list tells every finished test's verdict in   *)
(* the order of the run: once all events are passed on, entry n is that of  *)
(* the n-th end event (WebProgressListener.cpp:318-345).                    *)
StatusTellsVerdicts ==
    Quiet /\ count["extra"] = 0 =>
        /\ Len(testStatus) = count["nTests"]
        /\ \A i \in Places(events, "endTest") :
              testStatus[Rank(events, "endTest", i)]
                  = IF events[i].ok THEN Success ELSE Failed

(* The main thread is stuck: a call from the signal handler waits for the  *)
(* mutex its own thread holds further down the stack, or the process ends   *)
(* on top of that call while an answer still needs the mutex.               *)
SelfLocked ==
    /\ critical = "main"
    /\ \/ InCall("lock")
       \/ life = "join" /\ uPc = "lock"
       \/ life = "lastPoll"

(* Unless a signal fell into a listener call, a program whose run is over   *)
(* stops and leaves no thread behind (WebProgressListener.cpp:178-202,      *)
(* main.cpp:98-112, 317-321).                                               *)
StopsUnlessSelfLocked ==
    ~Alive ~> (SelfLocked \/ (life = "gone" /\ uPc = "done"))

(* A page that asks while the listener lives gets its answer, however long  *)
(* the code under test takes, unless the process ends or locks itself first *)
(* (WebProgressListener.cpp:196-246).                                       *)
PageIsAnswered ==
    request # Nobody ~> (request = Nobody \/ shouldStop \/ SelfLocked)
===============================================================================
