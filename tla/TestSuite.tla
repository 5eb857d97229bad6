------------------------------- MODULE TestSuite -------------------------------
(***************************************************************************)
(* TestSuite::run(TestResult&) with its fixture managers, on top of        *)
(* TestCase: the suite sets its fixtures up, checks them before each test, *)
(* restarts them when they collapsed, runs the test and tears everything   *)
(* down.  Three parties act between its steps:                             *)
(*   - the fixtures' own code, which returns true or false, throws or      *)
(*     crashes in setup(), check() and tearDown();                         *)
(*   - a fixture's monitor thread, which calls fixtureCollapsed() at any   *)
(*     time while its fixture is set up or being set up or torn down;      *)
(*   - a signal handler on the main thread, which calls interrupt().       *)
(***************************************************************************)
EXTENDS TestCase, Sequences, Functions

CONSTANTS
    NoSuite,         \* no suite is running
    Fixtures,        \* the FixtureManager objects
    SuiteTests,      \* SuiteTests[s]: the suite's tests, in order
    SuiteFixtures,   \* SuiteFixtures[s]: its fixture managers, in order
    MaxSuiteStarts   \* bound on the suite runs of an instance

(* addTest() refuses a test twice in a suite; a fixture belongs to one.     *)
ASSUME TestSuiteConstants ==
    /\ NoSuite \notin Suites
    /\ \A s \in Suites :
          /\ SuiteTests[s] \in Seq(Tests) /\ IsInjective(SuiteTests[s])
          /\ SuiteFixtures[s] \in Seq(Fixtures) /\ IsInjective(SuiteFixtures[s])
    /\ \A r, s \in Suites :
          r # s => Range(SuiteFixtures[r]) \cap Range(SuiteFixtures[s]) = {}

VARIABLES
    sPc,            \* where the main thread is in TestSuite::run
    suite,          \* the suite whose run() is active
    idx,            \* position in its tests
    fi,             \* position in its fixture managers
    sSuccessful,    \* per suite: successful
    sInterrupted,   \* per suite: interrupted
    fixtureOK,      \* per suite: the member the monitor threads write
    current,        \* per suite: current, NoTest for nullptr
    up              \* the fixtures that are set up (their own state)

\* Observed by the properties only.
VARIABLES
    verified,       \* fixtures checked since the last gate, setup or tearDown
    executed,       \* tests the active suite run has entered
    owed,           \* a collapse notified during a test, fixtures not restarted
    collapses       \* when the active run was told of a collapse: during its
                    \* "last" test or an "earlier" one, in a "check" (after
                    \* the gate, before the decision), or at "other" times

suiteVars == <<sPc, suite, idx, fi, sSuccessful, sInterrupted, fixtureOK,
               current, up, verified, executed, owed, collapses>>
allVars == <<vars, suiteVars>>

SettingUp == {"setup", "restartUp"}
Checking == {"check", "recheck"}
TearingDown == {"restartDown", "tearDown"}
InFixture == SettingUp \cup Checking \cup TearingDown
SuiteLocations == InFixture \cup
    {"idle", "startSuite", "next", "gate", "decide", "call", "inTest",
     "end", "endEarly"}

tests == SuiteTests[suite]
fixtures == SuiteFixtures[suite]
MyFixtures == Range(fixtures)

SuiteTypeOK ==
    /\ sPc \in SuiteLocations
    /\ suite \in Suites \cup {NoSuite}
    /\ sPc = "idle" <=> suite = NoSuite
    /\ idx \in Nat /\ fi \in Nat
    /\ sSuccessful \in [Suites -> BOOLEAN]
    /\ sInterrupted \in [Suites -> BOOLEAN]
    /\ fixtureOK \in [Suites -> BOOLEAN]
    /\ current \in [Suites -> Tests \cup {NoTest}]
    /\ up \subseteq Fixtures
    /\ verified \subseteq Fixtures
    /\ executed \subseteq Tests
    /\ owed \in BOOLEAN
    /\ collapses \subseteq {"earlier", "last", "check", "other"}

SuitesTypeOK == TypeOK /\ SuiteTypeOK

SuiteInit ==
    /\ sPc = "idle" /\ suite = NoSuite
    /\ idx = 0 /\ fi = 0
    /\ sSuccessful = [s \in Suites |-> TRUE]
    /\ sInterrupted = [s \in Suites |-> FALSE]
    /\ fixtureOK = [s \in Suites |-> TRUE]
    /\ current = [s \in Suites |-> NoTest]
    /\ up = {} /\ verified = {} /\ executed = {}
    /\ owed = FALSE /\ collapses = {}

(* The main thread is in the suite's own code, or in a fixture's.           *)
At(locs) == sPc \in locs /\ pc = "idle"
Go(loc) == sPc' = loc
FailSuite == sSuccessful' = [sSuccessful EXCEPT ![suite] = FALSE]

-----------------------------------------------------------------------------
(* Entering and leaving.                                                    *)

SuiteEnter(s) ==
    /\ At({"idle"})
    /\ Go("startSuite")
    /\ suite' = s
    /\ sSuccessful' = [sSuccessful EXCEPT ![s] = TRUE]
    /\ fixtureOK' = [fixtureOK EXCEPT ![s] = TRUE]
    /\ sInterrupted' = [sInterrupted EXCEPT ![s] = FALSE]
    /\ executed' = {} /\ owed' = FALSE /\ collapses' = {} /\ verified' = {}
    /\ UNCHANGED <<vars, idx, fi, current, up>>

StartSuite ==
    /\ At({"startSuite"})
    /\ startTestSuite(suite)
    /\ Go("setup") /\ fi' = 1
    /\ UNCHANGED <<caseVars, suite, idx, sSuccessful, sInterrupted, fixtureOK,
                   current, up, verified, executed, owed, collapses>>

EndSuiteStaysActive ==    \* mutant: the suite is still the active one
    /\ At({"end", "endEarly"})
    /\ endTestSuite(sSuccessful[suite])
    /\ Go("idle")
    /\ UNCHANGED <<marks, caseVars, suite, idx, fi, sSuccessful, sInterrupted,
                   fixtureOK, current, up, verified, executed, owed, collapses>>

(* endTestSuite; the early return after a failed setup() leaves current.    *)
EndSuite ==
    /\ At({"end", "endEarly"})
    /\ endTestSuite(sSuccessful[suite])
    /\ current' = IF sPc = "end" THEN [current EXCEPT ![suite] = NoTest]
                                 ELSE current
    /\ Go("idle") /\ suite' = NoSuite
    /\ UNCHANGED <<marks, caseVars, idx, fi, sSuccessful, sInterrupted,
                   fixtureOK, up, verified, executed, owed, collapses>>

-----------------------------------------------------------------------------
(* Fixtures.  setup() goes through them in order until one fails.           *)

FixtureUp ==
    /\ At(SettingUp) /\ fi <= Len(fixtures)
    /\ up' = up \cup {fixtures[fi]}
    /\ verified' = verified \ {fixtures[fi]}
    /\ fi' = fi + 1
    /\ UNCHANGED <<vars, sPc, suite, idx, sSuccessful, sInterrupted, fixtureOK,
                   current, executed, owed, collapses>>

SetupDoneNoRecheck ==    \* mutant: no check() after a restart
    /\ At(SettingUp) /\ fi > Len(fixtures)
    /\ IF sPc = "setup" THEN Go("next") /\ idx' = 1
                        ELSE Go("call") /\ UNCHANGED idx
    /\ fi' = 1
    /\ UNCHANGED <<vars, suite, sSuccessful, sInterrupted, fixtureOK,
                   current, up, verified, executed, owed, collapses>>

SetupDone ==
    /\ At(SettingUp) /\ fi > Len(fixtures)
    /\ IF sPc = "setup" THEN Go("next") /\ idx' = 1
                        ELSE Go("recheck") /\ UNCHANGED idx
    /\ fi' = 1
    /\ UNCHANGED <<vars, suite, sSuccessful, sInterrupted, fixtureOK,
                   current, up, verified, executed, owed, collapses>>

FixtureUpFailsSilently ==    \* mutant: addError is forgotten
    /\ At(SettingUp) /\ fi <= Len(fixtures)
    /\ FailSuite
    /\ Go(IF sPc = "setup" THEN "endEarly" ELSE "tearDown")
    /\ fi' = Len(fixtures)
    /\ UNCHANGED <<resultVars, caseVars, suite, idx, sInterrupted, fixtureOK,
                   current, up, verified, executed, owed, collapses>>

FixtureUpFailsUnnoticed ==    \* mutant: successful = false is forgotten
    /\ At(SettingUp) /\ fi <= Len(fixtures)
    /\ AddTo({suite}, "error") /\ UNCHANGED sSuccessful
    /\ Go(IF sPc = "setup" THEN "endEarly" ELSE "tearDown")
    /\ fi' = Len(fixtures)
    /\ UNCHANGED <<collector, caseVars, suite, idx, sInterrupted, fixtureOK,
                   current, up, verified, executed, owed, collapses>>

(* A fixture's setup() is false.  The first time the suite ends at once,    *)
(* without tearDown; in a restart a FixtureException is thrown and caught.  *)
FixtureUpFails ==
    /\ At(SettingUp) /\ fi <= Len(fixtures)
    /\ AddTo({suite}, "error") /\ FailSuite
    /\ Go(IF sPc = "setup" THEN "endEarly" ELSE "tearDown")
    /\ fi' = Len(fixtures)
    /\ UNCHANGED <<collector, caseVars, suite, idx, sInterrupted, fixtureOK,
                   current, up, verified, executed, owed, collapses>>

FixtureChecked ==
    /\ At(Checking) /\ fi <= Len(fixtures)
    /\ verified' = verified \cup {fixtures[fi]}
    /\ fi' = fi + 1
    /\ UNCHANGED <<vars, sPc, suite, idx, sSuccessful, sInterrupted, fixtureOK,
                   current, up, executed, owed, collapses>>

(* After a restart the flag is set again, whatever a monitor wrote to it    *)
(* since the restart began.                                                 *)
ChecksDone ==
    /\ At(Checking) /\ fi > Len(fixtures)
    /\ IF sPc = "check"
       THEN Go("decide") /\ UNCHANGED fixtureOK
       ELSE Go("call") /\ fixtureOK' = [fixtureOK EXCEPT ![suite] = TRUE]
    /\ UNCHANGED <<vars, suite, idx, fi, sSuccessful, sInterrupted,
                   current, up, verified, executed, owed, collapses>>

FixtureCheckRetries ==    \* mutant: a failed restart is tried again
    /\ At(Checking) /\ fi <= Len(fixtures)
    /\ AddTo({suite}, "error")
    /\ FailSuite
    /\ fixtureOK' = [fixtureOK EXCEPT ![suite] = FALSE]
    /\ Go("restartDown")
    /\ fi' = Len(fixtures)
    /\ UNCHANGED <<collector, caseVars, suite, idx, sInterrupted,
                   current, up, verified, executed, owed, collapses>>

(* A fixture's check() is false: an error and a restart before the test, an *)
(* error and the end of the run when the restart just happened.             *)
FixtureCheckFails ==
    /\ At(Checking) /\ fi <= Len(fixtures)
    /\ AddTo({suite}, "error")
    /\ IF sPc = "check"
       THEN /\ fixtureOK' = [fixtureOK EXCEPT ![suite] = FALSE]
            /\ Go("decide") /\ UNCHANGED sSuccessful
       ELSE /\ FailSuite
            /\ Go("tearDown") /\ UNCHANGED fixtureOK
    /\ fi' = Len(fixtures)
    /\ UNCHANGED <<collector, caseVars, suite, idx, sInterrupted,
                   current, up, verified, executed, owed, collapses>>

FirstFixtureForgotten == fi > 1   \* mutant: the reverse loop stops early
MoreToTearDown == fi >= 1

ForwardOrder == fixtures[Len(fixtures) - fi + 1]   \* mutant
NextDown == fixtures[fi]

(* tearDown() goes through the fixtures in reverse.                         *)
FixtureDown ==
    /\ At(TearingDown) /\ MoreToTearDown
    /\ up' = up \ {NextDown}
    /\ verified' = verified \ {NextDown}
    /\ fi' = fi - 1
    /\ owed' = FALSE
    /\ UNCHANGED <<vars, sPc, suite, idx, sSuccessful, sInterrupted, fixtureOK,
                   current, executed, collapses>>

TearDownDone ==
    /\ At(TearingDown) /\ ~MoreToTearDown
    /\ Go(IF sPc = "restartDown" THEN "restartUp" ELSE "end")
    /\ fi' = 1
    /\ UNCHANGED <<vars, suite, idx, sSuccessful, sInterrupted, fixtureOK,
                   current, up, verified, executed, owed, collapses>>

(* What a catch clause of run() does: the first try block is followed by    *)
(* tearDown(), the second one by the end event.                             *)
SuiteCatch ==
    /\ FailSuite
    /\ Go(IF sPc = "tearDown" THEN "end" ELSE "tearDown")
    /\ fi' = Len(fixtures)
    /\ UNCHANGED <<suite, idx, sInterrupted, fixtureOK,
                   current, up, verified, executed, owed, collapses>>

FixtureThrows ==
    /\ At(InFixture) /\ fi \in 1 .. Len(fixtures)
    /\ \E kind \in IF sPc = "tearDown" THEN {"error"} ELSE Kinds :
          AddTo({suite}, kind)
    /\ SuiteCatch
    /\ UNCHANGED <<collector, caseVars>>

(* A crash in a fixture finds the handlers installed when the last test     *)
(* returned early from a failed setup(): the test constructed last is ended *)
(* once more and the suite catches the handler's exception.                 *)
FixtureCrashCaught ==
    /\ At(InFixture) /\ fi \in 1 .. Len(fixtures)
    /\ \E sig \in CrashSignals :
          /\ Handled(sig)
          /\ endTest(successful[LastConstructed])
          /\ AddTo({LastConstructed, suite}, "error")
          /\ blocked' = blocked \cup {sig}
    /\ handler' = "SIG_DFL"
    /\ crashEnds' = crashEnds + 1
    /\ SuiteCatch
    /\ UNCHANGED <<pc, running, rep, successful, interrupted, attached, bodies>>

FixtureDies ==
    /\ At(InFixture) /\ fi \in 1 .. Len(fixtures)
    /\ CrashSignals # {}
    /\ pc' = "dead"
    /\ UNCHANGED <<resultVars, running, rep, successful, interrupted, attached,
                   handler, blocked, bodies, crashEnds, suiteVars>>

-----------------------------------------------------------------------------
(* The loop over the tests.                                                 *)

NextTest ==
    /\ At({"next"})
    /\ IF idx <= Len(tests)
       THEN /\ current' = [current EXCEPT ![suite] = tests[idx]]
            /\ Go("gate") /\ UNCHANGED fi
       ELSE /\ Go("tearDown") /\ fi' = Len(fixtures)
            /\ UNCHANGED current
    /\ UNCHANGED <<vars, suite, idx, sSuccessful, sInterrupted, fixtureOK,
                   up, verified, executed, owed, collapses>>

GateInterrupted ==
    /\ At({"gate"}) /\ sInterrupted[suite]
    /\ AddTo({suite}, "failure")
    /\ SuiteCatch
    /\ UNCHANGED <<collector, caseVars>>

Gate ==
    /\ At({"gate"}) /\ ~sInterrupted[suite]
    /\ IF fixtureOK[suite] THEN UNCHANGED marks ELSE AddTo({suite}, "error")
    /\ Go("check") /\ fi' = 1 /\ verified' = {}
    /\ UNCHANGED <<collector, caseVars, suite, idx, sSuccessful, sInterrupted,
                   fixtureOK, current, up, executed, owed, collapses>>

Decide ==
    /\ At({"decide"})
    /\ IF fixtureOK[suite]
       THEN Go("call") /\ UNCHANGED <<sSuccessful, fi>>
       ELSE Go("restartDown") /\ FailSuite /\ fi' = Len(fixtures)
    /\ UNCHANGED <<vars, suite, idx, sInterrupted, fixtureOK,
                   current, up, verified, executed, owed, collapses>>

CallTest ==
    /\ At({"call"})
    /\ Enter(tests[idx])
    /\ Go("inTest")
    /\ executed' = executed \cup {tests[idx]}
    /\ UNCHANGED <<suite, idx, fi, sSuccessful, sInterrupted, fixtureOK,
                   current, up, verified, owed, collapses>>

VerdictOverwritten(t) == successful[t]   \* mutant: = instead of &=
VerdictSoFar(t) == sSuccessful[suite] /\ successful[t]

TestReturned ==
    /\ At({"inTest"})
    /\ sSuccessful' = [sSuccessful EXCEPT ![suite] = VerdictSoFar(tests[idx])]
    /\ idx' = idx + 1
    /\ Go("next")
    /\ UNCHANGED <<vars, suite, fi, sInterrupted, fixtureOK,
                   current, up, verified, executed, owed, collapses>>

-----------------------------------------------------------------------------
(* The other parties.                                                       *)

(* fixtureCollapsed() from the monitor of fixture f of suite s.             *)
Monitored(f) ==
    \/ f \in up
    \/ /\ suite \in Suites /\ sPc \in SettingUp \cup TearingDown
       /\ fi \in 1 .. Len(fixtures) /\ fixtures[fi] = f

CollapsedAt ==
    IF sPc = "inTest" THEN IF idx < Len(tests) THEN "earlier" ELSE "last"
    ELSE IF sPc \in {"check", "decide"} THEN "check" ELSE "other"

fixtureCollapsed(s, f) ==
    /\ pc # "dead"
    /\ f \in Range(SuiteFixtures[s]) /\ Monitored(f)
    /\ fixtureOK' = [fixtureOK EXCEPT ![s] = FALSE]
    /\ IF s = suite
       THEN /\ collapses' = collapses \cup {CollapsedAt}
            /\ owed' = (owed \/ sPc = "inTest")
       ELSE UNCHANGED <<collapses, owed>>
    /\ UNCHANGED <<vars, sPc, suite, idx, fi, sSuccessful, sInterrupted,
                   current, up, verified, executed>>

SuiteFlagForgotten(s) ==   \* mutant: only the test hears of it
    /\ IF current[s] = NoTest THEN UNCHANGED <<pc, interrupted>>
                              ELSE interrupt(current[s])
    /\ UNCHANGED sInterrupted

(* TestSuite::interrupt(): first the current test, then the flag.           *)
suiteInterrupt(s) ==
    /\ IF current[s] = NoTest THEN UNCHANGED <<pc, interrupted>>
                              ELSE interrupt(current[s])
    /\ sInterrupted' = [sInterrupted EXCEPT ![s] = TRUE]

SuiteInterrupt(s) ==
    /\ pc # "dead"
    /\ suiteInterrupt(s)
    /\ UNCHANGED <<resultVars, running, rep, successful, attached, handler,
                   blocked, bodies, crashEnds>>
    /\ UNCHANGED <<sPc, suite, idx, fi, sSuccessful, fixtureOK,
                   current, up, verified, executed, owed, collapses>>

-----------------------------------------------------------------------------
SuiteProgress ==
    \/ StartSuite \/ EndSuite
    \/ FixtureUp \/ SetupDone \/ FixtureUpFails
    \/ FixtureChecked \/ ChecksDone \/ FixtureCheckFails
    \/ FixtureDown \/ TearDownDone
    \/ FixtureThrows \/ FixtureCrashCaught \/ FixtureDies
    \/ NextTest \/ GateInterrupted \/ Gate \/ Decide
    \/ CallTest \/ TestReturned

TestInSuite == CaseStep /\ UNCHANGED suiteVars

SuiteNext ==
    \/ \E s \in Suites :
          /\ collector["nTestSuites"] < MaxSuiteStarts
          /\ SuiteEnter(s)
    \/ SuiteProgress
    \/ TestInSuite
    \/ \E s \in Suites, f \in Fixtures : fixtureCollapsed(s, f)
    \/ \E s \in Suites : SuiteInterrupt(s)

SuitesInit == Init /\ SuiteInit

(* Every call of a fixture's or a test's code returns.                      *)
SuiteFairness ==
    /\ WF_allVars(SuiteProgress)
    /\ WF_allVars(CaseProgress /\ UNCHANGED suiteVars)

SuiteSpec == SuitesInit /\ [][SuiteNext]_allVars /\ SuiteFairness

-----------------------------------------------------------------------------
(* A suite that ends as passed has entered every one of its tests in this   *)
(* run, each of them succeeded, nothing bad was recorded for the suite, and *)
(* no fixture was reported collapsed during a test other than the last or   *)
(* between the two reads of fixtureOK (TestSuite.cpp:104-194, 203-212).  A  *)
(* collapse notified during the last test, a restart or the final           *)
(* tearDown() is read by nobody: of itself it fails no suite.               *)
SuiteVerdictSound ==
    sPc \in {"end", "endEarly"} /\ sSuccessful[suite] =>
        /\ executed = Range(tests)
        /\ \A t \in executed : successful[t]
        /\ marks[suite] = {}
        /\ collapses \subseteq {"last", "other"}

(* A suite that ends as failed can say why: it has an error or a failure of *)
(* its own or a failed test.  The one exception is a collapse notified      *)
(* after the gate has read fixtureOK: line 143 sees it, line 128 did not,   *)
(* and only a report is sent (TestSuite.cpp:128-145).                       *)
SuiteFailureExplained ==
    sPc \in {"end", "endEarly"} /\ ~sSuccessful[suite] =>
        \/ marks[suite] # {}
        \/ \E t \in executed : ~successful[t]
        \/ "check" \in collapses

(* A test is only entered when every fixture of its suite is set up and has *)
(* passed a check() since the previous test and since its latest setup, and *)
(* when no collapse notified during an earlier test is still waiting for    *)
(* its restart (TestSuite.cpp:128-164).  A collapse notified during the     *)
(* restart, which line 162 overwrites, or after the decision to go on does  *)
(* not keep the test from being entered.                                    *)
TestsOnVerifiedFixtures ==
    [][ CallTest => MyFixtures \subseteq up \cap verified /\ ~owed ]_allVars

(* Fixtures come up in order and go down in reverse order, whatever fails:  *)
(* a fixture that is up has all the earlier ones of its suite up            *)
(* (TestSuite.cpp:84-101 and every caller of setup() and tearDown()).       *)
FixturesNest ==
    \A s \in Suites : \A i, j \in DOMAIN SuiteFixtures[s] :
        i < j /\ SuiteFixtures[s][j] \in up => SuiteFixtures[s][i] \in up

(* No fixture is left running in silence: if one is still up at the end of  *)
(* its suite, the suite has failed and recorded an error                    *)
(* (TestSuite.cpp:113-118, 181-190).                                        *)
NoSilentLeak ==
    sPc \in {"end", "endEarly"} /\ MyFixtures \cap up # {} =>
        /\ ~sSuccessful[suite]
        /\ marks[suite] # {}

(* What TestSuite.h:43-45 says of a collapse, "an exception is thrown by the *)
(* TestSuite and the remaining tests will not be executed any more": no     *)
(* test is entered after a collapse notified during an earlier one.  The    *)
(* code restarts the fixtures and goes on (TestSuite.cpp:142-163).          *)
RemainingTestsNotExecuted ==
    [][ CallTest => "earlier" \notin collapses ]_allVars

(* When the user's code returns, a suite that was started ends, however     *)
(* often its fixtures collapse (TestSuite.cpp:104-194).                     *)
SuiteTerminates ==
    \A s \in Suites : suite = s ~> suite = NoSuite \/ pc = "dead"
===============================================================================
