-------------------------------- MODULE Loading --------------------------------
(***************************************************************************)
(* main() from its options to the start of the run, and the destruction of *)
(* the runner at its end: PluginRunner and SuiteRunner read files and      *)
(* folders, make a loader for every plugin, open it and hand its object to *)
(* the runner; ErrorLogger keeps what went wrong and reportErrors prints   *)
(* it.  What the files hold is chosen by the environment, element by       *)
(* element.                                                                *)
(***************************************************************************)
EXTENDS SharedLibraries, TLC

CONSTANTS
    NoSuite,
    MaxErrors,   \* bound: errors a folder or a suite file may go on after
    MaxEntries   \* bound: entries of the runner before it reads another file

(* An entry of the runner: a suite's tests and fixtures, or a test alone.   *)
Entry(ts, fs) == [tests |-> ts, fixtures |-> fs]
Entries == [tests : Seq(Nat), fixtures : Seq(Nat)]

ASSUME LoadingConstants ==
    NoSuite \notin Entries /\ MaxErrors \in Nat /\ MaxEntries \in Nat

VARIABLES
    todo,            \* the options main() has not come to yet
    at,              \* where main() is
    hand,            \* the loader open() is working on, 0 for none
    suite,           \* the TestSuite being read: its tests and fixtures
    tests,           \* TestRunner::tests: entries of tests and fixtures
    dllLoaders, fixtureLoaders,   \* the loaders the runner will delete
    errors,          \* ErrorLogger::errors: what was said, of which loader
    exitCode         \* -1 until main() returns

\* Observed by the properties only.
VARIABLES
    printed,         \* what reportErrors has printed
    cause            \* why loading was given up

loadVars == <<loaders, mapped, todo, at, hand, suite, tests, dllLoaders,
              fixtureLoaders, errors, exitCode, printed, cause>>

OptionOrder == <<"test", "tests", "suite", "suites">>

LoadInit ==
    /\ LibrariesInit
    /\ \E opts \in (SUBSET ToSet(OptionOrder)) \ {{}} :
          todo = SelectSeq(OptionOrder, LAMBDA o : o \in opts)
    /\ at = "options" /\ hand = 0 /\ suite = NoSuite
    /\ tests = <<>> /\ dllLoaders = <<>> /\ fixtureLoaders = <<>>
    /\ errors = <<>> /\ exitCode = -1
    /\ printed = <<>> /\ cause = "none"

(* An error is of the plugin that is being opened, if one is.               *)
AddError(e) == errors' = Append(errors, [what |-> e, of |-> hand])
Opt == Head(todo)
InFolder == Opt \in {"tests", "suites"}

(* A load call has returned: in a folder its result is ignored and the next *)
(* file is read; an option whose call failed ends the program.              *)
Return(outcome) ==
    IF InFolder THEN at' = "folder" /\ UNCHANGED <<todo, exitCode, cause>>
    ELSE IF outcome = "ok"
    THEN at' = "options" /\ todo' = Tail(todo) /\ UNCHANGED <<exitCode, cause>>
    ELSE at' = "report" /\ exitCode' = 1 /\ cause' = outcome /\ UNCHANGED todo

-----------------------------------------------------------------------------
(* main() goes through its options.                                         *)

NextOption ==
    /\ at = "options" /\ todo # <<>>
    /\ \/ Opt = "test" /\ at' = "file"
       \/ Opt = "suite" /\ at' = "suiteFile"
       \/ InFolder /\ at' = "openFolder"
    /\ UNCHANGED <<loaders, mapped, todo, hand, suite, tests, dllLoaders,
                   fixtureLoaders, errors, exitCode, printed, cause>>

OpenFolder ==
    /\ at = "openFolder"
    /\ \/ at' = "folder" /\ UNCHANGED <<errors, exitCode, cause>>
       \/ /\ AddError("cannot access") /\ cause' = "cannot access"
          /\ at' = "report" /\ exitCode' = 1
    /\ UNCHANGED <<loaders, mapped, todo, hand, suite, tests, dllLoaders,
                   fixtureLoaders, printed>>

MayGoOn == Len(errors) < MaxErrors

(* A file of the right name, a subfolder that cannot be read, or no more.   *)
ReadFolder ==
    /\ at = "folder"
    /\ \/ /\ MayGoOn /\ Len(tests) < MaxEntries
          /\ at' = IF Opt = "tests" THEN "file" ELSE "suiteFile"
          /\ UNCHANGED <<todo, errors>>
       \/ MayGoOn /\ AddError("cannot access") /\ UNCHANGED <<at, todo>>
       \/ at' = "options" /\ todo' = Tail(todo) /\ UNCHANGED errors
    /\ UNCHANGED <<loaders, mapped, hand, suite, tests, dllLoaders,
                   fixtureLoaders, exitCode, printed, cause>>

-----------------------------------------------------------------------------
(* PluginRunner::loadPlugin.  A name of no known kind makes no loader, but  *)
(* a folder is only searched for the known ones; a loader whose open()      *)
(* failed is forgotten.                                                     *)

UnknownPlugin ==
    /\ at = "file" /\ Opt = "test"
    /\ AddError("unknown plugin")
    /\ Return("unknown plugin")
    /\ UNCHANGED <<loaders, mapped, hand, suite, tests, dllLoaders,
                   fixtureLoaders, printed>>

BeginOpen(kind) ==
    /\ CanMake /\ Make(kind)
    /\ hand' = Len(loaders) + 1
    /\ UNCHANGED <<mapped, todo, suite, tests, dllLoaders, fixtureLoaders, errors,
                   exitCode, printed, cause>>

LoadPlugin ==
    /\ at = "file"
    /\ \E kind \in {"dll", "script"} : BeginOpen(kind)
    /\ at' = "openPlugin"

(* open() goes on inside the loader in hand.                                *)
OpenGoesOn ==
    /\ hand # 0
    /\ OpenStep(hand)
    /\ UNCHANGED <<todo, at, hand, suite, tests, dllLoaders, fixtureLoaders,
                   errors, exitCode, printed, cause>>

LastErrorOf(l) == IF loaders[l].pc = "empty" THEN "" ELSE "cannot load"

PluginOpened ==
    /\ at = "openPlugin" /\ Opened(hand)
    /\ tests' = Append(tests, Entry(<<hand>>, <<>>))
    /\ dllLoaders' = Append(dllLoaders, hand)
    /\ hand' = 0
    /\ Return("ok")
    /\ UNCHANGED <<loaders, mapped, suite, fixtureLoaders, errors, printed>>

PluginFails ==
    /\ at = "openPlugin" /\ OpenFailed(hand)
    /\ AddError(LastErrorOf(hand))
    /\ hand' = 0
    /\ Return(LastErrorOf(hand))
    /\ UNCHANGED <<loaders, mapped, suite, tests, dllLoaders, fixtureLoaders, printed>>

-----------------------------------------------------------------------------
(* SuiteRunner::loadSuite.                                                  *)

(* TinyXML throws, finds a syntax error or no root element; or the root is  *)
(* no suite, which is not said unless verbose.                              *)
NoSuiteFile ==
    /\ at = "suiteFile"
    /\ \/ AddError("not readable") /\ Return("not readable")
       \/ UNCHANGED errors /\ Return("no suite")
    /\ UNCHANGED <<loaders, mapped, hand, suite, tests, dllLoaders,
                   fixtureLoaders, printed>>

BeginSuite ==
    /\ at = "suiteFile"
    /\ suite' = Entry(<<>>, <<>>)
    /\ at' = "elements"
    /\ UNCHANGED <<loaders, mapped, todo, hand, tests, dllLoaders, fixtureLoaders,
                   errors, exitCode, printed, cause>>

(* The next element: a fixture, a test, a test of no known kind, or none.   *)
FixtureElement ==
    /\ at = "elements" /\ MayGoOn
    /\ BeginOpen("fixture")
    /\ at' = "openFixture"

TestElement ==
    /\ at = "elements" /\ MayGoOn
    /\ \E kind \in {"dll", "script"} : BeginOpen(kind)
    /\ at' = "openTest"

UnknownTest ==
    /\ at = "elements" /\ MayGoOn
    /\ AddError("unknown plugin")
    /\ UNCHANGED <<loaders, mapped, todo, at, hand, suite, tests, dllLoaders,
                   fixtureLoaders, exitCode, printed, cause>>

SuiteEnds ==
    /\ at = "elements"
    /\ tests' = Append(tests, suite)
    /\ suite' = NoSuite
    /\ Return("ok")
    /\ UNCHANGED <<loaders, mapped, hand, dllLoaders, fixtureLoaders, errors, printed>>

FixtureOpened ==
    /\ at = "openFixture" /\ Opened(hand)
    /\ suite' = [suite EXCEPT !.fixtures = Append(@, hand)]
    /\ fixtureLoaders' = Append(fixtureLoaders, hand)
    /\ hand' = 0
    /\ at' = "elements"
    /\ UNCHANGED <<loaders, mapped, todo, tests, dllLoaders, errors, exitCode,
                   printed, cause>>

KeepSuite == UNCHANGED suite   \* mutant
DropSuite == suite' = NoSuite

(* The suite is deleted; the loaders of what was read before stay.          *)
FixtureFails ==
    /\ at = "openFixture" /\ OpenFailed(hand)
    /\ AddError(LastErrorOf(hand))
    /\ Unmap(hand)
    /\ DropSuite
    /\ hand' = 0
    /\ Return(LastErrorOf(hand))
    /\ UNCHANGED <<tests, dllLoaders, fixtureLoaders, printed>>

(* A repetition that is no number comes to light after open(): the object   *)
(* stays out of the suite and its loader is forgotten.                      *)
ForgottenButListed == suite' = [suite EXCEPT !.tests = Append(@, hand)]  \* mutant
Forgotten == UNCHANGED suite

TestOpened ==
    /\ at = "openTest" /\ Opened(hand)
    /\ \/ /\ suite' = [suite EXCEPT !.tests = Append(@, hand)]
          /\ dllLoaders' = Append(dllLoaders, hand)
          /\ UNCHANGED errors
       \/ /\ AddError("invalid repetition")
          /\ Forgotten
          /\ UNCHANGED dllLoaders
    /\ hand' = 0
    /\ at' = "elements"
    /\ UNCHANGED <<loaders, mapped, todo, tests, fixtureLoaders, exitCode,
                   printed, cause>>

\* Mutant: getLastError() asked after the loader is gone, and not logged.
TestFailsSilently == UNCHANGED errors
LogTestFailure == AddError(LastErrorOf(hand))

TestFails ==
    /\ at = "openTest" /\ OpenFailed(hand)
    /\ LogTestFailure
    /\ Unmap(hand)
    /\ hand' = 0
    /\ at' = "elements"
    /\ UNCHANGED <<todo, suite, tests, dllLoaders, fixtureLoaders, exitCode,
                   printed, cause>>

-----------------------------------------------------------------------------
(* reportErrors, the run, and the destructors.                              *)

LoadingDone ==
    /\ at = "options" /\ todo = <<>>
    /\ at' = "report"
    /\ UNCHANGED <<loaders, mapped, todo, hand, suite, tests, dllLoaders,
                   fixtureLoaders, errors, exitCode, printed, cause>>

(* Each turn prints the newest error, forgets it and compares its number    *)
(* with what is left: one half of the list, rounded up.                     *)
Half(es) == Len(es) \div 2
OldestFirst(es) == SubSeq(es, 1, Len(es) - Half(es))   \* mutant
Popped(es) == SubSeq(es, Half(es) + 1, Len(es))

reportErrors ==
    /\ at = "report"
    /\ printed' = Popped(errors)
    /\ errors' = SubSeq(errors, 1, Half(errors))
    /\ at' = IF exitCode = 1 THEN "deleteTests" ELSE "run"
    /\ UNCHANGED <<loaders, mapped, todo, hand, suite, tests, dllLoaders,
                   fixtureLoaders, exitCode, cause>>

RunEnds ==
    /\ at = "run"
    /\ exitCode' \in {0, 1}
    /\ at' = "deleteTests"
    /\ UNCHANGED <<loaders, mapped, todo, hand, suite, tests, dllLoaders,
                   fixtureLoaders, errors, printed, cause>>

(* ~SuiteRunner: the lists first, then every loader of the two lists.       *)
DeleteTests ==
    /\ at \in {"deleteTests", "deleteFixtures"}
    /\ tests' = <<>>
    /\ LET mine == IF at = "deleteTests" THEN dllLoaders ELSE fixtureLoaders IN
       IF mine = <<>>
       THEN /\ at' = IF at = "deleteTests" THEN "deleteFixtures" ELSE "gone"
            /\ UNCHANGED <<loaders, mapped, dllLoaders, fixtureLoaders>>
       ELSE IF Deleted(Head(mine))
       THEN /\ IF at = "deleteTests"
               THEN dllLoaders' = Tail(mine) /\ UNCHANGED fixtureLoaders
               ELSE fixtureLoaders' = Tail(mine) /\ UNCHANGED dllLoaders
            /\ UNCHANGED <<at, loaders, mapped>>
       ELSE DeleteStep(Head(mine)) /\ UNCHANGED <<at, dllLoaders, fixtureLoaders>>
    /\ UNCHANGED <<todo, hand, suite, errors, exitCode, printed, cause>>

LoadNext ==
    \/ NextOption \/ OpenFolder \/ ReadFolder
    \/ UnknownPlugin \/ LoadPlugin \/ OpenGoesOn \/ PluginOpened \/ PluginFails
    \/ NoSuiteFile \/ BeginSuite \/ FixtureElement \/ TestElement \/ UnknownTest
    \/ SuiteEnds \/ FixtureOpened \/ FixtureFails \/ TestOpened \/ TestFails
    \/ LoadingDone \/ reportErrors \/ RunEnds \/ DeleteTests

LoadSpec == LoadInit /\ [][LoadNext]_loadVars

-----------------------------------------------------------------------------
Holders(l) ==
    Cardinality({i \in DOMAIN dllLoaders : dllLoaders[i] = l})
    + Cardinality({i \in DOMAIN fixtureLoaders : fixtureLoaders[i] = l})
    + (IF hand = l THEN 1 ELSE 0)

Alive(l) == Opened(l) /\ loaders[l].content
Members(e) == ToSet(e.tests) \cup ToSet(e.fixtures)
Listed == UNION {Members(e) : e \in ToSet(tests)}

LoadTypeOK ==
    /\ loaders \in Seq(Loaders) /\ mapped \in [Libraries -> Nat]
    /\ tests \in Seq(Entries) /\ suite \in Entries \cup {NoSuite}
    /\ hand \in {0} \cup Ids /\ exitCode \in {-1, 0, 1}
    /\ (at \in {"openPlugin", "openTest", "openFixture"}) = (hand # 0)
    /\ (at = "elements" \/ at \in {"openTest", "openFixture"}) = (suite # NoSuite)

(* The runner, and the suite being read, only ever list objects that exist, *)
(* each held by exactly one loader in exactly one of the lists the runner   *)
(* deletes from: nothing is called after it was deleted, nothing is deleted *)
(* twice, and a suite dropped half way leaves nothing of its own in the     *)
(* runner (PluginRunner.cpp:45-97, SuiteRunner.cpp:46-205).                 *)
RunnerListsLiveObjects ==
    /\ \A l \in Listed \cup (IF suite = NoSuite THEN {} ELSE Members(suite)) :
          Alive(l) /\ Holders(l) = 1
    /\ \A l \in Ids : Holders(l) <= 1

Logged == ToSet(errors) \cup ToSet(printed)

(* No plugin named on the command line or in a suite is missing from the    *)
(* run without a reason.  When the run starts every plugin that is not in   *)
(* the runner failed to open or was forgotten, and then has an error of its *)
(* own in the logger, or belongs to a suite whose later fixture failed.     *)
(* Not all of these errors are shown (see EveryErrorIsReported), but never  *)
(* fewer than are kept back, so that something is shown whenever anything   *)
(* is missing.  When the runner is gone only the forgotten loaders are      *)
(* left: those that did not open hold nothing, and what keeps an object and *)
(* its library has had an invalid repetition of its own                     *)
(* (PluginRunner.cpp:73-82, SuiteRunner.cpp:140-200, main.cpp:54-63).       *)
EveryPluginAccountedFor ==
    LET failed    == {l \in Ids : OpenFailed(l) \/ Deleted(l)}
        forgotten == {l \in Ids : Opened(l) /\ Holders(l) = 0}
        dropped   == {l \in Ids : Opened(l) /\ Holders(l) = 1} \ Listed
    IN
    /\ at = "run" =>
         /\ \A l \in failed \cup forgotten : \E e \in Logged : e.of = l
         /\ \A l \in dropped : \E f \in failed :
               f > l /\ loaders[f].kind = "fixture"
         /\ Len(errors) <= Len(printed)
    /\ at = "gone" =>
         /\ \A l \in Ids : ~Deleted(l) => (loaders[l].content <=> Opened(l))
         /\ \A l \in Ids : loaders[l].lib # NoLib => Opened(l)
         /\ \A l \in forgotten :
               [what |-> "invalid repetition", of |-> l] \in Logged

(* main() claims before the run to "report any warning or errors"           *)
(* (main.cpp:226).  It does not: reportErrors compares its count with a     *)
(* list that every turn makes shorter, and stops half way (main.cpp:57).    *)
EveryErrorIsReported == at = "run" => errors = <<>>

(* When loading is given up, the error that made the program give up is the *)
(* first one the user is shown, however many were logged before; only a     *)
(* suite file that is no suite ends the program without a word of its own   *)
(* (main.cpp:54-63, 186-223, ErrorLogger.cpp:49-58).                        *)
FatalErrorIsShown ==
    (at = "deleteTests" /\ cause \notin {"none", "no suite"}) =>
        printed # <<>> /\ Last(printed).what = cause
===============================================================================
