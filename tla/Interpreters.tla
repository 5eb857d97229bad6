----------------------------- MODULE Interpreters -----------------------------
(***************************************************************************)
(* A session with tests in script languages and in Ada: their loaders are  *)
(* opened one after the other, a loader that fails is forgotten (as        *)
(* PluginRunner does) or deleted (as SuiteRunner does), the tests run, and *)
(* the loaders are deleted.  TestCase::run is taken down to the calls it   *)
(* makes of the three methods and the verdict; a call a test makes back    *)
(* into the framework goes to the test its language finds.                 *)
(***************************************************************************)
EXTENDS PythonLoader, LuaLoader, RubyLoader, AdaTest

VARIABLES
    language,    \* [Impls -> Languages]
    phase,       \* "load", "run", "delete"; "died" loading, "crashed" in a check
    fate,        \* [Impls -> Fates]
    order,       \* the tests that were loaded
    turn,        \* the place in order of the running test
    step,        \* how far it has come
    hasResult,   \* [Impls -> BOOLEAN]: TestCase::result is not null
    successful   \* [Impls -> BOOLEAN]: the verdict

\* Observed by the properties only.
VARIABLES
    wentWrong,   \* <<test, way>>: a test's own code failed or raised, told this way
    leftIn,      \* <<test, method>>: run() raised, or an assertion has left it
    refused,     \* tests whose setup() returned false
    toreDown,    \* tests whose tearDown() was called
    lacks        \* tests that have none, as turned out when it was to be called

sessionVars == <<language, phase, fate, order, turn, step, hasResult, successful,
                 wentWrong, leftIn, refused, toreDown, lacks>>
allVars == <<pyVars, rubyVars, luaStack, testInstance, sessionVars>>

Languages == {"python", "lua", "ruby", "ada"}
Fates == {"new", "opening", "loaded", "failed", "dropped", "deleted"}

InterpretersInit ==
    /\ PyInit /\ LuaInit /\ RubyInit /\ AdaInit
    /\ language \in [Impls -> Languages]
    /\ phase = "load" /\ order = <<>> /\ turn = 1 /\ step = "enter"
    /\ fate = [l \in Impls |-> "new"]
    /\ hasResult = [l \in Impls |-> FALSE]
    /\ successful = [l \in Impls |-> TRUE]
    /\ wentWrong = {} /\ leftIn = {}
    /\ refused = {} /\ toreDown = {} /\ lacks = {}

(* What a step of one language leaves alone in the others.                  *)
OnlyPython == UNCHANGED <<rubyVars, luaStack, testInstance>>
OnlyLua    == UNCHANGED <<pyVars, rubyVars, testInstance>>
OnlyRuby   == UNCHANGED <<pyVars, luaStack, testInstance>>
OnlyAda    == UNCHANGED <<pyVars, rubyVars, luaStack>>
NoLanguage == OnlyPython /\ UNCHANGED pyVars

-----------------------------------------------------------------------------
(* Loading.                                                                 *)

Becomes(l, f) ==
    /\ fate' = [fate EXCEPT ![l] = f]
    /\ order' = IF f = "loaded" THEN Append(order, l) ELSE order
    /\ UNCHANGED <<language, phase, turn, step, hasResult, successful, wentWrong, leftIn,
                   refused, toreDown, lacks>>

MayLoad(l) == phase = "load" /\ fate[l] = "new" /\ \A k \in Impls : fate[k] # "opening"

LoadPython(l) ==
    /\ MayLoad(l) /\ language[l] = "python"
    /\ Begin(l) /\ OnlyPython /\ Becomes(l, "opening")

GoOnPython(l) ==
    /\ phase = "load" /\ fate[l] = "opening"
    /\ PyOpenStep(l) /\ OnlyPython
    /\ Becomes(l, CASE pyPc'[l] = "open" -> "loaded" [] pyPc'[l] = "closed" -> "failed"
                    [] OTHER -> "opening")

LoadLua(l) ==
    /\ MayLoad(l) /\ language[l] = "lua" /\ OnlyLua
    /\ \/ LuaOpens(l) /\ Becomes(l, "loaded")
       \/ LuaCloses(l) /\ Becomes(l, "failed")

LoadRuby(l) ==
    /\ MayLoad(l) /\ language[l] = "ruby" /\ OnlyRuby
    /\ \/ RubyOpens(l) /\ Becomes(l, "loaded")
       \/ RubyFails /\ Becomes(l, "failed")

LoadAda(l) ==
    /\ MayLoad(l) /\ language[l] = "ada" /\ OnlyAda
    /\ AdaConstructed(l) /\ Becomes(l, "loaded")

(* A file that calls the framework while it is being loaded: its assertion  *)
(* leaves open() and main(), and a check finds a test without a result.     *)
LoadDies(l) ==
    /\ phase = "load" /\ phase' = "died"
    /\ IF language[l] = "python" THEN fate[l] = "opening" /\ pyPc[l] \in {"import", "class"}
       ELSE MayLoad(l) /\ language[l] \in {"lua", "ruby"}
    /\ NoLanguage
    /\ UNCHANGED <<language, fate, order, turn, step, hasResult, successful, wentWrong,
                   leftIn, refused, toreDown, lacks>>

(* delete loader                                                            *)
Delete(l) ==
    CASE language[l] = "python" -> PyClose(l) /\ OnlyPython
      [] language[l] = "lua"    -> LuaCloses(l) /\ OnlyLua
      [] language[l] = "ruby"   -> RubyCloses /\ OnlyRuby
      [] language[l] = "ada"    -> NoLanguage

(* SuiteRunner deletes a loader that failed, before the next is opened.     *)
DropFailed(l) ==
    /\ phase = "load" /\ fate[l] = "failed"
    /\ \A k \in Impls : fate[k] # "opening"
    /\ Delete(l) /\ Becomes(l, "dropped")

-----------------------------------------------------------------------------
(* Running.                                                                 *)

MoreToRun == turn <= Len(order)
cur == order[turn]
InTest == phase = "run" /\ MoreToRun /\ step # "enter"
Lang == language[cur]

StartRun ==
    /\ phase = "load" /\ \A k \in Impls : fate[k] # "opening"
    /\ phase' = "run"
    /\ NoLanguage
    /\ UNCHANGED <<language, fate, order, turn, step, hasResult, successful, wentWrong,
                   leftIn, refused, toreDown, lacks>>

EnterTest ==
    /\ phase = "run" /\ MoreToRun /\ step = "enter"
    /\ step' = "setup"
    /\ hasResult' = [hasResult EXCEPT ![cur] = TRUE]
    /\ successful' = [successful EXCEPT ![cur] = TRUE]
    /\ NoLanguage
    /\ UNCHANGED <<language, phase, fate, order, turn, wentWrong, leftIn, refused,
                   toreDown, lacks>>

(* The test a call of l reaches: a Lua state has one owner; all the others  *)
(* ask something shared, but for a Python test's own module.                *)
Target(l, way) ==
    CASE language[l] = "python" -> getImpl(l, way)
      [] language[l] = "lua"    -> l
      [] language[l] = "ruby"   -> getImpFromRuby
      [] language[l] = "ada"    -> testInstance

Found(has) == IF Lang = "lua" THEN getLocalFunction(cur, has) ELSE has

(* testCheck with a false condition, from the code of the running test: it  *)
(* fails the test it reaches and tells that test's result.                  *)
FailingCheck(way) ==
    /\ InTest
    /\ Lang # "python" => way = "own"
    /\ LET t == Target(cur, way) IN
       /\ t # Nobody
       /\ successful' = [successful EXCEPT ![t] = FALSE]
       /\ phase' = IF hasResult[t] /\ fate[t] # "dropped" THEN phase ELSE "crashed"
    /\ wentWrong' = wentWrong \cup {<<cur, way>>}
    /\ NoLanguage
    /\ UNCHANGED <<language, fate, order, turn, step, hasResult, leftIn, refused,
                   toreDown, lacks>>

Raised(how) == how \in {"raises", "asserts"}
ItWentWrong == wentWrong \cup {<<cur, "own">>}
LeftHere == leftIn \cup {<<cur, step>>}
Failing(l) == [successful EXCEPT ![l] = FALSE]

MethodEnds(how) ==
    IF Lang = "lua"
    THEN OnlyLua /\ (IF step = "setup" THEN LuaSetupEnds(cur, how)
                     ELSE LuaMethodEnds(cur, how))
    ELSE NoLanguage

TestIsOver == turn' = turn + 1 /\ step' = "enter"

(* setup() returns true; or false, and the test is over at once (Ruby's     *)
(* result is ignored); or it is left by an exception.                       *)
Setup(how) ==
    /\ InTest /\ step = "setup"
    /\ MethodEnds(how)
    /\ \/ /\ how = "returns"
          /\ step' = "run"
          /\ UNCHANGED <<turn, successful, wentWrong, refused>>
       \/ /\ how = "returns" /\ Lang # "ruby"
          /\ TestIsOver
          /\ successful' = Failing(cur) /\ wentWrong' = ItWentWrong
          /\ refused' = refused \cup {cur}
       \/ /\ Raised(how)
          /\ step' = "tearDown"
          /\ successful' = Failing(cur) /\ wentWrong' = ItWentWrong
          /\ UNCHANGED <<turn, refused>>
    /\ leftIn' = IF how = "asserts" THEN LeftHere ELSE leftIn
    /\ UNCHANGED <<language, phase, fate, order, hasResult, toreDown, lacks>>

(* run(): again for every repetition, as long as the test is successful.    *)
Run(how) ==
    /\ InTest /\ step = "run"
    /\ MethodEnds(how)
    /\ step' \in IF Raised(how) \/ ~successful[cur] THEN {"tearDown"}
                 ELSE {"run", "tearDown"}
    /\ successful' = IF Raised(how) THEN Failing(cur) ELSE successful
    /\ wentWrong' = IF Raised(how) THEN ItWentWrong ELSE wentWrong
    /\ leftIn' = IF Raised(how) THEN LeftHere ELSE leftIn
    /\ UNCHANGED <<language, phase, fate, order, turn, hasResult, refused, toreDown,
                   lacks>>

(* tearDown(): Python and Lua tests need not have one (in Ruby that raises), *)
(* and Lua may not find it.                                                 *)
TearDown(how, has) ==
    /\ InTest /\ step = "tearDown"
    /\ has \/ Lang \in {"python", "lua"}
    /\ TestIsOver
    /\ IF Found(has)
       THEN /\ MethodEnds(how)
            /\ toreDown' = toreDown \cup {cur} /\ UNCHANGED lacks
            /\ successful' = IF Raised(how) THEN Failing(cur) ELSE successful
            /\ wentWrong' = IF Raised(how) THEN ItWentWrong ELSE wentWrong
       ELSE /\ IF Lang = "lua" THEN OnlyLua /\ LuaNoMethod(cur) ELSE NoLanguage
            /\ lacks' = IF has THEN lacks ELSE lacks \cup {cur}
            /\ UNCHANGED <<toreDown, successful, wentWrong>>
    /\ UNCHANGED <<language, phase, fate, order, hasResult, leftIn, refused>>

RunDone ==
    /\ phase = "run" /\ ~MoreToRun
    /\ phase' = "delete"
    /\ NoLanguage
    /\ UNCHANGED <<language, fate, order, turn, step, hasResult, successful, wentWrong,
                   leftIn, refused, toreDown, lacks>>

DeleteLoader(l) ==
    /\ phase = "delete" /\ fate[l] = "loaded"
    /\ Delete(l) /\ Becomes(l, "deleted")

InterpretersNext ==
    \/ \E l \in Impls :
          \/ LoadPython(l) \/ GoOnPython(l) \/ LoadLua(l) \/ LoadRuby(l) \/ LoadAda(l)
          \/ LoadDies(l) \/ DropFailed(l) \/ DeleteLoader(l)
    \/ StartRun \/ EnterTest \/ RunDone
    \/ \E way \in Ways : FailingCheck(way)
    \/ \E how \in {"returns", "raises", "asserts"} :
          Setup(how) \/ Run(how) \/ \E has \in BOOLEAN : TearDown(how, has)

InterpretersSpec == InterpretersInit /\ [][InterpretersNext]_allVars

-----------------------------------------------------------------------------
(* Other tests of l's language that have been there to be found.            *)
Rivals(l) == {k \in Impls \ {l} : language[k] = language[l] /\ fate[k] # "new"}

NewestOfItsLanguage(l) ==
    \E i \in DOMAIN order :
       /\ order[i] = l
       /\ \A j \in i + 1..Len(order) : language[order[j]] # language[l]

FindsItself(l, way) ==
    \/ language[l] = "lua"
    \/ language[l] = "python" /\ way = "own"
    \/ way # "helper" /\ NewestOfItsLanguage(l)
    \/ Rivals(l) = {}

(* What the code of a test says of itself is held against that test, and    *)
(* against no other, as long as the test is found: always in Lua, and in    *)
(* Python through the module its loader gave it; in Ruby and Ada, and in    *)
(* Python by an import in a method, only the test loaded last; through a    *)
(* Python module shared with other tests, only a test that is alone.  Only  *)
(* without this can a check reach a test that never ran, or is gone         *)
(* (PythonPluginLoader.cpp:474-484, LuaPluginLoader.cpp:226-340,            *)
(* RubyPluginLoader.cpp:152, 247-254, AdaTest.cpp:36-42, 66-95).            *)
ChecksReachTheirTest ==
    LET wrong(l) == {way \in Ways : <<l, way>> \in wentWrong}
        strays(l) == \E way \in wrong(l) : ~FindsItself(l, way)
    IN
    /\ \A l \in Impls : hasResult[l] =>
         /\ (\E way \in wrong(l) : FindsItself(l, way)) => ~successful[l]
         /\ ~successful[l] => wrong(l) # {} \/ \E k \in Rivals(l) : strays(k)
    /\ phase = "crashed" => strays(cur)

(* Tests left in setup() or in run().                                       *)
Left == {w[1] : w \in leftIn}

(* When a test is over its tearDown(), if it has one, was called whatever   *)
(* became of run() and of setup(), with two exceptions: a test whose        *)
(* setup() returned false is not torn down, and a Lua test is not whose     *)
(* run() raised an error or that an assertion left, in setup() too.  Nobody *)
(* is told of either, and lua_plugin_example.dox:102 says that tearDown is  *)
(* called after the test run.  A Ruby test is always torn down: what its    *)
(* setup() returns is not looked at (TestCase.cpp:153-192, LuaPluginLoader  *)
(* .cpp:162-211, RubyPluginLoader.cpp:175-189).                             *)
TearDownIsCalled ==
    \A i \in 1 .. turn - 1 :
       LET l == order[i]
           lostItsTable == language[l] = "lua" /\ l \in Left
       IN
       /\ l \notin lacks => (l \in toreDown <=> l \notin refused /\ ~lostItsTable)
       /\ language[l] = "ruby" => l \in toreDown

(* A test only ever runs in an interpreter that has its objects; a Ruby     *)
(* test alone may find the machine cleaned up, if SuiteRunner deleted the   *)
(* loader of a Ruby test that could not be loaded                           *)
(* (PythonPluginLoader.cpp:99-150, RubyPluginLoader.cpp:42-50, 122-149,     *)
(* SuiteRunner.cpp:196-199).                                                *)
RunsInLivingInterpreter ==
    InTest =>
      CASE Lang = "python" -> initialized /\ objects[cur] = Fields
        [] Lang = "lua"    -> luaStack[cur] # <<>>
        [] Lang = "ruby"   -> \/ rubyVM = "up"
                              \/ \E k \in Impls : language[k] = "ruby" /\ fate[k] = "dropped"
        [] Lang = "ada"    -> testInstance # Nobody
===============================================================================
