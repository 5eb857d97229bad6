------------------------------- MODULE LuaLoader -------------------------------
(***************************************************************************)
(* LuaPluginLoaderImpl: a Lua state of its own for every test, whose stack *)
(* carries the table TestCase from one method to the next.  A method is    *)
(* looked up in whatever lies on top of the stack.                         *)
(***************************************************************************)
EXTENDS LoadedTests

VARIABLE luaStack    \* [Impls -> Seq(Values)]: what open() and the methods left

Values == {"TestCase", "string", "nil"}

LuaInit == luaStack = [l \in Impls |-> <<>>]

Top(l) == luaStack[l][Len(luaStack[l])]
Push(l, v) == luaStack' = [luaStack EXCEPT ![l] = Append(@, v)]
Keep == UNCHANGED luaStack

(* open() leaves the table there; a failing open() closes the state.        *)
LuaOpens(l) == luaStack' = [luaStack EXCEPT ![l] = <<"TestCase">>]
LuaCloses(l) == luaStack' = [luaStack EXCEPT ![l] = <<>>]

(* Only the table has the methods: indexing a string goes to the string     *)
(* library, which has none of these names.                                  *)
getLocalFunction(l, has) == has /\ Top(l) = "TestCase"

(* How a method that was found ends: it returns; it raises a Lua error,     *)
(* which setup() pops and run() and tearDown() do not; or an assertion      *)
(* leaves through the interpreter, with its argument on top.                *)
SetupLeavesError(l, how) ==   \* mutant: setup() without its lua_pop
    IF how = "returns" THEN Keep ELSE Push(l, "string")

LuaSetupEnds(l, how) == IF how = "asserts" THEN Push(l, "string") ELSE Keep
LuaMethodEnds(l, how) == IF how = "returns" THEN Keep ELSE Push(l, "string")

(* A method that was not found: tearDown() leaves what the lookup pushed.   *)
LuaNoMethod(l) == Push(l, "nil")
===============================================================================
