----------------------------- MODULE PythonLoader -----------------------------
(***************************************************************************)
(* PythonPluginLoaderImpl: all Python tests share one interpreter, which   *)
(* lives from the first open() to the last close() and is counted by hand. *)
(* open() fails at any of its steps and then closes itself.  Every test    *)
(* gets an extension module of its own, with a pointer back to the test;   *)
(* the entry of sys.modules is the one of the test loaded last.            *)
(***************************************************************************)
EXTENDS LoadedTests

VARIABLES
    pyPc,             \* [Impls -> PyPcs]: how far open() has come
    m_opened,         \* [Impls -> BOOLEAN]
    objects,          \* [Impls -> SUBSET Fields]: the pointers that are not null
    s_instanceCount,
    s_venvActivated,
    initialized,      \* Py_IsInitialized()
    sysModule,        \* the test whose module 'import robottestingframework' finds
    helper            \* the test whose module a module shared by test files found

pyVars == <<pyPc, m_opened, objects, s_instanceCount, s_venvActivated,
            initialized, sysModule, helper>>

Fields == {"pyModuleRobotTestingFramework", "pyModule", "pyInstance"}
PyPcs  == {"closed", "path", "module", "import", "class", "open"}

PyInit ==
    /\ pyPc = [l \in Impls |-> "closed"]
    /\ m_opened = [l \in Impls |-> FALSE]
    /\ objects = [l \in Impls |-> {}]
    /\ s_instanceCount = 0 /\ s_venvActivated = FALSE /\ initialized = FALSE
    /\ sysModule = Nobody /\ helper = Nobody

-----------------------------------------------------------------------------
(* close(), with the objects owned and the module found by a shared one at  *)
(* that moment: it also ends a failing open().  The entry of sys.modules    *)
(* goes whoever's it is.                                                    *)

\* Mutant: the count goes down although this instance never raised it.
CountsAlways(l) == TRUE
OwnsASlot(l) == m_opened[l]

CloseWith(l, owned, found) ==
    LET last == OwnsASlot(l) /\ s_instanceCount <= 1 IN
    /\ pyPc' = [pyPc EXCEPT ![l] = "closed"]
    /\ objects' = [objects EXCEPT ![l] = {}]
    /\ m_opened' = [m_opened EXCEPT ![l] = FALSE]
    /\ s_instanceCount' = IF last THEN 0
                          ELSE IF OwnsASlot(l) THEN s_instanceCount - 1
                          ELSE s_instanceCount
    /\ s_venvActivated' = (s_venvActivated /\ ~last)
    /\ initialized' = (initialized /\ ~last)
    /\ sysModule' = IF last \/ (initialized /\ "pyModuleRobotTestingFramework" \in owned)
                    THEN Nobody ELSE sysModule
    /\ helper' = IF last THEN Nobody ELSE found

close(l) == CloseWith(l, objects[l], helper)

-----------------------------------------------------------------------------
(* open() on a fresh object, step by step; user code runs in the last two.  *)
(* One call of open() or close() ends before the next begins.               *)

Idle == \A l \in Impls : pyPc[l] \in {"closed", "open"}

Begin(l) ==
    /\ Idle /\ pyPc[l] = "closed"
    /\ pyPc' = [pyPc EXCEPT ![l] = "path"]
    /\ m_opened' = [m_opened EXCEPT ![l] = TRUE]
    /\ s_instanceCount' = s_instanceCount + 1
    /\ s_venvActivated' = (s_venvActivated /\ s_instanceCount # 0)
    /\ initialized' = TRUE
    /\ UNCHANGED <<objects, sysModule, helper>>

(* No environment asked for, one already active, or one activated now.      *)
ActivateVenv(l) ==
    /\ pyPc[l] = "path"
    /\ \/ /\ pyPc' = [pyPc EXCEPT ![l] = "module"]
          /\ s_venvActivated' \in {s_venvActivated, TRUE}
          /\ UNCHANGED <<m_opened, objects, s_instanceCount, initialized,
                         sysModule, helper>>
       \/ ~s_venvActivated /\ close(l)

(* The module may not be made, or made without its pointer back.            *)
MakeModule(l) ==
    /\ pyPc[l] = "module"
    /\ \/ /\ pyPc' = [pyPc EXCEPT ![l] = "import"]
          /\ objects' = [objects EXCEPT ![l] = {"pyModuleRobotTestingFramework"}]
          /\ sysModule' = l
          /\ UNCHANGED <<m_opened, s_instanceCount, s_venvActivated, initialized,
                         helper>>
       \/ \E owned \in {{}, {"pyModuleRobotTestingFramework"}} :
             CloseWith(l, owned, helper)

(* The test file may import a module that other test files import too; that *)
(* module's import of robottestingframework is done once, and stays done    *)
(* when the test file then fails.                                           *)
ImportTest(l) ==
    /\ pyPc[l] = "import"
    /\ \E found \in {helper, IF helper = Nobody THEN sysModule ELSE helper} :
       \/ /\ pyPc' = [pyPc EXCEPT ![l] = "class"]
          /\ objects' = [objects EXCEPT ![l] = @ \cup {"pyModule"}]
          /\ helper' = found
          /\ UNCHANGED <<m_opened, s_instanceCount, s_venvActivated, initialized,
                         sysModule>>
       \/ CloseWith(l, objects[l], found)

MakeInstance(l) ==
    /\ pyPc[l] = "class"
    /\ \/ /\ pyPc' = [pyPc EXCEPT ![l] = "open"]
          /\ objects' = [objects EXCEPT ![l] = @ \cup {"pyInstance"}]
          /\ UNCHANGED <<m_opened, s_instanceCount, s_venvActivated, initialized,
                         sysModule, helper>>
       \/ close(l)

PyOpenStep(l) == ActivateVenv(l) \/ MakeModule(l) \/ ImportTest(l) \/ MakeInstance(l)

(* The loader's destructor, or its next open().                             *)
PyClose(l) == Idle /\ close(l)

PyNext == \E l \in Impls : Begin(l) \/ PyOpenStep(l) \/ PyClose(l)
PySpec == PyInit /\ [][PyNext]_pyVars

-----------------------------------------------------------------------------
(* getImpl: a function of the extension module finds the test its module    *)
(* was made for; which module a caller holds depends on how it got it.      *)
Ways == {"own", "import", "helper"}

\* Mutant: the pointer is looked up in sys.modules instead of the caller's module.
AnyModule(l, way) == sysModule
Own(l, way) == l
getImpl(l, way) ==
    CASE way = "own" -> Own(l, way) [] way = "import" -> sysModule
      [] way = "helper" -> helper

-----------------------------------------------------------------------------
PyTypeOK ==
    /\ pyPc \in [Impls -> PyPcs]
    /\ m_opened \in [Impls -> BOOLEAN]
    /\ objects \in [Impls -> SUBSET Fields]
    /\ s_instanceCount \in Nat
    /\ s_venvActivated \in BOOLEAN /\ initialized \in BOOLEAN
    /\ sysModule \in Impls \cup {Nobody} /\ helper \in Impls \cup {Nobody}

OpenedImpls == {l \in Impls : m_opened[l]}

(* The interpreter is there exactly as long as some test is open or being   *)
(* opened, whatever opens and closes fail in between; nobody holds Python   *)
(* objects across its end, a virtual environment is remembered only while   *)
(* it lasts, and sys.modules never names the module of a test that is gone  *)
(* (PythonPluginLoader.cpp:99-134, 145-150).                                *)
InterpreterLives ==
    /\ s_instanceCount = Cardinality(OpenedImpls)
    /\ initialized <=> s_instanceCount > 0
    /\ s_venvActivated => initialized
    /\ \A l \in Impls : /\ m_opened[l] <=> pyPc[l] # "closed"
                        /\ objects[l] # {} => m_opened[l]
    /\ sysModule # Nobody =>
          "pyModuleRobotTestingFramework" \in objects[sysModule]
===============================================================================
