------------------------- MODULE Interpreters_proofs --------------------------
(***************************************************************************)
(* Which test a call from a script reaches, which tearDown() is called, and *)
(* in which interpreter a test runs: for any number of tests in any of the *)
(* four languages, loaded, run and deleted in any order.                   *)
(***************************************************************************)
EXTENDS Interpreters, FiniteSetTheorems, SequenceTheorems, TLAPS

-----------------------------------------------------------------------------
(* The shared interpreter of the Python tests: its life, for any number of  *)
(* tests and any order of opens, failures and closes.                       *)

(* Nothing is owned before the module is made: a failure up to there leaves *)
(* the entry of sys.modules to the test it belongs to, or removes it.       *)
NothingOwnedYet ==
    \A l \in Impls : pyPc[l] \in {"closed", "path", "module"} => objects[l] = {}

Inv == PyTypeOK /\ InterpreterLives /\ NothingOwnedYet

(* The count that close() compares with is the number of open tests, so one *)
(* less is what is left when one of them goes.                              *)
LEMMA OneLess ==
    ASSUME PyTypeOK, NEW l \in Impls, m_opened[l],
           m_opened' = [m_opened EXCEPT ![l] = FALSE]
    PROVE  /\ IsFiniteSet(OpenedImpls) /\ Cardinality(OpenedImpls) \in Nat
           /\ Cardinality(OpenedImpls') = Cardinality(OpenedImpls) - 1
           /\ Cardinality(OpenedImpls) >= 1
<1>1. IsFiniteSet(OpenedImpls)
  BY FS_Subset, ImplsAssumption DEF OpenedImpls
<1>2. OpenedImpls' = OpenedImpls \ {l}
  BY DEF OpenedImpls, PyTypeOK
<1>3. l \in OpenedImpls
  BY DEF OpenedImpls
<1>4. Cardinality(OpenedImpls \ {l}) = Cardinality(OpenedImpls) - 1
  BY <1>1, <1>3, FS_RemoveElement
<1>5. Cardinality(OpenedImpls) \in Nat /\ Cardinality(OpenedImpls \ {l}) \in Nat
  BY <1>1, FS_CardinalityType, FS_RemoveElement
<1> QED
  BY <1>1, <1>2, <1>4, <1>5

(* A fresh test that takes a slot is one more.                              *)
LEMMA OneMore ==
    ASSUME PyTypeOK, NEW l \in Impls, ~m_opened[l],
           m_opened' = [m_opened EXCEPT ![l] = TRUE]
    PROVE  Cardinality(OpenedImpls') = Cardinality(OpenedImpls) + 1
<1>1. IsFiniteSet(OpenedImpls)
  BY FS_Subset, ImplsAssumption DEF OpenedImpls
<1>2. OpenedImpls' = OpenedImpls \cup {l}
  BY DEF OpenedImpls, PyTypeOK
<1>3. l \notin OpenedImpls
  BY DEF OpenedImpls
<1> QED
  BY <1>1, <1>2, <1>3, FS_AddElement

(* close() keeps the invariant whatever it owns at that moment, as long as  *)
(* what it owns belongs to an instance that took its slot.                  *)
LEMMA CloseKeepsInv ==
    ASSUME Inv, NEW l \in Impls, NEW owned, objects[l] \subseteq owned,
           NEW found \in Impls \cup {Nobody}, CloseWith(l, owned, found)
    PROVE  Inv'
<1> USE ImplsAssumption
<1> DEFINE last == OwnsASlot(l) /\ s_instanceCount <= 1
<1>1. PyTypeOK'
  <2>1. s_instanceCount' \in Nat
    <3>1. CASE m_opened[l] /\ s_instanceCount > 1
      BY <3>1 DEF CloseWith, OwnsASlot, Inv, PyTypeOK
    <3>2. CASE ~(m_opened[l] /\ s_instanceCount > 1)
      BY <3>2 DEF CloseWith, OwnsASlot, Inv, PyTypeOK
    <3> QED BY <3>1, <3>2
  <2> QED
    BY <2>1 DEF CloseWith, Inv, PyTypeOK, PyPcs
<1>2. s_instanceCount' = Cardinality(OpenedImpls') /\ (last => s_instanceCount' = 0)
      /\ (~last => s_instanceCount' > 0 <=> s_instanceCount > 0)
  <2>1. CASE m_opened[l]
    <3>1. /\ Cardinality(OpenedImpls') = s_instanceCount - 1
          /\ s_instanceCount >= 1 /\ s_instanceCount \in Nat
      BY <2>1, OneLess DEF CloseWith, Inv, InterpreterLives, PyTypeOK
    <3> QED
      BY <2>1, <3>1 DEF CloseWith, OwnsASlot
  <2>2. CASE ~m_opened[l]
    <3>1. m_opened' = m_opened
      BY <2>2 DEF CloseWith, Inv, PyTypeOK
    <3>2. OpenedImpls' = OpenedImpls
      BY <3>1 DEF OpenedImpls
    <3> QED
      BY <2>2, <3>2 DEF CloseWith, OwnsASlot, Inv, InterpreterLives
  <2> QED BY <2>1, <2>2
<1>3. initialized' <=> s_instanceCount' > 0
  <2>1. initialized' = (initialized /\ ~last)
    BY DEF CloseWith
  <2>2. initialized <=> s_instanceCount > 0
    BY DEF Inv, InterpreterLives
  <2>3. CASE last
    <3>1. s_instanceCount' = 0 /\ ~initialized'
      BY <1>2, <2>1, <2>3
    <3> QED BY <3>1
  <2>4. CASE ~last
    <3>1. s_instanceCount' > 0 <=> s_instanceCount > 0
      BY <1>2, <2>4
    <3>2. initialized' <=> initialized
      BY <2>1, <2>4
    <3> QED BY <2>2, <3>1, <3>2
  <2> QED BY <2>3, <2>4
<1>4. s_venvActivated' => initialized'
  BY DEF CloseWith, Inv, InterpreterLives
<1>5. \A k \in Impls : /\ m_opened'[k] <=> pyPc'[k] # "closed"
                       /\ objects'[k] # {} => m_opened'[k]
                       /\ pyPc'[k] \in {"closed", "path", "module"} => objects'[k] = {}
  BY DEF CloseWith, Inv, InterpreterLives, NothingOwnedYet, PyTypeOK
<1>6. ASSUME sysModule' # Nobody
      PROVE  "pyModuleRobotTestingFramework" \in objects'[sysModule']
  <2>1. sysModule' = sysModule /\ sysModule \in Impls
    BY <1>6 DEF CloseWith, Inv, PyTypeOK
  <2>2. "pyModuleRobotTestingFramework" \in objects[sysModule]
    BY <1>6, <2>1 DEF Inv, InterpreterLives
  <2>3. m_opened[sysModule]
    BY <2>1, <2>2 DEF Inv, InterpreterLives
  <2>4. initialized
    <3>1. sysModule \in OpenedImpls /\ IsFiniteSet(OpenedImpls)
      BY <2>1, <2>3, FS_Subset DEF OpenedImpls
    <3>2. Cardinality(OpenedImpls) # 0
      BY <3>1, FS_EmptySet
    <3> QED
      BY <3>2 DEF Inv, InterpreterLives, PyTypeOK
  <2>5. sysModule # l
    BY <1>6, <2>2, <2>4 DEF CloseWith
  <2> QED
    BY <2>1, <2>2, <2>5 DEF CloseWith, Inv, PyTypeOK
<1> QED
  BY <1>1, <1>2, <1>3, <1>4, <1>5, <1>6 DEF Inv, InterpreterLives, NothingOwnedYet

(* Before any open() the invariant holds.                                   *)
LEMMA InitEstablishesInv == PyInit => Inv
<1> SUFFICES ASSUME PyInit PROVE Inv
  OBVIOUS
<1>1. OpenedImpls = {}
  BY DEF PyInit, OpenedImpls
<1>2. Cardinality(OpenedImpls) = 0
  BY <1>1, FS_EmptySet
<1>3. PyTypeOK /\ NothingOwnedYet
  BY DEF PyInit, PyTypeOK, NothingOwnedYet, PyPcs
<1>4. s_instanceCount = Cardinality(OpenedImpls) /\ (initialized <=> s_instanceCount > 0)
  BY <1>2 DEF PyInit
<1> QED
  BY <1>3, <1>4 DEF PyInit, Inv, InterpreterLives

(* A step of open() that succeeds moves pc and may add an object; the       *)
(* interpreter, the count and who is open stay.                             *)
LEMMA AdvanceKeepsInv ==
    ASSUME Inv, NEW l \in Impls, pyPc[l] # "closed",
           NEW pc \in PyPcs \ {"closed", "path"}, pyPc' = [pyPc EXCEPT ![l] = pc],
           NEW owned \in SUBSET Fields, objects' = [objects EXCEPT ![l] = owned],
           objects[l] \subseteq owned, pc = "module" => owned = {},
           UNCHANGED <<m_opened, s_instanceCount, initialized>>,
           s_venvActivated' \in BOOLEAN,
           helper' \in Impls \cup {Nobody},
           \/ sysModule' = sysModule
           \/ sysModule' = l /\ "pyModuleRobotTestingFramework" \in owned
    PROVE  Inv'
<1> USE ImplsAssumption
<1>1. PyTypeOK'
  BY DEF Inv, PyTypeOK, PyPcs
<1>2. OpenedImpls' = OpenedImpls /\ m_opened[l]
  BY DEF OpenedImpls, Inv, InterpreterLives
<1>3. initialized'
  <2>1. l \in OpenedImpls /\ IsFiniteSet(OpenedImpls)
    BY <1>2, FS_Subset DEF OpenedImpls
  <2>2. Cardinality(OpenedImpls) # 0
    BY <2>1, FS_EmptySet
  <2> QED
    BY <2>2 DEF Inv, InterpreterLives, PyTypeOK
<1>4. \A k \in Impls : /\ m_opened'[k] <=> pyPc'[k] # "closed"
                       /\ objects'[k] # {} => m_opened'[k]
                       /\ pyPc'[k] \in {"closed", "path", "module"} => objects'[k] = {}
  BY <1>2 DEF Inv, PyTypeOK, InterpreterLives, NothingOwnedYet
<1>5. sysModule' # Nobody => "pyModuleRobotTestingFramework" \in objects'[sysModule']
  BY DEF Inv, PyTypeOK, InterpreterLives
<1> QED
  BY <1>1, <1>2, <1>3, <1>4, <1>5 DEF Inv, InterpreterLives, NothingOwnedYet

(* Every step of every loader keeps the invariant.                          *)
LEMMA StepKeepsInv == Inv /\ [PyNext]_pyVars => Inv'
<1> SUFFICES ASSUME Inv, [PyNext]_pyVars PROVE Inv'
  OBVIOUS
<1>0. helper \in Impls \cup {Nobody} /\ sysModule \in Impls \cup {Nobody}
  BY DEF Inv, PyTypeOK
<1>1. ASSUME NEW l \in Impls, Begin(l)
      PROVE  Inv'
  <2> USE ImplsAssumption
  <2>1. Cardinality(OpenedImpls') = s_instanceCount + 1
    BY <1>1, OneMore DEF Begin, Inv, InterpreterLives
  <2>2. PyTypeOK'
    BY <1>1 DEF Begin, Inv, PyTypeOK, PyPcs
  <2>3. /\ s_instanceCount' = Cardinality(OpenedImpls')
        /\ initialized' <=> s_instanceCount' > 0
        /\ s_venvActivated' => initialized'
    BY <1>1, <2>1 DEF Begin, Inv, PyTypeOK
  <2>4. \A k \in Impls : /\ m_opened'[k] <=> pyPc'[k] # "closed"
                         /\ objects'[k] # {} => m_opened'[k]
                         /\ pyPc'[k] \in {"closed", "path", "module"} => objects'[k] = {}
    BY <1>1 DEF Begin, Inv, PyTypeOK, InterpreterLives, NothingOwnedYet
  <2>5. sysModule' # Nobody => "pyModuleRobotTestingFramework" \in objects'[sysModule']
    BY <1>1 DEF Begin, Inv, InterpreterLives
  <2> QED
    BY <2>2, <2>3, <2>4, <2>5 DEF Inv, InterpreterLives, NothingOwnedYet
<1>2. ASSUME NEW l \in Impls, ActivateVenv(l)
      PROVE  Inv'
  <2>1. CASE close(l)
    BY <1>0, <2>1, CloseKeepsInv DEF close
  <2>2. CASE ~close(l)
    <3>1. objects[l] = {} /\ objects' = [objects EXCEPT ![l] = {}]
      BY <1>2, <2>2 DEF ActivateVenv, close, Inv, PyTypeOK, NothingOwnedYet
    <3> QED
      BY <1>2, <2>2, <3>1, AdvanceKeepsInv
         DEF ActivateVenv, close, Inv, PyTypeOK, PyPcs
  <2> QED BY <2>1, <2>2
<1>3. ASSUME NEW l \in Impls, MakeModule(l)
      PROVE  Inv'
  <2>1. ASSUME NEW owned, CloseWith(l, owned, helper)
        PROVE  Inv'
    <3>1. objects[l] = {}
      BY <1>3 DEF MakeModule, Inv, NothingOwnedYet
    <3> QED BY <1>0, <2>1, <3>1, CloseKeepsInv
  <2>2. CASE \A owned \in {{}, {"pyModuleRobotTestingFramework"}} :
                ~CloseWith(l, owned, helper)
    <3>1. objects[l] = {}
      BY <1>3 DEF MakeModule, Inv, NothingOwnedYet
    <3> QED
      BY <1>3, <2>2, <3>1, AdvanceKeepsInv
         DEF MakeModule, Inv, PyTypeOK, PyPcs, Fields
  <2> QED BY <2>1, <2>2
<1>4. ASSUME NEW l \in Impls, ImportTest(l)
      PROVE  Inv'
  <2>1. ASSUME NEW found \in {helper, sysModule}, CloseWith(l, objects[l], found)
        PROVE  Inv'
    BY <1>0, <2>1, CloseKeepsInv
  <2>2. CASE \A found \in {helper, sysModule} : ~CloseWith(l, objects[l], found)
    <3>1. objects[l] \cup {"pyModule"} \in SUBSET Fields
      BY DEF Inv, PyTypeOK, Fields
    <3>2. /\ pyPc[l] # "closed" /\ pyPc' = [pyPc EXCEPT ![l] = "class"]
          /\ objects' = [objects EXCEPT ![l] = objects[l] \cup {"pyModule"}]
          /\ UNCHANGED <<m_opened, s_instanceCount, initialized, s_venvActivated,
                         sysModule>>
          /\ helper' \in {helper, sysModule}
      BY <1>4, <2>2 DEF ImportTest
    <3>3. helper' \in Impls \cup {Nobody} /\ s_venvActivated' \in BOOLEAN
      BY <1>0, <3>2 DEF Inv, PyTypeOK
    <3>4. "class" \in PyPcs \ {"closed", "path"}
      BY DEF PyPcs
    <3> QED
      BY <3>1, <3>2, <3>3, <3>4, AdvanceKeepsInv
  <2> QED BY <2>1, <2>2
<1>5. ASSUME NEW l \in Impls, MakeInstance(l)
      PROVE  Inv'
  <2>1. CASE close(l)
    BY <1>0, <2>1, CloseKeepsInv DEF close
  <2>2. CASE ~close(l)
    <3>1. objects[l] \cup {"pyInstance"} \in SUBSET Fields
      BY DEF Inv, PyTypeOK, Fields
    <3>2. /\ pyPc[l] # "closed" /\ pyPc' = [pyPc EXCEPT ![l] = "open"]
          /\ objects' = [objects EXCEPT ![l] = objects[l] \cup {"pyInstance"}]
          /\ UNCHANGED <<m_opened, s_instanceCount, initialized, s_venvActivated,
                         sysModule>>
      BY <1>5, <2>2 DEF MakeInstance, close
    <3>3. helper' \in Impls \cup {Nobody} /\ s_venvActivated' \in BOOLEAN
      BY <1>5, <2>2, <3>2 DEF MakeInstance, close, Inv, PyTypeOK
    <3>4. "open" \in PyPcs \ {"closed", "path"}
      BY DEF PyPcs
    <3> QED
      BY <3>1, <3>2, <3>3, <3>4, AdvanceKeepsInv
  <2> QED BY <2>1, <2>2
<1>6. ASSUME NEW l \in Impls, PyClose(l)
      PROVE  Inv'
  BY <1>0, <1>6, CloseKeepsInv DEF PyClose, close
<1>7. CASE UNCHANGED pyVars
  BY <1>7 DEF pyVars, Inv, PyTypeOK, InterpreterLives, NothingOwnedYet, OpenedImpls
<1> QED
  BY <1>1, <1>2, <1>3, <1>4, <1>5, <1>6, <1>7 DEF PyNext, PyOpenStep

(* For any set of Python tests: the state of every loader has its type.     *)
THEOREM PythonTypeCorrect == PySpec => []PyTypeOK
<1>1. Inv => PyTypeOK
  BY DEF Inv
<1> QED
  BY InitEstablishesInv, StepKeepsInv, <1>1, PTL DEF PySpec

(* For any set of Python tests, whatever opens and closes fail: the shared  *)
(* interpreter is there exactly as long as some test needs it, and          *)
(* sys.modules never names the module of a test that is gone.               *)
THEOREM InterpreterLivesLongEnough == PySpec => []InterpreterLives
<1>1. Inv => InterpreterLives
  BY DEF Inv
<1> QED
  BY InitEstablishesInv, StepKeepsInv, <1>1, PTL DEF PySpec

-----------------------------------------------------------------------------
(* The session of tests in all four languages: the inductive invariant.     *)

Phases == {"load", "run", "delete", "died", "crashed"}

SessionTypes ==
    /\ language \in [Impls -> Languages] /\ fate \in [Impls -> Fates]
    /\ phase \in Phases /\ step \in {"enter", "setup", "run", "tearDown"}
    /\ order \in Seq(Impls) /\ turn \in 1 .. Len(order) + 1
    /\ hasResult \in [Impls -> BOOLEAN] /\ successful \in [Impls -> BOOLEAN]
    /\ leftIn \subseteq Impls \X {"setup", "run"}
    /\ refused \subseteq Impls /\ toreDown \subseteq Impls /\ lacks \subseteq Impls

LanguageTypes ==
    /\ luaStack \in [Impls -> Seq(Values)]
    /\ rubyVM \in {"none", "up", "cleaned"}
    /\ TESTCASE_IMPL \in Impls \cup {Nobody} /\ testInstance \in Impls \cup {Nobody}

(* What was loaded is in the order once, and the tests run in that order.   *)
Listed(l) == \E i \in 1 .. Len(order) : order[i] = l

QueueInv ==
    /\ \A i, j \in 1 .. Len(order) : order[i] = order[j] => i = j
    /\ \A l \in Impls : Listed(l) <=> fate[l] \in {"loaded", "deleted"}
    /\ \A i \in 1 .. Len(order) :
          hasResult[order[i]] <=> i < turn \/ (i = turn /\ step # "enter")
    /\ \A l \in Impls : hasResult[l] => Listed(l)

(* What the phases of the program have not come to yet.                     *)
PhaseInv ==
    /\ phase \in {"load", "died"} => turn = 1 /\ step = "enter" /\ wentWrong = {}
    /\ phase \notin {"load", "died"} => \A l \in Impls : fate[l] # "opening"
    /\ phase # "delete" => \A l \in Impls : fate[l] # "deleted"
    /\ step # "enter" => turn <= Len(order) /\ phase \in {"run", "crashed"}
    /\ phase = "crashed" => step # "enter"

(* How far a Python test's open() has come is what its fate says.           *)
OwnedAt(place) ==
    CASE place \in {"closed", "path", "module"} -> {}
      [] place = "import" -> {"pyModuleRobotTestingFramework"}
      [] place = "class" -> {"pyModuleRobotTestingFramework", "pyModule"}
      [] place = "open" -> Fields

PythonInv ==
    /\ Inv
    /\ \A l \in Impls :
          /\ objects[l] = OwnedAt(pyPc[l])
          /\ pyPc[l] = "open" <=> language[l] = "python" /\ fate[l] = "loaded"
          /\ pyPc[l] \notin {"open", "closed"} <=> fate[l] = "opening"
          /\ fate[l] = "opening" => language[l] = "python"
          /\ pyPc[l] \in {"import", "class"} => sysModule = l
    /\ \A k, l \in Impls : fate[k] = "opening" /\ fate[l] = "opening" => k = l

(* Whom the shared places name: a test of their language, and the loaded    *)
(* one that came last.                                                      *)
Newest == {l \in Impls : NewestOfItsLanguage(l)}

NamesInv ==
    /\ sysModule # Nobody =>
         /\ language[sysModule] = "python"
         /\ fate[sysModule] = "loaded" => sysModule \in Newest
    /\ helper # Nobody => language[helper] = "python" /\ fate[helper] # "new"
    /\ TESTCASE_IMPL # Nobody =>
         language[TESTCASE_IMPL] = "ruby" /\ TESTCASE_IMPL \in Newest
    /\ testInstance # Nobody =>
         language[testInstance] = "ada" /\ testInstance \in Newest

(* The machine of the Ruby tests and the object of the Ada tests are there  *)
(* once a test of theirs was loaded.                                        *)
MachineInv ==
    /\ \A l \in Impls : fate[l] = "loaded" =>
          /\ language[l] = "ruby" => rubyVM # "none"
          /\ language[l] = "ada" => testInstance # Nobody
    /\ rubyVM = "cleaned" =>
          \E k \in Impls : language[k] = "ruby" /\ fate[k] \in {"dropped", "deleted"}

(* A test that is not over, and one that was entered.                       *)
Ahead(l) == fate[l] = "loaded" /\ (hasResult[l] => step # "enter" /\ l = cur)

(* The table lies on top of a Lua test's stack unless the test was left.    *)
LuaInv ==
    /\ \A l \in Impls : language[l] = "lua" /\ Ahead(l) =>
          /\ luaStack[l] # <<>>
          /\ Top(l) = "TestCase" <=> l \notin Left
    /\ \A l \in Left : hasResult[l]
    /\ \A l \in refused \cup toreDown \cup lacks : hasResult[l] /\ ~Ahead(l)
    /\ TearDownIsCalled

(* A test that is over: what the property says of it.                       *)
TornDownRightly(l) ==
    /\ l \notin lacks =>
         (l \in toreDown <=> l \notin refused /\ ~(language[l] = "lua" /\ l \in Left))
    /\ language[l] = "ruby" => l \in toreDown

(* What went wrong went wrong in a test that was entered.                   *)
WrongInv ==
    /\ \A w \in wentWrong : w \in Impls \X Ways /\ hasResult[w[1]]
    /\ ChecksReachTheirTest

SessionInv ==
    /\ SessionTypes /\ LanguageTypes /\ QueueInv /\ PhaseInv
    /\ PythonInv /\ NamesInv /\ MachineInv
    /\ LuaInv /\ WrongInv

-----------------------------------------------------------------------------
(* Before the run no test was entered, and nothing could go wrong.          *)
LEMMA Unstarted ==
    ASSUME SessionInv, phase \in {"load", "died"}
    PROVE  /\ \A l \in Impls : ~hasResult[l]
           /\ wentWrong = {} /\ leftIn = {} /\ Left = {}
           /\ refused = {} /\ toreDown = {} /\ lacks = {}
<1>1. SessionTypes /\ QueueInv /\ PhaseInv /\ LuaInv
  BY DEF SessionInv
<1>2. \A i \in 1 .. Len(order) : ~ hasResult[order[i]]
  <2>1. turn = 1 /\ step = "enter"
    BY <1>1 DEF PhaseInv
  <2>. QED  BY <1>1, <2>1 DEF QueueInv
<1>3. \A l \in Impls : ~hasResult[l]
  BY <1>1, <1>2 DEF QueueInv, Listed
<1>4. leftIn = {}
  <2>1. \A w \in leftIn : w[1] \in Impls /\ w[1] \in Left
    BY <1>1 DEF SessionTypes, Left
  <2>. QED  BY <1>1, <1>3, <2>1 DEF LuaInv
<1>. QED  BY <1>1, <1>3, <1>4 DEF LuaInv, PhaseInv, SessionTypes, Left

(* The one test that is running is a loaded one, entered and in the order.  *)
LEMMA Running ==
    ASSUME SessionInv, InTest
    PROVE  /\ cur \in Impls /\ turn \in 1 .. Len(order) /\ fate[cur] = "loaded"
           /\ hasResult[cur] /\ Ahead(cur) /\ phase = "run" /\ step # "enter"
           /\ language[cur] \in Languages
<1>1. SessionTypes /\ QueueInv /\ PhaseInv
  BY DEF SessionInv
<1>2. turn \in 1 .. Len(order) /\ step # "enter" /\ phase = "run"
  BY <1>1 DEF InTest, MoreToRun, SessionTypes
<1>3. cur \in Impls /\ hasResult[cur]
  BY <1>1, <1>2 DEF cur, SessionTypes, QueueInv
<1>4. fate[cur] \in {"loaded", "deleted"} /\ fate[cur] # "deleted"
  BY <1>1, <1>2, <1>3 DEF cur, QueueInv, Listed, PhaseInv
<1>. QED  BY <1>1, <1>2, <1>3, <1>4 DEF Ahead, SessionTypes

(* Only one test of a language is its newest.                               *)
LEMMA NewestIsOne ==
    ASSUME SessionTypes, NEW k \in Impls, NEW l \in Impls,
           NewestOfItsLanguage(k), NewestOfItsLanguage(l), language[k] = language[l]
    PROVE  k = l
<1>1. PICK i \in 1 .. Len(order) :
          order[i] = k /\ \A j \in i + 1 .. Len(order) : language[order[j]] # language[k]
  BY DEF NewestOfItsLanguage, SessionTypes
<1>2. PICK j \in 1 .. Len(order) :
          order[j] = l /\ \A m \in j + 1 .. Len(order) : language[order[m]] # language[l]
  BY DEF NewestOfItsLanguage, SessionTypes
<1>3. Len(order) \in Nat
  BY DEF SessionTypes
<1>4. CASE i < j
  BY <1>1, <1>2, <1>3, <1>4
<1>5. CASE j < i
  BY <1>1, <1>2, <1>3, <1>5
<1>6. CASE i = j
  BY <1>1, <1>2, <1>6
<1>. QED  BY <1>3, <1>4, <1>5, <1>6

-----------------------------------------------------------------------------
(* Loading and deleting: what becomes of one test.                          *)
Advance(l, f) ==
    /\ Becomes(l, f)
    /\ \/ /\ f \in {"opening", "loaded", "failed"}
          /\ phase = "load" /\ fate[l] \in {"new", "opening"}
       \/ f = "dropped" /\ phase = "load" /\ fate[l] = "failed"
       \/ f = "deleted" /\ phase = "delete" /\ fate[l] = "loaded"

(* The order after a test was loaded.                                       *)
LEMMA OrderGrows ==
    ASSUME SessionTypes, NEW l \in Impls, order' = Append(order, l)
    PROVE  /\ order' \in Seq(Impls) /\ Len(order') = Len(order) + 1
           /\ Len(order) \in Nat
           /\ \A i \in 1 .. Len(order) : order'[i] = order[i]
           /\ order'[Len(order) + 1] = l
BY AppendProperties DEF SessionTypes

(* Who is the newest of a language changes only when one of it is loaded.   *)
LEMMA NewestStays ==
    ASSUME SessionTypes, NEW l \in Impls, NEW f, Becomes(l, f),
           NEW k \in Impls, NewestOfItsLanguage(k),
           f = "loaded" => language[k] # language[l]
    PROVE  NewestOfItsLanguage(k)'
<1>1. language' = language
  BY DEF Becomes
<1>2. CASE f # "loaded"
  <2>1. order' = order
    BY <1>2 DEF Becomes
  <2>. QED  BY <1>1, <2>1 DEF NewestOfItsLanguage
<1>3. CASE f = "loaded"
  <2>1. order' = Append(order, l)
    BY <1>3 DEF Becomes
  <2>2. /\ Len(order') = Len(order) + 1 /\ Len(order) \in Nat
        /\ order' \in Seq(Impls)
        /\ \A i \in 1 .. Len(order) : order'[i] = order[i]
        /\ order'[Len(order) + 1] = l
    BY <2>1, OrderGrows
  <2>3. PICK i \in 1 .. Len(order) :
            order[i] = k /\ \A j \in i + 1 .. Len(order) : language[order[j]] # language[k]
    BY DEF NewestOfItsLanguage, SessionTypes
  <2>4. \A j \in i + 1 .. Len(order') : language[order'[j]] # language[k]
    <3>1. SUFFICES ASSUME NEW j \in i + 1 .. Len(order')
                   PROVE  language[order'[j]] # language[k]
      OBVIOUS
    <3>2. j \in i + 1 .. Len(order) \/ j = Len(order) + 1
      BY <2>2
    <3>. QED  BY <1>3, <2>2, <2>3, <3>2
  <2>5. i \in DOMAIN order' /\ order'[i] = k
    BY <2>2, <2>3
  <2>. QED  BY <1>1, <2>4, <2>5 DEF NewestOfItsLanguage
<1>. QED  BY <1>2, <1>3

(* A test that was just loaded is the newest of its language.               *)
LEMMA NewestNow ==
    ASSUME SessionTypes, NEW l \in Impls, Becomes(l, "loaded")
    PROVE  NewestOfItsLanguage(l)'
<1>1. order' = Append(order, l)
  BY DEF Becomes
<1>2. /\ order' \in Seq(Impls) /\ Len(order') = Len(order) + 1
      /\ Len(order) \in Nat /\ order'[Len(order) + 1] = l
  BY <1>1, OrderGrows
<1>3. Len(order) + 1 \in DOMAIN order' /\ Len(order) + 1 + 1 .. Len(order') = {}
  BY <1>2
<1>. QED  BY <1>2, <1>3 DEF NewestOfItsLanguage

(* The list and the phases.                                                 *)
LEMMA StepQueue ==
    ASSUME SessionInv, NEW l \in Impls, NEW f, Advance(l, f)
    PROVE  SessionTypes' /\ QueueInv' /\ PhaseInv'
<1>1. SessionTypes /\ QueueInv /\ PhaseInv
  BY DEF SessionInv
<1>2. /\ UNCHANGED <<language, phase, turn, step, hasResult, successful, wentWrong,
                     leftIn, refused, toreDown, lacks>>
      /\ fate' = [fate EXCEPT ![l] = f] /\ f \in Fates
  BY DEF Advance, Becomes, Fates
<1>3. /\ fate' \in [Impls -> Fates] /\ fate'[l] = f
      /\ \A k \in Impls \ {l} : fate'[k] = fate[k]
  BY <1>1, <1>2 DEF SessionTypes
<1>4. CASE f # "loaded"
  <2>1. order' = order
    BY <1>4 DEF Advance, Becomes
  <2>2. SessionTypes'
    BY <1>1, <1>2, <1>3, <2>1 DEF SessionTypes
  <2>3. \A k \in Impls : fate'[k] \in {"loaded", "deleted"}
                            <=> fate[k] \in {"loaded", "deleted"}
    BY <1>3, <1>4 DEF Advance
  <2>4. QueueInv'
    BY <1>1, <1>2, <2>1, <2>3 DEF QueueInv, Listed
  <2>5. PhaseInv'
    BY <1>1, <1>2, <1>3, <2>1 DEF PhaseInv, Advance
  <2>. QED  BY <2>2, <2>4, <2>5
<1>5. CASE f = "loaded"
  <2>1. order' = Append(order, l) /\ phase = "load" /\ fate[l] \in {"new", "opening"}
    BY <1>5 DEF Advance, Becomes
  <2>2. /\ order' \in Seq(Impls) /\ Len(order') = Len(order) + 1
        /\ Len(order) \in Nat
        /\ \A i \in 1 .. Len(order) : order'[i] = order[i]
        /\ order'[Len(order) + 1] = l
    BY <1>1, <2>1, OrderGrows
  <2>3. turn = 1 /\ step = "enter" /\ \A k \in Impls : ~hasResult[k]
    BY <1>1, <2>1, Unstarted DEF PhaseInv
  <2>4. SessionTypes'
    BY <1>1, <1>2, <1>3, <2>2, <2>3 DEF SessionTypes
  <2>5. ~ Listed(l)
    BY <1>1, <2>1 DEF QueueInv
  <2>6. \A i, j \in 1 .. Len(order') : order'[i] = order'[j] => i = j
    <3>1. SUFFICES ASSUME NEW i \in 1 .. Len(order'), NEW j \in 1 .. Len(order'),
                          order'[i] = order'[j]
                   PROVE  i = j
      OBVIOUS
    <3>2. /\ i \in 1 .. Len(order) \/ i = Len(order) + 1
          /\ j \in 1 .. Len(order) \/ j = Len(order) + 1
      BY <2>2
    <3>. QED  BY <1>1, <2>2, <2>5, <3>1, <3>2 DEF QueueInv, Listed
  <2>7. \A k \in Impls : Listed(k)' <=> Listed(k) \/ k = l
    <3>1. \A i \in 1 .. Len(order') : i \in 1 .. Len(order) \/ i = Len(order) + 1
      BY <2>2
    <3>2. 1 .. Len(order) \subseteq 1 .. Len(order') /\ Len(order) + 1 \in 1 .. Len(order')
      BY <2>2
    <3>. QED  BY <2>2, <3>1, <3>2 DEF Listed
  <2>8. QueueInv'
    <3>1. \A k \in Impls : Listed(k)' <=> fate'[k] \in {"loaded", "deleted"}
      BY <1>1, <1>3, <1>5, <2>7 DEF QueueInv
    <3>2. \A i \in 1 .. Len(order') : order'[i] \in Impls
      BY <2>2
    <3>. QED  BY <1>2, <2>3, <2>6, <3>1, <3>2, <2>2 DEF QueueInv
  <2>9. PhaseInv'
    BY <1>1, <1>2, <1>3, <1>5, <2>1, <2>3 DEF PhaseInv
  <2>. QED  BY <2>4, <2>8, <2>9
<1>. QED  BY <1>4, <1>5

-----------------------------------------------------------------------------
(* What a step of a Python loader makes of its test.                        *)
PythonStep(l, f) ==
    \/ Begin(l) /\ f = "opening"
    \/ /\ PyOpenStep(l) /\ fate[l] = "opening"
       /\ f = CASE pyPc'[l] = "open" -> "loaded" [] pyPc'[l] = "closed" -> "failed"
                [] OTHER -> "opening"
    \/ PyClose(l) /\ f \in {"dropped", "deleted"}

(* l closes, and a shared module keeps what it found, or has found l.       *)
Closes(l) == \E owned : \E found \in {helper, l} : CloseWith(l, owned, found)

(* close() empties the test and leaves the others.                          *)
LEMMA CloseEffect ==
    ASSUME PyTypeOK, NEW l \in Impls, Closes(l)
    PROVE  /\ \A k \in Impls \ {l} : pyPc'[k] = pyPc[k] /\ objects'[k] = objects[k]
           /\ pyPc'[l] = "closed" /\ objects'[l] = {}
           /\ sysModule' \in {sysModule, Nobody}
           /\ helper' \in {helper, Nobody, l}
BY DEF Closes, CloseWith, PyTypeOK

LEMMA PythonEffect ==
    ASSUME SessionInv, NEW l \in Impls, NEW f, PythonStep(l, f)
    PROVE  /\ Inv'
           /\ \A k \in Impls \ {l} : pyPc'[k] = pyPc[k] /\ objects'[k] = objects[k]
           /\ objects'[l] = OwnedAt(pyPc'[l])
           /\ pyPc'[l] = "open" <=> f = "loaded"
           /\ pyPc'[l] \notin {"open", "closed"} <=> f = "opening"
           /\ pyPc'[l] \in {"import", "class"} => sysModule' = l
           /\ sysModule' \in {sysModule, Nobody} \/ (sysModule' = l /\ f = "opening")
           /\ helper' \in {helper, Nobody, l}
           /\ f = "loaded" => sysModule = l
<1>1. Inv /\ PyTypeOK /\ PythonInv
  BY DEF SessionInv, PythonInv, Inv
<1>2. Inv'
  <2>1. PyNext
    BY DEF PythonStep, PyNext
  <2>. QED  BY <1>1, <2>1, StepKeepsInv
<1>3. objects[l] = OwnedAt(pyPc[l]) /\ (pyPc[l] \in {"import", "class"} => sysModule = l)
  BY <1>1 DEF PythonInv
<1>4. CASE Begin(l) /\ f = "opening"
  BY <1>1, <1>2, <1>3, <1>4 DEF Begin, PyTypeOK, OwnedAt
<1>5. CASE Closes(l) /\ f \in {"failed", "dropped", "deleted"}
  BY <1>1, <1>2, <1>5, CloseEffect DEF OwnedAt
<1>6. ASSUME PyOpenStep(l),
             f = CASE pyPc'[l] = "open" -> "loaded" [] pyPc'[l] = "closed" -> "failed"
                   [] OTHER -> "opening",
             ~Closes(l)
      PROVE  /\ \A k \in Impls \ {l} : pyPc'[k] = pyPc[k] /\ objects'[k] = objects[k]
             /\ objects'[l] = OwnedAt(pyPc'[l])
             /\ pyPc'[l] = "open" <=> f = "loaded"
             /\ pyPc'[l] \notin {"open", "closed"} <=> f = "opening"
             /\ pyPc'[l] \in {"import", "class"} => sysModule' = l
             /\ sysModule' \in {sysModule, Nobody} \/ (sysModule' = l /\ f = "opening")
             /\ helper' \in {helper, Nobody, l}
             /\ f = "loaded" => sysModule = l
  <2>1. CASE ActivateVenv(l)
    <3>1. /\ pyPc[l] = "path" /\ pyPc' = [pyPc EXCEPT ![l] = "module"]
          /\ UNCHANGED <<objects, sysModule, helper>>
      BY <1>6, <2>1 DEF ActivateVenv, close, Closes
    <3>2. pyPc'[l] = "module"
      BY <1>1, <3>1 DEF PyTypeOK
    <3>3. f = "opening"
      BY <1>6, <3>2
    <3>. QED  BY <1>1, <1>3, <3>1, <3>2, <3>3 DEF PyTypeOK, OwnedAt
  <2>2. CASE MakeModule(l)
    <3>1. /\ pyPc[l] = "module" /\ pyPc' = [pyPc EXCEPT ![l] = "import"]
          /\ objects' = [objects EXCEPT ![l] = {"pyModuleRobotTestingFramework"}]
          /\ sysModule' = l /\ helper' = helper
      BY <1>6, <2>2 DEF MakeModule, Closes
    <3>2. pyPc'[l] = "import"
      BY <1>1, <3>1 DEF PyTypeOK
    <3>3. f = "opening"
      BY <1>6, <3>2
    <3>. QED  BY <1>1, <3>1, <3>2, <3>3 DEF PyTypeOK, OwnedAt
  <2>3. CASE ImportTest(l)
    <3>1. /\ pyPc[l] = "import" /\ pyPc' = [pyPc EXCEPT ![l] = "class"]
          /\ objects' = [objects EXCEPT ![l] = @ \cup {"pyModule"}]
          /\ sysModule' = sysModule /\ helper' \in {helper, sysModule}
      BY <1>3, <1>6, <2>3 DEF ImportTest, Closes
    <3>2. pyPc'[l] = "class"
      BY <1>1, <3>1 DEF PyTypeOK
    <3>3. f = "opening"
      BY <1>6, <3>2
    <3>4. objects'[l] = {"pyModuleRobotTestingFramework"} \cup {"pyModule"}
      BY <1>1, <1>3, <3>1 DEF PyTypeOK, OwnedAt
    <3>. QED  BY <1>1, <1>3, <3>1, <3>2, <3>3, <3>4 DEF PyTypeOK, OwnedAt
  <2>4. CASE MakeInstance(l)
    <3>1. /\ pyPc[l] = "class" /\ pyPc' = [pyPc EXCEPT ![l] = "open"]
          /\ objects' = [objects EXCEPT ![l] = @ \cup {"pyInstance"}]
          /\ sysModule' = sysModule /\ helper' = helper
      BY <1>6, <2>4 DEF MakeInstance, close, Closes
    <3>2. pyPc'[l] = "open"
      BY <1>1, <3>1 DEF PyTypeOK
    <3>3. f = "loaded"
      BY <1>6, <3>2
    <3>4. objects'[l] = {"pyModuleRobotTestingFramework", "pyModule"} \cup {"pyInstance"}
      BY <1>1, <1>3, <3>1 DEF PyTypeOK, OwnedAt
    <3>. QED  BY <1>1, <1>3, <3>1, <3>2, <3>3, <3>4 DEF PyTypeOK, OwnedAt, Fields
  <2>. QED  BY <1>6, <2>1, <2>2, <2>3, <2>4 DEF PyOpenStep
<1>7. CASE /\ PyOpenStep(l)
           /\ f = CASE pyPc'[l] = "open" -> "loaded" [] pyPc'[l] = "closed" -> "failed"
                    [] OTHER -> "opening"
  <2>1. CASE Closes(l)
    <3>1. pyPc'[l] = "closed"
      BY <1>1, <2>1, CloseEffect
    <3>2. f = "failed"
      BY <1>7, <3>1
    <3>. QED  BY <1>5, <2>1, <3>2
  <2>2. CASE ~Closes(l)
    BY <1>2, <1>6, <1>7, <2>2
  <2>. QED  BY <2>1, <2>2
<1>8. CASE PyClose(l) /\ f \in {"dropped", "deleted"}
  BY <1>5, <1>8 DEF PyClose, close, Closes
<1>. QED  BY <1>4, <1>7, <1>8 DEF PythonStep

-----------------------------------------------------------------------------
(* The steps that load or delete a test, by its language.                   *)
LuaStep(l, f) ==
    /\ OnlyLua
    /\ \/ LuaOpens(l) /\ f = "loaded"
       \/ LuaCloses(l) /\ f # "loaded"

RubyStep(l, f) ==
    /\ OnlyRuby
    /\ \/ RubyOpens(l) /\ f = "loaded"
       \/ RubyFails /\ f = "failed"
       \/ RubyCloses /\ f \in {"dropped", "deleted"}

AdaStep(l, f) ==
    \/ OnlyAda /\ AdaConstructed(l) /\ f = "loaded"
    \/ NoLanguage /\ f \in {"dropped", "deleted"}

Loads(l) ==
    \/ LoadPython(l) \/ GoOnPython(l) \/ LoadLua(l) \/ LoadRuby(l) \/ LoadAda(l)
    \/ DropFailed(l) \/ DeleteLoader(l)

LanguageStep(l, f) ==
    /\ \A k \in Impls \ {l} : f \in {"opening", "loaded"} => fate[k] # "opening"
    /\ \/ language[l] = "python" /\ OnlyPython /\ PythonStep(l, f)
       \/ language[l] = "lua" /\ f # "opening" /\ LuaStep(l, f)
       \/ language[l] = "ruby" /\ f # "opening" /\ RubyStep(l, f)
       \/ language[l] = "ada" /\ AdaStep(l, f)

(* delete, for whichever language.                                          *)
LEMMA Deletes ==
    ASSUME SessionInv, NEW l \in Impls, NEW f \in {"dropped", "deleted"}, Delete(l)
    PROVE  LanguageStep(l, f)
<1>1. language[l] \in {"python", "lua", "ruby", "ada"}
  BY DEF SessionInv, SessionTypes, Languages
<1>2. CASE language[l] = "python"
  BY <1>2 DEF Delete, LanguageStep, PythonStep
<1>3. CASE language[l] = "lua"
  BY <1>3 DEF Delete, LanguageStep, LuaStep
<1>4. CASE language[l] = "ruby"
  BY <1>4 DEF Delete, LanguageStep, RubyStep
<1>5. CASE language[l] = "ada"
  BY <1>5 DEF Delete, LanguageStep, AdaStep
<1>. QED  BY <1>1, <1>2, <1>3, <1>4, <1>5

(* Every step of a loader is an advance of its test.                        *)
LEMMA LoadingSteps ==
    ASSUME SessionInv, NEW l \in Impls, Loads(l)
    PROVE  \E f : Advance(l, f) /\ LanguageStep(l, f)
<1>1. SessionTypes /\ PhaseInv /\ PythonInv
  BY DEF SessionInv
<1>2. CASE LoadPython(l)
  <2>1. Advance(l, "opening")
    BY <1>2 DEF LoadPython, MayLoad, Advance
  <2>2. LanguageStep(l, "opening")
    BY <1>2 DEF LoadPython, MayLoad, LanguageStep, PythonStep
  <2>. QED  BY <2>1, <2>2
<1>3. CASE GoOnPython(l)
  <2>. DEFINE f == CASE pyPc'[l] = "open" -> "loaded" [] pyPc'[l] = "closed" -> "failed"
                     [] OTHER -> "opening"
  <2>1. f \in {"opening", "loaded", "failed"}
    OBVIOUS
  <2>2. Becomes(l, f) /\ phase = "load" /\ fate[l] = "opening" /\ PyOpenStep(l)
        /\ OnlyPython
    BY <1>3 DEF GoOnPython
  <2>3. Advance(l, f)
    BY <2>1, <2>2 DEF Advance
  <2>4. language[l] = "python" /\ \A k \in Impls \ {l} : fate[k] # "opening"
    BY <1>1, <2>2 DEF PythonInv
  <2>5. LanguageStep(l, f)
    BY <2>2, <2>4 DEF LanguageStep, PythonStep
  <2>. QED  BY <2>3, <2>5
<1>4. CASE LoadLua(l)
  <2>1. CASE LuaOpens(l) /\ Becomes(l, "loaded")
    <3>1. Advance(l, "loaded")
      BY <1>4, <2>1 DEF LoadLua, MayLoad, Advance
    <3>2. LanguageStep(l, "loaded")
      BY <1>4, <2>1 DEF LoadLua, MayLoad, LanguageStep, LuaStep
    <3>. QED  BY <3>1, <3>2
  <2>2. CASE LuaCloses(l) /\ Becomes(l, "failed")
    <3>1. Advance(l, "failed")
      BY <1>4, <2>2 DEF LoadLua, MayLoad, Advance
    <3>2. LanguageStep(l, "failed")
      BY <1>4, <2>2 DEF LoadLua, MayLoad, LanguageStep, LuaStep
    <3>. QED  BY <3>1, <3>2
  <2>. QED  BY <1>4, <2>1, <2>2 DEF LoadLua
<1>5. CASE LoadRuby(l)
  <2>1. CASE RubyOpens(l) /\ Becomes(l, "loaded")
    <3>1. Advance(l, "loaded")
      BY <1>5, <2>1 DEF LoadRuby, MayLoad, Advance
    <3>2. LanguageStep(l, "loaded")
      BY <1>5, <2>1 DEF LoadRuby, MayLoad, LanguageStep, RubyStep
    <3>. QED  BY <3>1, <3>2
  <2>2. CASE RubyFails /\ Becomes(l, "failed")
    <3>1. Advance(l, "failed")
      BY <1>5, <2>2 DEF LoadRuby, MayLoad, Advance
    <3>2. LanguageStep(l, "failed")
      BY <1>5, <2>2 DEF LoadRuby, MayLoad, LanguageStep, RubyStep
    <3>. QED  BY <3>1, <3>2
  <2>. QED  BY <1>5, <2>1, <2>2 DEF LoadRuby
<1>6. CASE LoadAda(l)
  <2>1. Advance(l, "loaded")
    BY <1>6 DEF LoadAda, MayLoad, Advance
  <2>2. LanguageStep(l, "loaded")
    BY <1>6 DEF LoadAda, MayLoad, LanguageStep, AdaStep
  <2>. QED  BY <2>1, <2>2
<1>7. CASE DropFailed(l)
  <2>1. Advance(l, "dropped")
    BY <1>7 DEF DropFailed, Advance
  <2>2. LanguageStep(l, "dropped")
    BY <1>7, Deletes DEF DropFailed
  <2>. QED  BY <2>1, <2>2
<1>8. CASE DeleteLoader(l)
  <2>1. Advance(l, "deleted")
    BY <1>8 DEF DeleteLoader, Advance
  <2>2. LanguageStep(l, "deleted")
    BY <1>8, Deletes DEF DeleteLoader
  <2>. QED  BY <2>1, <2>2
<1>. QED  BY <1>2, <1>3, <1>4, <1>5, <1>6, <1>7, <1>8 DEF Loads

(* What a step of another language leaves to Python.                        *)
LEMMA OtherLanguages ==
    ASSUME NEW l \in Impls, NEW f, LanguageStep(l, f),
           language[l] # "python"
    PROVE  UNCHANGED pyVars /\ f # "opening"
BY DEF LanguageStep, LuaStep, RubyStep, AdaStep, OnlyLua, OnlyRuby, OnlyAda, NoLanguage

(* How far open() has come and what was owned stay what the fate says.      *)
LEMMA LoadsPython ==
    ASSUME SessionInv, NEW l \in Impls, NEW f, Advance(l, f), LanguageStep(l, f)
    PROVE  PythonInv'
<1>1. SessionTypes /\ PythonInv
  BY DEF SessionInv
<1>2. /\ language' = language /\ fate' = [fate EXCEPT ![l] = f]
      /\ fate'[l] = f /\ \A k \in Impls \ {l} : fate'[k] = fate[k]
  BY <1>1 DEF Advance, Becomes, SessionTypes
<1>3. \A j, k \in Impls : fate'[j] = "opening" /\ fate'[k] = "opening" => j = k
  BY <1>1, <1>2 DEF PythonInv, LanguageStep
<1>4. CASE language[l] = "python"
  <2>1. PythonStep(l, f)
    BY <1>4 DEF LanguageStep
  <2>2. /\ Inv'
        /\ \A k \in Impls \ {l} : pyPc'[k] = pyPc[k] /\ objects'[k] = objects[k]
        /\ objects'[l] = OwnedAt(pyPc'[l])
        /\ pyPc'[l] = "open" <=> f = "loaded"
        /\ pyPc'[l] \notin {"open", "closed"} <=> f = "opening"
        /\ pyPc'[l] \in {"import", "class"} => sysModule' = l
    BY <2>1, PythonEffect
  <2>3. ASSUME NEW k \in Impls \ {l}, pyPc[k] \in {"import", "class"}
        PROVE  sysModule' = k
    <3>1. fate[k] = "opening" /\ sysModule = k /\ k # Nobody
      BY <1>1, <2>3, ImplsAssumption DEF PythonInv
    <3>2. fate[l] # "opening" /\ f \notin {"opening", "loaded"}
      BY <1>1, <3>1 DEF PythonInv, LanguageStep
    <3>3. PyClose(l)
      BY <2>1, <3>2 DEF PythonStep
    <3>. QED  BY <2>3, <3>3 DEF PyClose, Idle
  <2>4. ASSUME NEW k \in Impls
        PROVE  /\ objects'[k] = OwnedAt(pyPc'[k])
               /\ pyPc'[k] = "open" <=> language[k] = "python" /\ fate'[k] = "loaded"
               /\ pyPc'[k] \notin {"open", "closed"} <=> fate'[k] = "opening"
               /\ fate'[k] = "opening" => language[k] = "python"
               /\ pyPc'[k] \in {"import", "class"} => sysModule' = k
    <3>1. CASE k = l
      BY <1>2, <1>4, <2>2, <3>1
    <3>2. CASE k # l
      <4>1. pyPc'[k] = pyPc[k] /\ objects'[k] = objects[k] /\ fate'[k] = fate[k]
        BY <1>2, <2>2, <3>2
      <4>2. /\ objects[k] = OwnedAt(pyPc[k])
            /\ pyPc[k] = "open" <=> language[k] = "python" /\ fate[k] = "loaded"
            /\ pyPc[k] \notin {"open", "closed"} <=> fate[k] = "opening"
            /\ fate[k] = "opening" => language[k] = "python"
        BY <1>1 DEF PythonInv
      <4>. QED  BY <2>3, <3>2, <4>1, <4>2
    <3>. QED  BY <3>1, <3>2
  <2>. QED  BY <1>2, <1>3, <2>2, <2>4 DEF PythonInv, OwnedAt
<1>5. CASE language[l] # "python"
  <2>1. UNCHANGED pyVars /\ f # "opening"
    BY <1>5, OtherLanguages
  <2>2. Inv'
    BY <1>1, <2>1, StepKeepsInv DEF PythonInv
  <2>3. UNCHANGED <<pyPc, objects, sysModule>>
    BY <2>1 DEF pyVars
  <2>4. fate[l] # "opening"
    BY <1>1, <1>5 DEF PythonInv
  <2>. QED  BY <1>1, <1>2, <1>3, <1>5, <2>1, <2>2, <2>3, <2>4 DEF PythonInv, OwnedAt
<1>. QED  BY <1>4, <1>5

(* The shared places name the test that was loaded, or whom they named.     *)
LEMMA LoadsNames ==
    ASSUME SessionInv, NEW l \in Impls, NEW f, Advance(l, f), LanguageStep(l, f)
    PROVE  NamesInv'
<1>1. SessionTypes /\ LanguageTypes /\ NamesInv /\ PyTypeOK
  BY DEF SessionInv, PythonInv, Inv
<1>2. /\ language' = language /\ fate' = [fate EXCEPT ![l] = f] /\ Becomes(l, f)
      /\ fate'[l] = f /\ \A k \in Impls \ {l} : fate'[k] = fate[k]
      /\ f # "new"
  BY <1>1 DEF Advance, Becomes, SessionTypes
<1>3. \A k \in Newest : (f = "loaded" => language[k] # language[l]) => k \in Newest'
  BY <1>1, <1>2, NewestStays DEF Newest
<1>4. f = "loaded" => l \in Newest'
  BY <1>1, <1>2, NewestNow DEF Newest
<1>5. CASE language[l] = "python"
  <2>1. PythonStep(l, f) /\ UNCHANGED <<TESTCASE_IMPL, testInstance>>
    BY <1>5 DEF LanguageStep, OnlyPython, rubyVars
  <2>2. /\ sysModule' \in {sysModule, Nobody} \/ (sysModule' = l /\ f = "opening")
        /\ helper' \in {helper, Nobody, l}
        /\ f = "loaded" => sysModule = l
    BY <2>1, PythonEffect
  <2>3. sysModule' # Nobody =>
           /\ language[sysModule'] = "python"
           /\ fate'[sysModule'] = "loaded" => sysModule' \in Newest'
    <3>1. CASE sysModule' = l
      BY <1>2, <1>4, <1>5, <3>1
    <3>2. CASE sysModule' # l /\ sysModule' # Nobody
      <4>1. sysModule' = sysModule /\ sysModule \in Impls \ {l} /\ f # "loaded"
        BY <1>1, <2>2, <3>2 DEF PyTypeOK
      <4>. QED  BY <1>1, <1>2, <1>3, <3>2, <4>1 DEF NamesInv
    <3>. QED  BY <3>1, <3>2
  <2>4. helper' # Nobody => language[helper'] = "python" /\ fate'[helper'] # "new"
    BY <1>1, <1>2, <1>5, <2>2 DEF NamesInv, PyTypeOK
  <2>5. /\ TESTCASE_IMPL # Nobody => TESTCASE_IMPL \in Newest'
        /\ testInstance # Nobody => testInstance \in Newest'
    BY <1>1, <1>3, <1>5 DEF NamesInv
  <2>. QED  BY <1>1, <1>2, <2>1, <2>3, <2>4, <2>5 DEF NamesInv
<1>6. CASE language[l] # "python"
  <2>1. UNCHANGED <<sysModule, helper>>
    BY <1>6, OtherLanguages DEF pyVars
  <2>2. sysModule # Nobody =>
           /\ language[sysModule] = "python"
           /\ fate'[sysModule] = "loaded" => sysModule \in Newest'
    <3>1. sysModule # Nobody => sysModule \in Impls \ {l}
      BY <1>1, <1>6 DEF NamesInv, PyTypeOK
    <3>. QED  BY <1>1, <1>2, <1>3, <1>6, <3>1 DEF NamesInv
  <2>3. helper # Nobody => language[helper] = "python" /\ fate'[helper] # "new"
    BY <1>1, <1>2, <1>6 DEF NamesInv, PyTypeOK
  <2>4. /\ TESTCASE_IMPL' # Nobody =>
             language[TESTCASE_IMPL'] = "ruby" /\ TESTCASE_IMPL' \in Newest'
        /\ testInstance' # Nobody =>
             language[testInstance'] = "ada" /\ testInstance' \in Newest'
    <3>1. /\ language[l] # "ruby" /\ TESTCASE_IMPL # Nobody =>
                language[TESTCASE_IMPL] = "ruby" /\ TESTCASE_IMPL \in Newest'
          /\ language[l] # "ada" /\ testInstance # Nobody =>
                language[testInstance] = "ada" /\ testInstance \in Newest'
          /\ f # "loaded" => /\ TESTCASE_IMPL # Nobody =>
                                  /\ language[TESTCASE_IMPL] = "ruby"
                                  /\ TESTCASE_IMPL \in Newest'
                             /\ testInstance # Nobody =>
                                  /\ language[testInstance] = "ada"
                                  /\ testInstance \in Newest'
      BY <1>1, <1>3 DEF NamesInv
    <3>2. CASE language[l] = "lua" /\ LuaStep(l, f)
      BY <3>1, <3>2 DEF LuaStep, OnlyLua, rubyVars
    <3>3. CASE language[l] = "ruby" /\ RubyStep(l, f)
      BY <1>4, <3>1, <3>3 DEF RubyStep, OnlyRuby, RubyOpens, RubyFails, RubyCloses
    <3>4. CASE language[l] = "ada" /\ AdaStep(l, f)
      BY <1>4, <3>1, <3>4
         DEF AdaStep, OnlyAda, NoLanguage, OnlyPython, AdaConstructed, rubyVars
    <3>. QED  BY <1>6, <3>2, <3>3, <3>4 DEF LanguageStep
  <2>. QED  BY <1>2, <2>1, <2>2, <2>3, <2>4 DEF NamesInv
<1>. QED  BY <1>5, <1>6

(* The Ruby machine and the Ada object.                                     *)
LEMMA LoadsMachine ==
    ASSUME SessionInv, NEW l \in Impls, NEW f, Advance(l, f), LanguageStep(l, f)
    PROVE  MachineInv' /\ LanguageTypes'
<1>1. SessionTypes /\ LanguageTypes /\ MachineInv
  BY DEF SessionInv
<1>2. /\ language' = language /\ fate' = [fate EXCEPT ![l] = f]
      /\ fate'[l] = f /\ \A k \in Impls \ {l} : fate'[k] = fate[k]
      /\ fate[l] \notin {"dropped", "deleted"}
  BY <1>1 DEF Advance, Becomes, SessionTypes
<1>3. /\ rubyVM' \in {"none", "up", "cleaned"}
      /\ TESTCASE_IMPL' \in Impls \cup {Nobody} /\ testInstance' \in Impls \cup {Nobody}
      /\ rubyVM # "none" => rubyVM' # "none"
      /\ testInstance # Nobody => testInstance' # Nobody
      /\ f = "loaded" /\ language[l] = "ruby" => rubyVM' # "none"
      /\ f = "loaded" /\ language[l] = "ada" => testInstance' # Nobody
      /\ \/ rubyVM' = "cleaned" => rubyVM = "cleaned"
         \/ language[l] = "ruby" /\ f \in {"dropped", "deleted"}
  <2>1. CASE language[l] = "python" /\ OnlyPython
    BY <1>1, <2>1 DEF LanguageTypes, OnlyPython, rubyVars
  <2>2. CASE language[l] = "lua" /\ LuaStep(l, f)
    BY <1>1, <2>2 DEF LanguageTypes, LuaStep, OnlyLua, rubyVars
  <2>3. CASE language[l] = "ruby" /\ RubyStep(l, f)
    BY <1>1, <2>3 DEF LanguageTypes, RubyStep, OnlyRuby, RubyOpens, RubyFails,
                      RubyCloses, ruby_init
  <2>4. CASE language[l] = "ada" /\ AdaStep(l, f)
    BY <1>1, <2>4, ImplsAssumption
       DEF LanguageTypes, AdaStep, OnlyAda, NoLanguage, OnlyPython, AdaConstructed,
           rubyVars
  <2>. QED  BY <2>1, <2>2, <2>3, <2>4 DEF LanguageStep
<1>4. luaStack' \in [Impls -> Seq(Values)]
  <2>1. CASE language[l] = "lua" /\ LuaStep(l, f)
    <3>1. <<"TestCase">> \in Seq(Values) /\ << >> \in Seq(Values)
      BY DEF Values
    <3>. QED  BY <1>1, <2>1, <3>1 DEF LanguageTypes, LuaStep, LuaOpens, LuaCloses
  <2>2. CASE language[l] # "lua"
    BY <1>1, <2>2 DEF LanguageTypes, LanguageStep, OnlyPython, RubyStep, OnlyRuby,
                      AdaStep, OnlyAda, NoLanguage
  <2>. QED  BY <2>1, <2>2 DEF LanguageStep
<1>5. \A k \in Impls : fate'[k] = "loaded" =>
          /\ language'[k] = "ruby" => rubyVM' # "none"
          /\ language'[k] = "ada" => testInstance' # Nobody
  BY <1>1, <1>2, <1>3 DEF MachineInv
<1>6. rubyVM' = "cleaned" =>
          \E k \in Impls : language'[k] = "ruby" /\ fate'[k] \in {"dropped", "deleted"}
  <2>1. CASE rubyVM = "cleaned"
    <3>1. PICK k \in Impls : language[k] = "ruby" /\ fate[k] \in {"dropped", "deleted"}
      BY <1>1, <2>1 DEF MachineInv
    <3>2. k # l
      BY <1>2, <3>1
    <3>. QED  BY <1>2, <3>1, <3>2
  <2>2. CASE language[l] = "ruby" /\ f \in {"dropped", "deleted"}
    BY <1>2, <2>2
  <2>. QED  BY <1>3, <2>1, <2>2
<1>. QED  BY <1>3, <1>4, <1>5, <1>6 DEF MachineInv, LanguageTypes

(* The table on a Lua stack.                                                *)
LEMMA LoadsLua ==
    ASSUME SessionInv, NEW l \in Impls, NEW f, Advance(l, f), LanguageStep(l, f)
    PROVE  LuaInv'
<1>1. SessionTypes /\ LanguageTypes /\ LuaInv /\ QueueInv /\ PhaseInv
  BY DEF SessionInv
<1>2. /\ language' = language /\ fate' = [fate EXCEPT ![l] = f]
      /\ fate'[l] = f /\ \A k \in Impls \ {l} : fate'[k] = fate[k]
      /\ UNCHANGED <<hasResult, leftIn, refused, toreDown, lacks, step, turn>>
  BY <1>1 DEF Advance, Becomes, SessionTypes
<1>0. Left' = Left
  BY <1>2 DEF Left
<1>3. \A k \in Impls : Ahead(k)' => IF k = l THEN f = "loaded" ELSE Ahead(k)
  <2>1. CASE phase = "load"
    <3>1. \A k \in Impls : ~hasResult[k]
      BY <2>1, Unstarted
    <3>. QED  BY <1>2, <3>1 DEF Ahead
  <2>2. CASE phase = "delete"
    <3>1. step = "enter" /\ f = "deleted"
      BY <1>1, <2>2 DEF PhaseInv, Advance
    <3>. QED  BY <1>2, <3>1 DEF Ahead
  <2>. QED  BY <2>1, <2>2 DEF Advance
<1>4. ASSUME NEW k \in Impls, language[k] = "lua", Ahead(k)'
      PROVE  luaStack'[k] # <<>> /\ (Top(k)' = "TestCase" <=> k \notin Left')
  <2>1. CASE k = l
    <3>1. LuaStep(l, f) /\ f = "loaded"
      BY <1>3, <1>4, <2>1 DEF LanguageStep
    <3>2. luaStack'[l] = <<"TestCase">>
      BY <1>1, <3>1 DEF LuaStep, LuaOpens, LanguageTypes
    <3>3. l \notin Left
      BY <1>1, <3>1, Unstarted DEF Advance
    <3>. QED  BY <1>0, <1>2, <2>1, <3>2, <3>3 DEF Top
  <2>2. CASE k # l
    <3>1. Ahead(k)
      BY <1>3, <1>4, <2>2
    <3>2. luaStack'[k] = luaStack[k]
      <4>1. CASE language[l] = "lua"
        BY <1>1, <2>2, <4>1 DEF LanguageTypes, LanguageStep, LuaStep, LuaOpens, LuaCloses
      <4>2. CASE language[l] # "lua"
        BY <4>2 DEF LanguageStep, OnlyPython, RubyStep, OnlyRuby, AdaStep, OnlyAda,
                    NoLanguage
      <4>. QED  BY <4>1, <4>2
    <3>. QED  BY <1>0, <1>1, <1>2, <1>4, <3>1, <3>2 DEF LuaInv, Top
  <2>. QED  BY <2>1, <2>2
<1>5. \A k \in refused \cup toreDown \cup lacks : hasResult[k] /\ ~Ahead(k)'
  <2>1. CASE phase = "load"
    BY <2>1, Unstarted
  <2>2. CASE phase = "delete"
    <3>1. f = "deleted"
      BY <2>2 DEF Advance
    <3>. QED  BY <1>1, <1>3, <3>1 DEF LuaInv, SessionTypes
  <2>. QED  BY <2>1, <2>2 DEF Advance
<1>6. TearDownIsCalled'
  <2>1. CASE phase = "load"
    <3>1. turn' = 1 /\ 1 .. 1 - 1 = {}
      BY <1>1, <1>2, <2>1 DEF PhaseInv
    <3>. QED  BY <3>1 DEF TearDownIsCalled
  <2>2. CASE phase = "delete"
    <3>1. order' = order
      BY <2>2 DEF Advance, Becomes
    <3>. QED  BY <1>0, <1>1, <1>2, <3>1 DEF LuaInv, TearDownIsCalled
  <2>. QED  BY <2>1, <2>2 DEF Advance
<1>. QED  BY <1>0, <1>1, <1>2, <1>4, <1>5, <1>6 DEF LuaInv

(* What went wrong in the run stays explained while the loaders go.         *)
Wrong(l) == {way \in Ways : <<l, way>> \in wentWrong}
Strays(l) == \E way \in Wrong(l) : ~FindsItself(l, way)

Explained(l) ==
    /\ (\E way \in Wrong(l) : FindsItself(l, way)) => ~successful[l]
    /\ ~successful[l] => Wrong(l) # {} \/ \E k \in Rivals(l) : Strays(k)

(* The property by its parts.                                               *)
LEMMA ChecksAre ==
    ChecksReachTheirTest <=>
        /\ \A l \in Impls : hasResult[l] => Explained(l)
        /\ phase = "crashed" => Strays(cur)
BY DEF ChecksReachTheirTest, Explained, Strays, Wrong

(* The same in the next state.                                              *)
LEMMA ChecksAreNext ==
    ChecksReachTheirTest' <=>
        /\ \A l \in Impls : hasResult'[l] => Explained(l)'
        /\ phase' = "crashed" => Strays(cur)'
BY DEF ChecksReachTheirTest, Explained, Strays, Wrong

LEMMA LoadsWrong ==
    ASSUME SessionInv, NEW l \in Impls, NEW f, Advance(l, f), LanguageStep(l, f)
    PROVE  WrongInv'
<1>1. SessionTypes /\ WrongInv
  BY DEF SessionInv
<1>2. /\ language' = language /\ fate' = [fate EXCEPT ![l] = f]
      /\ fate'[l] = f /\ \A k \in Impls \ {l} : fate'[k] = fate[k]
      /\ UNCHANGED <<hasResult, wentWrong, successful, phase>>
  BY <1>1 DEF Advance, Becomes, SessionTypes
<1>3. phase # "crashed"
  BY DEF Advance
<1>4. CASE phase = "load"
  <2>1. \A k \in Impls : ~hasResult'[k]
    BY <1>2, <1>4, Unstarted
  <2>2. wentWrong' = {}
    BY <1>2, <1>4, Unstarted
  <2>. QED  BY <1>2, <1>3, <2>1, <2>2, ChecksAreNext DEF WrongInv
<1>5. CASE phase = "delete"
  <2>1. order' = order /\ f = "deleted" /\ fate[l] = "loaded"
    BY <1>5 DEF Advance, Becomes
  <2>2. \A k \in Impls : NewestOfItsLanguage(k)' <=> NewestOfItsLanguage(k)
    BY <1>2, <2>1 DEF NewestOfItsLanguage
  <2>3. \A k \in Impls : Rivals(k)' = Rivals(k)
    BY <1>2, <2>1 DEF Rivals
  <2>4. \A k \in Impls : \A way : FindsItself(k, way)' <=> FindsItself(k, way)
    BY <1>2, <2>2, <2>3 DEF FindsItself
  <2>5. \A k \in Impls : Wrong(k)' = Wrong(k)
    BY <1>2 DEF Wrong
  <2>6. \A k \in Impls : Strays(k)' <=> Strays(k)
    BY <2>4, <2>5 DEF Strays
  <2>7. \A k \in Impls : Rivals(k) \subseteq Impls
    BY DEF Rivals
  <2>8. \A k \in Impls : Explained(k)' <=> Explained(k)
    BY <1>2, <2>3, <2>4, <2>5, <2>6, <2>7 DEF Explained
  <2>9. ChecksReachTheirTest'
    BY <1>1, <1>2, <1>3, <2>8, ChecksAre, ChecksAreNext DEF WrongInv
  <2>. QED  BY <1>1, <1>2, <2>9 DEF WrongInv
<1>. QED  BY <1>4, <1>5 DEF Advance

(* A step of a loader keeps the invariant.                                  *)
LEMMA StepLoads ==
    ASSUME SessionInv, NEW l \in Impls, Loads(l)
    PROVE  SessionInv'
<1>1. PICK f : Advance(l, f) /\ LanguageStep(l, f)
  BY LoadingSteps
<1>. QED
  BY <1>1, StepQueue, LoadsPython, LoadsNames, LoadsMachine, LoadsLua, LoadsWrong
     DEF SessionInv

-----------------------------------------------------------------------------
(* The steps of the run leave alone what was loaded.                        *)
Settled == UNCHANGED <<language, fate, order, pyVars, rubyVars, testInstance>>

(* What was loaded is still found where it was.                             *)
LEMMA SettledFacts ==
    ASSUME SessionInv, Settled
    PROVE  /\ PythonInv' /\ NamesInv' /\ MachineInv'
           /\ \A l \in Impls, way \in Ways : FindsItself(l, way)' <=> FindsItself(l, way)
           /\ \A l \in Impls : Rivals(l)' = Rivals(l)
<1>1. PythonInv /\ NamesInv /\ MachineInv
  BY DEF SessionInv
<1>2. UNCHANGED <<pyPc, objects, sysModule, helper, rubyVM, TESTCASE_IMPL>>
  BY DEF Settled, pyVars, rubyVars
<1>3. Inv'
  BY <1>1, StepKeepsInv DEF Settled, PythonInv
<1>4. PythonInv'
  BY <1>1, <1>2, <1>3 DEF PythonInv, Settled, OwnedAt
<1>5. \A l : NewestOfItsLanguage(l)' <=> NewestOfItsLanguage(l)
  BY DEF NewestOfItsLanguage, Settled
<1>6. Newest' = Newest
  BY <1>5 DEF Newest
<1>7. NamesInv'
  BY <1>1, <1>2, <1>6 DEF NamesInv, Settled
<1>8. MachineInv'
  BY <1>1, <1>2 DEF MachineInv, Settled
<1>9. \A l : Rivals(l)' = Rivals(l)
  BY DEF Rivals, Settled
<1>10. \A l, way : FindsItself(l, way)' <=> FindsItself(l, way)
  BY <1>5, <1>9 DEF FindsItself, Settled
<1>. QED  BY <1>4, <1>7, <1>8, <1>9, <1>10

(* A step in which nothing fails.                                           *)
LEMMA NothingTold ==
    ASSUME SessionInv, Settled,
           UNCHANGED <<hasResult, wentWrong, successful>>,
           phase' = "crashed" => phase = "crashed" /\ turn' = turn
    PROVE  WrongInv'
<1>1. SessionTypes /\ WrongInv
  BY DEF SessionInv
<1>2. /\ \A l \in Impls, w \in Ways : FindsItself(l, w)' <=> FindsItself(l, w)
      /\ \A l \in Impls : Rivals(l)' = Rivals(l)
  BY SettledFacts
<1>3. \A l \in Impls : Wrong(l)' = Wrong(l) /\ Wrong(l) \subseteq Ways
  BY DEF Wrong
<1>4. \A l \in Impls : Strays(l)' <=> Strays(l)
  BY <1>2, <1>3 DEF Strays
<1>5. \A l \in Impls : Rivals(l) \subseteq Impls
  BY DEF Rivals
<1>6. \A l \in Impls : Explained(l)' <=> Explained(l)
  BY <1>2, <1>3, <1>4, <1>5 DEF Explained
<1>7. phase' = "crashed" => Strays(cur)'
  <2>1. SUFFICES ASSUME phase' = "crashed" PROVE Strays(cur)'
    OBVIOUS
  <2>2. Strays(cur) /\ step # "enter"
    BY <1>1, <2>1, ChecksAre DEF SessionInv, WrongInv, PhaseInv
  <2>3. PICK c \in Impls : c = cur /\ Strays(c)
    BY <1>1, <2>2 DEF cur, SessionInv, SessionTypes, PhaseInv
  <2>4. cur' = c
    BY <2>1, <2>3 DEF cur, Settled
  <2>5. Strays(c)'
    BY <1>4, <2>3
  <2>. QED  BY <2>4, <2>5 DEF Strays, Wrong, FindsItself
<1>8. ChecksReachTheirTest'
  BY <1>1, <1>6, <1>7, ChecksAre, ChecksAreNext DEF WrongInv
<1>. QED  BY <1>1, <1>8 DEF WrongInv

(* Between the phases nothing but the phase changes.                        *)
LEMMA StepPhase ==
    ASSUME SessionInv, StartRun \/ RunDone \/ (\E l \in Impls : LoadDies(l))
    PROVE  SessionInv'
<1>1. /\ NoLanguage
      /\ UNCHANGED <<language, fate, order, turn, step, hasResult, successful,
                     wentWrong, leftIn, refused, toreDown, lacks>>
      /\ \/ phase = "load" /\ phase' = "died"
         \/ phase = "load" /\ phase' = "run" /\ \A k \in Impls : fate[k] # "opening"
         \/ phase = "run" /\ phase' = "delete" /\ ~MoreToRun
  BY DEF StartRun, RunDone, LoadDies
<1>2. Settled /\ luaStack' = luaStack
  BY <1>1 DEF Settled, NoLanguage, OnlyPython
<1>3. SessionTypes /\ LanguageTypes /\ QueueInv /\ PhaseInv /\ LuaInv /\ WrongInv
  BY DEF SessionInv
<1>4. SessionTypes'
  BY <1>1, <1>3 DEF SessionTypes, Phases
<1>5. LanguageTypes'
  BY <1>2, <1>3 DEF LanguageTypes, Settled, rubyVars
<1>6. QueueInv'
  BY <1>1, <1>3 DEF QueueInv, Listed
<1>7. PhaseInv'
  BY <1>1, <1>3 DEF PhaseInv, MoreToRun
<1>8. LuaInv'
  BY <1>1, <1>2, <1>3 DEF LuaInv, Ahead, Top, cur, TearDownIsCalled, Left
<1>9. WrongInv'
  BY <1>1, <1>2, NothingTold
<1>. QED
  BY <1>2, <1>4, <1>5, <1>6, <1>7, <1>8, <1>9, SettledFacts DEF SessionInv

-----------------------------------------------------------------------------
(* A step of the running test, which goes on or is over.                    *)
GoesOn == turn' = turn /\ step' \in {"setup", "run", "tearDown"}

LEMMA PlayQueue ==
    ASSUME SessionInv, InTest, UNCHANGED <<language, fate, order, hasResult>>,
           GoesOn \/ (TestIsOver /\ phase' = phase),
           phase' \in {phase, "crashed"},
           successful' \in [Impls -> BOOLEAN],
           leftIn' \subseteq Impls \X {"setup", "run"}, refused' \subseteq Impls,
           toreDown' \subseteq Impls, lacks' \subseteq Impls
    PROVE  SessionTypes' /\ QueueInv' /\ PhaseInv'
<1>1. SessionTypes /\ QueueInv /\ PhaseInv
  BY DEF SessionInv
<1>2. /\ turn \in 1 .. Len(order) /\ Len(order) \in Nat
      /\ step \in {"setup", "run", "tearDown"} /\ phase = "run"
  BY <1>1, Running DEF SessionTypes
<1>3. SessionTypes'
  BY <1>1, <1>2 DEF SessionTypes, GoesOn, TestIsOver, Phases
<1>4. QueueInv'
  <2>1. \A i \in 1 .. Len(order) :
           hasResult[order[i]] <=> i < turn' \/ (i = turn' /\ step' # "enter")
    BY <1>1, <1>2 DEF QueueInv, GoesOn, TestIsOver
  <2>. QED  BY <1>1, <2>1 DEF QueueInv, Listed
<1>5. PhaseInv'
  BY <1>1, <1>2 DEF PhaseInv, GoesOn, TestIsOver
<1>. QED  BY <1>3, <1>4, <1>5

(* Who is ahead after such a step: the running test too, unless it is over. *)
LEMMA PlayAhead ==
    ASSUME SessionInv, InTest, UNCHANGED <<fate, order, hasResult>>,
           GoesOn \/ TestIsOver
    PROVE  /\ \A l \in Impls : Ahead(l)' => Ahead(l)
           /\ GoesOn => cur' = cur
           /\ TestIsOver => \A l \in Impls : Ahead(l)' => l # cur
           /\ \A l \in Impls : ~hasResult[l] => l # cur
<1>1. hasResult[cur] /\ step # "enter"
  BY Running
<1>. QED  BY <1>1 DEF Ahead, cur, GoesOn, TestIsOver

(* The test that a call reaches is one of the caller's language, and where  *)
(* a test finds itself it is the caller.                                    *)
LEMMA TargetFacts ==
    ASSUME SessionInv, InTest, NEW way \in Ways, Lang # "python" => way = "own",
           Target(cur, way) # Nobody
    PROVE  /\ Target(cur, way) \in Impls
           /\ language[Target(cur, way)] = language[cur]
           /\ FindsItself(cur, way) => Target(cur, way) = cur
<1>1. /\ SessionTypes /\ LanguageTypes /\ QueueInv /\ PhaseInv /\ PythonInv /\ NamesInv
      /\ PyTypeOK /\ InterpreterLives
  BY DEF SessionInv, PythonInv, Inv
<1>2. cur \in Impls /\ fate[cur] = "loaded" /\ phase = "run" /\ language[cur] \in Languages
  BY Running
<1>3. ASSUME NEW t \in Newest
      PROVE  fate[t] # "new"
  <2>1. PICK i \in 1 .. Len(order) : order[i] = t
    BY <1>1 DEF Newest, NewestOfItsLanguage, SessionTypes
  <2>. QED  BY <1>1, <2>1 DEF QueueInv, Listed, Newest
<1>4. ASSUME NEW t \in Newest, language[t] = language[cur], FindsItself(cur, way),
             way # "own" \/ language[cur] # "python", language[cur] # "lua"
      PROVE  t = cur
  <2>1. CASE NewestOfItsLanguage(cur)
    BY <1>1, <1>2, <1>4, <2>1, NewestIsOne DEF Newest
  <2>2. CASE Rivals(cur) = {}
    <3>1. fate[t] # "new" /\ t \in Impls
      BY <1>3 DEF Newest
    <3>. QED  BY <1>4, <2>2, <3>1 DEF Rivals
  <2>. QED  BY <1>4, <2>1, <2>2 DEF FindsItself
<1>5. CASE language[cur] = "python"
  <2>1. Target(cur, way) = getImpl(cur, way)
    BY <1>5 DEF Target
  <2>2. CASE way = "own"
    BY <1>2, <2>1, <2>2 DEF getImpl, Own
  <2>3. CASE way = "import"
    <3>1. Target(cur, way) = sysModule
      BY <2>1, <2>3 DEF getImpl
    <3>2. sysModule \in Impls /\ language[sysModule] = "python"
      BY <1>1, <3>1 DEF PyTypeOK, NamesInv
    <3>3. pyPc[sysModule] # "closed"
      BY <1>1, <3>1, <3>2 DEF InterpreterLives
    <3>4. fate[sysModule] = "loaded"
      BY <1>1, <1>2, <3>2, <3>3 DEF PythonInv, PhaseInv
    <3>5. sysModule \in Newest
      BY <1>1, <3>1, <3>4 DEF NamesInv
    <3>. QED  BY <1>4, <1>5, <2>3, <3>1, <3>2, <3>5
  <2>4. CASE way = "helper"
    <3>1. Target(cur, way) = helper
      BY <2>1, <2>4 DEF getImpl
    <3>2. helper \in Impls /\ language[helper] = "python" /\ fate[helper] # "new"
      BY <1>1, <3>1 DEF PyTypeOK, NamesInv
    <3>. QED  BY <1>5, <2>4, <3>1, <3>2 DEF FindsItself, Rivals
  <2>. QED  BY <2>2, <2>3, <2>4 DEF Ways
<1>6. CASE language[cur] = "lua"
  BY <1>2, <1>6 DEF Target
<1>7. CASE language[cur] = "ruby"
  <2>1. Target(cur, way) = TESTCASE_IMPL
    BY <1>7 DEF Target, getImpFromRuby
  <2>2. /\ TESTCASE_IMPL \in Impls /\ language[TESTCASE_IMPL] = "ruby"
        /\ TESTCASE_IMPL \in Newest
    BY <1>1, <2>1 DEF LanguageTypes, NamesInv
  <2>. QED  BY <1>4, <1>7, <2>1, <2>2
<1>8. CASE language[cur] = "ada"
  <2>1. Target(cur, way) = testInstance
    BY <1>8 DEF Target
  <2>2. /\ testInstance \in Impls /\ language[testInstance] = "ada"
        /\ testInstance \in Newest
    BY <1>1, <2>1 DEF LanguageTypes, NamesInv
  <2>. QED  BY <1>4, <1>8, <2>1, <2>2
<1>. QED  BY <1>2, <1>5, <1>6, <1>7, <1>8 DEF Languages

(* A failure told from the running test that marks a test t.                *)
LEMMA FailureTold ==
    ASSUME SessionInv, InTest, Settled, hasResult' = hasResult,
           NEW way \in Ways, NEW t \in Impls, language[t] = language[cur],
           FindsItself(cur, way) => t = cur,
           wentWrong' = wentWrong \cup {<<cur, way>>},
           successful' = [successful EXCEPT ![t] = FALSE],
           phase' = "crashed" => turn' = turn /\ ~FindsItself(cur, way)
    PROVE  WrongInv'
<1>1. SessionTypes /\ WrongInv
  BY DEF SessionInv
<1>2. PICK c \in Impls : c = cur /\ hasResult[c] /\ fate[c] = "loaded"
  BY Running
<1>3. /\ \A l \in Impls, w \in Ways : FindsItself(l, w)' <=> FindsItself(l, w)
      /\ \A l \in Impls : Rivals(l)' = Rivals(l)
  BY SettledFacts
<1>4. /\ \A l \in Impls \ {c} : Wrong(l)' = Wrong(l)
      /\ Wrong(c)' = Wrong(c) \cup {way}
      /\ \A l \in Impls : Wrong(l) \subseteq Ways
  BY <1>1, <1>2 DEF Wrong, SessionTypes
<1>5. \A l \in Impls : Strays(l) => Strays(l)'
  BY <1>3, <1>4 DEF Strays
<1>6. ~FindsItself(c, way) => Strays(c)'
  BY <1>2, <1>3, <1>4 DEF Strays
<1>7. successful'[t] = FALSE /\ \A l \in Impls \ {t} : successful'[l] = successful[l]
  BY <1>1 DEF SessionTypes
<1>8. t # c => ~FindsItself(c, way)
  BY <1>2
<1>9. ASSUME NEW l \in Impls, hasResult[l]
      PROVE  Explained(l)'
  <2>1. Explained(l) /\ Rivals(l) \subseteq Impls
    BY <1>1, <1>9, ChecksAre DEF WrongInv, Rivals
  <2>2. (\E w \in Wrong(l)' : FindsItself(l, w)') => ~successful'[l]
    <3>1. CASE l = t
      BY <1>7, <3>1
    <3>2. CASE l # t
      <4>1. ASSUME NEW w \in Wrong(l)', FindsItself(l, w)'
            PROVE  w \in Wrong(l) /\ FindsItself(l, w)
        <5>1. w \in Ways /\ (w \in Wrong(l) \/ (l = c /\ w = way))
          BY <1>4, <4>1
        <5>2. FindsItself(l, w)
          BY <1>3, <4>1, <5>1
        <5>. QED  BY <1>8, <3>2, <5>1, <5>2
      <4>. QED  BY <1>7, <2>1, <3>2, <4>1 DEF Explained
    <3>. QED  BY <3>1, <3>2
  <2>3. ~successful'[l] => Wrong(l)' # {} \/ \E k \in Rivals(l)' : Strays(k)'
    <3>1. CASE l = c
      BY <1>2, <1>4, <3>1
    <3>2. CASE l = t /\ l # c
      <4>1. c \in Rivals(l)
        BY <1>2, <3>2 DEF Rivals
      <4>2. Rivals(l)' = Rivals(l) /\ Strays(c)'
        BY <1>3, <1>6, <1>8, <3>2
      <4>. QED  BY <4>1, <4>2
    <3>3. CASE l # t /\ l # c
      BY <1>3, <1>4, <1>5, <1>7, <2>1, <3>3 DEF Explained
    <3>. QED  BY <3>1, <3>2, <3>3
  <2>. QED  BY <2>2, <2>3 DEF Explained
<1>10. phase' = "crashed" => Strays(cur)'
  <2>1. SUFFICES ASSUME phase' = "crashed" PROVE Strays(cur)'
    OBVIOUS
  <2>2. cur' = c
    BY <1>2, <2>1 DEF cur, Settled
  <2>3. Strays(c)'
    BY <1>2, <1>6, <2>1
  <2>. QED  BY <2>2, <2>3 DEF Strays, Wrong, FindsItself
<1>11. \A w \in wentWrong' : w \in Impls \X Ways /\ hasResult'[w[1]]
  BY <1>1, <1>2 DEF WrongInv
<1>. QED  BY <1>9, <1>10, <1>11, ChecksAreNext DEF WrongInv

-----------------------------------------------------------------------------
(* What a method leaves on a Lua stack.                                     *)
LEMMA PushEffect ==
    ASSUME LanguageTypes, NEW l \in Impls, NEW v \in Values, Push(l, v)
    PROVE  /\ luaStack' \in [Impls -> Seq(Values)]
           /\ luaStack'[l] # <<>> /\ Top(l)' = v
           /\ \A k \in Impls \ {l} : luaStack'[k] = luaStack[k]
<1>1. luaStack[l] \in Seq(Values) /\ luaStack'[l] = Append(luaStack[l], v)
  BY DEF LanguageTypes, Push
<1>2. /\ luaStack'[l] \in Seq(Values) /\ Len(luaStack'[l]) = Len(luaStack[l]) + 1
      /\ luaStack'[l][Len(luaStack[l]) + 1] = v /\ Len(luaStack[l]) \in Nat
  BY <1>1, AppendProperties
<1>3. luaStack'[l] # <<>> /\ Top(l)' = v
  BY <1>2 DEF Top
<1>. QED  BY <1>1, <1>2, <1>3 DEF LanguageTypes, Push

(* A method that was called leaves a string where it did not return.        *)
LEMMA MethodEffect ==
    ASSUME SessionInv, InTest, NEW how \in {"returns", "raises", "asserts"},
           MethodEnds(how)
    PROVE  /\ UNCHANGED <<pyVars, rubyVars, testInstance>>
           /\ luaStack' \in [Impls -> Seq(Values)]
           /\ \A k \in Impls \ {cur} : luaStack'[k] = luaStack[k]
           /\ language[cur] = "lua" =>
                IF how = "returns" \/ (how = "raises" /\ step = "setup")
                THEN luaStack'[cur] = luaStack[cur]
                ELSE /\ luaStack'[cur] # <<>>
                     /\ luaStack'[cur][Len(luaStack'[cur])] = "string"
<1>1. LanguageTypes /\ cur \in Impls
  BY Running DEF SessionInv
<1>2. CASE Lang # "lua"
  BY <1>1, <1>2 DEF MethodEnds, NoLanguage, OnlyPython, Lang, LanguageTypes
<1>3. CASE Lang = "lua"
  <2>1. UNCHANGED <<pyVars, rubyVars, testInstance>>
    BY <1>3 DEF MethodEnds, OnlyLua
  <2>2. IF how = "returns" \/ (how = "raises" /\ step = "setup") THEN luaStack' = luaStack
        ELSE Push(cur, "string")
    BY <1>3 DEF MethodEnds, LuaSetupEnds, LuaMethodEnds, Keep
  <2>3. "string" \in Values
    BY DEF Values
  <2>4. CASE luaStack' = luaStack
    BY <1>1, <2>1, <2>2, <2>4, <2>3, PushEffect DEF LanguageTypes, Top
  <2>5. CASE Push(cur, "string") /\ ~(how = "returns" \/ (how = "raises" /\ step = "setup"))
    <3>1. PICK c \in Impls : c = cur
      BY <1>1
    <3>2. /\ luaStack' \in [Impls -> Seq(Values)]
          /\ luaStack'[c] # <<>> /\ Top(c)' = "string"
          /\ \A k \in Impls \ {c} : luaStack'[k] = luaStack[k]
      BY <1>1, <2>3, <2>5, <3>1, PushEffect
    <3>. QED  BY <2>1, <2>5, <3>1, <3>2 DEF Top
  <2>. QED  BY <2>2, <2>4, <2>5
<1>. QED  BY <1>2, <1>3

(* The Lua tests after a step of the running one.                           *)
LEMMA PlayLua ==
    ASSUME SessionInv, InTest, UNCHANGED <<language, fate, order, hasResult>>,
           GoesOn \/ TestIsOver,
           \A k \in Impls \ {cur} : luaStack'[k] = luaStack[k],
           Left' \in {Left, Left \cup {cur}},
           GoesOn /\ language[cur] = "lua" =>
               /\ luaStack'[cur] # <<>>
               /\ luaStack'[cur][Len(luaStack'[cur])] = "TestCase" <=> cur \notin Left',
           GoesOn => UNCHANGED <<refused, toreDown, lacks>>,
           refused' \in {refused, refused \cup {cur}},
           toreDown' \in {toreDown, toreDown \cup {cur}},
           lacks' \in {lacks, lacks \cup {cur}},
           \A l \in Impls : l = cur /\ TestIsOver => TornDownRightly(l)'
    PROVE  LuaInv'
<1>1. SessionTypes /\ LuaInv
  BY DEF SessionInv
<1>2. PICK c \in Impls : c = cur /\ hasResult[c] /\ Ahead(c)
  BY Running
<1>3. /\ \A l \in Impls : Ahead(l)' => Ahead(l)
      /\ TestIsOver => \A l \in Impls : Ahead(l)' => l # c
  BY <1>2, PlayAhead
<1>4. ~(GoesOn /\ TestIsOver)
  BY DEF GoesOn, TestIsOver
<1>5. ASSUME NEW l \in Impls, language[l] = "lua", Ahead(l)'
      PROVE  luaStack'[l] # <<>> /\ (Top(l)' = "TestCase" <=> l \notin Left')
  <2>1. CASE l = c
    <3>1. GoesOn
      BY <1>3, <1>5, <2>1
    <3>. QED  BY <1>2, <1>5, <2>1, <3>1 DEF Top
  <2>2. CASE l # c
    BY <1>1, <1>2, <1>3, <1>5, <2>2 DEF LuaInv, Top
  <2>. QED  BY <2>1, <2>2
<1>6. \A l \in Left' : hasResult[l]
  BY <1>1, <1>2 DEF LuaInv
<1>7. ASSUME NEW l \in refused' \cup toreDown' \cup lacks'
      PROVE  hasResult[l] /\ ~Ahead(l)'
  <2>1. CASE l = c /\ l \notin refused \cup toreDown \cup lacks
    <3>1. TestIsOver
      BY <1>7, <2>1
    <3>. QED  BY <1>2, <1>3, <2>1, <3>1
  <2>2. CASE l \in refused \cup toreDown \cup lacks
    BY <1>1, <1>3, <2>2 DEF LuaInv, SessionTypes
  <2>. QED  BY <1>2, <1>7, <2>1, <2>2
<1>8. TearDownIsCalled'
  <2>1. /\ turn \in 1 .. Len(order) /\ order[turn] = c /\ Len(order) \in Nat
        /\ \A i \in 1 .. turn - 1 : order[i] # c /\ order[i] \in Impls
    <3>1. QueueInv /\ turn \in 1 .. Len(order) /\ Len(order) \in Nat
      BY <1>1, Running DEF SessionInv, SessionTypes
    <3>. QED  BY <1>1, <1>2, <3>1 DEF QueueInv, cur, SessionTypes
  <2>2. ASSUME NEW i \in 1 .. turn - 1
        PROVE  TornDownRightly(order[i])'
    <3>1. PICK l \in Impls : l = order[i] /\ l # c
      BY <2>1
    <3>2. TornDownRightly(l)
      BY <1>1, <3>1 DEF LuaInv, TearDownIsCalled, TornDownRightly
    <3>3. /\ l \in lacks' <=> l \in lacks
          /\ l \in toreDown' <=> l \in toreDown
          /\ l \in refused' <=> l \in refused
          /\ l \in Left' <=> l \in Left
      BY <1>2, <3>1
    <3>. QED  BY <3>1, <3>2, <3>3 DEF TornDownRightly
  <2>3. TestIsOver => TornDownRightly(c)'
    BY <1>2
  <2>4. ASSUME NEW i \in 1 .. turn' - 1
        PROVE  TornDownRightly(order[i])'
    <3>1. CASE i \in 1 .. turn - 1
      BY <2>2, <3>1
    <3>2. CASE i \notin 1 .. turn - 1
      <4>1. i = turn /\ TestIsOver
        BY <2>1, <2>4, <3>2 DEF GoesOn, TestIsOver
      <4>. QED  BY <2>1, <2>3, <4>1 DEF TornDownRightly
    <3>. QED  BY <3>1, <3>2
  <2>. QED  BY <2>4 DEF TearDownIsCalled, TornDownRightly
<1>. QED  BY <1>5, <1>6, <1>7, <1>8 DEF LuaInv

-----------------------------------------------------------------------------
(* One lemma for each step of the run.                                      *)
LEMMA StepEnter ==
    ASSUME SessionInv, EnterTest
    PROVE  SessionInv'
<1>1. SessionTypes /\ LanguageTypes /\ QueueInv /\ PhaseInv /\ LuaInv /\ WrongInv
  BY DEF SessionInv
<1>2. /\ NoLanguage /\ phase = "run" /\ step = "enter" /\ step' = "setup"
      /\ UNCHANGED <<language, phase, fate, order, turn, wentWrong, leftIn, refused, toreDown, lacks>>
      /\ turn \in 1 .. Len(order) /\ cur' = cur
  BY <1>1 DEF EnterTest, MoreToRun, SessionTypes, cur
<1>3. PICK c \in Impls : c = cur /\ ~hasResult[c] /\ fate[c] = "loaded"
  <2>1. cur \in Impls /\ ~hasResult[cur] /\ Listed(cur)
    BY <1>1, <1>2 DEF cur, SessionTypes, QueueInv, Listed
  <2>2. fate[cur] = "loaded"
    BY <1>1, <1>2, <2>1 DEF QueueInv, PhaseInv
  <2>. QED  BY <2>1, <2>2
<1>4. /\ hasResult' = [hasResult EXCEPT ![c] = TRUE]
      /\ successful' = [successful EXCEPT ![c] = TRUE]
  BY <1>3 DEF EnterTest
<1>5. Settled /\ luaStack' = luaStack
  BY <1>2 DEF Settled, NoLanguage, OnlyPython
<1>6. SessionTypes' /\ PhaseInv'
  BY <1>1, <1>2, <1>4 DEF SessionTypes, PhaseInv
<1>7. LanguageTypes'
  BY <1>1, <1>5 DEF LanguageTypes, Settled, rubyVars
<1>8. QueueInv'
  <2>1. \A i \in 1 .. Len(order) :
           hasResult'[order[i]] <=> i < turn \/ (i = turn /\ step' # "enter")
    <3>1. order[turn] = c
      BY <1>3 DEF cur
    <3>2. \A i \in 1 .. Len(order) : order[i] \in Impls /\ (order[i] = c <=> i = turn)
      BY <1>1, <1>2, <3>1 DEF SessionTypes, QueueInv
    <3>. QED  BY <1>1, <1>2, <1>4, <3>2 DEF SessionTypes, QueueInv
  <2>2. Listed(c)
    BY <1>1, <1>3 DEF QueueInv
  <2>. QED  BY <1>1, <1>2, <1>4, <2>1, <2>2 DEF QueueInv, Listed, SessionTypes
<1>9. LuaInv'
  <2>1. \A l \in Impls : Ahead(l)' <=> Ahead(l)
    BY <1>1, <1>2, <1>3, <1>4 DEF Ahead, SessionTypes
  <2>2. \A l \in Impls : hasResult[l] => hasResult'[l]
    BY <1>1, <1>4 DEF SessionTypes
  <2>3. TearDownIsCalled'
    BY <1>1, <1>2 DEF LuaInv, TearDownIsCalled, Left
  <2>4. \A l \in refused \cup toreDown \cup lacks : l \in Impls
    BY <1>1 DEF SessionTypes
  <2>5. Left' = Left /\ Left \subseteq Impls
    BY <1>1, <1>2 DEF Left, SessionTypes
  <2>. QED
    BY <1>1, <1>2, <1>5, <2>1, <2>2, <2>3, <2>4, <2>5 DEF LuaInv, Top, SessionTypes
<1>10. WrongInv'
  <2>1. /\ \A l \in Impls, w \in Ways : FindsItself(l, w)' <=> FindsItself(l, w)
        /\ \A l \in Impls : Rivals(l)' = Rivals(l)
    BY <1>5, SettledFacts
  <2>2. \A l \in Impls : Wrong(l)' = Wrong(l) /\ Wrong(l) \subseteq Ways
    BY <1>2 DEF Wrong
  <2>3. \A l \in Impls : Strays(l)' <=> Strays(l)
    BY <2>1, <2>2 DEF Strays
  <2>4. \A l \in Impls : Rivals(l) \subseteq Impls
    BY DEF Rivals
  <2>5. Wrong(c) = {}
    BY <1>1, <1>3 DEF Wrong, WrongInv
  <2>6. ASSUME NEW l \in Impls, hasResult'[l]
        PROVE  Explained(l)'
    <3>1. CASE l = c
      BY <1>1, <1>4, <2>2, <2>5, <3>1 DEF Explained, SessionTypes
    <3>2. CASE l # c
      <4>1. hasResult[l] /\ successful'[l] = successful[l]
        BY <1>1, <1>4, <2>6, <3>2 DEF SessionTypes
      <4>2. Explained(l)
        BY <1>1, <4>1, ChecksAre DEF WrongInv
      <4>. QED  BY <2>1, <2>2, <2>3, <2>4, <4>1, <4>2 DEF Explained
    <3>. QED  BY <3>1, <3>2
  <2>7. ChecksReachTheirTest'
    BY <1>2, <2>6, ChecksAreNext
  <2>8. \A w \in wentWrong' : w \in Impls \X Ways /\ hasResult'[w[1]]
    BY <1>1, <1>2, <1>4 DEF WrongInv, SessionTypes
  <2>. QED  BY <2>7, <2>8 DEF WrongInv
<1>. QED
  BY <1>5, <1>6, <1>7, <1>8, <1>9, <1>10, SettledFacts DEF SessionInv

LEMMA StepCheck ==
    ASSUME SessionInv, NEW way \in Ways, FailingCheck(way)
    PROVE  SessionInv'
<1>1. SessionTypes /\ LanguageTypes /\ LuaInv
  BY DEF SessionInv
<1>2. /\ InTest /\ NoLanguage /\ (Lang # "python" => way = "own")
      /\ UNCHANGED <<language, fate, order, turn, step, hasResult, leftIn, refused, toreDown, lacks>>
      /\ Target(cur, way) # Nobody /\ wentWrong' = wentWrong \cup {<<cur, way>>}
  BY DEF FailingCheck
<1>3. PICK t \in Impls :
         /\ t = Target(cur, way) /\ language[t] = language[cur]
         /\ FindsItself(cur, way) => t = cur
  BY <1>2, TargetFacts
<1>4. /\ successful' = [successful EXCEPT ![t] = FALSE]
      /\ phase' = IF hasResult[t] /\ fate[t] # "dropped" THEN phase ELSE "crashed"
  BY <1>3 DEF FailingCheck
<1>5. /\ cur \in Impls /\ hasResult[cur] /\ fate[cur] = "loaded" /\ phase = "run"
      /\ step # "enter"
  BY <1>2, Running
<1>6. Settled /\ luaStack' = luaStack /\ GoesOn
  BY <1>1, <1>2, <1>5 DEF Settled, NoLanguage, OnlyPython, GoesOn, SessionTypes
<1>7. SessionTypes' /\ QueueInv' /\ PhaseInv'
  BY <1>1, <1>2, <1>4, <1>6, PlayQueue DEF SessionTypes
<1>8. LanguageTypes'
  BY <1>1, <1>6 DEF LanguageTypes, Settled, rubyVars
<1>9. LuaInv'
  BY <1>1, <1>2, <1>6 DEF LuaInv, Ahead, Top, cur, TearDownIsCalled, Left
<1>10. phase' = "crashed" => turn' = turn /\ ~FindsItself(cur, way)
  BY <1>2, <1>3, <1>4, <1>5
<1>11. WrongInv'
  BY <1>2, <1>3, <1>4, <1>6, <1>10, FailureTold
<1>. QED  BY <1>6, <1>7, <1>8, <1>9, <1>11, SettledFacts DEF SessionInv

(* The running test's own failure or error.                                 *)
LEMMA OwnFailure ==
    ASSUME SessionInv, InTest, Settled, UNCHANGED <<hasResult, phase>>,
           \/ successful' = Failing(cur) /\ wentWrong' = ItWentWrong
           \/ UNCHANGED <<successful, wentWrong>>
    PROVE  WrongInv' /\ successful' \in [Impls -> BOOLEAN]
<1>1. /\ cur \in Impls /\ phase = "run" /\ successful \in [Impls -> BOOLEAN]
  BY Running DEF SessionInv, SessionTypes
<1>2. CASE successful' = Failing(cur) /\ wentWrong' = ItWentWrong
  <2>1. "own" \in Ways
    BY DEF Ways
  <2>2. WrongInv'
    BY <1>1, <1>2, <2>1, FailureTold DEF Failing, ItWentWrong
  <2>. QED  BY <1>1, <1>2, <2>2 DEF Failing
<1>3. CASE UNCHANGED <<successful, wentWrong>>
  BY <1>1, <1>3, NothingTold
<1>. QED  BY <1>2, <1>3

(* The stack on top of which the next method will be looked up.             *)
LEMMA TopNow ==
    ASSUME SessionInv, InTest, language[cur] = "lua"
    PROVE  /\ luaStack[cur] # <<>>
           /\ luaStack[cur][Len(luaStack[cur])] = "TestCase" <=> cur \notin Left
BY Running DEF SessionInv, LuaInv, Top

(* A test that is left is one more.                                         *)
LEMMA OneMoreLeft ==
    ASSUME SessionInv, InTest, step \in {"setup", "run"}, leftIn' \in {leftIn, LeftHere}
    PROVE  /\ leftIn' \subseteq Impls \X {"setup", "run"}
           /\ Left' = IF leftIn' = leftIn THEN Left ELSE Left \cup {cur}
<1>1. cur \in Impls /\ leftIn \subseteq Impls \X {"setup", "run"}
  BY Running DEF SessionInv, SessionTypes
<1>2. CASE leftIn' = leftIn
  BY <1>1, <1>2 DEF Left
<1>3. CASE leftIn' = leftIn \cup {<<cur, step>>} /\ leftIn' # leftIn
  BY <1>1, <1>3 DEF Left
<1>. QED  BY <1>2, <1>3 DEF LeftHere

LEMMA StepSetup ==
    ASSUME SessionInv, NEW how \in {"returns", "raises", "asserts"}, Setup(how)
    PROVE  SessionInv'
<1>1. SessionTypes /\ LanguageTypes /\ LuaInv
  BY DEF SessionInv
<1>2. /\ InTest /\ step = "setup" /\ MethodEnds(how)
      /\ leftIn' = IF how = "asserts" THEN LeftHere ELSE leftIn
      /\ UNCHANGED <<language, phase, fate, order, hasResult, toreDown, lacks>>
      /\ \/ successful' = Failing(cur) /\ wentWrong' = ItWentWrong
         \/ UNCHANGED <<successful, wentWrong>>
      /\ \/ turn' = turn /\ step' \in {"run", "tearDown"} /\ refused' = refused
         \/ /\ TestIsOver /\ how = "returns" /\ Lang # "ruby"
            /\ refused' = refused \cup {cur}
  BY DEF Setup
<1>3. /\ UNCHANGED <<pyVars, rubyVars, testInstance>>
      /\ luaStack' \in [Impls -> Seq(Values)]
      /\ \A k \in Impls \ {cur} : luaStack'[k] = luaStack[k]
      /\ language[cur] = "lua" =>
           IF how # "asserts" THEN luaStack'[cur] = luaStack[cur]
           ELSE /\ luaStack'[cur] # <<>>
                /\ luaStack'[cur][Len(luaStack'[cur])] = "string"
  BY <1>2, MethodEffect
<1>4. Settled /\ (GoesOn \/ TestIsOver) /\ cur \in Impls /\ phase = "run"
  BY <1>2, <1>3, Running DEF Settled, GoesOn
<1>5. WrongInv' /\ successful' \in [Impls -> BOOLEAN]
  BY <1>2, <1>4, OwnFailure
<1>11. /\ leftIn' \subseteq Impls \X {"setup", "run"}
       /\ Left' \in {Left, Left \cup {cur}} /\ (how = "asserts" => cur \in Left')
       /\ how # "asserts" => Left' = Left
  <2>1. leftIn' = LeftHere => cur \in Left'
    BY DEF LeftHere, Left
  <2>. QED  BY <1>2, <2>1, OneMoreLeft
<1>6. SessionTypes' /\ QueueInv' /\ PhaseInv'
  <2>1. refused' \subseteq Impls /\ toreDown' \subseteq Impls /\ lacks' \subseteq Impls
    BY <1>1, <1>2, <1>4 DEF SessionTypes
  <2>. QED  BY <1>2, <1>4, <1>5, <1>11, <2>1, PlayQueue
<1>7. LanguageTypes'
  BY <1>1, <1>3 DEF LanguageTypes, rubyVars
<1>8. cur \notin toreDown
  BY <1>1, <1>2, Running DEF LuaInv
<1>9. language[cur] = "lua" =>
         /\ luaStack'[cur] # <<>>
         /\ luaStack'[cur][Len(luaStack'[cur])] = "TestCase" <=> cur \notin Left'
  BY <1>2, <1>3, <1>11, TopNow
<1>10. LuaInv'
  <2>1. \A l \in Impls : l = cur /\ TestIsOver => TornDownRightly(l)'
    BY <1>2, <1>8 DEF TornDownRightly, TestIsOver, Lang
  <2>2. GoesOn => UNCHANGED <<refused, toreDown, lacks>>
    BY <1>2 DEF GoesOn, TestIsOver
  <2>. QED  BY <1>2, <1>3, <1>4, <1>9, <1>11, <2>1, <2>2, PlayLua
<1>. QED  BY <1>4, <1>5, <1>6, <1>7, <1>10, SettledFacts DEF SessionInv

LEMMA StepRun ==
    ASSUME SessionInv, NEW how \in {"returns", "raises", "asserts"}, Run(how)
    PROVE  SessionInv'
<1>1. SessionTypes /\ LanguageTypes /\ LuaInv
  BY DEF SessionInv
<1>2. /\ InTest /\ step = "run" /\ MethodEnds(how)
      /\ leftIn' = IF how # "returns" THEN LeftHere ELSE leftIn
      /\ UNCHANGED <<language, phase, fate, order, turn, hasResult, refused,
                     toreDown, lacks>>
      /\ \/ successful' = Failing(cur) /\ wentWrong' = ItWentWrong
         \/ UNCHANGED <<successful, wentWrong>>
      /\ step' \in {"run", "tearDown"}
  BY DEF Run, Raised
<1>3. /\ UNCHANGED <<pyVars, rubyVars, testInstance>>
      /\ luaStack' \in [Impls -> Seq(Values)]
      /\ \A k \in Impls \ {cur} : luaStack'[k] = luaStack[k]
      /\ language[cur] = "lua" =>
           IF how = "returns" THEN luaStack'[cur] = luaStack[cur]
           ELSE /\ luaStack'[cur] # <<>>
                /\ luaStack'[cur][Len(luaStack'[cur])] = "string"
  BY <1>2, MethodEffect
<1>4. Settled /\ GoesOn /\ cur \in Impls /\ phase = "run"
  BY <1>2, <1>3, Running DEF Settled, GoesOn
<1>5. WrongInv' /\ successful' \in [Impls -> BOOLEAN]
  BY <1>2, <1>4, OwnFailure
<1>11. /\ leftIn' \subseteq Impls \X {"setup", "run"}
       /\ Left' \in {Left, Left \cup {cur}} /\ (how # "returns" => cur \in Left')
       /\ how = "returns" => Left' = Left
  <2>1. leftIn' = LeftHere => cur \in Left'
    BY DEF LeftHere, Left
  <2>. QED  BY <1>2, <2>1, OneMoreLeft
<1>6. SessionTypes' /\ QueueInv' /\ PhaseInv'
  <2>1. refused' \subseteq Impls /\ toreDown' \subseteq Impls /\ lacks' \subseteq Impls
    BY <1>1, <1>2 DEF SessionTypes
  <2>. QED  BY <1>2, <1>4, <1>5, <1>11, <2>1, PlayQueue
<1>7. LanguageTypes'
  BY <1>1, <1>3 DEF LanguageTypes, rubyVars
<1>8. ~TestIsOver
  BY <1>4 DEF GoesOn, TestIsOver
<1>9. language[cur] = "lua" =>
         /\ luaStack'[cur] # <<>>
         /\ luaStack'[cur][Len(luaStack'[cur])] = "TestCase" <=> cur \notin Left'
  BY <1>2, <1>3, <1>11, TopNow
<1>10. LuaInv'
  BY <1>2, <1>3, <1>4, <1>8, <1>9, <1>11, PlayLua
<1>. QED  BY <1>4, <1>5, <1>6, <1>7, <1>10, SettledFacts DEF SessionInv

LEMMA StepTearDown ==
    ASSUME SessionInv, NEW how \in {"returns", "raises", "asserts"},
           NEW has \in BOOLEAN, TearDown(how, has)
    PROVE  SessionInv'
<1>1. SessionTypes /\ LanguageTypes /\ LuaInv
  BY DEF SessionInv
<1>2. /\ InTest /\ step = "tearDown" /\ TestIsOver
      /\ UNCHANGED <<language, phase, fate, order, hasResult, leftIn, refused>>
      /\ \/ successful' = Failing(cur) /\ wentWrong' = ItWentWrong
         \/ UNCHANGED <<successful, wentWrong>>
  BY DEF TearDown
<1>3. /\ cur \in Impls /\ phase = "run"
      /\ cur \notin refused /\ cur \notin toreDown /\ cur \notin lacks /\ Left' = Left
  BY <1>1, <1>2, Running DEF LuaInv, Left
<1>4. /\ UNCHANGED <<pyVars, rubyVars, testInstance>>
      /\ luaStack' \in [Impls -> Seq(Values)]
      /\ \A k \in Impls \ {cur} : luaStack'[k] = luaStack[k]
      /\ toreDown' \in {toreDown, toreDown \cup {cur}}
      /\ lacks' \in {lacks, lacks \cup {cur}}
      /\ cur \notin lacks' =>
           (cur \in toreDown' <=> ~(language[cur] = "lua" /\ cur \in Left))
      /\ language[cur] = "ruby" => cur \in toreDown'
  <2>1. CASE Found(has)
    <3>1. MethodEnds(how) /\ toreDown' = toreDown \cup {cur} /\ lacks' = lacks
      BY <2>1 DEF TearDown
    <3>2. language[cur] = "lua" => cur \notin Left
      BY <1>2, <2>1, TopNow DEF Found, Lang, getLocalFunction, Top
    <3>. QED  BY <1>2, <1>3, <3>1, <3>2, MethodEffect
  <2>2. CASE ~Found(has)
    <3>1. /\ IF Lang = "lua" THEN OnlyLua /\ LuaNoMethod(cur) ELSE NoLanguage
          /\ lacks' = IF has THEN lacks ELSE lacks \cup {cur}
          /\ toreDown' = toreDown
      BY <2>2 DEF TearDown
    <3>2. /\ has => language[cur] = "lua" /\ cur \in Left
          /\ language[cur] # "ruby"
      BY <1>2, <2>2, TopNow DEF TearDown, Found, Lang, getLocalFunction, Top
    <3>3. CASE Lang = "lua"
      <4>1. PICK c \in Impls : c = cur
        BY <1>3
      <4>2. "nil" \in Values
        BY DEF Values
      <4>3. /\ luaStack' \in [Impls -> Seq(Values)]
            /\ \A k \in Impls \ {c} : luaStack'[k] = luaStack[k]
        BY <1>1, <3>1, <3>3, <4>1, <4>2, PushEffect DEF LuaNoMethod
      <4>. QED  BY <1>2, <1>3, <3>1, <3>2, <3>3, <4>1, <4>3 DEF OnlyLua
    <3>4. CASE Lang # "lua"
      BY <1>1, <1>2, <1>3, <3>1, <3>2, <3>4 DEF NoLanguage, OnlyPython, LanguageTypes
    <3>. QED  BY <3>3, <3>4
  <2>. QED  BY <2>1, <2>2
<1>5. Settled
  BY <1>2, <1>4 DEF Settled
<1>6. WrongInv' /\ successful' \in [Impls -> BOOLEAN]
  BY <1>2, <1>5, OwnFailure
<1>7. SessionTypes' /\ QueueInv' /\ PhaseInv'
  <2>1. /\ toreDown' \subseteq Impls /\ lacks' \subseteq Impls
        /\ leftIn' \subseteq Impls \X {"setup", "run"} /\ refused' \subseteq Impls
    BY <1>1, <1>2, <1>3, <1>4 DEF SessionTypes
  <2>. QED  BY <1>2, <1>6, <2>1, PlayQueue
<1>8. LanguageTypes'
  BY <1>1, <1>4 DEF LanguageTypes, rubyVars
<1>9. ~GoesOn
  BY <1>2 DEF GoesOn, TestIsOver
<1>10. LuaInv'
  <2>1. \A l \in Impls : l = cur /\ TestIsOver => TornDownRightly(l)'
    BY <1>2, <1>3, <1>4 DEF TornDownRightly
  <2>. QED  BY <1>2, <1>3, <1>4, <1>9, <2>1, PlayLua
<1>. QED  BY <1>5, <1>6, <1>7, <1>8, <1>10, SettledFacts DEF SessionInv

(* Every step keeps the invariant.                                          *)
LEMMA StepSessionInv == SessionInv /\ [InterpretersNext]_allVars => SessionInv'
<1> SUFFICES ASSUME SessionInv, [InterpretersNext]_allVars PROVE SessionInv'
  OBVIOUS
<1>1. ASSUME NEW l \in Impls, Loads(l)
      PROVE  SessionInv'
  BY <1>1, StepLoads
<1>2. CASE StartRun \/ RunDone \/ \E l \in Impls : LoadDies(l)
  BY <1>2, StepPhase
<1>3. CASE EnterTest
  BY <1>3, StepEnter
<1>4. ASSUME NEW way \in Ways, FailingCheck(way)
      PROVE  SessionInv'
  BY <1>4, StepCheck
<1>5. ASSUME NEW how \in {"returns", "raises", "asserts"}, Setup(how)
      PROVE  SessionInv'
  BY <1>5, StepSetup
<1>6. ASSUME NEW how \in {"returns", "raises", "asserts"}, Run(how)
      PROVE  SessionInv'
  BY <1>6, StepRun
<1>7. ASSUME NEW how \in {"returns", "raises", "asserts"},
             NEW has \in BOOLEAN, TearDown(how, has)
      PROVE  SessionInv'
  BY <1>7, StepTearDown
<1>8. CASE UNCHANGED allVars
  <2>1. /\ Settled /\ luaStack' = luaStack
        /\ UNCHANGED <<phase, turn, step, hasResult, successful, wentWrong, leftIn,
                       refused, toreDown, lacks>>
    BY <1>8 DEF allVars, sessionVars, Settled
  <2>2. /\ SessionTypes /\ LanguageTypes /\ QueueInv /\ PhaseInv /\ LuaInv
        /\ WrongInv
    BY DEF SessionInv
  <2>3. SessionTypes' /\ QueueInv' /\ PhaseInv' /\ LanguageTypes'
    BY <2>1, <2>2 DEF SessionTypes, QueueInv, Listed, PhaseInv, LanguageTypes, Settled,
                      rubyVars
  <2>4. LuaInv'
    BY <2>1, <2>2 DEF LuaInv, Ahead, Top, cur, TearDownIsCalled, Settled, Left
  <2>5. WrongInv'
    BY <2>1, NothingTold
  <2>. QED  BY <2>1, <2>3, <2>4, <2>5, SettledFacts DEF SessionInv
<1>. QED
  BY <1>1, <1>2, <1>3, <1>4, <1>5, <1>6, <1>7, <1>8 DEF InterpretersNext, Loads

(* It holds before anything is loaded.                                      *)
LEMMA InitSessionInv == InterpretersInit => SessionInv
<1> SUFFICES ASSUME InterpretersInit PROVE SessionInv
  OBVIOUS
<1>1. /\ PyInit /\ LuaInit /\ RubyInit /\ AdaInit
      /\ language \in [Impls -> Languages]
      /\ phase = "load" /\ order = <<>> /\ turn = 1 /\ step = "enter"
      /\ fate = [l \in Impls |-> "new"]
      /\ hasResult = [l \in Impls |-> FALSE]
      /\ successful = [l \in Impls |-> TRUE]
      /\ wentWrong = {} /\ leftIn = {} /\ Left = {}
           /\ refused = {} /\ toreDown = {} /\ lacks = {}
  BY DEF InterpretersInit, Left
<1>2. order \in Seq(Impls) /\ Len(order) = 0 /\ << >> \in Seq(Values)
  BY <1>1
<1>3. SessionTypes
  BY <1>1, <1>2 DEF SessionTypes, Fates, Phases
<1>4. LanguageTypes
  BY <1>1, <1>2 DEF LanguageTypes, LuaInit, RubyInit, AdaInit
<1>5. QueueInv /\ PhaseInv
  BY <1>1, <1>2 DEF QueueInv, PhaseInv, Listed
<1>6. PythonInv
  BY <1>1, InitEstablishesInv DEF PythonInv, PyInit, OwnedAt
<1>7. NamesInv /\ MachineInv
  BY <1>1 DEF NamesInv, MachineInv, PyInit, RubyInit, AdaInit
<1>8. LuaInv
  <2>1. TearDownIsCalled
    BY <1>1 DEF TearDownIsCalled
  <2>. QED  BY <1>1, <2>1 DEF LuaInv, Ahead
<1>9. WrongInv
  BY <1>1 DEF WrongInv, ChecksReachTheirTest
<1>. QED  BY <1>3, <1>4, <1>5, <1>6, <1>7, <1>8, <1>9 DEF SessionInv

(* The invariant holds in every state of every behaviour.                   *)
LEMMA SessionInvariance == InterpretersSpec => []SessionInv
BY InitSessionInv, StepSessionInv, PTL DEF InterpretersSpec

-----------------------------------------------------------------------------
(* In a whole session too the Python interpreter lives exactly as long as   *)
(* some Python test is open, and sys.modules names no test that is gone     *)
(* (PythonPluginLoader.cpp:99-134, 145-150).                                *)
THEOREM InterpreterLivesInSessions == InterpretersSpec => []InterpreterLives
<1>1. SessionInv => InterpreterLives
  BY DEF SessionInv, PythonInv, Inv
<1>. QED  BY <1>1, SessionInvariance, PTL

(* What the code of a test says of itself is held against that test, and    *)
(* nothing else is, wherever the test's language lets a callback find it    *)
(* (PythonPluginLoader.cpp:474-484, LuaPluginLoader.cpp:226-340,            *)
(* RubyPluginLoader.cpp:152, 247-254, AdaTest.cpp:36-42, 66-95).            *)
THEOREM ChecksFindTheirTest == InterpretersSpec => []ChecksReachTheirTest
<1>1. SessionInv => ChecksReachTheirTest
  BY DEF SessionInv, WrongInv
<1>. QED  BY <1>1, SessionInvariance, PTL

(* A test that is over and has a tearDown() was torn down if and only if    *)
(* its setup() did not return false and it is no Lua test whose run()       *)
(* raised or that an assertion left; a Ruby test always was                 *)
(* (TestCase.cpp:153-192, LuaPluginLoader.cpp:162-211,                      *)
(* RubyPluginLoader.cpp:175-189).                                           *)
THEOREM TearDownsAreCalled == InterpretersSpec => []TearDownIsCalled
<1>1. SessionInv => TearDownIsCalled
  BY DEF SessionInv, LuaInv
<1>. QED  BY <1>1, SessionInvariance, PTL

(* A running test's interpreter and objects are there, but for a Ruby       *)
(* machine cleaned up with the loader of a test that failed to load         *)
(* (PythonPluginLoader.cpp:99-150, RubyPluginLoader.cpp:42-50, 122-149).    *)
THEOREM TestsRunInLivingInterpreters == InterpretersSpec => []RunsInLivingInterpreter
<1>1. ASSUME SessionInv, InTest
      PROVE  CASE Lang = "python" -> initialized /\ objects[cur] = Fields
               [] Lang = "lua"    -> luaStack[cur] # <<>>
               [] Lang = "ruby"   ->
                    \/ rubyVM = "up"
                    \/ \E k \in Impls : language[k] = "ruby" /\ fate[k] = "dropped"
               [] Lang = "ada"    -> testInstance # Nobody
  <2>1. /\ cur \in Impls /\ fate[cur] = "loaded" /\ phase = "run"
        /\ language[cur] \in Languages
    BY <1>1, Running
  <2>2. PhaseInv /\ PythonInv /\ MachineInv /\ LanguageTypes /\ InterpreterLives /\ PyTypeOK
    BY <1>1 DEF SessionInv, PythonInv, Inv
  <2>3. CASE language[cur] = "python"
    <3>1. pyPc[cur] = "open" /\ objects[cur] = Fields
      BY <2>1, <2>2, <2>3 DEF PythonInv, OwnedAt
    <3>2. cur \in OpenedImpls /\ IsFiniteSet(OpenedImpls)
      BY <2>1, <2>2, <3>1, FS_Subset, ImplsAssumption DEF InterpreterLives, OpenedImpls
    <3>3. Cardinality(OpenedImpls) # 0
      BY <3>2, FS_EmptySet
    <3>4. initialized
      BY <2>2, <3>3 DEF InterpreterLives, PyTypeOK
    <3>. QED  BY <2>3, <3>1, <3>4 DEF Lang
  <2>4. CASE language[cur] = "lua"
    BY <1>1, <2>4, TopNow DEF Lang
  <2>5. CASE language[cur] = "ruby"
    BY <2>1, <2>2, <2>5 DEF Lang, MachineInv, LanguageTypes, PhaseInv
  <2>6. CASE language[cur] = "ada"
    BY <2>1, <2>2, <2>6 DEF Lang, MachineInv
  <2>. QED  BY <2>1, <2>3, <2>4, <2>5, <2>6 DEF Languages
<1>2. SessionInv => RunsInLivingInterpreter
  BY <1>1 DEF RunsInLivingInterpreter
<1>. QED  BY <1>2, SessionInvariance, PTL
===============================================================================
