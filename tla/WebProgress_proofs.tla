-------------------------- MODULE WebProgress_proofs --------------------------
(***************************************************************************)
(* Proofs about the web listener, for any tests, suites and messages and   *)
(* any number of requests, events and signals: the page's text and status  *)
(* are never half written, and the status tells every verdict.             *)
(***************************************************************************)
EXTENDS WebProgress, FiniteSetTheorems, SequenceTheorems,
        WellFoundedInduction, TLAPS

-----------------------------------------------------------------------------
(* The inductive invariant.                                                 *)

Objects == Tests \cup Suites \cup {Runner}
Events == [kind : EventKinds, obj : Objects, ok : BOOLEAN]
Calls == [ev : Events, at : {"lock", "first", "second"}]
States == {Running, Failed, Success}
Indices(s) == 1 .. Len(s)

(* The session: only the innermost of what is open can be a test.           *)
StreamInv ==
    /\ events \in Seq(Events) /\ scope \in Seq(Objects)
    /\ count \in [Counts -> Nat] /\ testClean \in BOOLEAN
    /\ \A i \in Indices(scope) : i < Len(scope) => scope[i] \notin Tests

(* Whatever the listener knows, the program has sent.                       *)
ListenerInv ==
    /\ calls \in Seq(Calls) /\ log \in Seq(Events) /\ result \in Seq(Events)
    /\ testStatus \in Seq(States) /\ sent \in 0 .. Len(events)
    /\ \A i \in Indices(log) : log[i] \in Range(events)
    /\ \A k \in Indices(calls) : calls[k].ev \in Range(events)
    /\ \A i \in Indices(result) : result[i] \in Range(events)

ThreadInv ==
    /\ request \in Requests \cup {Nobody}
    /\ uPc \in {"poll", "lock", "copy", "unlock", "done"}
    /\ life \in {"running", "join", "lastPoll", "gone"}
    /\ interuptCount \in 1 .. 5
    /\ life = "running" => interuptCount <= 4

(* The holder of the mutex is the one listener call past its lock, or the   *)
(* updater between its two locks' ends.                                     *)
Active == {k \in Indices(calls) : calls[k].at # "lock"}
MutexInv ==
    /\ critical \in {Nobody, "main", "updater"}
    /\ critical = "updater" <=> uPc \in {"copy", "unlock"}
    /\ critical = "main" <=> Active # {}
    /\ \A j, k \in Active : j = k

(* The calls return in the order of the events, but for reports of          *)
(* interruptions.                                                           *)
Same(e, f) == e = f \/ (e.kind = "report" /\ f.kind = "report")
OrderInv ==
    /\ Len(log) + Len(calls) = sent
    /\ \A i \in Indices(log) : Same(log[i], events[i])
    /\ \A k \in Indices(calls) :
          /\ Same(calls[k].ev, events[Len(log) + k])
          /\ k > 1 \/ calls[k].at = "lock" => calls[k].ev.kind = "report"

(* What the shared variables tell: the events whose calls have returned,    *)
(* and of the call half done its first half.                                *)
Reflects(es) == suite_name = NameAfter(es) /\ EntriesTell(testStatus, es)
HalfDone == {k \in Indices(calls) : calls[k].at = "second"}
SharedInv ==
    /\ HalfDone = {} => Reflects(log) /\ result = log
    /\ \A k \in HalfDone :
          /\ Reflects(Append(log, calls[k].ev))
          /\ result = IF calls[k].ev.kind = "startSuite"
                      THEN Append(log, calls[k].ev) ELSE log
    /\ suite_size = SizeAfter(log)

AnswerInv ==
    /\ uPc = "unlock" => reply.name = suite_name
    /\ shown = [update |-> shown.update, status |-> shown.status]
    /\ AnswersAreWhole

(* With no crash handled, what the counters count of tests is in the log or *)
(* on its way there.                                                        *)
OnTheWay(kind) ==
    \/ \E k \in Indices(calls) : calls[k].ev.kind = kind
    \/ sent < Len(events) /\ events[Len(events)].kind = kind
One(condition) == IF condition THEN 1 ELSE 0
Number(es, kind) == Cardinality(Places(es, kind))
CountInv ==
    /\ Len(events) <= sent + 1
    /\ calls # <<>> /\ calls[1].ev.kind # "report" => sent = Len(events)
    /\ Number(log, "startTest") + One(OnTheWay("startTest")) = count["nTests"]
    /\ life = "running" =>
         /\ Number(log, "endTest") + One(OnTheWay("endTest"))
               + One(InScope(Tests)) = count["nTests"]
         /\ OnTheWay("endTest") => ~InScope(Tests)
         /\ OnTheWay("startTest") => InScope(Tests)

Verdict(e) == IF e.ok THEN Success ELSE Failed
Verdicts(entries, es) ==
    \A i \in Places(es, "endTest") :
       entries[Rank(es, "endTest", i)] = Verdict(es[i])
VerdictInv ==
    /\ HalfDone = {} => Verdicts(testStatus, log)
    /\ \A k \in HalfDone : Verdicts(testStatus, Append(log, calls[k].ev))

WebInv ==
    /\ StreamInv
    /\ ListenerInv
    /\ ThreadInv
    /\ MutexInv
    /\ OrderInv
    /\ SharedInv
    /\ AnswerInv
    /\ count["extra"] = 0 => CountInv /\ VerdictInv

-----------------------------------------------------------------------------
(* Places of events in a list, and what an event more changes.              *)

(* Numbers have a smallest one.                                             *)
LEMMA Smallest ==
    ASSUME NEW S \in SUBSET Nat, S # {}
    PROVE  Min(S) \in S /\ \A y \in S : Min(S) <= y
<1> DEFINE R == OpToRel(<, Nat)
<1>1. IsWellFoundedOn(R, Nat)
  BY NatLessThanWellFounded
<1>2. \A x, y \in Nat : <<x, y>> \in R <=> x < y
  BY DEF OpToRel
<1>. HIDE DEF R
<1>3. PICK x \in S : \A y \in S : <<y, x>> \notin R
  BY <1>1, WFMin
<1>4. ASSUME NEW y \in S PROVE x <= y
  <2>1. x \in Nat /\ y \in Nat /\ ~ (y < x)
    BY <1>2, <1>3
  <2>. QED  BY <2>1
<1>5. x \in S /\ \A y \in S : x <= y
  BY <1>4
<1>. QED  BY <1>5 DEF Min

(* Numbers up to n have a largest one.                                      *)
LEMMA Largest ==
    ASSUME NEW n \in Nat, NEW S \in SUBSET (1 .. n), S # {}
    PROVE  Max(S) \in S /\ \A y \in S : Max(S) >= y
<1> DEFINE T == {n - x : x \in S}
<1>1. /\ T \in SUBSET Nat /\ T # {}
      /\ \A y \in S : n - y \in T
  <2>1. \A y \in S : n - y \in Nat
    OBVIOUS
  <2>. QED  BY <2>1
<1>2. Min(T) \in T /\ \A k \in T : Min(T) <= k
  <2>. HIDE DEF T
  <2>. QED  BY <1>1, Smallest
<1>3. PICK x \in S : Min(T) = n - x
  BY <1>2
<1>4. ASSUME NEW y \in S PROVE x >= y
  <2>1. n - x <= n - y
    BY <1>1, <1>2, <1>3
  <2>2. x \in Nat /\ y \in Nat
    OBVIOUS
  <2>. QED  BY <2>1, <2>2
<1>. HIDE DEF T
<1>5. \E m \in S : \A y \in S : m >= y
  BY <1>4
<1>. QED  BY <1>5 DEF Max

(* The largest of numbers up to n and n + 1 is n + 1.                       *)
LEMMA NewMax ==
    ASSUME NEW n \in Nat, NEW S \in SUBSET (1 .. n)
    PROVE  Max(S \cup {n + 1}) = n + 1
<1>1. n + 1 \in S \cup {n + 1} /\ \A y \in S \cup {n + 1} : n + 1 >= y
  OBVIOUS
<1>2. \A m \in S \cup {n + 1} :
        (\A y \in S \cup {n + 1} : m >= y) => m = n + 1
  OBVIOUS
<1>. QED  BY <1>1, <1>2 DEF Max

(* The smallest does not change with a larger number.                       *)
LEMMA SameMin ==
    ASSUME NEW n \in Nat, NEW S \in SUBSET (1 .. n)
    PROVE  /\ S # {} => Min(S \cup {n + 1}) = Min(S)
           /\ Min({n + 1}) = n + 1
<1>1. Min({n + 1}) = n + 1
  <2>1. {n + 1} \in SUBSET Nat /\ {n + 1} # {}
    OBVIOUS
  <2>. QED  BY <2>1, Smallest
<1>2. ASSUME S # {} PROVE Min(S \cup {n + 1}) = Min(S)
  <2> DEFINE T == S \cup {n + 1}
  <2>1. S \in SUBSET Nat /\ T \in SUBSET Nat /\ T # {}
    OBVIOUS
  <2>2. Min(S) \in S /\ \A y \in S : Min(S) <= y
    BY <1>2, <2>1, Smallest
  <2>3. Min(T) \in T /\ \A y \in T : Min(T) <= y
    <3>. HIDE DEF T
    <3>. QED  BY <2>1, Smallest
  <2>4. Min(S) \in 1 .. n /\ Min(S) \in T
    BY <2>2
  <2>5. Min(T) <= Min(S)
    BY <2>3, <2>4
  <2>6. Min(T) \in S
    BY <2>3, <2>4, <2>5
  <2>7. Min(S) <= Min(T)
    BY <2>2, <2>6
  <2>8. Min(S) \in Nat /\ Min(T) \in Nat
    BY <2>1, <2>2, <2>3
  <2>9. Min(T) = Min(S)
    <3>. HIDE DEF T
    <3>. QED  BY <2>5, <2>7, <2>8
  <2>. QED  BY <2>9
<1>. QED  BY <1>1, <1>2

(* Where the events of a kind are.                                          *)
LEMMA PlacesOf ==
    ASSUME NEW es \in Seq(Events), NEW kind
    PROVE  /\ Len(es) \in Nat /\ Places(es, kind) \subseteq 1 .. Len(es)
           /\ Places(es, kind) = {i \in 1 .. Len(es) : es[i].kind = kind}
           /\ IsFiniteSet(Places(es, kind)) /\ Number(es, kind) \in Nat
           /\ Number(es, kind) = 0 <=> Places(es, kind) = {}
           /\ \A i \in 1 .. Len(es) : es[i] \in Events
<1>1. /\ Len(es) \in Nat /\ DOMAIN es = 1 .. Len(es)
      /\ \A i \in 1 .. Len(es) : es[i] \in Events
  BY LenProperties, ElementOfSeq
<1>2. /\ Places(es, kind) \subseteq 1 .. Len(es)
      /\ Places(es, kind) = {i \in 1 .. Len(es) : es[i].kind = kind}
  BY <1>1 DEF Places
<1>3. IsFiniteSet(1 .. Len(es))
  BY <1>1, FS_Interval
<1>. QED
  BY <1>1, <1>2, <1>3, FS_Subset, FS_CardinalityType, FS_EmptySet DEF Number

(* An event more.                                                           *)
LEMMA OneMorePlace ==
    ASSUME NEW es \in Seq(Events), NEW e \in Events, NEW kind
    PROVE  /\ Append(es, e) \in Seq(Events) /\ Len(Append(es, e)) = Len(es) + 1
           /\ \A i \in 1 .. Len(es) : Append(es, e)[i] = es[i]
           /\ Append(es, e)[Len(es) + 1] = e
           /\ Places(Append(es, e), kind)
                = IF e.kind = kind THEN Places(es, kind) \cup {Len(es) + 1}
                                   ELSE Places(es, kind)
           /\ Number(Append(es, e), kind)
                = Number(es, kind) + One(e.kind = kind)
<1> DEFINE n == Len(es)
           fs == Append(es, e)
<1>1. /\ fs \in Seq(Events) /\ Len(fs) = n + 1
      /\ \A i \in 1 .. n : fs[i] = es[i]
      /\ fs[n + 1] = e
  BY AppendProperties
<1>2. n \in Nat /\ 1 .. n + 1 = (1 .. n) \cup {n + 1} /\ n + 1 \notin 1 .. n
  BY PlacesOf
<1>. HIDE DEF fs, n
<1>3. Places(fs, kind) = {i \in 1 .. n + 1 : fs[i].kind = kind}
  BY <1>1, PlacesOf
<1>4. Places(es, kind) = {i \in 1 .. n : es[i].kind = kind}
  BY PlacesOf DEF n
<1>5. Places(fs, kind) = IF e.kind = kind THEN Places(es, kind) \cup {n + 1}
                                          ELSE Places(es, kind)
  BY <1>1, <1>2, <1>3, <1>4
<1>6. Number(fs, kind) = Number(es, kind) + One(e.kind = kind)
  <2>1. CASE e.kind = kind
    <3>1. /\ IsFiniteSet(Places(es, kind)) /\ n + 1 \notin Places(es, kind)
          /\ Places(fs, kind) = Places(es, kind) \cup {n + 1}
      BY <1>2, <1>4, <1>5, <2>1, PlacesOf
    <3>2. Cardinality(Places(es, kind) \cup {n + 1}) = Number(es, kind) + 1
      BY <3>1, FS_AddElement DEF Number
    <3>. QED  BY <2>1, <3>1, <3>2 DEF Number, One
  <2>2. CASE e.kind # kind
    <3>1. Places(fs, kind) = Places(es, kind) /\ Number(es, kind) \in Nat
      BY <1>5, <2>2, PlacesOf
    <3>. QED  BY <2>2, <3>1 DEF Number, One
  <2>. QED  BY <2>1, <2>2
<1>. QED  BY <1>1, <1>5, <1>6 DEF n, fs

(* The rank of a place: it counts itself and what is before it.             *)
LEMMA RankOf ==
    ASSUME NEW es \in Seq(Events), NEW kind, NEW i \in Places(es, kind)
    PROVE  /\ Rank(es, kind, i) \in 1 .. Number(es, kind)
           /\ Rank(es, kind, i) = Number(es, kind)
                <=> \A j \in Places(es, kind) : j <= i
<1> DEFINE B == {j \in Places(es, kind) : j <= i}
<1>1. IsFiniteSet(Places(es, kind)) /\ i \in Nat
  BY PlacesOf
<1>2. /\ IsFiniteSet(B) /\ Cardinality(B) \in Nat
      /\ Cardinality(B) <= Number(es, kind)
      /\ Cardinality(B) = Number(es, kind) => B = Places(es, kind)
  BY <1>1, FS_Subset, FS_CardinalityType DEF Number
<1>3. B # {}
  BY <1>1
<1>4. Cardinality(B) # 0
  BY <1>2, <1>3, FS_EmptySet
<1>5. Number(es, kind) \in Nat
  BY PlacesOf
<1>6. (\A j \in Places(es, kind) : j <= i) <=> B = Places(es, kind)
  OBVIOUS
<1>7. Rank(es, kind, i) = Cardinality(B)
  BY DEF Rank
<1>. HIDE DEF B
<1>8. Rank(es, kind, i) \in 1 .. Number(es, kind)
  BY <1>2, <1>4, <1>5, <1>7
<1>9. B = Places(es, kind) => Cardinality(B) = Number(es, kind)
  BY DEF Number
<1>. QED  BY <1>2, <1>6, <1>7, <1>8, <1>9

(* Ranks stay as they are when an event is added, whose own is the last.    *)
LEMMA RankAfter ==
    ASSUME NEW es \in Seq(Events), NEW e \in Events, NEW kind
    PROVE  /\ \A i \in Places(es, kind) :
                 Rank(Append(es, e), kind, i) = Rank(es, kind, i)
           /\ e.kind = kind =>
                 Rank(Append(es, e), kind, Len(es) + 1) = Number(es, kind) + 1
<1> DEFINE fs == Append(es, e)
<1>1. /\ Len(es) \in Nat /\ Places(es, kind) \subseteq 1 .. Len(es)
      /\ Places(fs, kind) = IF e.kind = kind
                            THEN Places(es, kind) \cup {Len(es) + 1}
                            ELSE Places(es, kind)
      /\ Number(fs, kind) = Number(es, kind) + One(e.kind = kind)
      /\ fs \in Seq(Events)
  BY PlacesOf, OneMorePlace
<1>. HIDE DEF fs
<1>2. ASSUME NEW i \in Places(es, kind)
      PROVE  Rank(fs, kind, i) = Rank(es, kind, i)
  <2>1. {j \in Places(fs, kind) : j <= i} = {j \in Places(es, kind) : j <= i}
    BY <1>1
  <2>. QED  BY <2>1 DEF Rank
<1>3. ASSUME e.kind = kind
      PROVE  Rank(fs, kind, Len(es) + 1) = Number(es, kind) + 1
  <2>1. {j \in Places(fs, kind) : j <= Len(es) + 1} = Places(fs, kind)
    BY <1>1, <1>3
  <2>. QED  BY <1>1, <1>3, <2>1 DEF Rank, Number, One
<1>. QED  BY <1>2, <1>3 DEF fs

-----------------------------------------------------------------------------
(* What the page should show after an event more.                           *)

(* The suite's name: the last one started, or the first test.               *)
LEMMA NameMore ==
    ASSUME NEW es \in Seq(Events), NEW e \in Events
    PROVE  NameAfter(Append(es, e))
             = IF e.kind = "startSuite" THEN e.obj
               ELSE IF e.kind = "startTest" /\ NameAfter(es) = Nobody THEN e.obj
               ELSE NameAfter(es)
<1> DEFINE n == Len(es)
           fs == Append(es, e)
           S == Places(es, "startSuite")
           T == Places(es, "startTest")
<1>1. /\ n \in Nat /\ S \in SUBSET (1 .. n) /\ T \in SUBSET (1 .. n)
      /\ T \in SUBSET Nat
      /\ \A i \in 1 .. n : es[i] \in Events
  BY PlacesOf
<1>2. /\ \A i \in 1 .. n : fs[i] = es[i]
      /\ fs[n + 1] = e
      /\ Places(fs, "startSuite")
           = IF e.kind = "startSuite" THEN S \cup {n + 1} ELSE S
      /\ Places(fs, "startTest")
           = IF e.kind = "startTest" THEN T \cup {n + 1} ELSE T
  BY OneMorePlace
<1>3. NameAfter(es) = IF S # {} THEN es[Max(S)].obj
                      ELSE IF T # {} THEN es[Min(T)].obj ELSE Nobody
  BY DEF NameAfter
<1>4. NameAfter(fs)
        = IF Places(fs, "startSuite") # {} THEN fs[Max(Places(fs, "startSuite"))].obj
          ELSE IF Places(fs, "startTest") # {}
          THEN fs[Min(Places(fs, "startTest"))].obj ELSE Nobody
  BY DEF NameAfter
<1>. HIDE DEF n, fs, S, T
<1>5. /\ S # {} => Max(S) \in 1 .. n
      /\ T # {} => Min(T) \in 1 .. n
  BY <1>1, Largest, Smallest
<1>6. /\ Max(S \cup {n + 1}) = n + 1
      /\ T # {} => Min(T \cup {n + 1}) = Min(T)
      /\ Min({n + 1}) = n + 1
  BY <1>1, NewMax, SameMin
<1>7. \A i \in 1 .. n : es[i].obj # Nobody
  BY <1>1, WebConstants DEF Events, Objects
<1>8. CASE e.kind = "startSuite"
  BY <1>2, <1>4, <1>6, <1>8 DEF fs
<1>9. CASE e.kind # "startSuite" /\ S # {}
  BY <1>2, <1>3, <1>4, <1>5, <1>7, <1>9 DEF fs
<1>10. CASE e.kind = "startTest" /\ S = {}
  <2>1. CASE T # {}
    BY <1>2, <1>3, <1>4, <1>5, <1>6, <1>7, <1>10, <2>1 DEF fs
  <2>2. CASE T = {}
    <3>1. Places(fs, "startSuite") = {} /\ Places(fs, "startTest") = {n + 1}
      BY <1>2, <1>10, <2>2
    <3>2. NameAfter(fs) = e.obj
      BY <1>2, <1>4, <1>6, <3>1
    <3>. QED  BY <1>3, <1>10, <2>2, <3>2 DEF fs
  <2>. QED  BY <2>1, <2>2
<1>11. CASE e.kind \notin {"startTest", "startSuite"} /\ S = {}
  BY <1>2, <1>3, <1>4, <1>5, <1>11 DEF fs
<1>. QED  BY <1>8, <1>9, <1>10, <1>11 DEF fs

(* The suite's size: that of the last one started.                          *)
LEMMA SizeMore ==
    ASSUME NEW es \in Seq(Events), NEW e \in Events
    PROVE  SizeAfter(Append(es, e))
             = IF e.kind = "startSuite" THEN SuiteSize[e.obj] ELSE SizeAfter(es)
<1> DEFINE n == Len(es)
           fs == Append(es, e)
           S == Places(es, "startSuite")
<1>1. n \in Nat /\ S \in SUBSET (1 .. n)
  BY PlacesOf
<1>2. /\ \A i \in 1 .. n : fs[i] = es[i]
      /\ fs[n + 1] = e
      /\ Places(fs, "startSuite")
           = IF e.kind = "startSuite" THEN S \cup {n + 1} ELSE S
  BY OneMorePlace
<1>3. /\ SizeAfter(es) = IF S = {} THEN 0 ELSE SuiteSize[es[Max(S)].obj]
      /\ SizeAfter(fs) = IF Places(fs, "startSuite") = {} THEN 0
                         ELSE SuiteSize[fs[Max(Places(fs, "startSuite"))].obj]
  BY DEF SizeAfter
<1>. HIDE DEF n, fs, S
<1>4. S # {} => Max(S) \in 1 .. n
  BY <1>1, Largest
<1>5. Max(S \cup {n + 1}) = n + 1
  BY <1>1, NewMax
<1>6. CASE e.kind = "startSuite"
  BY <1>2, <1>3, <1>5, <1>6 DEF fs
<1>7. CASE e.kind # "startSuite"
  BY <1>2, <1>3, <1>4, <1>7 DEF fs
<1>. QED  BY <1>6, <1>7

(* The entry of a started test: only an end event, and only one that comes  *)
(* before any other test is started, changes it.                            *)
LEMMA EntryMore ==
    ASSUME NEW es \in Seq(Events), NEW e \in Events,
           NEW i \in Places(es, "startTest")
    PROVE  EntryAfter(Append(es, e), i)
             = IF e.kind = "endTest" /\ \A j \in Places(es, "startTest") : j <= i
               THEN Verdict(e) ELSE EntryAfter(es, i)
<1> DEFINE n == Len(es)
           fs == Append(es, e)
           T == Places(es, "startTest")
           E == Places(es, "endTest")
           D == EndsOf(es, i)
           last == \A j \in T : j <= i
<1>1. n \in Nat /\ T \subseteq 1 .. n /\ E \subseteq 1 .. n
  BY PlacesOf
<1>2. /\ \A j \in 1 .. n : fs[j] = es[j]
      /\ fs[n + 1] = e
      /\ Places(fs, "endTest") = IF e.kind = "endTest" THEN E \cup {n + 1} ELSE E
      /\ Places(fs, "startTest")
           = IF e.kind = "startTest" THEN T \cup {n + 1} ELSE T
  BY OneMorePlace
<1>3. /\ D = {j \in E : j > i /\ \A k \in T : k > i => j < k}
      /\ EndsOf(fs, i)
           = {j \in Places(fs, "endTest") :
                j > i /\ \A k \in Places(fs, "startTest") : k > i => j < k}
  BY DEF EndsOf
<1>4. /\ EntryAfter(es, i) = IF D = {} THEN Running
                             ELSE IF es[Max(D)].ok THEN Success ELSE Failed
      /\ EntryAfter(fs, i)
           = IF EndsOf(fs, i) = {} THEN Running
             ELSE IF fs[Max(EndsOf(fs, i))].ok THEN Success ELSE Failed
  BY DEF EntryAfter
<1>5. i \in T
  OBVIOUS
<1>. HIDE DEF n, fs, T, E, D
<1>6. D \in SUBSET (1 .. n) /\ (D # {} => Max(D) \in 1 .. n)
  <2>1. D \in SUBSET (1 .. n)
    BY <1>1, <1>3
  <2>. QED  BY <1>1, <2>1, Largest
<1>7. CASE e.kind = "endTest" /\ last
  <2>1. EndsOf(fs, i) = D \cup {n + 1}
    BY <1>1, <1>2, <1>3, <1>5, <1>7
  <2>2. Max(EndsOf(fs, i)) = n + 1
    BY <1>1, <1>6, <2>1, NewMax
  <2>. QED  BY <1>2, <1>4, <1>7, <2>1, <2>2 DEF fs, T, Verdict
<1>8. CASE ~ (e.kind = "endTest" /\ last)
  <2>1. EndsOf(fs, i) = D
    <3>1. CASE e.kind = "endTest"
      <4>1. PICK k \in T : k > i
        BY <1>1, <1>5, <1>8, <3>1
      <4>2. ~ (n + 1 < k)
        BY <1>1, <4>1
      <4>. QED  BY <1>2, <1>3, <3>1, <4>1, <4>2
    <3>2. CASE e.kind = "startTest"
      <4>1. \A j \in E : j < n + 1
        BY <1>1
      <4>2. Places(fs, "endTest") = E /\ Places(fs, "startTest") = T \cup {n + 1}
        BY <1>2, <3>2
      <4>. QED  BY <1>3, <4>1, <4>2
    <3>3. CASE e.kind \notin {"startTest", "endTest"}
      <4>1. Places(fs, "endTest") = E /\ Places(fs, "startTest") = T
        BY <1>2, <3>3
      <4>. QED  BY <1>3, <4>1
    <3>. QED  BY <3>1, <3>2, <3>3
  <2>. QED  BY <1>2, <1>4, <1>6, <1>8, <2>1 DEF fs, T
<1>. QED  BY <1>7, <1>8

(* The entry of the test an event starts.                                   *)
LEMMA EntryNew ==
    ASSUME NEW es \in Seq(Events), NEW e \in Events, e.kind = "startTest"
    PROVE  EntryAfter(Append(es, e), Len(es) + 1) = Running
<1>1. Len(es) \in Nat /\ Places(es, "endTest") \subseteq 1 .. Len(es)
  BY PlacesOf
<1>2. Places(Append(es, e), "endTest") = Places(es, "endTest")
  BY OneMorePlace
<1>3. EndsOf(Append(es, e), Len(es) + 1) = {}
  BY <1>1, <1>2 DEF EndsOf
<1>. QED  BY <1>3 DEF EntryAfter

(* What the first half of a call does to the list of entries.               *)
Touched(entries, e) ==
    IF e.kind = "startTest" THEN Append(entries, Running)
    ELSE IF e.kind = "endTest" THEN [entries EXCEPT ![Len(entries)] = Verdict(e)]
    ELSE entries

(* It keeps the entries true.                                               *)
LEMMA EntriesMore ==
    ASSUME NEW es \in Seq(Events), NEW e \in Events, NEW s \in Seq(States),
           EntriesTell(s, es)
    PROVE  EntriesTell(Touched(s, e), Append(es, e)) /\ Touched(s, e) \in Seq(States)
<1> DEFINE n == Len(es)
           fs == Append(es, e)
           T == Places(es, "startTest")
           N == Number(es, "startTest")
<1>1. /\ n \in Nat /\ T \subseteq 1 .. n /\ N \in Nat /\ n + 1 \notin T
      /\ \A i \in T : Rank(es, "startTest", i) \in 1 .. N
      /\ \A i \in T : Rank(es, "startTest", i) = N <=> \A j \in T : j <= i
  <2>1. n \in Nat /\ T \subseteq 1 .. n /\ N \in Nat
    BY PlacesOf
  <2>. QED  BY <2>1, RankOf
<1>2. Len(s) = N /\ \A i \in T : s[Rank(es, "startTest", i)] = EntryAfter(es, i)
  BY DEF EntriesTell, Number
<1>3. /\ Places(fs, "startTest")
           = IF e.kind = "startTest" THEN T \cup {n + 1} ELSE T
      /\ Number(fs, "startTest") = N + One(e.kind = "startTest")
  BY OneMorePlace
<1>4. /\ \A i \in T : Rank(fs, "startTest", i) = Rank(es, "startTest", i)
      /\ e.kind = "startTest" => Rank(fs, "startTest", n + 1) = N + 1
  BY RankAfter
<1>5. \A i \in T :
        EntryAfter(fs, i) = IF e.kind = "endTest" /\ \A j \in T : j <= i
                            THEN Verdict(e) ELSE EntryAfter(es, i)
  BY EntryMore
<1>6. e.kind = "startTest" => EntryAfter(fs, n + 1) = Running
  BY EntryNew
<1>7. Verdict(e) \in States /\ Running \in States
  BY DEF Verdict, States
<1>8. ASSUME NEW t, Len(t) = Number(fs, "startTest"),
             \A i \in Places(fs, "startTest") :
                t[Rank(fs, "startTest", i)] = EntryAfter(fs, i)
      PROVE  EntriesTell(t, fs)
  BY <1>8 DEF EntriesTell, Number
<1>. HIDE DEF n, fs, T, N
<1>9. CASE e.kind = "startTest"
  <2> DEFINE t == Append(s, Running)
  <2>1. /\ t \in Seq(States) /\ Len(t) = N + 1 /\ t[N + 1] = Running
        /\ \A i \in 1 .. N : t[i] = s[i]
    BY <1>2, <1>7, AppendProperties
  <2>2. t = Touched(s, e)
    BY <1>9 DEF Touched
  <2>. HIDE DEF t
  <2>3. Len(t) = Number(fs, "startTest")
    BY <1>3, <1>9, <2>1 DEF One
  <2>4. ASSUME NEW i \in Places(fs, "startTest")
        PROVE  t[Rank(fs, "startTest", i)] = EntryAfter(fs, i)
    <3>1. CASE i \in T
      BY <1>1, <1>2, <1>4, <1>5, <1>9, <2>1, <3>1
    <3>2. CASE i = n + 1
      BY <1>4, <1>6, <1>9, <2>1, <3>2
    <3>. QED  BY <1>3, <1>9, <3>1, <3>2
  <2>. QED  BY <1>8, <2>1, <2>2, <2>3, <2>4 DEF fs
<1>10. CASE e.kind = "endTest"
  <2> DEFINE t == [s EXCEPT ![Len(s)] = Verdict(e)]
  <2>1. DOMAIN s = 1 .. N /\ \A i \in 1 .. N : s[i] \in States
    BY <1>2, LenProperties, ElementOfSeq
  <2>2. /\ DOMAIN t = 1 .. N
        /\ \A i \in 1 .. N : t[i] = IF i = N THEN Verdict(e) ELSE s[i]
    BY <1>2, <2>1
  <2>3. t \in Seq(States) /\ Len(t) = N
    <3>1. t \in [1 .. N -> States]
      BY <1>2, <1>7, <2>1
    <3>2. t \in Seq(States)
      BY <1>1, <3>1, SeqDef
    <3>. HIDE DEF t
    <3>3. Len(t) \in Nat /\ 1 .. Len(t) = 1 .. N
      BY <2>2, <3>2, LenProperties
    <3>. QED  BY <1>1, <3>2, <3>3
  <2>4. t = Touched(s, e)
    BY <1>10 DEF Touched
  <2>. HIDE DEF t
  <2>5. Len(t) = Number(fs, "startTest") /\ Places(fs, "startTest") = T
    BY <1>1, <1>3, <1>10, <2>3 DEF One
  <2>6. ASSUME NEW i \in T
        PROVE  t[Rank(fs, "startTest", i)] = EntryAfter(fs, i)
    BY <1>1, <1>2, <1>4, <1>5, <1>10, <2>2
  <2>. QED  BY <1>8, <2>3, <2>4, <2>5, <2>6 DEF fs
<1>11. CASE e.kind \notin {"startTest", "endTest"}
  <2>1. Touched(s, e) = s
    BY <1>11 DEF Touched
  <2>2. Number(fs, "startTest") = N /\ Places(fs, "startTest") = T
    BY <1>1, <1>3, <1>11 DEF One
  <2>3. EntriesTell(s, fs)
    BY <1>2, <1>4, <1>5, <1>8, <1>11, <2>2
  <2>. QED  BY <2>1, <2>3 DEF fs
<1>. QED  BY <1>9, <1>10, <1>11

(* And the verdicts, when the event, if it is of a test, finds no more      *)
(* tests ended than started, and if it is an end event one less.            *)
LEMMA VerdictsMore ==
    ASSUME NEW es \in Seq(Events), NEW e \in Events, NEW s \in Seq(States),
           Verdicts(s, es),
           e.kind \in {"startTest", "endTest"} => Number(es, "endTest") <= Len(s),
           e.kind = "endTest" => Number(es, "endTest") + 1 = Len(s)
    PROVE  Verdicts(Touched(s, e), Append(es, e))
<1> DEFINE n == Len(es)
           fs == Append(es, e)
           E == Places(es, "endTest")
           N == Number(es, "endTest")
           t == Touched(s, e)
<1>1. /\ n \in Nat /\ N \in Nat /\ E \subseteq 1 .. n
      /\ \A i \in E : Rank(es, "endTest", i) \in 1 .. N
  <2>1. n \in Nat /\ N \in Nat /\ E \subseteq 1 .. n
    BY PlacesOf
  <2>. QED  BY <2>1, RankOf
<1>2. \A i \in E : s[Rank(es, "endTest", i)] = Verdict(es[i])
  BY DEF Verdicts
<1>3. /\ Places(fs, "endTest") = IF e.kind = "endTest" THEN E \cup {n + 1} ELSE E
      /\ \A i \in 1 .. n : fs[i] = es[i]
      /\ fs[n + 1] = e
  BY OneMorePlace
<1>4. /\ \A i \in E : Rank(fs, "endTest", i) = Rank(es, "endTest", i)
      /\ e.kind = "endTest" => Rank(fs, "endTest", n + 1) = N + 1
  BY RankAfter
<1>5. Len(s) \in Nat /\ DOMAIN s = 1 .. Len(s)
  BY LenProperties
<1>6. ASSUME NEW i \in 1 .. N PROVE t[i] = s[i]
  <2>1. CASE e.kind = "startTest"
    <3>1. i \in 1 .. Len(s) /\ t = Append(s, Running)
      BY <1>1, <1>5, <2>1 DEF Touched
    <3>. HIDE DEF t
    <3>2. Running \in States
      BY Zenon DEF States
    <3>. QED  BY <3>1, <3>2, AppendProperties
  <2>2. CASE e.kind = "endTest"
    <3>1. i # Len(s) /\ i \in 1 .. Len(s)
      BY <1>1, <1>5, <2>2
    <3>2. t = [s EXCEPT ![Len(s)] = Verdict(e)]
      BY <2>2 DEF Touched
    <3>. HIDE DEF t
    <3>. QED  BY <1>5, <3>1, <3>2
  <2>3. CASE e.kind \notin {"startTest", "endTest"}
    BY <2>3 DEF Touched
  <2>. QED  BY <2>1, <2>2, <2>3
<1>7. ASSUME NEW i \in E PROVE t[Rank(fs, "endTest", i)] = Verdict(fs[i])
  <2>. HIDE DEF t, fs, n, N, E
  <2>. QED  BY <1>1, <1>2, <1>3, <1>4, <1>6
<1>8. ASSUME e.kind = "endTest"
      PROVE  t[Rank(fs, "endTest", n + 1)] = Verdict(fs[n + 1])
  <2>1. Len(s) \in DOMAIN s
    BY <1>1, <1>5, <1>8
  <2>2. t = [s EXCEPT ![Len(s)] = Verdict(e)]
    BY <1>8 DEF Touched
  <2>3. t[Len(s)] = Verdict(e)
    BY <2>1, <2>2
  <2>. HIDE DEF t, fs, n
  <2>. QED  BY <1>3, <1>4, <1>8, <2>3
<1>. HIDE DEF t, fs, n
<1>9. Verdicts(t, fs)
  BY <1>3, <1>7, <1>8 DEF Verdicts
<1>. QED  BY <1>9 DEF t, fs

-----------------------------------------------------------------------------
(* The steps.                                                               *)

(* Each part of the invariant is about some of the variables only.          *)
LEMMA Frames ==
    /\ StreamInv /\ UNCHANGED streamVars => StreamInv'
    /\ ListenerInv /\ UNCHANGED <<events, calls, log, result, testStatus, sent>>
          => ListenerInv'
    /\ ThreadInv /\ UNCHANGED <<request, uPc, life, interuptCount>> => ThreadInv'
    /\ MutexInv /\ UNCHANGED <<critical, uPc, calls>> => MutexInv'
    /\ OrderInv /\ UNCHANGED <<log, calls, sent, events>> => OrderInv'
    /\ SharedInv /\ UNCHANGED <<calls, log, sharedVars>> => SharedInv'
    /\ AnswerInv /\ UNCHANGED <<uPc, reply, suite_name, shown, log>> => AnswerInv'
    /\ CountInv /\ UNCHANGED <<events, sent, calls, log, count, scope, life>>
          => CountInv'
    /\ VerdictInv /\ UNCHANGED <<calls, testStatus, log>> => VerdictInv'
<1>1. StreamInv /\ UNCHANGED streamVars => StreamInv'
  BY DEF StreamInv, streamVars, vars
<1>2. ListenerInv /\ UNCHANGED <<events, calls, log, result, testStatus, sent>>
        => ListenerInv'
  BY DEF ListenerInv
<1>3. ThreadInv /\ UNCHANGED <<request, uPc, life, interuptCount>> => ThreadInv'
  BY DEF ThreadInv
<1>4. MutexInv /\ UNCHANGED <<critical, uPc, calls>> => MutexInv'
  BY DEF MutexInv, Active
<1>5. OrderInv /\ UNCHANGED <<log, calls, sent, events>> => OrderInv'
  BY DEF OrderInv, Same
<1>6. SharedInv /\ UNCHANGED <<calls, log, sharedVars>> => SharedInv'
  BY DEF SharedInv, HalfDone, Reflects, sharedVars
<1>7. AnswerInv /\ UNCHANGED <<uPc, reply, suite_name, shown, log>> => AnswerInv'
  BY DEF AnswerInv, AnswersAreWhole
<1>8. CountInv /\ UNCHANGED <<events, sent, calls, log, count, scope, life>>
        => CountInv'
  BY DEF CountInv, OnTheWay, InScope, Inner, One
<1>9. VerdictInv /\ UNCHANGED <<calls, testStatus, log>> => VerdictInv'
  BY DEF VerdictInv, HalfDone
<1>. QED  BY <1>1, <1>2, <1>3, <1>4, <1>5, <1>6, <1>7, <1>8, <1>9

(* What the program does to the scope: something is opened,                 *)
LEMMA Opened ==
    ASSUME StreamInv, NEW x \in Objects, ~ InScope(Tests), scope' = Append(scope, x)
    PROVE  /\ scope' \in Seq(Objects)
           /\ \A i \in Indices(scope') : i < Len(scope') => scope'[i] \notin Tests
           /\ InScope(Tests)' <=> x \in Tests
<1>1. /\ scope \in Seq(Objects) /\ Len(scope) \in Nat
      /\ \A i \in 1 .. Len(scope) : i < Len(scope) => scope[i] \notin Tests
  BY LenProperties DEF StreamInv, Indices
<1>2. /\ scope' \in Seq(Objects) /\ Len(scope') = Len(scope) + 1
      /\ \A i \in 1 .. Len(scope) : scope'[i] = scope[i]
      /\ scope'[Len(scope) + 1] = x /\ scope' # <<>>
  BY <1>1, AppendProperties
<1>3. Len(scope) > 0 => scope[Len(scope)] \notin Tests
  BY <1>1, EmptySeq DEF InScope, Inner
<1>4. ASSUME NEW i \in 1 .. Len(scope'), i < Len(scope')
      PROVE  scope'[i] \notin Tests
  BY <1>1, <1>2, <1>3, <1>4
<1>. QED  BY <1>2, <1>4 DEF InScope, Inner, Indices

(* or what was opened last is closed.                                       *)
LEMMA Closed ==
    ASSUME StreamInv, scope # <<>>, Close
    PROVE  /\ scope' \in Seq(Objects)
           /\ \A i \in Indices(scope') : i < Len(scope') => scope'[i] \notin Tests
           /\ ~ InScope(Tests)'
<1>1. /\ scope \in Seq(Objects) /\ Len(scope) \in Nat /\ Len(scope) # 0
      /\ \A i \in 1 .. Len(scope) : scope[i] \in Objects
      /\ \A i \in 1 .. Len(scope) : i < Len(scope) => scope[i] \notin Tests
  BY LenProperties, ElementOfSeq, EmptySeq DEF StreamInv, Indices
<1>2. /\ scope' \in Seq(Objects) /\ Len(scope') = Len(scope) - 1
      /\ \A i \in 1 .. Len(scope) - 1 : scope'[i] = scope[i]
  <2>1. \A i \in 1 .. Len(scope) - 1 : scope[i] \in Objects
    BY <1>1
  <2> DEFINE m == Len(scope) - 1
             r == SubSeq(scope, 1, m)
  <2>2. m \in Nat
    BY <1>1
  <2>. HIDE DEF m
  <2>3. /\ r \in Seq(Objects) /\ Len(r) = IF 1 <= m THEN m - 1 + 1 ELSE 0
        /\ \A i \in 1 .. m - 1 + 1 : r[i] = scope[1 + i - 1]
    BY <2>1, <2>2, SubSeqProperties DEF m
  <2>. HIDE DEF r
  <2>4. r \in Seq(Objects) /\ Len(r) = m /\ \A i \in 1 .. m : r[i] = scope[i]
    BY <2>2, <2>3
  <2>. QED  BY <2>4 DEF Close, m, r
<1>3. \A i \in Indices(scope') : scope'[i] \notin Tests
  BY <1>1, <1>2 DEF Indices
<1>4. scope' # <<>> => Len(scope') \in Indices(scope')
  BY <1>1, <1>2, EmptySeq DEF Indices
<1>. QED  BY <1>2, <1>3, <1>4 DEF InScope, Inner

(* The counters.                                                            *)
LEMMA Counted ==
    ASSUME StreamInv, NEW C, Add(C)
    PROVE  /\ count' \in [Counts -> Nat]
           /\ \A c \in Counts \ C : count'[c] = count[c]
           /\ \A c \in Counts \cap C : count'[c] = count[c] + 1
<1>1. count \in [Counts -> Nat]
  BY DEF StreamInv
<1>2. count' = [c \in Counts |-> count[c] + IF c \in C THEN 1 ELSE 0]
  BY DEF Add
<1>. QED  BY <1>1, <1>2

(* The events.                                                              *)
LEMMA EmitOne ==
    ASSUME StreamInv, NEW e \in Events, Emit(<<e>>)
    PROVE  events' = Append(events, e) /\ events' \in Seq(Events)
<1>1. events \in Seq(Events)
  BY DEF StreamInv
<1>. QED  BY <1>1, AppendIsConcat, AppendProperties DEF Emit

(* A step of the program sends at most one event, the tests' own with the   *)
(* counter or the scope that tell of them, unless it is a handled crash.    *)
Sends(e) == e \in Events /\ events' = Append(events, e)
NothingOfTests ==
    /\ events' = events \/ \E e : Sends(e) /\ e.kind \notin {"startTest", "endTest"}
    /\ InScope(Tests)' <=> InScope(Tests)
    /\ count'["nTests"] = count["nTests"]
TestBegins ==
    /\ \E e : Sends(e) /\ e.kind = "startTest"
    /\ ~ InScope(Tests) /\ InScope(Tests)'
    /\ count'["nTests"] = count["nTests"] + 1
TestIsOver ==
    /\ \E e : Sends(e) /\ e.kind = "endTest"
    /\ InScope(Tests) /\ ~ InScope(Tests)'
    /\ count'["nTests"] = count["nTests"]
NoCrash ==
    /\ count'["extra"] = count["extra"]
    /\ NothingOfTests \/ TestBegins \/ TestIsOver

LEMMA ProgramMoves ==
    ASSUME StreamInv, StreamStep
    PROVE  /\ StreamInv'
           /\ \E es \in Seq(Events) : events' = events \o es
           /\ NoCrash \/ count'["extra"] # 0
<1> DEFINE Grows == \E es \in Seq(Events) : events' = events \o es
           Goal == StreamInv' /\ Grows /\ (NoCrash \/ count'["extra"] # 0)
<1>1. /\ events \in Seq(Events) /\ scope \in Seq(Objects)
      /\ count \in [Counts -> Nat] /\ testClean \in BOOLEAN
      /\ \A i \in Indices(scope) : i < Len(scope) => scope[i] \notin Tests
  BY DEF StreamInv
<1>2. scope # <<>> => Inner \in Objects
  <2>1. scope # <<>> => Len(scope) \in 1 .. Len(scope)
    BY <1>1, LenProperties, EmptySeq
  <2>. QED  BY <1>1, <2>1, ElementOfSeq DEF Inner
<1>3. /\ Tests \cap Suites = {} /\ Runner \notin Tests \cup Suites
      /\ LastConstructed \in Tests /\ Kinds \subseteq {"report", "failure", "error"}
  BY StreamConstants
<1>4. {"nTests", "extra"} \subseteq Counts
  BY DEF Counts
<1>5. ASSUME NEW e \in Events, events' = Append(events, e)
      PROVE  Grows
  <2>1. <<e>> \in Seq(Events) /\ events' = events \o <<e>>
    BY <1>1, <1>5, AppendIsConcat
  <2>. QED  BY <2>1
<1>6. ASSUME events' = events PROVE Grows
  BY <1>1, <1>6, ConcatEmptySeq, EmptySeq
<1>7. ASSUME events' \in Seq(Events), scope' \in Seq(Objects),
             count' \in [Counts -> Nat], testClean' \in BOOLEAN,
             \A i \in Indices(scope') : i < Len(scope') => scope'[i] \notin Tests
      PROVE  StreamInv'
  BY <1>7 DEF StreamInv, Indices
<1>8. ASSUME UNCHANGED scope
      PROVE  /\ scope' \in Seq(Objects)
             /\ \A i \in Indices(scope') : i < Len(scope') => scope'[i] \notin Tests
             /\ InScope(Tests)' <=> InScope(Tests)
  BY <1>1, <1>8 DEF InScope, Inner
<1>9. /\ \A kind \in EventKinds, x \in Objects, ok \in BOOLEAN :
           Event(kind, x, ok) \in Events /\ Event(kind, x, ok).kind = kind
      /\ \A kind \in EventKinds, x \in Objects :
           Happened(kind, x) \in Events /\ Happened(kind, x).kind = kind
  BY DEF Event, Happened, Events
<1>10. Runner \in Objects /\ Tests \subseteq Objects /\ Suites \subseteq Objects
  BY DEF Objects
<1>. HIDE DEF Grows
<1>11. CASE RunnerStarts
  <2> DEFINE e == Happened("startRunner", Runner)
  <2>1. e \in Events /\ e.kind = "startRunner"
    BY <1>9, <1>10 DEF EventKinds
  <2>2. Emit(<<e>>) /\ ~ InScope(Tests) /\ scope' = <<Runner>> /\ scope = <<>>
        /\ UNCHANGED <<testClean, count>>
    BY <1>11 DEF RunnerStarts, StartRunner, InScope
  <2>. HIDE DEF e
  <2>3. scope' = Append(scope, Runner)
    BY <2>2
  <2>4. events' = Append(events, e) /\ events' \in Seq(Events)
    BY <2>1, <2>2, EmitOne
  <2>5. /\ scope' \in Seq(Objects)
        /\ \A i \in Indices(scope') : i < Len(scope') => scope'[i] \notin Tests
        /\ ~ InScope(Tests)'
    BY <1>3, <1>10, <2>2, <2>3, Opened
  <2>6. StreamInv' /\ Grows
    BY <1>1, <1>5, <1>7, <2>1, <2>2, <2>4, <2>5
  <2>7. NoCrash
    BY <2>1, <2>2, <2>4, <2>5 DEF NoCrash, NothingOfTests, Sends
  <2>. QED  BY <2>6, <2>7 DEF Grows
<1>12. CASE RunnerEnds
  <2> DEFINE e == Happened("endRunner", Runner)
  <2>1. e \in Events /\ e.kind = "endRunner"
    BY <1>9, <1>10 DEF EventKinds
  <2>2. Emit(<<e>>) /\ ~ InScope(Tests) /\ Close /\ scope # <<>>
        /\ UNCHANGED <<testClean, count>>
    BY <1>3, <1>12 DEF RunnerEnds, EndRunner, InScope
  <2>. HIDE DEF e
  <2>4. events' = Append(events, e) /\ events' \in Seq(Events)
    BY <2>1, <2>2, EmitOne
  <2>5. /\ scope' \in Seq(Objects)
        /\ \A i \in Indices(scope') : i < Len(scope') => scope'[i] \notin Tests
        /\ ~ InScope(Tests)'
    BY <2>2, Closed
  <2>6. StreamInv' /\ Grows
    BY <1>1, <1>5, <1>7, <2>1, <2>2, <2>4, <2>5
  <2>7. NoCrash
    BY <2>1, <2>2, <2>4, <2>5 DEF NoCrash, NothingOfTests, Sends
  <2>. QED  BY <2>6, <2>7 DEF Grows
<1>13. CASE ProgramExits
  <2>1. UNCHANGED <<events, scope, testClean, count>>
    BY <1>13 DEF ProgramExits, Exit
  <2>2. StreamInv' /\ Grows
    BY <1>1, <1>6, <1>7, <1>8, <2>1
  <2>3. NoCrash
    BY <1>8, <2>1 DEF NoCrash, NothingOfTests
  <2>. QED  BY <2>2, <2>3 DEF Grows
<1>14. CASE \E s \in Suites : SuiteStarts(s)
  <2>1. PICK s \in Suites : SuiteStarts(s)
    BY <1>14
  <2> DEFINE e == Happened("startSuite", s)
  <2>2. e \in Events /\ e.kind = "startSuite"
    BY <1>9, <1>10 DEF EventKinds
  <2>3. Emit(<<e>>) /\ ~ InScope(Tests) /\ scope' = Append(scope, s)
        /\ Add({"nTestSuites"}) /\ UNCHANGED testClean
    BY <1>3, <2>1 DEF SuiteStarts, StartSuite, InScope
  <2>. HIDE DEF e
  <2>4. events' = Append(events, e) /\ events' \in Seq(Events)
    BY <2>2, <2>3, EmitOne
  <2>5. /\ scope' \in Seq(Objects)
        /\ \A i \in Indices(scope') : i < Len(scope') => scope'[i] \notin Tests
        /\ ~ InScope(Tests)'
    BY <1>3, <1>10, <2>3, Opened
  <2>6. /\ count' \in [Counts -> Nat] /\ count'["extra"] = count["extra"]
        /\ count'["nTests"] = count["nTests"]
    BY <1>4, <2>3, Counted
  <2>7. StreamInv' /\ Grows
    BY <1>1, <1>5, <1>7, <2>2, <2>3, <2>4, <2>5, <2>6
  <2>8. NoCrash
    BY <2>2, <2>3, <2>4, <2>5, <2>6 DEF NoCrash, NothingOfTests, Sends
  <2>. QED  BY <2>7, <2>8 DEF Grows
<1>15. CASE \E t \in Tests : TestStarts(t)
  <2>1. PICK t \in Tests : TestStarts(t)
    BY <1>15
  <2> DEFINE e == Happened("startTest", t)
  <2>2. e \in Events /\ e.kind = "startTest"
    BY <1>9, <1>10 DEF EventKinds
  <2>3. Emit(<<e>>) /\ ~ InScope(Tests) /\ scope' = Append(scope, t)
        /\ Add({"nTests"}) /\ testClean' = TRUE
    BY <1>3, <2>1 DEF TestStarts, StartTest, InScope
  <2>. HIDE DEF e
  <2>4. events' = Append(events, e) /\ events' \in Seq(Events)
    BY <2>2, <2>3, EmitOne
  <2>5. /\ scope' \in Seq(Objects)
        /\ \A i \in Indices(scope') : i < Len(scope') => scope'[i] \notin Tests
        /\ InScope(Tests)'
    BY <1>10, <2>3, Opened
  <2>6. /\ count' \in [Counts -> Nat] /\ count'["extra"] = count["extra"]
        /\ count'["nTests"] = count["nTests"] + 1
    BY <1>4, <2>3, Counted
  <2>7. StreamInv' /\ Grows
    BY <1>5, <1>7, <2>2, <2>3, <2>4, <2>5, <2>6
  <2>8. NoCrash
    BY <2>2, <2>3, <2>4, <2>5, <2>6 DEF NoCrash, TestBegins, Sends
  <2>. QED  BY <2>7, <2>8 DEF Grows
<1>16. CASE TestEnds
  <2> DEFINE e == Event("endTest", Inner, testClean)
  <2>1. Emit(<<e>>) /\ InScope(Tests) /\ scope # <<>> /\ Close
        /\ Add({TestVerdict(testClean)}) /\ testClean' = TRUE
    BY <1>16 DEF TestEnds, EndTest, InScope
  <2>2. e \in Events /\ e.kind = "endTest"
    BY <1>1, <1>2, <1>9, <2>1 DEF EventKinds
  <2>. HIDE DEF e
  <2>4. events' = Append(events, e) /\ events' \in Seq(Events)
    BY <2>1, <2>2, EmitOne
  <2>5. /\ scope' \in Seq(Objects)
        /\ \A i \in Indices(scope') : i < Len(scope') => scope'[i] \notin Tests
        /\ ~ InScope(Tests)'
    BY <2>1, Closed
  <2>6. /\ count' \in [Counts -> Nat] /\ count'["extra"] = count["extra"]
        /\ count'["nTests"] = count["nTests"]
    <3>1. TestVerdict(testClean) \in {"nPasses", "nFailures"}
      BY DEF TestVerdict
    <3>. QED  BY <1>4, <2>1, <3>1, Counted
  <2>7. StreamInv' /\ Grows
    BY <1>5, <1>7, <2>1, <2>2, <2>4, <2>5, <2>6
  <2>8. NoCrash
    BY <2>1, <2>2, <2>4, <2>5, <2>6 DEF NoCrash, TestIsOver, Sends
  <2>. QED  BY <2>7, <2>8 DEF Grows
<1>17. CASE \E ok \in BOOLEAN : SuiteEnds(ok)
  <2>1. PICK ok \in BOOLEAN : SuiteEnds(ok)
    BY <1>17
  <2> DEFINE e == Event("endSuite", Inner, ok)
             c0 == IF ok THEN "nSuitePasses" ELSE "nSuiteFailures"
  <2>2. Emit(<<e>>) /\ ~ InScope(Tests) /\ scope # <<>> /\ Close
        /\ Add({c0}) /\ UNCHANGED testClean
    BY <1>3, <2>1 DEF SuiteEnds, EndSuite, InScope
  <2>3. e \in Events /\ e.kind = "endSuite"
    BY <1>2, <1>9, <2>2 DEF EventKinds
  <2>4. c0 \in {"nSuitePasses", "nSuiteFailures"}
    OBVIOUS
  <2>. HIDE DEF e, c0
  <2>5. events' = Append(events, e) /\ events' \in Seq(Events)
    BY <2>2, <2>3, EmitOne
  <2>6. /\ scope' \in Seq(Objects)
        /\ \A i \in Indices(scope') : i < Len(scope') => scope'[i] \notin Tests
        /\ ~ InScope(Tests)'
    BY <2>2, Closed
  <2>7. /\ count' \in [Counts -> Nat] /\ count'["extra"] = count["extra"]
        /\ count'["nTests"] = count["nTests"]
    BY <1>4, <2>2, <2>4, Counted
  <2>8. StreamInv' /\ Grows
    BY <1>1, <1>5, <1>7, <2>2, <2>3, <2>5, <2>6, <2>7
  <2>9. NoCrash
    BY <2>2, <2>3, <2>5, <2>6, <2>7 DEF NoCrash, NothingOfTests, Sends
  <2>. QED  BY <2>8, <2>9 DEF Grows
<1>18. ASSUME NEW kind \in {"report", "failure", "error"},
              Emit(<<Happened(kind, Inner)>>), scope # <<>>,
              testClean' \in BOOLEAN, UNCHANGED <<scope, count>>
       PROVE  Goal
  <2> DEFINE e == Happened(kind, Inner)
  <2>1. e \in Events /\ e.kind = kind
    BY <1>2, <1>9, <1>18 DEF EventKinds
  <2>2. Emit(<<e>>)
    BY <1>18
  <2>. HIDE DEF e
  <2>3. events' = Append(events, e) /\ events' \in Seq(Events)
    BY <2>1, <2>2, EmitOne
  <2>4. StreamInv' /\ Grows
    BY <1>1, <1>5, <1>7, <1>8, <1>18, <2>1, <2>3
  <2>5. kind \notin {"startTest", "endTest"}
    OBVIOUS
  <2>6. NoCrash
    BY <1>8, <1>18, <2>1, <2>3, <2>5 DEF NoCrash, NothingOfTests, Sends
  <2>. QED  BY <2>4, <2>6 DEF Grows
<1>19. CASE \E kind \in Kinds \cap Bad : BadNewsArrives(kind)
  <2>1. PICK kind \in Kinds \cap Bad : BadNewsArrives(kind)
    BY <1>19
  <2>2. /\ Emit(<<Happened(kind, Inner)>>) /\ scope # <<>>
        /\ testClean' \in BOOLEAN /\ UNCHANGED <<scope, count>>
    BY <1>1, <2>1 DEF BadNewsArrives, BadNews, Trouble, InScope
  <2>3. kind \in {"report", "failure", "error"}
    BY <1>3
  <2>. QED  BY <1>18, <2>2, <2>3 DEF Grows
<1>20. CASE ReportArrives
  <2>1. /\ Emit(<<Happened("report", Inner)>>) /\ scope # <<>>
        /\ testClean' \in BOOLEAN /\ UNCHANGED <<scope, count>>
    BY <1>1, <1>20 DEF ReportArrives, InScope, vars
  <2>. QED  BY <1>18, <2>1 DEF Grows
<1>21. CASE CrashArrives
  <2> DEFINE x == LastConstructed
             ok == IF x = Inner THEN testClean ELSE Succeeded(events, x)
             es == <<Happened("error", x), Event("endTest", x, ok),
                     Happened("error", Inner)>>
  <2>1. Crash(ok) /\ Emit(es)
    BY <1>21 DEF CrashArrives
  <2>2. Succeeded(events, x) \in BOOLEAN
    BY DEF Succeeded
  <2>3. ok \in BOOLEAN
    BY <1>1, <2>2
  <2>. HIDE DEF ok
  <2>4. /\ scope # <<>> /\ UNCHANGED scope /\ testClean' \in BOOLEAN
        /\ Add({"extra", TestVerdict(ok)})
    BY <1>1, <2>1 DEF Crash, Trouble, InScope
  <2>5. es \in Seq(Events)
    <3>1. /\ Happened("error", x) \in Events /\ Event("endTest", x, ok) \in Events
          /\ Happened("error", Inner) \in Events
      BY <1>2, <1>3, <1>9, <1>10, <2>3, <2>4 DEF EventKinds
    <3>. QED  BY <3>1
  <2>. HIDE DEF es
  <2>6. events' = events \o es /\ events' \in Seq(Events)
    BY <1>1, <2>1, <2>5, ConcatProperties DEF Emit
  <2>7. count' \in [Counts -> Nat] /\ count'["extra"] = count["extra"] + 1
    BY <1>4, <2>4, Counted
  <2>8. count["extra"] \in Nat
    BY <1>1, <1>4
  <2>9. StreamInv' /\ Grows
    BY <1>7, <1>8, <2>4, <2>5, <2>6, <2>7 DEF Grows
  <2>. QED  BY <2>7, <2>8, <2>9 DEF Grows
<1>. QED
  BY <1>11, <1>12, <1>13, <1>14, <1>15, <1>16, <1>17, <1>19, <1>20, <1>21
     DEF StreamStep, Grows

(* A member of a list is in one of its places.                              *)
LEMMA InRange ==
    ASSUME NEW S, NEW s \in Seq(S)
    PROVE  /\ \A i \in Indices(s) : s[i] \in Range(s)
           /\ \A x \in Range(s) : \E i \in Indices(s) : s[i] = x
           /\ Len(s) \in Nat /\ DOMAIN s = Indices(s)
           /\ \A i \in Indices(s) : s[i] \in S
<1>1. /\ Len(s) \in Nat /\ DOMAIN s = Indices(s)
      /\ \A i \in Indices(s) : s[i] \in S
  BY LenProperties, ElementOfSeq DEF Indices
<1>. QED  BY <1>1 DEF Range

(* A longer list of events still has the events it had, where they were.    *)
LEMMA Longer ==
    ASSUME NEW es \in Seq(Events), NEW gs \in Seq(Events)
    PROVE  /\ es \o gs \in Seq(Events) /\ Len(es \o gs) >= Len(es)
           /\ \A i \in Indices(es) : (es \o gs)[i] = es[i]
           /\ Range(es) \subseteq Range(es \o gs)
<1> DEFINE fs == es \o gs
<1>1. /\ fs \in Seq(Events) /\ Len(fs) = Len(es) + Len(gs)
      /\ \A i \in 1 .. Len(es) + Len(gs) :
            fs[i] = IF i <= Len(es) THEN es[i] ELSE gs[i - Len(es)]
  BY ConcatProperties
<1>2. Len(es) \in Nat /\ Len(gs) \in Nat
  BY LenProperties
<1>. HIDE DEF fs
<1>3. \A i \in Indices(es) : i \in Indices(fs) /\ fs[i] = es[i]
  BY <1>1, <1>2 DEF Indices
<1>4. ASSUME NEW x \in Range(es) PROVE x \in Range(fs)
  <2>1. PICK i \in Indices(es) : es[i] = x
    BY InRange
  <2>2. i \in Indices(fs) /\ fs[i] = x
    BY <1>3, <2>1
  <2>. QED  BY <1>1, <2>2, InRange
<1>5. fs \in Seq(Events) /\ Len(fs) >= Len(es)
  BY <1>1, <1>2
<1>. QED  BY <1>3, <1>4, <1>5 DEF fs

(* Nothing the listener has heard of is lost when the events are more.      *)
LEMMA ListenerGrows ==
    ASSUME ListenerInv, UNCHANGED <<calls, log, result, testStatus>>,
           Range(events) \subseteq Range(events'), sent' \in 0 .. Len(events')
    PROVE  ListenerInv'
<1>1. /\ \A i \in Indices(log') : log'[i] \in Range(events')
      /\ \A k \in Indices(calls') : calls'[k].ev \in Range(events')
      /\ \A i \in Indices(result') : result'[i] \in Range(events')
  BY DEF ListenerInv, Indices
<1>. QED  BY <1>1 DEF ListenerInv, Indices

(* The counters' part, from its conjuncts.                                  *)
LEMMA CountsAgree ==
    ASSUME Len(events') <= sent' + 1,
           calls' # <<>> /\ calls'[1].ev.kind # "report" => sent' = Len(events'),
           Number(log', "startTest") + One(OnTheWay("startTest")') = count'["nTests"],
           life' = "running" =>
             /\ Number(log', "endTest") + One(OnTheWay("endTest")')
                   + One(InScope(Tests)') = count'["nTests"]
             /\ OnTheWay("endTest")' => ~ InScope(Tests)'
             /\ OnTheWay("startTest")' => InScope(Tests)'
    PROVE  CountInv'
BY DEF CountInv, One

(* A step of the program.                                                   *)
LEMMA StepProgram ==
    ASSUME WebInv, ProgramStep
    PROVE  WebInv'
<1>1. /\ StreamInv /\ ListenerInv /\ ThreadInv /\ MutexInv
      /\ OrderInv /\ SharedInv /\ AnswerInv
      /\ count["extra"] = 0 => CountInv /\ VerdictInv
  BY DEF WebInv
<1>2. /\ life = "running" /\ calls = <<>> /\ sent = Len(events) /\ StreamStep
      /\ UNCHANGED <<sent, calls, log, critical, result, suite_name, suite_size,
                     testStatus, request, uPc, reply, shown, asked,
                     interuptCount, life>>
  BY DEF ProgramStep, Quiet, mainVars, sharedVars, updaterVars, endVars
<1>3. /\ StreamInv'
      /\ \E es \in Seq(Events) : events' = events \o es
      /\ NoCrash \/ count'["extra"] # 0
  BY <1>1, <1>2, ProgramMoves
<1>4. /\ events \in Seq(Events) /\ events' \in Seq(Events)
      /\ Len(events) \in Nat /\ Len(events') \in Nat /\ Len(events') >= Len(events)
      /\ \A i \in Indices(events) : events'[i] = events[i]
      /\ Range(events) \subseteq Range(events')
  <2>1. PICK es \in Seq(Events) : events' = events \o es
    BY <1>3
  <2>2. events \in Seq(Events)
    BY <1>1 DEF StreamInv
  <2>. QED  BY <2>1, <2>2, Longer, LenProperties
<1>5. ListenerInv'
  BY <1>1, <1>2, <1>4, ListenerGrows
<1>6. ThreadInv' /\ MutexInv' /\ SharedInv' /\ AnswerInv'
  BY <1>1, <1>2, Frames DEF sharedVars
<1>7. OrderInv'
  <2>1. /\ Len(log) + Len(calls) = sent /\ Indices(calls) = {} /\ Len(calls) = 0
        /\ \A i \in Indices(log) : Same(log[i], events[i])
        /\ Len(log) \in Nat
    BY <1>1, <1>2, EmptySeq, LenProperties DEF OrderInv, ListenerInv, Indices
  <2>2. \A i \in Indices(log) : i \in Indices(events)
    BY <1>2, <1>4, <2>1 DEF Indices
  <2>3. \A i \in Indices(log) : Same(log[i], events'[i])
    BY <1>4, <2>1, <2>2 DEF Same
  <2>4. log' = log /\ calls' = calls /\ sent' = sent
    BY <1>2
  <2>5. \A i \in Indices(log') : Same(log'[i], events'[i])
    BY <2>3, <2>4 DEF Indices
  <2>6. Len(log') + Len(calls') = sent' /\ Indices(calls') = {}
    BY <2>1, <2>4 DEF Indices
  <2>. QED  BY <2>5, <2>6 DEF OrderInv, Same, Indices
<1>8. ASSUME count'["extra"] = 0 PROVE CountInv' /\ VerdictInv'
  <2>1. NoCrash /\ CountInv /\ VerdictInv
    BY <1>1, <1>3, <1>8 DEF NoCrash
  <2>2. VerdictInv'
    BY <1>2, <2>1, Frames
  <2>3. \A kind : ~ OnTheWay(kind)
    BY <1>2, <1>4 DEF OnTheWay, Indices
  <2>4. /\ Number(log, "startTest") + One(OnTheWay("startTest")) = count["nTests"]
        /\ Number(log, "endTest") + One(OnTheWay("endTest"))
               + One(InScope(Tests)) = count["nTests"]
    BY <1>2, <2>1 DEF CountInv
  <2>5. Number(log, "startTest") \in Nat /\ Number(log, "endTest") \in Nat
    BY <1>1, PlacesOf DEF ListenerInv
  <2>6. /\ Number(log, "startTest") = count["nTests"]
        /\ Number(log, "endTest") + One(InScope(Tests)) = count["nTests"]
    BY <2>3, <2>4, <2>5 DEF One
  <2>7. ASSUME NEW e \in Events, events' = Append(events, e)
        PROVE  /\ Len(events') <= sent' + 1
               /\ \A kind : OnTheWay(kind)' <=> e.kind = kind
    <3>1. Len(events') = Len(events) + 1 /\ events'[Len(events) + 1] = e
      BY <1>4, <2>7, AppendProperties
    <3>. QED  BY <1>2, <1>4, <3>1 DEF OnTheWay, Indices
  <2>8. ASSUME events' = events
        PROVE  /\ Len(events') = sent'
               /\ \A kind : ~ OnTheWay(kind)'
    BY <1>2, <1>4, <2>8 DEF OnTheWay, Indices
  <2>9. calls' = <<>> /\ log' = log /\ sent' \in Nat
    BY <1>2, <1>4
  <2>10. CASE NothingOfTests
    <3>1. /\ Len(events') <= sent' + 1
          /\ ~ OnTheWay("startTest")' /\ ~ OnTheWay("endTest")'
      <4>1. CASE events' = events
        BY <2>8, <2>9, <4>1
      <4>2. CASE events' # events
        <5>1. PICK e \in Events : /\ events' = Append(events, e)
                                  /\ e.kind \notin {"startTest", "endTest"}
          BY <2>10, <4>2 DEF NothingOfTests, Sends
        <5>2. /\ Len(events') <= sent' + 1
              /\ OnTheWay("startTest")' <=> e.kind = "startTest"
              /\ OnTheWay("endTest")' <=> e.kind = "endTest"
          BY <2>7, <5>1
        <5>3. e.kind # "startTest" /\ e.kind # "endTest"
          BY <5>1
        <5>4. ~ OnTheWay("startTest")' /\ ~ OnTheWay("endTest")'
          BY <5>2, <5>3
        <5>. QED  BY <5>2, <5>4
      <4>. QED  BY <4>1, <4>2
    <3>. QED
      BY <2>5, <2>6, <2>9, <2>10, <3>1, CountsAgree, <2>2 DEF One, NothingOfTests
  <2>11. CASE TestBegins
    <3>1. /\ Len(events') <= sent' + 1
          /\ OnTheWay("startTest")' /\ ~ OnTheWay("endTest")'
      BY <2>7, <2>9, <2>11 DEF TestBegins, Sends
    <3>. QED
      BY <2>5, <2>6, <2>9, <2>11, <3>1, CountsAgree, <2>2 DEF One, TestBegins
  <2>12. CASE TestIsOver
    <3>1. /\ Len(events') <= sent' + 1
          /\ ~ OnTheWay("startTest")' /\ OnTheWay("endTest")'
      BY <2>7, <2>9, <2>12 DEF TestIsOver, Sends
    <3>. QED
      BY <2>5, <2>6, <2>9, <2>12, <3>1, CountsAgree, <2>2 DEF One, TestIsOver
  <2>. QED  BY <2>1, <2>10, <2>11, <2>12 DEF NoCrash
<1>. QED  BY <1>3, <1>5, <1>6, <1>7, <1>8 DEF WebInv

(* A call's place among the open calls, and what Goes does.                 *)
LEMMA CallsGo ==
    ASSUME ListenerInv, NEW at \in {"lock", "first", "second"}, calls # <<>>, Goes(at)
    PROVE  /\ calls' \in Seq(Calls) /\ Len(calls') = Len(calls)
           /\ Len(calls) \in Indices(calls) /\ calls' # <<>>
           /\ calls'[Len(calls)].at = at
           /\ \A k \in Indices(calls) :
                 /\ calls'[k].ev = calls[k].ev
                 /\ k # Len(calls) => calls'[k] = calls[k]
           /\ \A k \in Indices(calls) : calls[k].ev \in Events
<1>1. /\ calls \in Seq(Calls) /\ Len(calls) \in Nat /\ Len(calls) # 0
      /\ DOMAIN calls = Indices(calls) /\ \A k \in Indices(calls) : calls[k] \in Calls
  BY InRange, EmptySeq DEF ListenerInv
<1>2. Len(calls) \in Indices(calls)
  BY <1>1 DEF Indices
<1> DEFINE c == [calls[Len(calls)] EXCEPT !.at = at]
<1>3. /\ c \in Calls /\ c.at = at /\ c.ev = calls[Len(calls)].ev
  BY <1>1, <1>2 DEF Calls
<1>4. calls' = [calls EXCEPT ![Len(calls)] = c]
  BY DEF Goes
<1>. HIDE DEF c
<1>5. calls' \in Seq(Calls) /\ Len(calls') = Len(calls)
  BY <1>1, <1>2, <1>3, <1>4, ExceptSeq DEF Indices
<1>6. calls' # <<>>
  BY <1>1, <1>5, EmptySeq
<1>7. \A k \in Indices(calls) :
        calls'[k] = IF k = Len(calls) THEN c ELSE calls[k]
  BY <1>1, <1>4
<1>8. \A k \in Indices(calls) : calls[k].ev \in Events
  BY <1>1 DEF Calls
<1>. QED  BY <1>2, <1>3, <1>5, <1>6, <1>7, <1>8

(* The lists stay what they are while no call goes over its half.           *)
LEMMA HalvesKept ==
    ASSUME UNCHANGED <<log, sharedVars>>, HalfDone' = HalfDone,
           \A k \in HalfDone : calls'[k].ev = calls[k].ev
    PROVE  (SharedInv => SharedInv') /\ (VerdictInv => VerdictInv')
<1>1. /\ log' = log /\ result' = result /\ suite_name' = suite_name
      /\ testStatus' = testStatus /\ suite_size' = suite_size
  BY DEF sharedVars
<1>2. SharedInv => SharedInv'
  BY <1>1 DEF SharedInv, Reflects
<1>3. VerdictInv => VerdictInv'
  BY <1>1 DEF VerdictInv
<1>. QED  BY <1>2, <1>3

(* The main thread passes the next event on.                                *)
LEMMA StepDeliver ==
    ASSUME WebInv, Deliver
    PROVE  WebInv'
<1>1. /\ StreamInv /\ ListenerInv /\ ThreadInv /\ MutexInv
      /\ OrderInv /\ SharedInv /\ AnswerInv
      /\ count["extra"] = 0 => CountInv /\ VerdictInv
  BY DEF WebInv
<1> DEFINE c == [ev |-> events[sent + 1], at |-> "first"]
<1>2. /\ life = "running" /\ calls = <<>> /\ sent < Len(events)
      /\ critical = Nobody /\ critical' = "main" /\ sent' = sent + 1
      /\ calls' = <<c>>
      /\ UNCHANGED <<streamVars, log, sharedVars, updaterVars, endVars>>
  BY DEF Deliver, Lock
<1>3. /\ UNCHANGED <<events, scope, count, testClean, status, suiteClean>>
      /\ UNCHANGED <<result, suite_name, suite_size, testStatus>>
      /\ UNCHANGED <<request, uPc, reply, shown, interuptCount, life>>
  BY <1>2 DEF streamVars, vars, sharedVars, updaterVars, endVars
<1>4. /\ events \in Seq(Events) /\ Len(events) \in Nat /\ sent \in Nat
      /\ sent + 1 \in Indices(events)
      /\ events[sent + 1] \in Range(events) /\ events[sent + 1] \in Events
  <2>1. events \in Seq(Events) /\ Len(events) \in Nat /\ sent \in Nat
    BY <1>1, InRange DEF StreamInv, ListenerInv
  <2>2. sent + 1 \in Indices(events)
    BY <1>2, <2>1 DEF Indices
  <2>. QED  BY <2>1, <2>2, InRange
<1>5. c \in Calls /\ c.ev = events[sent + 1] /\ c.at = "first"
  BY <1>4 DEF Calls
<1>. HIDE DEF c
<1>6. /\ calls' \in Seq(Calls) /\ Len(calls') = 1 /\ calls'[1] = c
      /\ Indices(calls') = {1} /\ Indices(calls) = {} /\ Len(calls) = 0
  BY <1>2, <1>5 DEF Indices
<1>7. StreamInv' /\ ThreadInv' /\ AnswerInv'
  BY <1>1, <1>2, <1>3, Frames
<1>8. ListenerInv'
  <2>1. sent' \in 0 .. Len(events')
    BY <1>2, <1>3, <1>4
  <2>2. \A k \in Indices(calls') : calls'[k].ev \in Range(events')
    BY <1>3, <1>4, <1>5, <1>6
  <2>. QED  BY <1>1, <1>2, <1>3, <1>6, <2>1, <2>2 DEF ListenerInv, Indices
<1>9. MutexInv'
  <2>1. Active' = {1}
    BY <1>5, <1>6 DEF Active
  <2>2. uPc \notin {"copy", "unlock"}
    BY <1>1, <1>2, WebConstants DEF MutexInv
  <2>. QED  BY <1>2, <1>3, <2>1, <2>2 DEF MutexInv
<1>10. OrderInv'
  <2>1. Len(log) + Len(calls) = sent /\ \A i \in Indices(log) : Same(log[i], events[i])
    BY <1>1 DEF OrderInv
  <2>2. Len(log) \in Nat
    BY <1>1, LenProperties DEF ListenerInv
  <2>3. Len(log') + Len(calls') = sent' /\ Len(log) = sent
    BY <1>2, <1>6, <2>1, <2>2
  <2>4. \A k \in Indices(calls') :
          /\ Same(calls'[k].ev, events'[Len(log') + k])
          /\ ~ (k > 1) /\ calls'[k].at # "lock"
    BY <1>2, <1>3, <1>5, <1>6, <2>3 DEF Same
  <2>5. \A i \in Indices(log') : Same(log'[i], events'[i])
    BY <1>2, <1>3, <2>1 DEF Indices, Same
  <2>. QED  BY <2>3, <2>4, <2>5 DEF OrderInv, Same, Indices
<1>11. HalfDone = {} /\ HalfDone' = {}
  BY <1>5, <1>6 DEF HalfDone
<1>12. SharedInv'
  BY <1>1, <1>2, <1>11, HalvesKept
<1>13. ASSUME count'["extra"] = 0 PROVE CountInv' /\ VerdictInv'
  <2>1. CountInv /\ VerdictInv
    BY <1>1, <1>3, <1>13
  <2>2. VerdictInv'
    BY <1>2, <1>11, <2>1, HalvesKept
  <2>3. sent' = Len(events)
    BY <1>2, <1>4, <2>1 DEF CountInv
  <2>4. \A kind : OnTheWay(kind)' <=> OnTheWay(kind)
    <3>1. events[Len(events)] = c.ev
      BY <1>2, <1>5, <2>3
    <3>. QED  BY <1>2, <1>3, <1>4, <1>6, <2>3, <3>1 DEF OnTheWay
  <2>5. InScope(Tests)' <=> InScope(Tests)
    BY <1>3 DEF InScope, Inner
  <2>6. Len(events') <= sent' + 1 /\ sent' = Len(events')
    BY <1>3, <1>4, <2>3
  <2>7. CountInv'
    BY <1>2, <1>3, <2>1, <2>4, <2>5, <2>6, CountsAgree DEF CountInv, One
  <2>. QED  BY <2>2, <2>7
<1>. QED  BY <1>7, <1>8, <1>9, <1>10, <1>12, <1>13 DEF WebInv

(* The signal handler's call gets the mutex.                                *)
LEMMA StepHandlerLocks ==
    ASSUME WebInv, HandlerLocks
    PROVE  WebInv'
<1>1. /\ StreamInv /\ ListenerInv /\ ThreadInv /\ MutexInv
      /\ OrderInv /\ SharedInv /\ AnswerInv
      /\ count["extra"] = 0 => CountInv /\ VerdictInv
  BY DEF WebInv
<1> DEFINE n == Len(calls)
<1>2. /\ life = "running" /\ calls # <<>> /\ calls[n].at = "lock"
      /\ critical = Nobody /\ critical' = "main" /\ Goes("first")
      /\ UNCHANGED <<streamVars, sent, log, sharedVars, updaterVars, endVars>>
  BY DEF HandlerLocks, InCall, Call, Last, Lock
<1>3. /\ UNCHANGED <<events, scope, count, testClean, status, suiteClean>>
      /\ UNCHANGED <<result, suite_name, suite_size, testStatus>>
      /\ UNCHANGED <<request, uPc, reply, shown, interuptCount, life>>
  BY <1>2 DEF streamVars, vars, sharedVars, updaterVars, endVars
<1>4. /\ calls' \in Seq(Calls) /\ Len(calls') = n /\ n \in Indices(calls)
      /\ calls'[n].at = "first"
      /\ \A k \in Indices(calls) :
            /\ calls'[k].ev = calls[k].ev
            /\ k # n => calls'[k] = calls[k]
      /\ Indices(calls') = Indices(calls)
  BY <1>1, <1>2, CallsGo DEF Indices
<1>5. StreamInv' /\ ThreadInv' /\ AnswerInv'
  BY <1>1, <1>2, <1>3, Frames
<1>6. ListenerInv'
  <2>1. \A k \in Indices(calls') : calls'[k].ev \in Range(events')
    BY <1>1, <1>3, <1>4 DEF ListenerInv
  <2>. QED  BY <1>1, <1>2, <1>3, <1>4, <2>1 DEF ListenerInv, Indices
<1>7. Active = {}
  BY <1>1, <1>2, WebConstants DEF MutexInv
<1>8. Active' = {n}
  BY <1>4, <1>7 DEF Active
<1>9. MutexInv'
  <2>1. uPc \notin {"copy", "unlock"}
    BY <1>1, <1>2, WebConstants DEF MutexInv
  <2>. QED  BY <1>2, <1>3, <1>8, <2>1 DEF MutexInv
<1>10. OrderInv'
  <2>1. /\ Len(log) + n = sent /\ \A i \in Indices(log) : Same(log[i], events[i])
        /\ \A k \in Indices(calls) :
              /\ Same(calls[k].ev, events[Len(log) + k])
              /\ k > 1 \/ calls[k].at = "lock" => calls[k].ev.kind = "report"
    BY <1>1 DEF OrderInv
  <2>2. \A k \in Indices(calls') :
          /\ Same(calls'[k].ev, events'[Len(log') + k])
          /\ k > 1 \/ calls'[k].at = "lock" => calls'[k].ev.kind = "report"
    BY <1>2, <1>3, <1>4, <2>1 DEF Same
  <2>3. \A i \in Indices(log') : Same(log'[i], events'[i])
    BY <1>2, <1>3, <2>1 DEF Indices, Same
  <2>. QED  BY <1>2, <1>4, <2>1, <2>2, <2>3 DEF OrderInv, Same, Indices
<1>11. HalfDone = {} /\ HalfDone' = {}
  BY <1>4, <1>7, <1>8 DEF HalfDone, Active
<1>12. SharedInv'
  BY <1>1, <1>2, <1>11, HalvesKept
<1>13. ASSUME count'["extra"] = 0 PROVE CountInv' /\ VerdictInv'
  <2>1. CountInv /\ VerdictInv
    BY <1>1, <1>3, <1>13
  <2>2. VerdictInv'
    BY <1>2, <1>11, <2>1, HalvesKept
  <2>3. \A kind : OnTheWay(kind)' <=> OnTheWay(kind)
    BY <1>2, <1>3, <1>4 DEF OnTheWay
  <2>4. InScope(Tests)' <=> InScope(Tests)
    BY <1>3 DEF InScope, Inner
  <2>5. 1 \in Indices(calls)
    BY <1>4 DEF Indices
  <2>6. CountInv'
    BY <1>2, <1>3, <1>4, <2>1, <2>3, <2>4, <2>5, CountsAgree DEF CountInv, One
  <2>. QED  BY <2>2, <2>6
<1>. QED  BY <1>5, <1>6, <1>9, <1>10, <1>12, <1>13 DEF WebInv

(* The first half of a call: on entries and a name that tell the log, it    *)
(* leaves entries and a name that tell the log and the call's event.        *)
LEMMA FirstHalfTells ==
    ASSUME log \in Seq(Events), testStatus \in Seq(States),
           NEW e \in Events, Reflects(log), result = log, FirstHalf(e)
    PROVE  /\ testStatus' = Touched(testStatus, e) /\ testStatus' \in Seq(States)
           /\ suite_name' = NameAfter(Append(log, e))
           /\ EntriesTell(testStatus', Append(log, e))
           /\ result' = IF e.kind = "startSuite" THEN Append(log, e) ELSE log
           /\ UNCHANGED suite_size
<1>1. suite_name = NameAfter(log) /\ EntriesTell(testStatus, log)
  BY DEF Reflects
<1>2. /\ EntriesTell(Touched(testStatus, e), Append(log, e))
      /\ Touched(testStatus, e) \in Seq(States)
  BY <1>1, EntriesMore
<1>3. NameAfter(Append(log, e))
        = IF e.kind = "startSuite" THEN e.obj
          ELSE IF e.kind = "startTest" /\ suite_name = Nobody THEN e.obj
          ELSE suite_name
  BY <1>1, NameMore
<1>4. /\ testStatus' = Touched(testStatus, e)
      /\ suite_name' = IF e.kind = "startSuite" THEN e.obj
                       ELSE IF e.kind = "startTest" /\ suite_name = Nobody THEN e.obj
                       ELSE suite_name
      /\ result' = IF e.kind = "startSuite" THEN Append(log, e) ELSE log
      /\ UNCHANGED suite_size
  <2>1. CASE e.kind = "startTest"
    BY <2>1 DEF FirstHalf, Touched
  <2>2. CASE e.kind = "endTest"
    BY <2>2 DEF FirstHalf, Touched, SetBack, Verdict
  <2>3. CASE e.kind = "startSuite"
    BY <2>3 DEF FirstHalf, Touched, Write
  <2>4. CASE e.kind \notin {"startTest", "endTest", "startSuite"}
    BY <2>4 DEF FirstHalf, Touched, sharedVars
  <2>. QED  BY <2>1, <2>2, <2>3, <2>4
<1>. QED  BY <1>2, <1>3, <1>4

(* The one call past its lock is the innermost.                             *)
LEMMA InnermostIsActive ==
    ASSUME ListenerInv, MutexInv, calls # <<>>, calls[Len(calls)].at # "lock"
    PROVE  /\ Active = {Len(calls)} /\ critical = "main"
           /\ uPc \notin {"copy", "unlock"}
           /\ calls[Len(calls)].at = "first" => HalfDone = {}
           /\ calls[Len(calls)].at = "second" => HalfDone = {Len(calls)}
           /\ \A k \in Indices(calls) : k # Len(calls) => calls[k].at = "lock"
<1>1. Len(calls) \in Indices(calls)
  BY EmptySeq, LenProperties DEF ListenerInv, Indices
<1>2. Active = {Len(calls)}
  BY <1>1 DEF Active, MutexInv
<1>3. critical = "main" /\ uPc \notin {"copy", "unlock"}
  BY <1>2 DEF MutexInv
<1>4. \A k \in Indices(calls) : k # Len(calls) => calls[k].at = "lock"
  BY <1>2 DEF Active
<1>. QED  BY <1>1, <1>2, <1>3, <1>4 DEF HalfDone

(* The counters know how many entries there are when a call that touches    *)
(* them is half done.                                                       *)
LEMMA EntriesCounted ==
    ASSUME ListenerInv, StreamInv, CountInv, OrderInv, EntriesTell(testStatus, log),
           calls # <<>>, life = "running"
    PROVE  LET e == calls[Len(calls)].ev
           IN  /\ e.kind \in {"startTest", "endTest"} =>
                     Number(log, "endTest") <= Len(testStatus)
               /\ e.kind = "endTest" => Number(log, "endTest") + 1 = Len(testStatus)
<1> DEFINE e == calls[Len(calls)].ev
           S == Number(log, "startTest")
           E == Number(log, "endTest")
           N == count["nTests"]
<1>1. S \in Nat /\ E \in Nat /\ Len(testStatus) = S /\ N \in Nat
  BY PlacesOf DEF ListenerInv, EntriesTell, Number, StreamInv, Counts
<1>2. Len(calls) \in Indices(calls)
  BY EmptySeq, LenProperties DEF ListenerInv, Indices
<1>3. /\ S + One(OnTheWay("startTest")) = N
      /\ E + One(OnTheWay("endTest")) + One(InScope(Tests)) = N
      /\ OnTheWay("endTest") => ~ InScope(Tests)
      /\ OnTheWay("startTest") => InScope(Tests)
  BY DEF CountInv
<1>4. OnTheWay(e.kind)
  BY <1>2 DEF OnTheWay
<1>. HIDE DEF S, E, N
<1>5. CASE e.kind = "startTest"
  <2>1. OnTheWay("startTest") /\ ~ OnTheWay("endTest") /\ InScope(Tests)
    BY <1>3, <1>4, <1>5
  <2>2. S + 1 = N /\ E + 0 + 1 = N
    BY <1>3, <2>1 DEF One
  <2>. QED  BY <1>1, <1>5, <2>2 DEF E
<1>6. CASE e.kind = "endTest"
  <2>1. ~ OnTheWay("startTest") /\ OnTheWay("endTest") /\ ~ InScope(Tests)
    BY <1>3, <1>4, <1>6
  <2>2. S + 0 = N /\ E + 1 + 0 = N
    BY <1>3, <2>1 DEF One
  <2>. QED  BY <1>1, <1>6, <2>2 DEF E
<1>. QED  BY <1>5, <1>6 DEF E

(* The first half of a listener call.                                       *)
LEMMA StepListenerWrites ==
    ASSUME WebInv, ListenerWrites
    PROVE  WebInv'
<1>1. /\ StreamInv /\ ListenerInv /\ ThreadInv /\ MutexInv
      /\ OrderInv /\ SharedInv /\ AnswerInv
      /\ count["extra"] = 0 => CountInv /\ VerdictInv
  BY DEF WebInv
<1> DEFINE n == Len(calls)
           e == calls[n].ev
<1>2. /\ life = "running" /\ calls # <<>> /\ calls[n].at = "first"
      /\ FirstHalf(e) /\ Goes("second")
      /\ UNCHANGED <<streamVars, sent, log, critical, updaterVars, endVars>>
  BY DEF ListenerWrites, InCall, Call, Last
<1>3. /\ UNCHANGED <<events, scope, count, testClean, status, suiteClean>>
      /\ UNCHANGED <<request, uPc, reply, shown, interuptCount, life>>
  BY <1>2 DEF streamVars, vars, updaterVars, endVars
<1>4. /\ calls' \in Seq(Calls) /\ Len(calls') = n /\ n \in Indices(calls)
      /\ calls'[n].at = "second"
      /\ \A k \in Indices(calls) :
            /\ calls'[k].ev = calls[k].ev
            /\ k # n => calls'[k] = calls[k]
      /\ Indices(calls') = Indices(calls) /\ e \in Events
  BY <1>1, <1>2, CallsGo DEF Indices
<1>5. /\ Active = {n} /\ critical = "main" /\ uPc \notin {"copy", "unlock"}
      /\ HalfDone = {}
      /\ \A k \in Indices(calls) : k # n => calls[k].at = "lock"
  BY <1>1, <1>2, InnermostIsActive
<1>6. Active' = {n} /\ HalfDone' = {n}
  BY <1>4, <1>5 DEF Active, HalfDone
<1>7. /\ log \in Seq(Events) /\ testStatus \in Seq(States)
      /\ Reflects(log) /\ result = log /\ suite_size = SizeAfter(log)
  BY <1>1, <1>5 DEF ListenerInv, SharedInv
<1>. HIDE DEF e
<1>8. /\ testStatus' = Touched(testStatus, e) /\ testStatus' \in Seq(States)
      /\ suite_name' = NameAfter(Append(log, e))
      /\ EntriesTell(testStatus', Append(log, e))
      /\ result' = IF e.kind = "startSuite" THEN Append(log, e) ELSE log
      /\ UNCHANGED suite_size
  BY <1>2, <1>4, <1>7, FirstHalfTells
<1>9. StreamInv' /\ ThreadInv'
  BY <1>1, <1>2, <1>3, Frames
<1>10. ListenerInv'
  <2>1. \A k \in Indices(calls') : calls'[k].ev \in Range(events')
    BY <1>1, <1>3, <1>4 DEF ListenerInv
  <2>2. e \in Range(events)
    BY <1>1, <1>4 DEF ListenerInv, e
  <2>3. /\ result' \in Seq(Events)
        /\ \A i \in Indices(result') : result'[i] \in Range(events)
    <3>1. \A i \in Indices(log) : log[i] \in Range(events)
      BY <1>1 DEF ListenerInv
    <3>2. CASE e.kind = "startSuite"
      <4>1. /\ result' \in Seq(Events) /\ Len(result') = Len(log) + 1
            /\ Len(log) \in Nat
            /\ \A i \in 1 .. Len(log) : result'[i] = log[i]
            /\ result'[Len(log) + 1] = e
        BY <1>4, <1>7, <1>8, <3>2, OneMorePlace, LenProperties
      <4>. QED  BY <2>2, <3>1, <4>1 DEF Indices
    <3>3. CASE e.kind # "startSuite"
      BY <1>7, <1>8, <3>1, <3>3
    <3>. QED  BY <3>2, <3>3
  <2>4. sent' = sent /\ events' = events /\ log' = log
    BY <1>2, <1>3
  <2>. QED  BY <1>1, <1>4, <1>8, <2>1, <2>3, <2>4 DEF ListenerInv, Indices
<1>11. MutexInv'
  BY <1>1, <1>2, <1>3, <1>5, <1>6 DEF MutexInv
<1>12. OrderInv'
  <2>1. /\ Len(log) + n = sent /\ \A i \in Indices(log) : Same(log[i], events[i])
        /\ \A k \in Indices(calls) :
              /\ Same(calls[k].ev, events[Len(log) + k])
              /\ k > 1 \/ calls[k].at = "lock" => calls[k].ev.kind = "report"
    BY <1>1 DEF OrderInv
  <2>2. \A k \in Indices(calls') :
          /\ Same(calls'[k].ev, events'[Len(log') + k])
          /\ k > 1 \/ calls'[k].at = "lock" => calls'[k].ev.kind = "report"
    BY <1>2, <1>3, <1>4, <2>1 DEF Same
  <2>3. \A i \in Indices(log') : Same(log'[i], events'[i])
    BY <1>2, <1>3, <2>1 DEF Indices, Same
  <2>. QED  BY <1>2, <1>4, <2>1, <2>2, <2>3 DEF OrderInv, Same, Indices
<1>13. SharedInv'
  <2>1. /\ log' = log /\ suite_size' = SizeAfter(log')
        /\ calls'[n].ev = e
    BY <1>2, <1>4, <1>7, <1>8 DEF e
  <2>2. Reflects(Append(log, e))'
    <3>1. UNCHANGED <<log, e>>
      BY <1>2, <1>4 DEF e
    <3>. QED  BY <1>8, <3>1 DEF Reflects
  <2>. QED  BY <1>6, <1>8, <2>1, <2>2 DEF SharedInv, Reflects
<1>14. AnswerInv'
  BY <1>1, <1>2, <1>3, <1>5 DEF AnswerInv, AnswersAreWhole
<1>15. ASSUME count'["extra"] = 0 PROVE CountInv' /\ VerdictInv'
  <2>1. CountInv /\ VerdictInv
    BY <1>1, <1>3, <1>15
  <2>2. VerdictInv'
    <3>1. Verdicts(testStatus, log)
      BY <1>5, <2>1 DEF VerdictInv
    <3>2. Verdicts(testStatus', Append(log, e))
      <4>1. /\ e.kind \in {"startTest", "endTest"} =>
                  Number(log, "endTest") <= Len(testStatus)
            /\ e.kind = "endTest" => Number(log, "endTest") + 1 = Len(testStatus)
        BY <1>1, <1>2, <1>7, <2>1, EntriesCounted DEF Reflects, e
      <4>. QED  BY <1>4, <1>7, <1>8, <3>1, <4>1, VerdictsMore
    <3>3. log' = log /\ calls'[n].ev = e
      BY <1>2, <1>4 DEF e
    <3>. QED  BY <1>6, <3>2, <3>3 DEF VerdictInv
  <2>3. \A kind : OnTheWay(kind)' <=> OnTheWay(kind)
    BY <1>2, <1>3, <1>4 DEF OnTheWay
  <2>4. InScope(Tests)' <=> InScope(Tests)
    BY <1>3 DEF InScope, Inner
  <2>5. 1 \in Indices(calls)
    BY <1>4 DEF Indices
  <2>6. CountInv'
    BY <1>2, <1>3, <1>4, <2>1, <2>3, <2>4, <2>5, CountsAgree DEF CountInv, One
  <2>. QED  BY <2>2, <2>6
<1>. QED  BY <1>9, <1>10, <1>11, <1>12, <1>13, <1>14, <1>15 DEF WebInv

(* The innermost call returns.                                              *)
LEMMA FrontOfCalls ==
    ASSUME ListenerInv, calls # <<>>, calls' = Front(calls)
    PROVE  /\ calls' \in Seq(Calls) /\ Len(calls') = Len(calls) - 1
           /\ Len(calls) \in Nat /\ Len(calls) \in Indices(calls)
           /\ Indices(calls') = Indices(calls) \ {Len(calls)}
           /\ \A k \in Indices(calls') : calls'[k] = calls[k]
           /\ \A k \in Indices(calls) : calls[k] \in Calls
<1> DEFINE n == Len(calls)
           m == n - 1
           r == SubSeq(calls, 1, m)
<1>1. /\ calls \in Seq(Calls) /\ n \in Nat /\ n # 0
      /\ \A k \in Indices(calls) : calls[k] \in Calls
  BY InRange, EmptySeq DEF ListenerInv
<1>2. calls' = r
  BY DEF Front
<1>3. m \in Nat /\ n = m + 1 /\ \A k \in 1 .. m : calls[k] \in Calls
  BY <1>1 DEF Indices
<1>. HIDE DEF m
<1>4. /\ r \in Seq(Calls) /\ Len(r) = IF 1 <= m THEN m - 1 + 1 ELSE 0
      /\ \A i \in 1 .. m - 1 + 1 : r[i] = calls[1 + i - 1]
  BY <1>3, SubSeqProperties
<1>. HIDE DEF r, n
<1>5. r \in Seq(Calls) /\ Len(r) = m /\ \A i \in 1 .. m : r[i] = calls[i]
  BY <1>3, <1>4
<1>6. 1 .. m = (1 .. n) \ {n} /\ n \in 1 .. n
  BY <1>1, <1>3
<1>. QED  BY <1>1, <1>2, <1>3, <1>5, <1>6 DEF Indices, m, n

(* What the page was given stays whole when the log goes on.                *)
LEMMA AnswersStayWhole ==
    ASSUME log \in Seq(Events), NEW e \in Events, log' = Append(log, e),
           UNCHANGED shown, AnswersAreWhole
    PROVE  AnswersAreWhole'
<1> DEFINE P == {SubSeq(log, 1, n) : n \in 0 .. Len(log)}
<1>1. P \subseteq {SubSeq(log', 1, n) : n \in 0 .. Len(log')}
  <2>1. /\ log' \in Seq(Events) /\ Len(log') = Len(log) + 1 /\ Len(log) \in Nat
        /\ \A i \in 1 .. Len(log) : log'[i] = log[i]
        /\ \A i \in 1 .. Len(log) : log[i] \in Events
    BY AppendProperties, InRange DEF Indices
  <2>2. ASSUME NEW n \in 0 .. Len(log)
        PROVE  SubSeq(log, 1, n) = SubSeq(log', 1, n) /\ n \in 0 .. Len(log')
    <3>1. n \in Nat /\ \A i \in 1 .. n : log'[i] = log[i] /\ log[i] \in Events
      BY <2>1
    <3>2. \A i \in 1 .. n : log'[i] \in Events
      BY <3>1
    <3> DEFINE r == SubSeq(log, 1, n)
               q == SubSeq(log', 1, n)
    <3>3. /\ r \in Seq(Events) /\ Len(r) = IF 1 <= n THEN n - 1 + 1 ELSE 0
          /\ \A i \in 1 .. n - 1 + 1 : r[i] = log[1 + i - 1]
      BY <3>1, SubSeqProperties
    <3>4. /\ q \in Seq(Events) /\ Len(q) = IF 1 <= n THEN n - 1 + 1 ELSE 0
          /\ \A i \in 1 .. n - 1 + 1 : q[i] = log'[1 + i - 1]
      BY <3>1, <3>2, SubSeqProperties
    <3>. HIDE DEF r, q
    <3>5. Len(r) = n /\ Len(q) = n /\ \A i \in 1 .. n : r[i] = q[i]
      BY <3>1, <3>3, <3>4
    <3>6. r = q
      BY <3>3, <3>4, <3>5, SeqEqual
    <3>. QED  BY <2>1, <3>6 DEF r, q
  <2>. QED  BY <2>2
<1>2. /\ shown.update \in P
      /\ \E es \in P : IsStatusAfter(shown.status, es)
  BY DEF AnswersAreWhole
<1>. HIDE DEF P
<1>. QED  BY <1>1, <1>2 DEF AnswersAreWhole

(* The second half of a listener call: the mutex is released.               *)
LEMMA StepListenerReturns ==
    ASSUME WebInv, ListenerReturns
    PROVE  WebInv'
<1>1. /\ StreamInv /\ ListenerInv /\ ThreadInv /\ MutexInv
      /\ OrderInv /\ SharedInv /\ AnswerInv
      /\ count["extra"] = 0 => CountInv /\ VerdictInv
  BY DEF WebInv
<1> DEFINE n == Len(calls)
           e == calls[n].ev
<1>2. /\ life = "running" /\ calls # <<>> /\ calls[n].at = "second"
      /\ SecondHalf(e) /\ critical' = Nobody
      /\ log' = Append(log, e) /\ calls' = Front(calls)
      /\ UNCHANGED <<streamVars, sent, updaterVars, endVars>>
  BY DEF ListenerReturns, InCall, Call, Last
<1>3. /\ UNCHANGED <<events, scope, count, testClean, status, suiteClean>>
      /\ UNCHANGED <<request, uPc, reply, shown, interuptCount, life>>
  BY <1>2 DEF streamVars, vars, updaterVars, endVars
<1>4. /\ calls' \in Seq(Calls) /\ Len(calls') = n - 1
      /\ n \in Nat /\ n \in Indices(calls)
      /\ Indices(calls') = Indices(calls) \ {n}
      /\ \A k \in Indices(calls') : calls'[k] = calls[k]
      /\ \A k \in Indices(calls) : calls[k] \in Calls
  BY <1>1, <1>2, FrontOfCalls
<1>5. /\ Active = {n} /\ critical = "main" /\ uPc \notin {"copy", "unlock"}
      /\ HalfDone = {n}
      /\ \A k \in Indices(calls) : k # n => calls[k].at = "lock"
  BY <1>1, <1>2, InnermostIsActive
<1>6. Active' = {} /\ HalfDone' = {}
  BY <1>4, <1>5 DEF Active, HalfDone
<1>7. e \in Events /\ e \in Range(events)
  BY <1>1, <1>4 DEF ListenerInv, Calls
<1>8. /\ log \in Seq(Events) /\ Reflects(Append(log, e))
      /\ result = IF e.kind = "startSuite" THEN Append(log, e) ELSE log
      /\ suite_size = SizeAfter(log)
  BY <1>1, <1>5 DEF ListenerInv, SharedInv
<1>9. /\ log' \in Seq(Events) /\ Len(log') = Len(log) + 1 /\ Len(log) \in Nat
      /\ \A i \in 1 .. Len(log) : log'[i] = log[i]
      /\ log'[Len(log) + 1] = e
      /\ \A kind : Number(log', kind) = Number(log, kind) + One(e.kind = kind)
  BY <1>2, <1>7, <1>8, OneMorePlace, LenProperties
<1>. HIDE DEF e
<1>10. /\ result' = log' /\ suite_size' = SizeAfter(log')
       /\ UNCHANGED <<suite_name, testStatus>>
  <2>1. SizeAfter(Append(log, e))
          = IF e.kind = "startSuite" THEN SuiteSize[e.obj] ELSE SizeAfter(log)
    BY <1>7, <1>8, SizeMore
  <2>2. CASE e.kind = "startSuite"
    BY <1>2, <1>8, <2>1, <2>2 DEF SecondHalf
  <2>3. CASE e.kind # "startSuite"
    BY <1>2, <1>8, <2>1, <2>3 DEF SecondHalf, Write
  <2>. QED  BY <2>2, <2>3
<1>11. StreamInv' /\ ThreadInv'
  BY <1>1, <1>2, <1>3, Frames
<1>12. \A i \in Indices(log') : log'[i] \in Range(events)
  <2>1. \A i \in 1 .. Len(log) : log[i] \in Range(events)
    BY <1>1 DEF ListenerInv, Indices
  <2>. QED  BY <1>7, <1>9, <2>1 DEF Indices
<1>13. ListenerInv'
  <2>1. \A k \in Indices(calls') : calls'[k].ev \in Range(events')
    BY <1>1, <1>3, <1>4 DEF ListenerInv
  <2>2. /\ \A i \in Indices(log') : log'[i] \in Range(events')
        /\ \A i \in Indices(result') : result'[i] \in Range(events')
    BY <1>3, <1>10, <1>12
  <2>3. sent' = sent /\ events' = events /\ testStatus' = testStatus
    BY <1>2, <1>3, <1>10
  <2>. QED  BY <1>1, <1>4, <1>9, <1>10, <2>1, <2>2, <2>3 DEF ListenerInv, Indices
<1>14. MutexInv'
  BY <1>1, <1>2, <1>3, <1>5, <1>6, WebConstants DEF MutexInv
<1>15. /\ Len(log) + n = sent /\ \A i \in 1 .. Len(log) : Same(log[i], events[i])
       /\ \A k \in Indices(calls) : Same(calls[k].ev, events[Len(log) + k])
       /\ \A k \in Indices(calls) : k > 1 => calls[k].ev.kind = "report"
       /\ \A k \in Indices(calls) : k # n => calls[k].ev.kind = "report"
  BY <1>1, <1>5 DEF OrderInv, Indices
<1>16. OrderInv'
  <2>1. Len(log') + Len(calls') = sent'
    BY <1>2, <1>4, <1>9, <1>15
  <2>2. Same(e, events[Len(log) + 1])
    <3>1. CASE n = 1
      BY <1>4, <1>15, <3>1 DEF e
    <3>2. CASE n # 1
      <4>1. 1 \in Indices(calls) /\ n > 1
        BY <1>4, <3>2 DEF Indices
      <4>2. calls[1].ev.kind = "report" /\ e.kind = "report"
        BY <1>4, <1>15, <4>1, <3>2 DEF e
      <4>3. Same(calls[1].ev, events[Len(log) + 1])
        BY <1>15, <4>1
      <4>. QED  BY <4>2, <4>3 DEF Same
    <3>. QED  BY <3>1, <3>2
  <2>3. \A i \in Indices(log') : Same(log'[i], events'[i])
    <3>1. ASSUME NEW i \in 1 .. Len(log) + 1 PROVE Same(log'[i], events[i])
      <4>1. CASE i = Len(log) + 1
        BY <1>9, <2>2, <4>1
      <4>2. CASE i # Len(log) + 1
        <5>1. i \in 1 .. Len(log)
          BY <1>9, <4>2
        <5>2. Same(log[i], events[i]) /\ log'[i] = log[i]
          BY <1>9, <1>15, <5>1
        <5>. QED  BY <5>2 DEF Same
      <4>. QED  BY <4>1, <4>2
    <3>. QED  BY <1>3, <1>9, <3>1 DEF Indices
  <2>4. ASSUME NEW k \in Indices(calls')
        PROVE  /\ Same(calls'[k].ev, events'[Len(log') + k])
               /\ k > 1 \/ calls'[k].at = "lock" => calls'[k].ev.kind = "report"
    <3>1. /\ k \in Nat /\ k # n /\ k \in Indices(calls) /\ k + 1 \in Indices(calls)
          /\ k + 1 > 1 /\ calls'[k] = calls[k]
      BY <1>4 DEF Indices
    <3>2. calls[k].ev.kind = "report" /\ calls[k + 1].ev.kind = "report"
      BY <1>15, <3>1
    <3>3. Same(calls[k + 1].ev, events[Len(log) + (k + 1)])
      BY <1>15, <3>1
    <3>4. Len(log') + k = Len(log) + (k + 1)
      BY <1>9, <3>1
    <3>5. events[Len(log) + (k + 1)].kind = "report"
      BY <3>2, <3>3 DEF Same
    <3>. QED  BY <1>3, <3>1, <3>2, <3>4, <3>5 DEF Same
  <2>. QED  BY <2>1, <2>3, <2>4 DEF OrderInv, Same, Indices
<1>17. SharedInv'
  <2>1. Reflects(log)'
    BY <1>2, <1>8, <1>10 DEF Reflects
  <2>. QED  BY <1>6, <1>10, <2>1 DEF SharedInv, Reflects
<1>18. AnswerInv'
  <2>1. AnswersAreWhole'
    BY <1>1, <1>2, <1>3, <1>7, <1>8, AnswersStayWhole DEF AnswerInv
  <2>. QED  BY <1>1, <1>3, <1>5, <2>1 DEF AnswerInv
<1>19. ASSUME count'["extra"] = 0 PROVE CountInv' /\ VerdictInv'
  <2>1. CountInv /\ VerdictInv
    BY <1>1, <1>3, <1>19
  <2>2. VerdictInv'
    <3>1. Verdicts(testStatus, Append(log, e))
      BY <1>5, <2>1 DEF VerdictInv, e
    <3>2. Verdicts(testStatus', log')
      BY <1>2, <1>10, <3>1
    <3>. QED  BY <1>6, <3>2 DEF VerdictInv
  <2>3. InScope(Tests)' <=> InScope(Tests)
    BY <1>3 DEF InScope, Inner
  <2>4. calls' # <<>> => 1 \in Indices(calls') /\ 1 \in Indices(calls)
    BY <1>4, EmptySeq DEF Indices
  <2>5. e.kind # "report" => n = 1 /\ sent = Len(events)
    <3>1. ASSUME e.kind # "report" PROVE n = 1
      BY <1>4, <1>15, <3>1 DEF e, Indices
    <3>. QED  BY <1>2, <2>1, <3>1 DEF CountInv, e
  <2>6. ASSUME NEW kind, kind # "report"
        PROVE  One(OnTheWay(kind)) = One(OnTheWay(kind)') + One(e.kind = kind)
    <3>1. CASE e.kind = kind
      <4>1. /\ n = 1 /\ ~ (sent < Len(events)) /\ Indices(calls') = {}
            /\ 1 \in Indices(calls) /\ calls[1].ev.kind = kind
        BY <1>1, <1>4, <2>5, <2>6, <3>1 DEF Indices, e, ListenerInv
      <4>2. ~ OnTheWay(kind)' /\ OnTheWay(kind)
        BY <1>2, <1>3, <4>1 DEF OnTheWay
      <4>. QED  BY <3>1, <4>2 DEF One
    <3>2. CASE e.kind # kind
      <4>1. OnTheWay(kind) <=> OnTheWay(kind)'
        BY <1>2, <1>3, <1>4, <3>2 DEF OnTheWay, e
      <4>. QED  BY <3>2, <4>1 DEF One
    <3>. QED  BY <3>1, <3>2
  <2>7. /\ Number(log, "startTest") \in Nat /\ Number(log, "endTest") \in Nat
        /\ \A c : One(c) \in {0, 1}
    BY <1>8, PlacesOf DEF One
  <2>8. /\ Number(log', "startTest") + One(OnTheWay("startTest")')
              = Number(log, "startTest") + One(OnTheWay("startTest"))
        /\ Number(log', "endTest") + One(OnTheWay("endTest")')
              = Number(log, "endTest") + One(OnTheWay("endTest"))
    <3>1. ASSUME NEW kind \in {"startTest", "endTest"}
          PROVE  Number(log', kind) + One(OnTheWay(kind)')
                   = Number(log, kind) + One(OnTheWay(kind))
      <4>1. Number(log', kind) = Number(log, kind) + One(e.kind = kind)
        BY <1>9
      <4>2. One(OnTheWay(kind)) = One(OnTheWay(kind)') + One(e.kind = kind)
        BY <2>6
      <4>3. Number(log, kind) \in Nat
        BY <2>7
      <4>. QED  BY <4>1, <4>2, <4>3 DEF One
    <3>. QED  BY <3>1
  <2>9. /\ OnTheWay("startTest")' => OnTheWay("startTest")
        /\ OnTheWay("endTest")' => OnTheWay("endTest")
    BY <1>2, <1>3, <1>4 DEF OnTheWay
  <2>10. CountInv'
    <3>1. Len(events') <= sent' + 1
      BY <1>2, <1>3, <2>1 DEF CountInv
    <3>2. calls' # <<>> /\ calls'[1].ev.kind # "report" => sent' = Len(events')
      BY <1>2, <1>3, <1>4, <2>1, <2>4 DEF CountInv
    <3>3. /\ Number(log, "startTest") + One(OnTheWay("startTest")) = count'["nTests"]
          /\ Number(log, "endTest") + One(OnTheWay("endTest"))
                + One(InScope(Tests)) = count'["nTests"]
          /\ OnTheWay("endTest") => ~ InScope(Tests)
          /\ OnTheWay("startTest") => InScope(Tests)
      BY <1>2, <1>3, <2>1 DEF CountInv
    <3>4. One(InScope(Tests)') = One(InScope(Tests))
      BY <2>3 DEF One
    <3>. QED  BY <2>3, <2>8, <2>9, <3>1, <3>2, <3>3, <3>4, CountsAgree
  <2>. QED  BY <2>2, <2>10
<1>. QED  BY <1>11, <1>13, <1>14, <1>16, <1>17, <1>18, <1>19 DEF WebInv

(* An event in between: those before it and those after it stay in order.   *)
LEMMA Inserted ==
    ASSUME NEW es \in Seq(Events), NEW n \in 0 .. Len(es), NEW e \in Events
    PROVE  LET fs == InsertAt(es, n + 1, e)
           IN  /\ fs \in Seq(Events) /\ Len(fs) = Len(es) + 1
               /\ \A i \in 1 .. n : fs[i] = es[i]
               /\ fs[n + 1] = e
               /\ \A i \in n + 1 .. Len(es) : fs[i + 1] = es[i]
<1> DEFINE l == Len(es)
           a == SubSeq(es, 1, n)
           b == SubSeq(es, n + 1, l)
           m == l - n
<1>1. /\ l \in Nat /\ n \in Nat /\ n <= l /\ m \in Nat /\ l = n + m
      /\ \A i \in 1 .. l : es[i] \in Events
  BY InRange DEF Indices
<1>2. InsertAt(es, n + 1, e) = a \o <<e>> \o b
  <2>1. (n + 1) - 1 = n
    BY <1>1
  <2>2. InsertAt(es, n + 1, e) = SubSeq(es, 1, (n + 1) - 1) \o <<e>> \o b
    BY DEF InsertAt
  <2>. QED  BY <2>1, <2>2
<1>. HIDE DEF l, m
<1>3. /\ a \in Seq(Events) /\ Len(a) = n /\ \A i \in 1 .. n : a[i] = es[i]
  <2>1. \A i \in 1 .. n : es[i] \in Events
    BY <1>1
  <2>2. /\ a \in Seq(Events) /\ Len(a) = IF 1 <= n THEN n - 1 + 1 ELSE 0
        /\ \A i \in 1 .. n - 1 + 1 : a[i] = es[1 + i - 1]
    BY <1>1, <2>1, SubSeqProperties
  <2>. HIDE DEF a
  <2>. QED  BY <1>1, <2>2
<1>4. /\ b \in Seq(Events) /\ Len(b) = m /\ \A i \in 1 .. m : b[i] = es[n + i]
  <2>1. \A i \in n + 1 .. l : es[i] \in Events
    BY <1>1
  <2>2. /\ b \in Seq(Events)
        /\ Len(b) = IF n + 1 <= l THEN l - (n + 1) + 1 ELSE 0
        /\ \A i \in 1 .. l - (n + 1) + 1 : b[i] = es[n + 1 + i - 1]
    BY <1>1, <2>1, SubSeqProperties
  <2>. HIDE DEF b
  <2>. QED  BY <1>1, <2>2
<1>. HIDE DEF a, b
<1>5. /\ <<e>> \in Seq(Events) /\ Len(<<e>>) = 1 /\ <<e>>[1] = e
  OBVIOUS
<1> DEFINE c == a \o <<e>>
           d == c \o b
<1>6. /\ c \in Seq(Events) /\ Len(c) = n + 1
      /\ \A i \in 1 .. n : c[i] = es[i]
      /\ c[n + 1] = e
  <2>1. /\ c \in Seq(Events) /\ Len(c) = n + 1
        /\ \A i \in 1 .. n + 1 : c[i] = IF i <= n THEN a[i] ELSE <<e>>[i - n]
    BY <1>3, <1>5, ConcatProperties
  <2>. HIDE DEF c
  <2>. QED  BY <1>1, <1>3, <1>5, <2>1
<1>. HIDE DEF c
<1>7. /\ d \in Seq(Events) /\ Len(d) = n + 1 + m
      /\ \A i \in 1 .. n + 1 + m : d[i] = IF i <= n + 1 THEN c[i] ELSE b[i - (n + 1)]
  <2>1. /\ d \in Seq(Events) /\ Len(d) = Len(c) + Len(b)
        /\ \A i \in 1 .. Len(c) + Len(b) :
              d[i] = IF i <= Len(c) THEN c[i] ELSE b[i - Len(c)]
    BY <1>4, <1>6, ConcatProperties
  <2>2. Len(c) = n + 1 /\ Len(b) = m
    BY <1>4, <1>6
  <2>. HIDE DEF d
  <2>. QED  BY <2>1, <2>2
<1>. HIDE DEF d
<1>8. /\ Len(d) = l + 1 /\ d[n + 1] = e /\ \A i \in 1 .. n : d[i] = es[i]
  BY <1>1, <1>6, <1>7
<1>9. ASSUME NEW i \in n + 1 .. l PROVE d[i + 1] = es[i]
  <2>1. /\ i + 1 \in 1 .. n + 1 + m /\ ~ (i + 1 <= n + 1)
        /\ i + 1 - (n + 1) = i - n /\ i - n \in 1 .. m /\ n + (i - n) = i
    BY <1>1
  <2>. QED  BY <1>4, <1>7, <2>1
<1>. QED  BY <1>2, <1>7, <1>8, <1>9 DEF c, d, l

(* The handler's own report, after the last event that was passed on.       *)
LEMMA StepHandlerReports ==
    ASSUME WebInv, SignalArrives, interuptCount <= 3,
           NEW x \in Tests, HandlerReports(x)
    PROVE  WebInv'
<1>1. /\ StreamInv /\ ListenerInv /\ ThreadInv /\ MutexInv
      /\ OrderInv /\ SharedInv /\ AnswerInv
      /\ count["extra"] = 0 => CountInv /\ VerdictInv
  BY DEF WebInv
<1> DEFINE e == Happened("report", x)
           c == [ev |-> e, at |-> "lock"]
           n == Len(calls)
<1>2. /\ events' = InsertAt(events, sent + 1, e) /\ sent' = sent + 1
      /\ calls' = Append(calls, c)
      /\ UNCHANGED <<vars, log, life>>
      /\ life = "running" /\ interuptCount' = interuptCount + 1
      /\ UNCHANGED <<critical, sharedVars, updaterVars>>
  BY DEF SignalArrives, HandlerReports
<1>3. /\ UNCHANGED <<scope, count, testClean, status, suiteClean>>
      /\ UNCHANGED <<result, suite_name, suite_size, testStatus>>
      /\ UNCHANGED <<request, uPc, reply, shown>>
  BY <1>2 DEF vars, sharedVars, updaterVars
<1>4. e \in Events /\ e.kind = "report" /\ c \in Calls /\ c.ev = e /\ c.at = "lock"
  BY DEF Events, Calls, Happened, Event, EventKinds, Objects
<1>. HIDE DEF e, c
<1>5. /\ events \in Seq(Events) /\ Len(events) \in Nat /\ sent \in 0 .. Len(events)
      /\ sent \in Nat
  BY <1>1, InRange DEF StreamInv, ListenerInv
<1>6. /\ events' \in Seq(Events) /\ Len(events') = Len(events) + 1
      /\ \A i \in 1 .. sent : events'[i] = events[i]
      /\ events'[sent + 1] = e
      /\ \A i \in sent + 1 .. Len(events) : events'[i + 1] = events[i]
  BY <1>2, <1>4, <1>5, Inserted, ZenonT(30)
<1>7. /\ calls \in Seq(Calls) /\ n \in Nat
      /\ calls' \in Seq(Calls) /\ Len(calls') = n + 1
      /\ \A k \in 1 .. n : calls'[k] = calls[k]
      /\ calls'[n + 1] = c
      /\ Indices(calls') = Indices(calls) \cup {n + 1}
      /\ calls' # <<>>
  <2>1. calls \in Seq(Calls) /\ n \in Nat
    BY <1>1, InRange DEF ListenerInv
  <2>2. /\ calls' \in Seq(Calls) /\ Len(calls') = n + 1
        /\ \A k \in 1 .. n : calls'[k] = calls[k]
        /\ calls'[n + 1] = c /\ calls' # <<>>
    BY <1>2, <1>4, <2>1, AppendProperties
  <2>. QED  BY <2>1, <2>2 DEF Indices
<1>8. ASSUME NEW y \in Range(events) PROVE y \in Range(events')
  <2>1. PICK i \in Indices(events) : events[i] = y
    BY <1>5, InRange
  <2>2. \E j \in Indices(events') : events'[j] = y
    <3>1. CASE i <= sent
      <4>1. i \in Indices(events') /\ i \in 1 .. sent
        BY <1>5, <1>6, <3>1 DEF Indices
      <4>. QED  BY <1>6, <2>1, <4>1
    <3>2. CASE i > sent
      <4>1. i + 1 \in Indices(events') /\ i \in sent + 1 .. Len(events)
        BY <1>5, <1>6, <3>2 DEF Indices
      <4>. QED  BY <1>6, <2>1, <4>1
    <3>. QED  BY <1>5, <3>1, <3>2 DEF Indices
  <2>. QED  BY <1>6, <2>2, InRange
<1>9. StreamInv'
  BY <1>1, <1>3, <1>6 DEF StreamInv, Indices
<1>10. ThreadInv'
  BY <1>1, <1>2, <1>3 DEF ThreadInv
<1>11. AnswerInv'
  BY <1>1, <1>2, <1>3, Frames
<1>12. ListenerInv'
  <2>1. sent' \in 0 .. Len(events')
    BY <1>2, <1>5, <1>6
  <2>2. c.ev \in Range(events')
    <3>1. sent + 1 \in Indices(events')
      BY <1>5, <1>6 DEF Indices
    <3>. QED  BY <1>4, <1>6, <3>1, InRange
  <2>3. \A k \in Indices(calls') : calls'[k].ev \in Range(events')
    BY <1>1, <1>7, <1>8, <2>2 DEF ListenerInv, Indices
  <2>4. /\ \A i \in Indices(log') : log'[i] \in Range(events')
        /\ \A i \in Indices(result') : result'[i] \in Range(events')
    BY <1>1, <1>2, <1>3, <1>8 DEF ListenerInv, Indices
  <2>. QED  BY <1>1, <1>2, <1>3, <1>7, <2>1, <2>3, <2>4 DEF ListenerInv
<1>13. MutexInv'
  <2>1. Active' = Active
    BY <1>4, <1>7 DEF Active, Indices
  <2>. QED  BY <1>1, <1>2, <1>3, <2>1 DEF MutexInv
<1>14. OrderInv'
  <2>1. /\ Len(log) + n = sent /\ \A i \in Indices(log) : Same(log[i], events[i])
        /\ \A k \in Indices(calls) :
              /\ Same(calls[k].ev, events[Len(log) + k])
              /\ k > 1 \/ calls[k].at = "lock" => calls[k].ev.kind = "report"
        /\ Len(log) \in Nat
    BY <1>1, LenProperties DEF OrderInv, ListenerInv
  <2>2. ASSUME NEW k \in Indices(calls')
        PROVE  /\ Same(calls'[k].ev, events'[Len(log') + k])
               /\ k > 1 \/ calls'[k].at = "lock" => calls'[k].ev.kind = "report"
    <3>1. CASE k = n + 1
      <4>1. Len(log') + k = sent + 1
        BY <1>2, <1>7, <2>1, <3>1
      <4>2. calls'[k] = c
        BY <1>7, <3>1
      <4>. QED  BY <1>4, <1>6, <4>1, <4>2 DEF Same
    <3>2. CASE k # n + 1
      <4>1. k \in Indices(calls) /\ k \in 1 .. n /\ calls'[k] = calls[k]
        BY <1>7, <3>2 DEF Indices
      <4>2. Len(log') + k \in 1 .. sent /\ Len(log') = Len(log)
        BY <1>2, <1>7, <2>1, <4>1
      <4>. QED  BY <1>6, <2>1, <4>1, <4>2 DEF Same
    <3>. QED  BY <3>1, <3>2
  <2>3. \A i \in Indices(log') : Same(log'[i], events'[i])
    <3>1. \A i \in Indices(log) : i \in 1 .. sent
      BY <1>7, <2>1 DEF Indices
    <3>. QED  BY <1>2, <1>6, <2>1, <3>1 DEF Same, Indices
  <2>4. Len(log') + Len(calls') = sent'
    BY <1>2, <1>7, <2>1
  <2>. QED  BY <2>2, <2>3, <2>4 DEF OrderInv, Same, Indices
<1>15. HalfDone' = HalfDone /\ \A k \in HalfDone : calls'[k].ev = calls[k].ev
  BY <1>4, <1>7 DEF HalfDone, Indices
<1>16. SharedInv'
  BY <1>1, <1>2, <1>15, HalvesKept
<1>17. ASSUME count'["extra"] = 0 PROVE CountInv' /\ VerdictInv'
  <2>1. CountInv /\ VerdictInv
    BY <1>1, <1>3, <1>17
  <2>2. VerdictInv'
    BY <1>2, <1>15, <2>1, HalvesKept
  <2>3. ASSUME NEW kind, kind # "report"
        PROVE  OnTheWay(kind)' <=> OnTheWay(kind)
    <3>1. (\E k \in Indices(calls') : calls'[k].ev.kind = kind)
            <=> \E k \in Indices(calls) : calls[k].ev.kind = kind
      BY <1>4, <1>7, <2>3 DEF Indices
    <3>2. sent' < Len(events') <=> sent < Len(events)
      BY <1>2, <1>5, <1>6
    <3>3. sent < Len(events) => events'[Len(events')] = events[Len(events)]
      <4>1. sent < Len(events) => Len(events) \in sent + 1 .. Len(events)
        BY <1>5
      <4>. QED  BY <1>6, <4>1
    <3>. QED  BY <3>1, <3>2, <3>3 DEF OnTheWay
  <2>4. InScope(Tests)' <=> InScope(Tests)
    BY <1>3 DEF InScope, Inner
  <2>5. Len(events') <= sent' + 1
    BY <1>2, <1>5, <1>6, <2>1 DEF CountInv
  <2>6. calls' # <<>> /\ calls'[1].ev.kind # "report" => sent' = Len(events')
    <3>1. CASE calls = <<>>
      <4>1. calls'[1] = c
        BY <1>7, <3>1
      <4>. QED  BY <1>4, <4>1
    <3>2. CASE calls # <<>>
      <4>1. 1 \in 1 .. n
        BY <1>7, <3>2, EmptySeq
      <4>2. calls'[1] = calls[1]
        BY <1>7, <4>1
      <4>3. calls[1].ev.kind # "report" => sent = Len(events)
        BY <2>1, <3>2 DEF CountInv
      <4>. QED  BY <1>2, <1>5, <1>6, <4>2, <4>3
    <3>. QED  BY <3>1, <3>2
  <2>7. /\ OnTheWay("startTest")' <=> OnTheWay("startTest")
        /\ OnTheWay("endTest")' <=> OnTheWay("endTest")
    BY <2>3
  <2>8. CountInv'
    BY <1>2, <1>3, <2>1, <2>4, <2>5, <2>6, <2>7, CountsAgree DEF CountInv, One
  <2>. QED  BY <2>2, <2>8
<1>. QED  BY <1>9, <1>10, <1>11, <1>12, <1>13, <1>14, <1>16, <1>17 DEF WebInv

(* A signal that reports nothing, the one that kills the process included.  *)
LEMMA StepSignalOnly ==
    ASSUME WebInv, SignalArrives, UNCHANGED <<events, mainVars>>,
           \/ interuptCount > 3 /\ Kill
           \/ interuptCount <= 3 /\ UNCHANGED <<vars, life>>
    PROVE  WebInv'
<1>1. /\ StreamInv /\ ListenerInv /\ ThreadInv /\ MutexInv
      /\ OrderInv /\ SharedInv /\ AnswerInv
      /\ count["extra"] = 0 => CountInv /\ VerdictInv
  BY DEF WebInv
<1>2. /\ life = "running" /\ interuptCount' = interuptCount + 1
      /\ UNCHANGED <<critical, sharedVars, updaterVars>>
      /\ UNCHANGED <<events, sent, calls, log>>
  BY DEF SignalArrives, mainVars
<1>3. UNCHANGED <<result, suite_name, suite_size, testStatus, request, uPc, reply, shown>>
  BY <1>2 DEF sharedVars, updaterVars
<1>4. ListenerInv' /\ MutexInv' /\ OrderInv' /\ SharedInv' /\ AnswerInv'
  BY <1>1, <1>2, <1>3, Frames
<1>5. CASE interuptCount > 3 /\ Kill
  <2>1. /\ life' = "join" /\ scope' = <<>> /\ testClean' = TRUE /\ UNCHANGED count
    BY <1>5 DEF Kill
  <2>2. StreamInv'
    BY <1>1, <1>2, <2>1 DEF StreamInv, Indices
  <2>3. ThreadInv'
    BY <1>1, <1>2, <1>3, <1>5, <2>1 DEF ThreadInv
  <2>4. ASSUME count'["extra"] = 0 PROVE CountInv' /\ VerdictInv'
    <3>1. CountInv /\ VerdictInv
      BY <1>1, <2>1, <2>4
    <3>2. VerdictInv'
      BY <1>2, <1>3, <3>1, Frames
    <3>3. \A kind : OnTheWay(kind)' <=> OnTheWay(kind)
      BY <1>2 DEF OnTheWay
    <3>4. CountInv'
      BY <1>2, <2>1, <3>1, <3>3, CountsAgree DEF CountInv, One
    <3>. QED  BY <3>2, <3>4
  <2>. QED  BY <1>4, <2>2, <2>3, <2>4 DEF WebInv
<1>6. CASE interuptCount <= 3 /\ UNCHANGED <<vars, life>>
  <2>1. UNCHANGED <<streamVars, count, scope, life>>
    BY <1>2, <1>6 DEF streamVars, vars
  <2>2. StreamInv'
    BY <1>1, <2>1, Frames
  <2>3. ThreadInv'
    BY <1>1, <1>2, <1>3, <1>6 DEF ThreadInv
  <2>4. count'["extra"] = 0 => CountInv' /\ VerdictInv'
    BY <1>1, <1>2, <1>3, <2>1, Frames
  <2>. QED  BY <1>4, <2>2, <2>3, <2>4 DEF WebInv
<1>. QED  BY <1>5, <1>6

(* A signal.                                                                *)
LEMMA StepSignal ==
    ASSUME WebInv, SignalArrives
    PROVE  WebInv'
<1>1. interuptCount \in 1 .. 5
  BY DEF WebInv, ThreadInv
<1>2. CASE interuptCount > 3
  <2>1. Kill /\ UNCHANGED <<events, mainVars>>
    BY <1>2 DEF SignalArrives
  <2>. QED  BY <1>2, <2>1, StepSignalOnly
<1>3. CASE ~ (interuptCount > 3)
  <2>1. \/ \E x \in Tests : HandlerReports(x)
        \/ UNCHANGED <<streamVars, mainVars, life>>
    BY <1>3 DEF SignalArrives
  <2>2. interuptCount <= 3
    BY <1>1, <1>3
  <2>3. CASE \E x \in Tests : HandlerReports(x)
    BY <2>2, <2>3, StepHandlerReports
  <2>4. CASE UNCHANGED <<streamVars, mainVars, life>>
    <3>1. UNCHANGED <<events, mainVars>> /\ UNCHANGED <<vars, life>>
      BY <2>4 DEF streamVars
    <3>. QED  BY <2>2, <3>1, StepSignalOnly
  <2>. QED  BY <2>1, <2>3, <2>4
<1>. QED  BY <1>2, <1>3

(* Steps of the page, of the updater and of the end leave the main thread's *)
(* part alone.                                                              *)
LEMMA MainKept ==
    ASSUME WebInv, UNCHANGED <<streamVars, mainVars, sharedVars>>,
           life' = "running" => life = "running",
           ThreadInv', MutexInv', AnswerInv'
    PROVE  WebInv'
<1>1. /\ StreamInv /\ ListenerInv /\ OrderInv /\ SharedInv
      /\ count["extra"] = 0 => CountInv /\ VerdictInv
  BY DEF WebInv
<1>2. /\ UNCHANGED <<events, scope, count>> /\ UNCHANGED <<sent, calls, log>>
      /\ UNCHANGED <<result, suite_name, suite_size, testStatus>>
      /\ UNCHANGED <<streamVars, sharedVars>>
  BY DEF streamVars, vars, mainVars, sharedVars
<1>3. StreamInv' /\ ListenerInv' /\ OrderInv' /\ SharedInv'
  BY <1>1, <1>2, Frames
<1>4. ASSUME count'["extra"] = 0 PROVE CountInv' /\ VerdictInv'
  <2>1. CountInv /\ VerdictInv
    BY <1>1, <1>2, <1>4
  <2>2. VerdictInv'
    BY <1>2, <2>1, Frames
  <2>3. \A kind : OnTheWay(kind)' <=> OnTheWay(kind)
    BY <1>2 DEF OnTheWay
  <2>4. InScope(Tests)' <=> InScope(Tests)
    BY <1>2 DEF InScope, Inner
  <2>5. CountInv'
    BY <1>2, <2>1, <2>3, <2>4, CountsAgree DEF CountInv, One
  <2>. QED  BY <2>2, <2>5
<1>. QED  BY <1>3, <1>4 DEF WebInv

(* An answer made while no call is half done tells the log.                 *)
LEMMA AnswerIsWhole ==
    ASSUME WebInv, Active = {}, AnswerWith(suite_name), UNCHANGED log
    PROVE  /\ AnswersAreWhole'
           /\ shown' = [update |-> shown'.update, status |-> shown'.status]
<1> DEFINE P == {SubSeq(log, 1, n) : n \in 0 .. Len(log)}
<1>1. /\ log \in Seq(Events) /\ result = log /\ suite_size = SizeAfter(log)
      /\ suite_name = NameAfter(log) /\ EntriesTell(testStatus, log)
  BY SMTT(30) DEF WebInv, ListenerInv, SharedInv, Reflects, HalfDone, Active
<1>2. log \in P
  <2>1. Len(log) \in 0 .. Len(log) /\ SubSeq(log, 1, Len(log)) = log
    BY <1>1, LenProperties, SubSeqFull
  <2>. QED  BY <2>1
<1>3. /\ shown = [update |-> shown.update, status |-> shown.status]
      /\ shown.update \in P /\ \E es \in P : IsStatusAfter(shown.status, es)
  BY DEF WebInv, AnswerInv, AnswersAreWhole
<1> DEFINE st == Status(suite_name, testStatus, suite_size)
<1>4. IsStatusAfter(st, log)
  <2>1. st.entries = testStatus
    BY DEF Status
  <2>. HIDE DEF st
  <2>2. st = Status(NameAfter(log), st.entries, SizeAfter(log))
    BY <1>1, <2>1 DEF st
  <2>. QED  BY <1>1, <2>1, <2>2 DEF IsStatusAfter
<1>5. shown' = IF request = "update" THEN [shown EXCEPT !.update = result]
                                     ELSE [shown EXCEPT !.status = st]
  BY DEF AnswerWith
<1>. HIDE DEF P, st
<1>6. /\ shown' = [update |-> shown'.update, status |-> shown'.status]
      /\ shown'.update \in P /\ \E es \in P : IsStatusAfter(shown'.status, es)
  <2>1. CASE request = "update"
    <3>1. shown' = [update |-> result, status |-> shown.status]
      BY <1>3, <1>5, <2>1
    <3>2. shown'.update = result /\ shown'.status = shown.status
      BY <3>1
    <3>. QED  BY <1>1, <1>2, <1>3, <3>1, <3>2
  <2>2. CASE request # "update"
    <3>1. shown' = [update |-> shown.update, status |-> st]
      BY <1>3, <1>5, <2>2
    <3>2. shown'.update = shown.update /\ shown'.status = st
      BY <3>1
    <3>. QED  BY <1>2, <1>3, <1>4, <3>1, <3>2
  <2>. QED  BY <2>1, <2>2
<1>. QED  BY <1>6 DEF AnswersAreWhole, P

(* The page's and the updater's steps.                                      *)
LEMMA StepUpdater ==
    ASSUME WebInv, PageAsks \/ UpdaterStep
    PROVE  WebInv'
<1>1. ThreadInv /\ MutexInv /\ AnswerInv
  BY DEF WebInv
<1>2. CASE PageAsks
  <2>1. /\ request' \in Requests
        /\ UNCHANGED <<streamVars, mainVars, sharedVars, critical, uPc, reply, shown,
                       interuptCount, life>>
    BY <1>2 DEF PageAsks, endVars
  <2>2. UNCHANGED <<calls, log, suite_name>>
    BY <2>1 DEF mainVars, sharedVars
  <2>3. ThreadInv' /\ MutexInv' /\ AnswerInv'
    <3>1. ThreadInv'
      BY <1>1, <2>1 DEF ThreadInv
    <3>. QED  BY <1>1, <2>1, <2>2, <3>1, Frames
  <2>. QED  BY <2>1, <2>3, MainKept
<1>3. CASE Poll
  <2>1. /\ uPc = "poll" /\ uPc' \in {"done", "lock"}
        /\ UNCHANGED <<streamVars, mainVars, sharedVars, critical, request, reply, shown,
                       interuptCount, life>>
    BY <1>3 DEF Poll, endVars
  <2>2. UNCHANGED <<calls, log, suite_name>>
    BY <2>1 DEF mainVars, sharedVars
  <2>3. ThreadInv'
    BY <1>1, <2>1 DEF ThreadInv
  <2>4. MutexInv'
    BY <1>1, <2>1, <2>2 DEF MutexInv, Active
  <2>5. AnswerInv'
    BY <1>1, <2>1, <2>2 DEF AnswerInv, AnswersAreWhole
  <2>. QED  BY <2>1, <2>3, <2>4, <2>5, MainKept
<1>4. CASE UpdaterLocks
  <2>1. /\ uPc = "lock" /\ uPc' = "copy" /\ critical = Nobody /\ critical' = "updater"
        /\ UNCHANGED <<streamVars, mainVars, sharedVars, request, reply, shown,
                       interuptCount, life>>
    BY <1>4 DEF UpdaterLocks, Lock, endVars
  <2>2. UNCHANGED <<calls, log, suite_name>>
    BY <2>1 DEF mainVars, sharedVars
  <2>3. ThreadInv'
    BY <1>1, <2>1 DEF ThreadInv
  <2>4. Active = {}
    BY <1>1, <2>1, WebConstants DEF MutexInv
  <2>5. MutexInv'
    BY <2>1, <2>2, <2>4 DEF MutexInv, Active
  <2>6. AnswerInv'
    BY <1>1, <2>1, <2>2 DEF AnswerInv, AnswersAreWhole
  <2>. QED  BY <2>1, <2>3, <2>5, <2>6, MainKept
<1>5. CASE CopyName
  <2>1. /\ uPc = "copy" /\ uPc' = "unlock" /\ reply' = Status(suite_name, <<>>, 0)
        /\ UNCHANGED <<streamVars, mainVars, sharedVars, critical, request, shown,
                       interuptCount, life>>
    BY <1>5 DEF CopyName, endVars
  <2>2. UNCHANGED <<calls, log, suite_name>>
    BY <2>1 DEF mainVars, sharedVars
  <2>3. ThreadInv'
    BY <1>1, <2>1 DEF ThreadInv
  <2>4. MutexInv'
    BY <1>1, <2>1, <2>2 DEF MutexInv, Active
  <2>5. reply'.name = suite_name'
    BY <2>1, <2>2 DEF Status
  <2>6. AnswerInv'
    BY <1>1, <2>1, <2>2, <2>5 DEF AnswerInv, AnswersAreWhole
  <2>. QED  BY <2>1, <2>3, <2>4, <2>6, MainKept
<1>6. CASE Answer
  <2>1. /\ uPc = "unlock" /\ uPc' = "poll" /\ critical' = Nobody
        /\ AnswerWith(reply.name) /\ request' = Nobody
        /\ UNCHANGED <<streamVars, mainVars, sharedVars, interuptCount, life>>
    BY <1>6 DEF Answer, AnswerWith, endVars
  <2>2. UNCHANGED <<calls, log, suite_name>>
    BY <2>1 DEF mainVars, sharedVars
  <2>3. ThreadInv'
    BY <1>1, <2>1 DEF ThreadInv
  <2>4. Active = {}
    BY <1>1, <2>1 DEF MutexInv
  <2>5. MutexInv'
    BY <2>1, <2>2, <2>4, WebConstants DEF MutexInv, Active
  <2>6. reply.name = suite_name
    BY <1>1, <2>1 DEF AnswerInv
  <2>7. AnswerInv'
    <3>1. /\ AnswersAreWhole'
          /\ shown' = [update |-> shown'.update, status |-> shown'.status]
      BY <2>1, <2>2, <2>4, <2>6, AnswerIsWhole
    <3>. QED  BY <2>1, <3>1 DEF AnswerInv
  <2>. QED  BY <2>1, <2>3, <2>5, <2>7, MainKept
<1>. QED  BY <1>2, <1>3, <1>4, <1>5, <1>6 DEF UpdaterStep

(* The steps of the end.                                                    *)
LEMMA StepShutdown ==
    ASSUME WebInv, ShutdownStep
    PROVE  WebInv'
<1>1. ThreadInv /\ MutexInv /\ AnswerInv
  BY DEF WebInv
<1>2. CASE MainReturns \/ JoinUpdater
  <2>1. /\ life' \in {"join", "gone", "lastPoll"}
        /\ UNCHANGED <<streamVars, mainVars, sharedVars, critical, updaterVars,
                       interuptCount>>
    BY <1>2 DEF MainReturns, JoinUpdater
  <2>2. UNCHANGED <<calls, log, suite_name, request, uPc, reply, shown>>
    BY <2>1 DEF mainVars, sharedVars, updaterVars
  <2>3. ThreadInv'
    BY <1>1, <2>1, <2>2 DEF ThreadInv
  <2>4. MutexInv' /\ AnswerInv'
    BY <1>1, <2>1, <2>2, Frames
  <2>. QED  BY <2>1, <2>3, <2>4, MainKept
<1>3. CASE LastPoll
  <2>1. /\ life' = "gone" /\ critical = Nobody
        /\ AnswerWith(suite_name) /\ request' = Nobody
        /\ UNCHANGED <<streamVars, mainVars, sharedVars, critical, uPc, reply,
                       interuptCount>>
    BY <1>3 DEF LastPoll, AnswerWith
  <2>2. UNCHANGED <<calls, log, suite_name>>
    BY <2>1 DEF mainVars, sharedVars
  <2>3. ThreadInv'
    BY <1>1, <2>1 DEF ThreadInv
  <2>4. Active = {} /\ uPc # "unlock"
    BY <1>1, <2>1, WebConstants DEF MutexInv
  <2>5. MutexInv'
    BY <1>1, <2>1, <2>2, Frames
  <2>6. AnswerInv'
    <3>1. /\ AnswersAreWhole'
          /\ shown' = [update |-> shown'.update, status |-> shown'.status]
      BY <2>1, <2>2, <2>4, AnswerIsWhole
    <3>. QED  BY <2>1, <2>4, <3>1 DEF AnswerInv
  <2>. QED  BY <2>1, <2>3, <2>5, <2>6, MainKept
<1>. QED  BY <1>2, <1>3 DEF ShutdownStep

-----------------------------------------------------------------------------
(* The invariant and what follows from it.                                  *)

(* Every step keeps the invariant.                                          *)
LEMMA StepWebInv ==
    ASSUME WebInv, [WebNext]_webVars
    PROVE  WebInv'
<1>1. CASE ProgramStep
  BY <1>1, StepProgram
<1>2. CASE ListenerStep
  BY <1>2, StepDeliver, StepHandlerLocks, StepListenerWrites, StepListenerReturns
     DEF ListenerStep
<1>3. CASE ShutdownStep
  BY <1>3, StepShutdown
<1>4. CASE SignalArrives
  BY <1>4, StepSignal
<1>5. CASE PageAsks \/ UpdaterStep
  BY <1>5, StepUpdater
<1>6. CASE UNCHANGED webVars
  <2>1. UNCHANGED <<streamVars, mainVars, sharedVars, critical, updaterVars, endVars>>
    BY <1>6 DEF webVars
  <2>2. UNCHANGED <<calls, log, suite_name, request, uPc, reply, shown, interuptCount,
                   life>>
    BY <2>1 DEF mainVars, sharedVars, updaterVars, endVars
  <2>3. ThreadInv' /\ MutexInv' /\ AnswerInv'
    BY <2>1, <2>2, Frames DEF WebInv
  <2>. QED  BY <2>1, <2>2, <2>3, MainKept
<1>. QED  BY <1>1, <1>2, <1>3, <1>4, <1>5, <1>6 DEF WebNext

(* It holds when the program starts.                                        *)
LEMMA InitWebInv ==
    ASSUME WebInit
    PROVE  WebInv
<1>1. /\ events = <<>> /\ scope = <<>> /\ count = [c \in Counts |-> 0]
      /\ testClean = TRUE /\ sent = 0 /\ calls = <<>> /\ log = <<>>
      /\ critical = Nobody /\ result = <<>> /\ suite_name = Nobody
      /\ suite_size = 0 /\ testStatus = <<>> /\ request = Nobody /\ uPc = "poll"
      /\ shown = [update |-> <<>>, status |-> NoStatus]
      /\ interuptCount = 1 + SignalsBefore /\ life = "running"
  BY DEF WebInit, StreamInit, Init
<1>2. \A k : k \notin Indices(<<>>)
  BY DEF Indices
<1>3. <<>> \in Seq(Events)
  OBVIOUS
<1>4. \A kind : Places(<<>>, kind) = {} /\ Number(<<>>, kind) = 0
  <2>1. \A kind : Places(<<>>, kind) = {}
    BY DEF Places
  <2>. QED  BY <2>1, FS_EmptySet DEF Number
<1>5. NameAfter(<<>>) = Nobody /\ SizeAfter(<<>>) = 0
  BY <1>4 DEF NameAfter, SizeAfter
<1>6. EntriesTell(<<>>, <<>>)
  BY <1>4 DEF EntriesTell, Number
<1>7. StreamInv
  BY <1>1, <1>2 DEF StreamInv
<1>8. ListenerInv
  BY <1>1, <1>2 DEF ListenerInv
<1>9. ThreadInv
  BY <1>1, WebConstants DEF ThreadInv
<1>10. Active = {} /\ HalfDone = {}
  BY <1>1, <1>2 DEF Active, HalfDone
<1>11. MutexInv
  BY <1>1, <1>10, WebConstants DEF MutexInv
<1>12. OrderInv
  BY <1>1, <1>2 DEF OrderInv
<1>13. SharedInv
  BY <1>1, <1>5, <1>6, <1>10 DEF SharedInv, Reflects
<1>14. AnswerInv
  <2> DEFINE P == {SubSeq(log, 1, n) : n \in 0 .. Len(log)}
  <2>1. <<>> \in P
    <3>1. SubSeq(<<>>, 1, 0) = <<>>
      BY SubSeqEmpty
    <3>2. 0 \in 0 .. Len(log)
      BY <1>1
    <3>. QED  BY <1>1, <3>1, <3>2
  <2>2. IsStatusAfter(NoStatus, <<>>)
    BY <1>5, <1>6 DEF IsStatusAfter, NoStatus, Status
  <2>3. shown.update = <<>> /\ shown.status = NoStatus
    BY <1>1
  <2>. HIDE DEF P
  <2>4. shown.update \in P /\ \E es \in P : IsStatusAfter(shown.status, es)
    BY <2>1, <2>2, <2>3
  <2>5. AnswersAreWhole
    BY <2>4 DEF AnswersAreWhole, P
  <2>. QED  BY <1>1, <2>3, <2>5 DEF AnswerInv
<1>15. CountInv
  <2>1. ~ OnTheWay("startTest") /\ ~ OnTheWay("endTest") /\ ~ InScope(Tests)
    BY <1>1, <1>2 DEF OnTheWay, InScope
  <2>2. count["nTests"] = 0
    BY <1>1 DEF Counts
  <2>3. /\ Number(log, "startTest") = 0 /\ Number(log, "endTest") = 0
        /\ Len(events) <= sent + 1
    BY <1>1, <1>4
  <2>. QED  BY <1>1, <2>1, <2>2, <2>3 DEF CountInv, One
<1>16. VerdictInv
  BY <1>1, <1>4, <1>10 DEF VerdictInv, Verdicts
<1>. QED
  BY <1>7, <1>8, <1>9, <1>11, <1>12, <1>13, <1>14, <1>15, <1>16 DEF WebInv

(* The inductive invariant holds in every state of every behaviour.         *)
THEOREM WebInvariance == WebSpec => []WebInv
<1>1. WebInit => WebInv
  BY InitWebInv
<1>2. WebInv /\ [WebNext]_webVars => WebInv'
  BY StepWebInv
<1>. QED  BY <1>1, <1>2, PTL DEF WebSpec

(* The listener's variables have their types, and the updater holds the     *)
(* mutex exactly while it copies (WebProgressListener.cpp:204-246).         *)
THEOREM WebTypeCorrect == WebSpec => []WebTypeOK
<1>1. ASSUME WebInv PROVE WebTypeOK
  <2>1. /\ ListenerInv /\ ThreadInv /\ MutexInv
    BY <1>1 DEF WebInv
  <2>2. /\ \A k \in DOMAIN calls : calls[k].at \in {"lock", "first", "second"}
        /\ Range(result) \subseteq Range(events)
        /\ Range(testStatus) \subseteq {Running, Failed, Success}
    <3>1. /\ calls \in Seq(Calls) /\ result \in Seq(Events)
          /\ testStatus \in Seq(States)
          /\ \A i \in Indices(result) : result[i] \in Range(events)
      BY <2>1 DEF ListenerInv
    <3>2. \A k \in DOMAIN calls : calls[k] \in Calls
      BY <3>1, InRange
    <3>3. \A y \in Range(result) : y \in Range(events)
      BY <3>1, InRange
    <3>4. \A y \in Range(testStatus) : y \in States
      BY <3>1, InRange
    <3>. QED  BY <3>2, <3>3, <3>4 DEF Calls, States
  <2>3. sent \in 0 .. Len(events)
    BY <2>1 DEF ListenerInv
  <2>. QED  BY <2>1, <2>2, <2>3 DEF WebTypeOK, ThreadInv, MutexInv
<1>. QED  BY <1>1, WebInvariance, PTL

(* The page never shows a half-written event, however the three actors'     *)
(* steps fall (WebProgressListener.cpp:208-232, 277-361).                   *)
THEOREM AnswersAreNeverHalf == WebSpec => []AnswersAreWhole
<1>1. WebInv => AnswersAreWhole
  BY DEF WebInv, AnswerInv
<1>. QED  BY <1>1, WebInvariance, PTL

(* Where the log has the events of the tests the list of events has them    *)
(* too, when nothing is on its way.                                         *)
LEMMA QuietPlaces ==
    ASSUME WebInv, Quiet, NEW kind, kind # "report"
    PROVE  /\ Places(events, kind) = Places(log, kind)
           /\ \A i \in Places(log, kind) : events[i] = log[i]
           /\ \A i \in Places(log, kind) : Rank(events, kind, i) = Rank(log, kind, i)
<1>1. /\ events \in Seq(Events) /\ log \in Seq(Events)
      /\ Len(log) + Len(calls) = sent
      /\ \A i \in Indices(log) : Same(log[i], events[i])
  BY DEF WebInv, StreamInv, ListenerInv, OrderInv
<1>2. Len(events) = Len(log) /\ Len(log) \in Nat
  BY <1>1, LenProperties DEF Quiet
<1>3. /\ Places(events, kind) = {i \in 1 .. Len(log) : events[i].kind = kind}
      /\ Places(log, kind) = {i \in 1 .. Len(log) : log[i].kind = kind}
  BY <1>1, <1>2, PlacesOf
<1>4. \A i \in 1 .. Len(log) :
         \/ log[i] = events[i]
         \/ log[i].kind = "report" /\ events[i].kind = "report"
  BY <1>1 DEF Same, Indices
<1>5. Places(events, kind) = Places(log, kind)
  BY <1>3, <1>4
<1>6. \A i \in Places(log, kind) : events[i] = log[i]
  BY <1>3, <1>4
<1>7. \A i \in Places(log, kind) : Rank(events, kind, i) = Rank(log, kind, i)
  BY <1>5 DEF Rank
<1>. QED  BY <1>5, <1>6, <1>7

(* With no crash handled, the list of entries tells every finished test's   *)
(* verdict in the order of the run (WebProgressListener.cpp:318-345).       *)
THEOREM EveryVerdictIsTold == WebSpec => []StatusTellsVerdicts
<1>1. ASSUME WebInv PROVE StatusTellsVerdicts
  <2>1. SUFFICES ASSUME Quiet, count["extra"] = 0
                 PROVE  /\ Len(testStatus) = count["nTests"]
                        /\ \A i \in Places(events, "endTest") :
                              testStatus[Rank(events, "endTest", i)]
                                = IF events[i].ok THEN Success ELSE Failed
    BY DEF StatusTellsVerdicts
  <2>2. calls = <<>> /\ sent = Len(events)
    BY <2>1 DEF Quiet
  <2>3. /\ StreamInv /\ ListenerInv /\ SharedInv /\ CountInv /\ VerdictInv
    BY <1>1, <2>1 DEF WebInv
  <2>4. HalfDone = {} /\ ~ OnTheWay("startTest")
    <3>1. Len(events) \in Nat
      BY <2>3, LenProperties DEF StreamInv
    <3>. QED  BY <2>2, <3>1 DEF HalfDone, OnTheWay, Indices
  <2>5. Len(testStatus) = count["nTests"]
    <3>1. Len(testStatus) = Number(log, "startTest")
      BY <2>3, <2>4 DEF SharedInv, Reflects, EntriesTell, Number
    <3>2. Number(log, "startTest") + One(OnTheWay("startTest")) = count["nTests"]
      BY <2>3 DEF CountInv
    <3>3. Number(log, "startTest") \in Nat
      BY <2>3, PlacesOf DEF ListenerInv
    <3>. QED  BY <2>4, <3>1, <3>2, <3>3 DEF One
  <2>6. Verdicts(testStatus, log)
    BY <2>3, <2>4 DEF VerdictInv
  <2>7. ASSUME NEW i \in Places(events, "endTest")
        PROVE  testStatus[Rank(events, "endTest", i)]
                 = IF events[i].ok THEN Success ELSE Failed
    <3>1. /\ i \in Places(log, "endTest") /\ events[i] = log[i]
          /\ Rank(events, "endTest", i) = Rank(log, "endTest", i)
      BY <1>1, <2>1, QuietPlaces
    <3>2. testStatus[Rank(log, "endTest", i)] = Verdict(log[i])
      BY <2>6, <3>1 DEF Verdicts
    <3>. QED  BY <3>1, <3>2 DEF Verdict
  <2>. QED  BY <2>5, <2>7
<1>. QED  BY <1>1, WebInvariance, PTL
===============================================================================
