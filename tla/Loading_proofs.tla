---------------------------- MODULE Loading_proofs ----------------------------
(***************************************************************************)
(* Proofs about loading, for any libraries, options, files, folders and    *)
(* suites and any number of loaders: no object outlives its library, the   *)
(* runner lists live objects only, each with one owner, every plugin that  *)
(* is left out has an error of its own, and the error that ended the       *)
(* loading is shown first.                                                 *)
(***************************************************************************)
EXTENDS Loading, FiniteSetTheorems, SequenceTheorems, TLAPS

-----------------------------------------------------------------------------
(* The inductive invariant.                                                 *)

(* What a loader has at each place of its life.                             *)
LoaderOK(r) ==
    /\ r.pc \in {"new", "mapped", "found", "valid"} => ~r.content /\ r.rct = 1
    /\ r.pc = "new" => r.lib = NoLib
    /\ r.pc \in {"mapped", "found", "valid"} =>
           r.lib # NoLib /\ r.kind # "script"
    /\ r.pc = "open" =>
           /\ r.content /\ (r.lib # NoLib <=> r.kind # "script")
           /\ r.rct = IF r.kind = "script" THEN 1 ELSE 2
    /\ r.pc \in {"failed", "empty", "deleted"} =>
           ~r.content /\ r.lib = NoLib /\ r.rct >= 1
    /\ r.pc = "destroyed" => ~r.content /\ r.rct = 1

MappedInv == \A b \in Libraries : mapped[b] = Cardinality(Users(b))

LibraryInv ==
    /\ loaders \in Seq(Loaders) /\ mapped \in [Libraries -> Nat]
    /\ \A l \in Ids : LoaderOK(loaders[l])
    /\ MappedInv

OpenPlaces == {"openPlugin", "openTest", "openFixture"}
Deleting == {"deleteTests", "deleteFixtures", "gone"}
Places == {"options", "openFolder", "folder", "file", "suiteFile", "elements",
           "report", "run"} \cup OpenPlaces \cup Deleting

(* open() works on the loader made last.                                    *)
PlaceInv ==
    /\ LoadTypeOK
    /\ at \in Places
    /\ hand \in {0, Len(loaders)}

(* The loaders the runner will delete, each of them once.                   *)
Held == ToSet(dllLoaders) \cup ToSet(fixtureLoaders)
NoneTwice(s) == \A i, j \in 1 .. Len(s) : s[i] = s[j] => i = j

ListsInv ==
    /\ dllLoaders \in Seq(Nat) /\ fixtureLoaders \in Seq(Nat)
    /\ Held \subseteq Ids /\ hand \notin Held
    /\ NoneTwice(dllLoaders) /\ NoneTwice(fixtureLoaders)
    /\ ToSet(dllLoaders) \cap ToSet(fixtureLoaders) = {}

(* The loader whose turn it is while the lists are deleted.                 *)
Turn == IF at = "deleteTests" THEN dllLoaders ELSE fixtureLoaders

(* As long as the runner has entries its loaders are open; a loader is only *)
(* between two states while it is in hand or its turn has come.             *)
LifeInv ==
    /\ at \notin Deleting \/ tests # <<>> => \A l \in Held : Opened(l)
    /\ \A l \in Ids : loaders[l].pc \in {"new", "mapped", "found", "valid"}
                          => l = hand
    /\ \A l \in Ids : loaders[l].pc = "destroyed" =>
          /\ at \in {"deleteTests", "deleteFixtures"}
          /\ Turn # <<>> /\ l = Head(Turn)

(* A fixture's open() works on a fixture's loader.                          *)
HandInv == at = "openFixture" => loaders[hand].kind = "fixture"

(* What the runner and the suite being read list.                           *)
Covered == Listed \cup (IF suite = NoSuite THEN {} ELSE Members(suite))

EntriesInv == Covered \subseteq Held

Failed(l) == OpenFailed(l) \/ Deleted(l)
LeftBehind(l) == Opened(l) /\ l \notin Held
Lost == {l \in Ids \ {hand} : Failed(l) \/ LeftBehind(l)}

NoNumber(l) == [what |-> "invalid repetition", of |-> l]

(* A plugin that is in no entry has an error of its own, or belongs to a    *)
(* suite that was given up for a later fixture.                             *)
AccountInv ==
    /\ at \notin Deleting =>
         /\ \A l \in Lost : \E e \in Logged : e.of = l
         /\ \A l \in Held \ Covered :
               \E f \in Ids \ {hand} :
                  f > l /\ Failed(f) /\ loaders[f].kind = "fixture"
    /\ \A l \in Ids \ {hand} : LeftBehind(l) => NoNumber(l) \in Logged

Messages == {"cannot access", "unknown plugin", "cannot load", "",
             "not readable", "invalid repetition"}
Errors == [what : Messages, of : Nat]

(* The error that ends the loading is the last one logged.                  *)
ReportInv ==
    /\ errors \in Seq(Errors) /\ printed \in Seq(Errors)
    /\ at \notin Deleting =>
         /\ exitCode = 1 <=> cause # "none"
         /\ cause # "none" => at = "report"
         /\ at # "run" => printed = <<>>
         /\ at = "run" => Len(errors) <= Len(printed)
    /\ cause \notin {"none", "no suite"} =>
         /\ at = "report" => errors # <<>> /\ Last(errors).what = cause
         /\ at = "deleteTests" => printed # <<>> /\ Last(printed).what = cause

LoadInv ==
    /\ LibraryInv
    /\ PlaceInv
    /\ ListsInv
    /\ LifeInv
    /\ HandInv
    /\ EntriesInv
    /\ AccountInv
    /\ ReportInv

-----------------------------------------------------------------------------
(* Sequences: what is in one, and what an element more changes.             *)

(* The elements of a sequence, by their places.                             *)
LEMMA Elements ==
    ASSUME NEW S, NEW s \in Seq(S)
    PROVE  /\ Len(s) \in Nat /\ DOMAIN s = 1 .. Len(s)
           /\ ToSet(s) = {s[i] : i \in 1 .. Len(s)} /\ ToSet(s) \subseteq S
           /\ \A i \in 1 .. Len(s) : s[i] \in S
  BY DEF ToSet

(* Appending adds one element.                                              *)
LEMMA OneMoreElement ==
    ASSUME NEW S, NEW s \in Seq(S), NEW e \in S
    PROVE  /\ Append(s, e) \in Seq(S) /\ ToSet(Append(s, e)) = ToSet(s) \cup {e}
           /\ Len(Append(s, e)) = Len(s) + 1
           /\ Last(Append(s, e)) = e /\ Append(s, e) # <<>>
<1>1. /\ Append(s, e) \in Seq(S) /\ Len(Append(s, e)) = Len(s) + 1
      /\ \A i \in 1 .. Len(s) : Append(s, e)[i] = s[i]
      /\ Append(s, e)[Len(s) + 1] = e /\ Append(s, e) # <<>>
  BY AppendProperties
<1>2. ToSet(Append(s, e)) = ToSet(s) \cup {e}
  <2>1. Len(s) \in Nat /\ 1 .. Len(s) + 1 = (1 .. Len(s)) \cup {Len(s) + 1}
    OBVIOUS
  <2>2. ToSet(Append(s, e)) = {Append(s, e)[i] : i \in 1 .. Len(s) + 1}
    BY <1>1, Elements
  <2>3. ToSet(s) = {s[i] : i \in 1 .. Len(s)}
    BY Elements
  <2>. QED  BY <1>1, <2>1, <2>2, <2>3
<1>. QED  BY <1>1, <1>2 DEF Last

(* A list of different elements stays one when a new element is appended.   *)
LEMMA NoneTwiceAppend ==
    ASSUME NEW S, NEW s \in Seq(S), NEW e \in S, NoneTwice(s), e \notin ToSet(s)
    PROVE  NoneTwice(Append(s, e))
<1>1. /\ Len(s) \in Nat /\ Len(Append(s, e)) = Len(s) + 1
      /\ \A i \in 1 .. Len(s) : Append(s, e)[i] = s[i] /\ s[i] # e
      /\ Append(s, e)[Len(s) + 1] = e
  BY AppendProperties, Elements
<1>. QED  BY <1>1 DEF NoneTwice

(* It loses exactly its first element with it.                              *)
LEMMA NoneTwiceTail ==
    ASSUME NEW S, NEW s \in Seq(S), s # <<>>, NoneTwice(s)
    PROVE  /\ Tail(s) \in Seq(S) /\ NoneTwice(Tail(s))
           /\ ToSet(Tail(s)) = ToSet(s) \ {Head(s)}
<1>1. /\ Len(s) \in Nat /\ Len(s) >= 1 /\ Tail(s) \in Seq(S)
      /\ Len(Tail(s)) = Len(s) - 1 /\ Head(s) = s[1]
      /\ \A i \in 1 .. Len(s) - 1 : Tail(s)[i] = s[i + 1]
  BY HeadTailProperties
<1>2. NoneTwice(Tail(s))
  BY <1>1 DEF NoneTwice
<1>3. /\ ToSet(Tail(s)) = {Tail(s)[i] : i \in 1 .. Len(s) - 1}
      /\ ToSet(s) = {s[i] : i \in 1 .. Len(s)}
  BY <1>1, Elements
<1>4. ToSet(Tail(s)) \subseteq ToSet(s) \ {Head(s)}
  BY <1>1, <1>3 DEF NoneTwice
<1>5. ASSUME NEW x \in ToSet(s) \ {Head(s)}
      PROVE  x \in ToSet(Tail(s))
  <2>1. PICK i \in 1 .. Len(s) : x = s[i]
    BY <1>3, <1>5
  <2>2. i - 1 \in 1 .. Len(s) - 1 /\ Tail(s)[i - 1] = x
    BY <1>1, <1>5, <2>1
  <2>. QED  BY <1>3, <2>2
<1>. QED  BY <1>1, <1>2, <1>4, <1>5

(* What an entry has, and what it has when a suite gets one member more.    *)
LEMMA EntryGrows ==
    ASSUME NEW e \in Entries, NEW l \in Nat
    PROVE  LET t == [e EXCEPT !.tests = Append(@, l)]
               f == [e EXCEPT !.fixtures = Append(@, l)]
           IN  /\ t \in Entries /\ Members(t) = Members(e) \cup {l}
               /\ f \in Entries /\ Members(f) = Members(e) \cup {l}
<1> DEFINE t == [e EXCEPT !.tests = Append(@, l)]
           f == [e EXCEPT !.fixtures = Append(@, l)]
<1>1. e.tests \in Seq(Nat) /\ e.fixtures \in Seq(Nat)
  BY DEF Entries
<1>2. /\ t.tests = Append(e.tests, l) /\ t.fixtures = e.fixtures
      /\ f.tests = e.tests /\ f.fixtures = Append(e.fixtures, l)
  BY DEF Entries
<1>3. /\ Append(e.tests, l) \in Seq(Nat) /\ Append(e.fixtures, l) \in Seq(Nat)
      /\ ToSet(Append(e.tests, l)) = ToSet(e.tests) \cup {l}
      /\ ToSet(Append(e.fixtures, l)) = ToSet(e.fixtures) \cup {l}
  BY <1>1, OneMoreElement
<1>4. t \in Entries /\ f \in Entries
  BY <1>1, <1>3 DEF Entries
<1>. QED  BY <1>2, <1>3, <1>4 DEF Members

-----------------------------------------------------------------------------
(* Loaders and libraries.                                                   *)

(* The loaders of a library are finitely many.                              *)
LEMMA UsersFinite ==
    ASSUME loaders \in Seq(Loaders), NEW b
    PROVE  IsFiniteSet(Users(b)) /\ Cardinality(Users(b)) \in Nat
<1>1. Len(loaders) \in Nat /\ Users(b) \subseteq 1 .. Len(loaders)
  BY DEF Users, Ids
<1>2. IsFiniteSet(1 .. Len(loaders))
  BY <1>1, FS_Interval
<1>. QED  BY <1>1, <1>2, FS_Subset, FS_CardinalityType

(* A loader that changes as its handle does leaves the handles counted.     *)
LEMMA HandlesCounted ==
    ASSUME LibraryInv, NEW l \in Ids, NEW rec \in Loaders, Set(l, rec),
           \/ rec.lib = loaders[l].lib /\ UNCHANGED mapped
           \/ /\ loaders[l].lib = NoLib /\ rec.lib \in Libraries
              /\ Library(rec.lib, 1)
           \/ /\ loaders[l].lib \in Libraries /\ rec.lib = NoLib
              /\ Library(loaders[l].lib, -1)
    PROVE  /\ loaders' \in Seq(Loaders) /\ Len(loaders') = Len(loaders)
           /\ Ids' = Ids /\ loaders'[l] = rec
           /\ \A k \in Ids \ {l} : loaders'[k] = loaders[k]
           /\ mapped' \in [Libraries -> Nat] /\ MappedInv'
<1>1. /\ Len(loaders) \in Nat /\ Ids = 1 .. Len(loaders) /\ Ids' = Ids
      /\ loaders' \in Seq(Loaders) /\ Len(loaders') = Len(loaders)
      /\ loaders'[l] = rec /\ \A k \in Ids \ {l} : loaders'[k] = loaders[k]
  BY ExceptSeq DEF LibraryInv, Set, Ids
<1>2. \A b : /\ IsFiniteSet(Users(b)) /\ Cardinality(Users(b)) \in Nat
             /\ Users(b)' = IF rec.lib = b THEN Users(b) \cup {l}
                            ELSE Users(b) \ {l}
             /\ l \in Users(b) <=> loaders[l].lib = b
  BY <1>1, UsersFinite DEF LibraryInv, Users
<1>3. NoLib \notin Libraries
  BY LibraryConstants
<1>4. CASE rec.lib = loaders[l].lib /\ UNCHANGED mapped
  <2>1. \A b : Users(b)' = Users(b)
    BY <1>2, <1>4
  <2>. QED  BY <1>1, <1>4, <2>1 DEF MappedInv, LibraryInv
<1>5. CASE /\ loaders[l].lib = NoLib /\ rec.lib \in Libraries
           /\ Library(rec.lib, 1)
  <2>1. \A b \in Libraries :
            /\ mapped'[b] = IF b = rec.lib THEN mapped[b] + 1 ELSE mapped[b]
            /\ mapped[b] = Cardinality(Users(b)) /\ mapped[b] \in Nat
    BY <1>5 DEF Library, LibraryInv, MappedInv
  <2>2. mapped' \in [Libraries -> Nat]
    BY <1>5 DEF Library, LibraryInv
  <2>3. ASSUME NEW b \in Libraries
        PROVE  mapped'[b] = Cardinality(Users(b)')
    <3>1. l \notin Users(b)
      BY <1>2, <1>3, <1>5
    <3>2. Users(b)' = IF b = rec.lib THEN Users(b) \cup {l} ELSE Users(b)
      BY <1>2, <3>1
    <3>3. Cardinality(Users(b) \cup {l}) = Cardinality(Users(b)) + 1
      BY <1>2, <3>1, FS_AddElement
    <3>. QED  BY <2>1, <3>2, <3>3
  <2>. QED  BY <1>1, <2>2, <2>3 DEF MappedInv
<1>6. CASE /\ loaders[l].lib \in Libraries /\ rec.lib = NoLib
           /\ Library(loaders[l].lib, -1)
  <2>1. \A b \in Libraries :
            /\ mapped'[b] = IF b = loaders[l].lib THEN mapped[b] - 1 ELSE mapped[b]
            /\ mapped[b] = Cardinality(Users(b)) /\ mapped[b] \in Nat
    BY <1>6 DEF Library, LibraryInv, MappedInv
  <2>2. mapped' = [b \in Libraries |-> mapped'[b]]
    BY <1>6 DEF Library, LibraryInv
  <2>3. ASSUME NEW b \in Libraries
        PROVE  mapped'[b] = Cardinality(Users(b)') /\ mapped'[b] \in Nat
    <3>1. Users(b)' = Users(b) \ {l} /\ IsFiniteSet(Users(b) \ {l})
      BY <1>2, <1>3, <1>6, FS_RemoveElement
    <3>2. Cardinality(Users(b) \ {l})
            = IF b = loaders[l].lib THEN mapped[b] - 1 ELSE mapped[b]
      BY <1>2, <2>1, FS_RemoveElement
    <3>3. Cardinality(Users(b) \ {l}) \in Nat
      BY <3>1, FS_CardinalityType
    <3>. QED  BY <2>1, <3>1, <3>2, <3>3
  <2>. QED  BY <1>1, <2>2, <2>3 DEF MappedInv
<1>. QED  BY <1>4, <1>5, <1>6

(* open() and the destruction of a loader, wherever they stand: the handles *)
(* stay counted, no other loader changes, and this one goes on its way.     *)
LEMMA LoaderStep ==
    ASSUME LibraryInv, NEW l \in Ids, OpenStep(l) \/ DeleteStep(l)
    PROVE  /\ LibraryInv' /\ Len(loaders') = Len(loaders) /\ Ids' = Ids
           /\ \A k \in Ids \ {l} : loaders'[k] = loaders[k]
           /\ loaders'[l].kind = loaders[l].kind
           /\ OpenStep(l) =>
                /\ loaders[l].pc \in {"new", "mapped", "found", "valid"}
                /\ loaders'[l].pc \in {"mapped", "found", "valid", "open",
                                       "failed", "empty"}
           /\ Destroy(l) => Opened(l) /\ loaders'[l].pc = "destroyed"
           /\ Unmap(l) => loaders[l].pc \in {"destroyed", "failed", "empty"}
                          /\ loaders'[l].pc = "deleted"
<1> DEFINE r == loaders[l]
           Moves(rec, pcs) ==
              /\ rec \in Loaders /\ LoaderOK(rec)
              /\ rec.kind = r.kind /\ rec.pc \in pcs /\ Set(l, rec)
              /\ \/ rec.lib = r.lib /\ UNCHANGED mapped
                 \/ /\ r.lib = NoLib /\ rec.lib \in Libraries
                    /\ Library(rec.lib, 1)
                 \/ /\ r.lib \in Libraries /\ rec.lib = NoLib
                    /\ Library(r.lib, -1)
           GoesOn(pcs) ==
              /\ LibraryInv' /\ Len(loaders') = Len(loaders) /\ Ids' = Ids
              /\ \A k \in Ids \ {l} : loaders'[k] = loaders[k]
              /\ loaders'[l].kind = r.kind /\ loaders'[l].pc \in pcs
<1>1. r \in Loaders /\ LoaderOK(r)
  BY Elements DEF LibraryInv, Ids
<1>2. /\ r.kind \in {"dll", "fixture", "script"} /\ r.pc \in LoaderPcs
      /\ r.lib \in Libraries \cup {NoLib} /\ r.content \in BOOLEAN
      /\ r.rct \in Nat /\ NoLib \notin Libraries
      /\ r = [kind |-> r.kind, pc |-> r.pc, lib |-> r.lib,
              content |-> r.content, rct |-> r.rct]
  BY <1>1, LibraryConstants DEF Loaders
<1>3. ASSUME NEW rec, NEW pcs, Moves(rec, pcs)
      PROVE  GoesOn(pcs)
  <2>1. /\ loaders' \in Seq(Loaders) /\ Len(loaders') = Len(loaders)
        /\ Ids' = Ids /\ loaders'[l] = rec
        /\ \A k \in Ids \ {l} : loaders'[k] = loaders[k]
        /\ mapped' \in [Libraries -> Nat] /\ MappedInv'
    BY <1>3, HandlesCounted
  <2>2. \A k \in Ids' : LoaderOK(loaders'[k])
    BY <1>3, <2>1 DEF LibraryInv
  <2>. QED  BY <1>3, <2>1, <2>2 DEF LibraryInv
<1>. HIDE DEF r, GoesOn
<1>4. OpenLibrary(l) => GoesOn({"mapped", "failed"}) /\ r.pc = "new"
  <2>. SUFFICES ASSUME OpenLibrary(l)
                PROVE  GoesOn({"mapped", "failed"}) /\ r.pc = "new"
    OBVIOUS
  <2>1. CASE Set(l, [r EXCEPT !.pc = "failed"]) /\ UNCHANGED mapped
    <3>1. r.pc = "new"
      BY DEF OpenLibrary, r
    <3>2. Moves([r EXCEPT !.pc = "failed"], {"mapped", "failed"})
      BY <1>1, <1>2, <2>1, <3>1 DEF LoaderOK, Loaders, LoaderPcs
    <3>. QED  BY <1>3, <3>1, <3>2
  <2>2. ASSUME NEW b \in Libraries, Library(b, 1),
               Set(l, [r EXCEPT !.pc = "mapped", !.lib = b])
        PROVE  GoesOn({"mapped", "failed"})
    <3>1. Moves([r EXCEPT !.pc = "mapped", !.lib = b], {"mapped", "failed"})
      BY <1>1, <1>2, <2>2 DEF OpenLibrary, r, LoaderOK, Loaders, LoaderPcs
    <3>. QED  BY <1>3, <3>1
  <2>. QED  BY <2>1, <2>2 DEF OpenLibrary, r
<1>5. FindFactory(l) => r.pc = "mapped" /\ GoesOn({"found", "failed"})
  <2>. SUFFICES ASSUME FindFactory(l) PROVE  r.pc = "mapped" /\ GoesOn({"found", "failed"})
    OBVIOUS
  <2>1. r.pc = "mapped" /\ r.kind # "script" /\ r.lib \in Libraries
    BY <1>1, <1>2 DEF FindFactory, r, LoaderOK
  <2>2. CASE Set(l, Unmapped([r EXCEPT !.pc = "failed"])) /\ Library(r.lib, -1)
    <3> DEFINE rec == Unmapped([r EXCEPT !.pc = "failed"])
    <3>1. rec \in Loaders /\ rec.kind = r.kind /\ rec.pc = "failed"
          /\ rec.lib = NoLib /\ rec.content = r.content /\ rec.rct = r.rct
      BY <1>2, <2>1 DEF Loaders, LoaderPcs, Unmapped
    <3>2. Set(l, rec)
      BY <2>2
    <3>. HIDE DEF rec
    <3>3. Moves(rec, {"found", "failed"})
      BY <1>1, <1>2, <2>1, <2>2, <3>1, <3>2 DEF LoaderOK
    <3>. QED  BY <1>3, <2>1, <3>3
  <2>3. CASE Set(l, [r EXCEPT !.pc = "found"]) /\ UNCHANGED mapped
    <3> DEFINE rec == [r EXCEPT !.pc = "found"]
    <3>1. rec \in Loaders /\ rec.kind = r.kind /\ rec.pc = "found"
          /\ rec.lib = r.lib /\ rec.content = r.content /\ rec.rct = r.rct
      BY <1>2, <2>1 DEF Loaders, LoaderPcs
    <3>2. Set(l, rec)
      BY <2>3
    <3>. HIDE DEF rec
    <3>3. Moves(rec, {"found", "failed"})
      BY <1>1, <1>2, <2>1, <2>3, <3>1, <3>2 DEF LoaderOK
    <3>. QED  BY <1>3, <2>1, <3>3
  <2>. QED  BY <2>2, <2>3 DEF FindFactory, r
<1>6. UseFactory(l) => r.pc = "found" /\ GoesOn({"valid", "failed"})
  <2>. SUFFICES ASSUME UseFactory(l) PROVE  r.pc = "found" /\ GoesOn({"valid", "failed"})
    OBVIOUS
  <2>1. r.pc = "found" /\ r.kind # "script" /\ r.lib \in Libraries
    BY <1>1, <1>2 DEF UseFactory, r, LoaderOK
  <2>2. CASE Set(l, Unmapped([r EXCEPT !.pc = "failed"])) /\ Library(r.lib, -1)
    <3> DEFINE rec == Unmapped([r EXCEPT !.pc = "failed"])
    <3>1. rec \in Loaders /\ rec.kind = r.kind /\ rec.pc = "failed"
          /\ rec.lib = NoLib /\ rec.content = r.content /\ rec.rct = r.rct
      BY <1>2, <2>1 DEF Loaders, LoaderPcs, Unmapped
    <3>2. Set(l, rec)
      BY <2>2
    <3>. HIDE DEF rec
    <3>3. Moves(rec, {"valid", "failed"})
      BY <1>1, <1>2, <2>1, <2>2, <3>1, <3>2 DEF LoaderOK
    <3>. QED  BY <1>3, <2>1, <3>3
  <2>3. CASE Set(l, [r EXCEPT !.pc = "valid"]) /\ UNCHANGED mapped
    <3> DEFINE rec == [r EXCEPT !.pc = "valid"]
    <3>1. rec \in Loaders /\ rec.kind = r.kind /\ rec.pc = "valid"
          /\ rec.lib = r.lib /\ rec.content = r.content /\ rec.rct = r.rct
      BY <1>2, <2>1 DEF Loaders, LoaderPcs
    <3>2. Set(l, rec)
      BY <2>3
    <3>. HIDE DEF rec
    <3>3. Moves(rec, {"valid", "failed"})
      BY <1>1, <1>2, <2>1, <2>3, <3>1, <3>2 DEF LoaderOK
    <3>. QED  BY <1>3, <2>1, <3>3
  <2>. QED  BY <2>2, <2>3 DEF UseFactory, r
<1>7. Create(l) => r.pc = "valid" /\ GoesOn({"open", "empty"})
  <2>. SUFFICES ASSUME Create(l) PROVE  r.pc = "valid" /\ GoesOn({"open", "empty"})
    OBVIOUS
  <2>1. /\ r.pc = "valid" /\ r.kind # "script" /\ r.lib \in Libraries
        /\ r.rct = 1
    BY <1>1, <1>2 DEF Create, r, LoaderOK
  <2>2. CASE Set(l, [r EXCEPT !.pc = "open", !.content = TRUE, !.rct = @ + 1]) /\ UNCHANGED mapped
    <3> DEFINE rec == [r EXCEPT !.pc = "open", !.content = TRUE, !.rct = @ + 1]
    <3>1. rec \in Loaders /\ rec.kind = r.kind /\ rec.pc = "open"
          /\ rec.lib = r.lib /\ rec.content = TRUE /\ rec.rct = 2
      <4>1. rec = [r EXCEPT !.pc = "open", !.content = TRUE, !.rct = 2]
        BY <2>1
      <4>. HIDE DEF rec
      <4>. QED  BY <1>1, <4>1 DEF Loaders, LoaderPcs
    <3>2. Set(l, rec)
      BY <2>2
    <3>. HIDE DEF rec
    <3>3. Moves(rec, {"open", "empty"})
      BY <1>1, <1>2, <2>1, <2>2, <3>1, <3>2 DEF LoaderOK
    <3>. QED  BY <1>3, <2>1, <3>3
  <2>3. CASE Set(l, Unmapped([r EXCEPT !.pc = "empty", !.rct = @ + 1])) /\ Library(r.lib, -1)
    <3> DEFINE rec == Unmapped([r EXCEPT !.pc = "empty", !.rct = @ + 1])
    <3>1. rec \in Loaders /\ rec.kind = r.kind /\ rec.pc = "empty"
          /\ rec.lib = NoLib /\ rec.content = r.content /\ rec.rct = 2
      <4>1. rec = Unmapped([r EXCEPT !.pc = "empty", !.rct = 2])
        BY <2>1
      <4>. HIDE DEF rec
      <4>. QED  BY <1>1, <4>1 DEF Loaders, LoaderPcs, Unmapped
    <3>2. Set(l, rec)
      BY <2>3
    <3>. HIDE DEF rec
    <3>3. Moves(rec, {"open", "empty"})
      BY <1>1, <1>2, <2>1, <2>3, <3>1, <3>2 DEF LoaderOK
    <3>. QED  BY <1>3, <2>1, <3>3
  <2>. QED  BY <2>2, <2>3 DEF Create, r
<1>8. OpenScript(l) => r.pc = "new" /\ GoesOn({"open", "failed"})
  <2>. SUFFICES ASSUME OpenScript(l) PROVE  r.pc = "new" /\ GoesOn({"open", "failed"})
    OBVIOUS
  <2>1. r.pc = "new" /\ r.kind = "script" /\ r.lib = NoLib
    BY <1>1, <1>2 DEF OpenScript, r, LoaderOK
  <2>2. CASE Set(l, [r EXCEPT !.pc = "open", !.content = TRUE]) /\ UNCHANGED mapped
    <3> DEFINE rec == [r EXCEPT !.pc = "open", !.content = TRUE]
    <3>1. rec \in Loaders /\ rec.kind = r.kind /\ rec.pc = "open"
          /\ rec.lib = NoLib /\ rec.content = TRUE /\ rec.rct = r.rct
      BY <1>2, <2>1 DEF Loaders, LoaderPcs
    <3>2. Set(l, rec)
      BY <2>2
    <3>. HIDE DEF rec
    <3>3. Moves(rec, {"open", "failed"})
      BY <1>1, <1>2, <2>1, <2>2, <3>1, <3>2 DEF LoaderOK
    <3>. QED  BY <1>3, <2>1, <3>3
  <2>3. CASE Set(l, [r EXCEPT !.pc = "failed"]) /\ UNCHANGED mapped
    <3> DEFINE rec == [r EXCEPT !.pc = "failed"]
    <3>1. rec \in Loaders /\ rec.kind = r.kind /\ rec.pc = "failed"
          /\ rec.lib = NoLib /\ rec.content = r.content /\ rec.rct = r.rct
      BY <1>2, <2>1 DEF Loaders, LoaderPcs
    <3>2. Set(l, rec)
      BY <2>3
    <3>. HIDE DEF rec
    <3>3. Moves(rec, {"open", "failed"})
      BY <1>1, <1>2, <2>1, <2>3, <3>1, <3>2 DEF LoaderOK
    <3>. QED  BY <1>3, <2>1, <3>3
  <2>. QED  BY <2>2, <2>3 DEF OpenScript, r
<1>9. Destroy(l) => r.pc = "open" /\ GoesOn({"destroyed"})
  <2>. SUFFICES ASSUME Destroy(l) PROVE  r.pc = "open" /\ GoesOn({"destroyed"})
    OBVIOUS
  <2> DEFINE rec == [r EXCEPT !.pc = "destroyed", !.content = FALSE,
                        !.rct = IF r.kind = "script" THEN @ ELSE @ - 1]
  <2>1. r.pc = "open" /\ Set(l, rec) /\ UNCHANGED mapped
    BY DEF Destroy, Opened, r
  <2>2. rec \in Loaders /\ rec.kind = r.kind /\ rec.pc = "destroyed"
        /\ rec.lib = r.lib /\ rec.content = FALSE /\ rec.rct = 1
    <3>1. r.rct = IF r.kind = "script" THEN 1 ELSE 2
      BY <1>1, <2>1 DEF LoaderOK
    <3>2. rec = [r EXCEPT !.pc = "destroyed", !.content = FALSE, !.rct = 1]
      <4>1. (IF r.kind = "script" THEN r.rct ELSE r.rct - 1) = 1
        BY <3>1
      <4>. QED  BY <4>1
    <3>. HIDE DEF rec
    <3>. QED  BY <1>1, <3>2 DEF Loaders, LoaderPcs
  <2>. HIDE DEF rec
  <2>3. Moves(rec, {"destroyed"})
    BY <1>1, <1>2, <2>1, <2>2 DEF LoaderOK
  <2>. QED  BY <1>3, <2>1, <2>3
<1>10. Unmap(l) => /\ r.pc \in {"destroyed", "failed", "empty"}
                   /\ GoesOn({"deleted"})
  <2>. SUFFICES ASSUME Unmap(l)
                PROVE  /\ r.pc \in {"destroyed", "failed", "empty"}
                       /\ GoesOn({"deleted"})
    OBVIOUS
  <2> DEFINE rec == Unmapped([r EXCEPT !.pc = "deleted"])
  <2>1. /\ r.pc \in {"destroyed", "failed", "empty"} /\ Set(l, rec)
        /\ IF r.lib = NoLib THEN UNCHANGED mapped ELSE Library(r.lib, -1)
    BY DEF Unmap, r
  <2>2. rec \in Loaders /\ rec.kind = r.kind /\ rec.pc = "deleted"
        /\ rec.lib = NoLib /\ rec.content = r.content /\ rec.rct = r.rct
    BY <1>2 DEF Loaders, LoaderPcs, Unmapped
  <2>. HIDE DEF rec
  <2>3. Moves(rec, {"deleted"})
    BY <1>1, <1>2, <2>1, <2>2 DEF LoaderOK
  <2>. QED  BY <1>3, <2>1, <2>3
<1>. QED
  BY <1>4, <1>5, <1>6, <1>7, <1>8, <1>9, <1>10
     DEF OpenStep, DeleteStep, Opened, r, GoesOn

(* A new loader is the last one, uses no library yet and is now in hand.    *)
LEMMA NewLoaderMade ==
    ASSUME LibraryInv, NEW kind \in {"dll", "fixture", "script"},
           BeginOpen(kind)
    PROVE  /\ LibraryInv' /\ Len(loaders') = Len(loaders) + 1
           /\ hand' = Len(loaders') /\ hand' \in Nat \ {0}
           /\ Ids' = Ids \cup {hand'} /\ hand' \notin Ids
           /\ \A k \in Ids : loaders'[k] = loaders[k]
           /\ loaders'[hand'] = NewLoader(kind)
<1>1. NewLoader(kind) \in Loaders /\ LoaderOK(NewLoader(kind))
  BY DEF NewLoader, Loaders, LoaderPcs, LoaderOK
<1>2. loaders' = Append(loaders, NewLoader(kind)) /\ mapped' = mapped
  BY DEF BeginOpen, Make
<1>3. /\ loaders' \in Seq(Loaders) /\ Len(loaders') = Len(loaders) + 1
      /\ Len(loaders) \in Nat
      /\ \A k \in 1 .. Len(loaders) : loaders'[k] = loaders[k]
      /\ loaders'[Len(loaders) + 1] = NewLoader(kind)
  BY <1>1, <1>2, AppendProperties DEF LibraryInv
<1>4. /\ Ids = 1 .. Len(loaders) /\ Ids' = 1 .. Len(loaders) + 1
      /\ Ids' = Ids \cup {Len(loaders) + 1} /\ Len(loaders) + 1 \notin Ids
  BY <1>3 DEF Ids, LibraryInv
<1>5. \A b \in Libraries : Users(b)' = Users(b)
  BY <1>3, <1>4, LibraryConstants DEF Users, NewLoader
<1>6. \A k \in Ids' : LoaderOK(loaders'[k])
  BY <1>1, <1>3, <1>4 DEF LibraryInv
<1>7. LibraryInv'
  BY <1>2, <1>3, <1>5, <1>6 DEF LibraryInv, MappedInv
<1>8. hand' = Len(loaders) + 1
  BY DEF BeginOpen
<1>. QED  BY <1>3, <1>4, <1>7, <1>8

-----------------------------------------------------------------------------
(* The steps of the program.                                                *)

(* Where a load call returns to, and when it ends the loading.              *)
LEMMA Returns ==
    ASSUME NEW outcome, Return(outcome)
    PROVE  /\ at' \in {"folder", "options", "report"}
           /\ at' = "report" => /\ outcome # "ok"
                               /\ exitCode' = 1 /\ cause' = outcome
           /\ at' # "report" => UNCHANGED <<exitCode, cause>>
  BY DEF Return

(* What a step does to the loaders and to the runner's lists of them: one   *)
(* of these seven.                                                          *)
Quiet ==
    /\ UNCHANGED <<loaders, mapped, dllLoaders, fixtureLoaders>>
    /\ \/ hand' = hand
       \/ hand' = 0 /\ hand \in Ids /\ (Opened(hand) \/ OpenFailed(hand))
    /\ at \in Deleting =>
         \/ UNCHANGED loadVars
         \/ tests' = <<>> /\ Turn = <<>> /\ at' \in Deleting
Begins ==
    /\ hand = 0 /\ at \in {"file", "elements"} /\ at' \in OpenPlaces
    /\ \E kind \in {"dll", "fixture", "script"} : BeginOpen(kind)
Fails ==
    /\ hand \in Ids /\ OpenFailed(hand) /\ Unmap(hand) /\ hand' = 0
    /\ at \in OpenPlaces /\ at' \notin Deleting
    /\ UNCHANGED <<dllLoaders, fixtureLoaders, tests>>
Keeps ==
    /\ hand \in Ids /\ Opened(hand) /\ hand' = 0
    /\ at \in OpenPlaces /\ at' \notin Deleting
    /\ UNCHANGED <<loaders, mapped>>
    /\ \/ /\ dllLoaders' = Append(dllLoaders, hand)
          /\ UNCHANGED fixtureLoaders
       \/ /\ fixtureLoaders' = Append(fixtureLoaders, hand)
          /\ UNCHANGED dllLoaders
AtTurn ==
    /\ at \in {"deleteTests", "deleteFixtures"} /\ at' = at
    /\ hand = 0 /\ hand' = 0 /\ tests' = <<>> /\ Turn # <<>>
    /\ UNCHANGED <<errors, printed>>
Deletes ==
    /\ AtTurn /\ DeleteStep(Head(Turn))
    /\ UNCHANGED <<dllLoaders, fixtureLoaders>>
Drops ==
    /\ AtTurn /\ Deleted(Head(Turn)) /\ UNCHANGED <<loaders, mapped>>
    /\ IF at = "deleteTests"
       THEN dllLoaders' = Tail(dllLoaders) /\ UNCHANGED fixtureLoaders
       ELSE fixtureLoaders' = Tail(fixtureLoaders) /\ UNCHANGED dllLoaders

(* Every step is of one of these kinds.                                     *)
LEMMA StepKinds ==
    ASSUME LoadInv, [LoadNext]_loadVars
    PROVE  Quiet \/ Begins \/ OpenGoesOn \/ Fails \/ Keeps \/ Deletes \/ Drops
<1>. USE DEF OpenPlaces, Deleting
<1>1. /\ at \notin OpenPlaces => hand = 0
      /\ at \in OpenPlaces => hand \in Ids
  BY DEF LoadInv, PlaceInv, LoadTypeOK
<1>2. CASE NextOption \/ OpenFolder \/ ReadFolder \/ UnknownPlugin
           \/ PluginFails \/ NoSuiteFile \/ BeginSuite
  BY <1>1, <1>2 DEF Quiet, NextOption, OpenFolder, ReadFolder,
                    UnknownPlugin, PluginFails, NoSuiteFile, BeginSuite
<1>3. CASE UnknownTest \/ SuiteEnds \/ LoadingDone \/ reportErrors \/ RunEnds
  BY <1>1, <1>3 DEF Quiet, UnknownTest, SuiteEnds, LoadingDone,
                    reportErrors, RunEnds
<1>4. CASE LoadPlugin \/ FixtureElement \/ TestElement
  BY <1>1, <1>4 DEF Begins, LoadPlugin, FixtureElement, TestElement
<1>5. CASE PluginOpened \/ FixtureOpened
  BY <1>1, <1>5, Returns DEF Keeps, PluginOpened, FixtureOpened
<1>6. CASE TestOpened
  BY <1>1, <1>6 DEF Keeps, Quiet, TestOpened
<1>7. CASE FixtureFails \/ TestFails
  BY <1>1, <1>7, Returns DEF Fails, FixtureFails, TestFails
<1>8. CASE DeleteTests
  <2>1. CASE Turn = <<>>
    BY <1>8, <2>1 DEF Quiet, DeleteTests, Turn
  <2>2. CASE Turn # <<>> /\ Deleted(Head(Turn))
    BY <1>1, <1>8, <2>2 DEF Drops, AtTurn, DeleteTests, Turn
  <2>3. CASE Turn # <<>> /\ ~Deleted(Head(Turn))
    BY <1>1, <1>8, <2>3 DEF Deletes, AtTurn, DeleteTests, Turn
  <2>. QED  BY <2>1, <2>2, <2>3
<1>9. CASE UNCHANGED loadVars
  BY <1>9 DEF Quiet, loadVars
<1>. QED
  BY <1>2, <1>3, <1>4, <1>5, <1>6, <1>7, <1>8, <1>9 DEF LoadNext

(* The loader whose turn it is, is one of the runner's.                     *)
LEMMA TurnIsHeld ==
    ASSUME ListsInv, Turn # <<>>
    PROVE  /\ Turn \in Seq(Nat) /\ Len(Turn) \in Nat \ {0}
           /\ Head(Turn) = Turn[1]
           /\ Head(Turn) \in Held /\ Head(Turn) \in Ids
<1>1. Turn \in Seq(Nat) /\ ToSet(Turn) \subseteq Held
  BY DEF Turn, ListsInv, Held
<1>2. Len(Turn) \in Nat \ {0} /\ Head(Turn) = Turn[1]
  BY <1>1
<1>3. Turn[1] \in ToSet(Turn)
  BY <1>1, <1>2, Elements
<1>. QED  BY <1>1, <1>2, <1>3 DEF ListsInv

(* Every step keeps libraries and loaders in order.                         *)
LEMMA StepLibrary ==
    ASSUME LoadInv, [LoadNext]_loadVars
    PROVE  /\ LibraryInv'
           /\ Ids \subseteq Ids' /\ Len(loaders) \in Nat
           /\ \A k \in Ids : loaders'[k].kind = loaders[k].kind
           /\ Len(loaders') # Len(loaders) =>
                  hand = 0 /\ hand' = Len(loaders') /\ at \in {"file", "elements"}
<1>. USE DEF LoadInv
<1>1. Len(loaders) \in Nat /\ hand \in Ids \cup {0}
  BY DEF LibraryInv, PlaceInv, LoadTypeOK
<1>2. CASE Quiet \/ Keeps \/ Drops
  BY <1>1, <1>2 DEF Quiet, Keeps, Drops, LibraryInv, Ids, MappedInv, Users
<1>3. CASE Begins
  BY <1>3, NewLoaderMade DEF Begins
<1>4. ASSUME NEW l \in Ids, OpenStep(l) \/ DeleteStep(l)
      PROVE  /\ LibraryInv' /\ Ids' = Ids /\ Len(loaders') = Len(loaders)
             /\ \A k \in Ids : loaders'[k].kind = loaders[k].kind
  BY <1>4, LoaderStep
<1>5. CASE OpenGoesOn
  BY <1>1, <1>4, <1>5 DEF OpenGoesOn
<1>6. CASE Fails
  BY <1>1, <1>4, <1>6 DEF Fails, DeleteStep
<1>7. CASE Deletes
  BY <1>1, <1>4, <1>7, TurnIsHeld DEF Deletes, AtTurn
<1>. QED  BY <1>2, <1>3, <1>5, <1>6, <1>7, StepKinds

(* Entries keep their type, and the places of open() and of a suite file    *)
(* are where a loader is in hand and a suite is being read.                 *)
LEMMA StepPlaces ==
    ASSUME LoadInv, [LoadNext]_loadVars
    PROVE  PlaceInv'
<1>. USE DEF LoadInv, PlaceInv, OpenPlaces, Deleting, Places
<1>1. /\ LibraryInv' /\ Ids \subseteq Ids' /\ Len(loaders) \in Nat
      /\ Len(loaders') # Len(loaders) =>
             hand = 0 /\ hand' = Len(loaders') /\ at \in {"file", "elements"}
      /\ Len(loaders') \in Nat
  <2>1. Len(loaders') \in Nat
    BY StepLibrary DEF LibraryInv
  <2>. QED  BY <2>1, StepLibrary
<1> DEFINE Typed ==
             /\ tests' \in Seq(Entries) /\ suite' \in Entries \cup {NoSuite}
             /\ exitCode' \in {-1, 0, 1} /\ at' \in Places
             /\ hand' \in {0, Len(loaders')}
             /\ at' \in OpenPlaces <=> hand' # 0
             /\ at' \in {"elements", "openTest", "openFixture"}
                  <=> suite' # NoSuite
<1>2. Typed => PlaceInv'
  <2>1. Typed => hand' \in {0} \cup Ids'
    BY <1>1 DEF Ids, LibraryInv
  <2>. QED  BY <1>1, <2>1 DEF LoadTypeOK, LibraryInv
<1>3. /\ tests \in Seq(Entries) /\ suite \in Entries \cup {NoSuite}
      /\ exitCode \in {-1, 0, 1} /\ NoSuite \notin Entries
      /\ at \in OpenPlaces <=> hand # 0
      /\ at \in {"elements", "openTest", "openFixture"} <=> suite # NoSuite
      /\ hand \in {0, Len(loaders)} /\ hand \in Nat
  BY <1>1, LoadingConstants DEF LoadTypeOK
<1>. USE DEF LoadTypeOK
<1>4. CASE NextOption \/ OpenFolder \/ ReadFolder \/ LoadingDone
           \/ UnknownTest
  BY <1>1, <1>2, <1>3, <1>4
     DEF NextOption, OpenFolder, ReadFolder, LoadingDone, UnknownTest
<1>5. CASE reportErrors \/ RunEnds
  BY <1>1, <1>2, <1>3, <1>5 DEF reportErrors, RunEnds
<1>6. CASE UnknownPlugin \/ PluginFails \/ NoSuiteFile
  BY <1>1, <1>2, <1>3, <1>6, Returns
     DEF UnknownPlugin, PluginFails, NoSuiteFile
<1>7. CASE LoadPlugin \/ FixtureElement \/ TestElement
  BY <1>1, <1>2, <1>3, <1>7, NewLoaderMade
     DEF LoadPlugin, FixtureElement, TestElement, BeginOpen
<1>8. CASE OpenGoesOn
  BY <1>1, <1>2, <1>3, <1>8 DEF OpenGoesOn
<1>9. CASE PluginOpened
  <2>1. Entry(<<hand>>, <<>>) \in Entries
    BY <1>3 DEF Entry, Entries
  <2>2. tests' \in Seq(Entries)
    BY <1>3, <1>9, <2>1 DEF PluginOpened
  <2>. QED  BY <1>1, <1>2, <1>3, <1>9, <2>2, Returns DEF PluginOpened
<1>10. CASE BeginSuite
  <2>1. Entry(<<>>, <<>>) \in Entries
    BY DEF Entry, Entries
  <2>. QED  BY <1>1, <1>2, <1>3, <1>10, <2>1 DEF BeginSuite
<1>11. CASE SuiteEnds
  <2>1. tests' \in Seq(Entries)
    BY <1>3, <1>11 DEF SuiteEnds
  <2>. QED  BY <1>1, <1>2, <1>3, <1>11, <2>1, Returns DEF SuiteEnds
<1>12. CASE FixtureOpened
  <2>1. suite' \in Entries
    BY <1>3, <1>12, EntryGrows DEF FixtureOpened
  <2>. QED  BY <1>1, <1>2, <1>3, <1>12, <2>1 DEF FixtureOpened
<1>13. CASE TestOpened
  <2>1. suite' \in Entries
    <3>1. suite \in Entries /\ hand \in Nat
      BY <1>3, <1>13 DEF TestOpened
    <3>2. \/ suite' = [suite EXCEPT !.tests = Append(@, hand)]
          \/ suite' = suite
      BY <1>13 DEF TestOpened, Forgotten
    <3>3. [suite EXCEPT !.tests = Append(@, hand)] \in Entries
      BY <3>1, EntryGrows
    <3>. QED  BY <3>1, <3>2, <3>3
  <2>. QED  BY <1>1, <1>2, <1>3, <1>13, <2>1 DEF TestOpened
<1>14. CASE FixtureFails \/ TestFails
  BY <1>1, <1>2, <1>3, <1>14, Returns DEF FixtureFails, TestFails, DropSuite
<1>15. CASE DeleteTests
  BY <1>1, <1>2, <1>3, <1>15 DEF DeleteTests
<1>16. CASE UNCHANGED loadVars
  BY <1>1, <1>2, <1>3, <1>16 DEF loadVars
<1>. QED
  BY <1>4, <1>5, <1>6, <1>7, <1>8, <1>9, <1>10, <1>11, <1>12, <1>13, <1>14,
     <1>15, <1>16 DEF LoadNext

(* The runner's lists hold a loader once, and none that is in hand.         *)
LEMMA StepLists ==
    ASSUME LoadInv, [LoadNext]_loadVars
    PROVE  /\ ListsInv'
           /\ Quiet \/ Begins \/ OpenGoesOn \/ Fails \/ Deletes => Held' = Held
           /\ Keeps => Held' = Held \cup {hand}
           /\ Drops => Held' = Held \ {Head(Turn)}
           /\ 0 \notin Ids /\ hand \in Ids \cup {0}
<1>. USE DEF LoadInv
<1>1. /\ Ids \subseteq Ids' /\ Len(loaders) \in Nat /\ ListsInv
      /\ 0 \notin Ids /\ 0 \notin Ids' /\ hand \in Ids \cup {0}
      /\ Ids \subseteq Nat /\ Ids' \subseteq Nat
  <2>1. /\ loaders \in Seq(Loaders) /\ loaders' \in Seq(Loaders)
        /\ Ids \subseteq Ids'
    BY StepLibrary DEF LibraryInv
  <2>2. Ids = 1 .. Len(loaders) /\ Ids' = 1 .. Len(loaders')
    BY <2>1 DEF Ids
  <2>. QED  BY <2>1, <2>2 DEF PlaceInv, LoadTypeOK
<1>2. ASSUME Quiet \/ Begins \/ OpenGoesOn \/ Fails \/ Deletes
      PROVE  ListsInv' /\ Held' = Held
  <2>1. UNCHANGED <<dllLoaders, fixtureLoaders>>
    BY <1>2 DEF Quiet, Begins, BeginOpen, OpenGoesOn, Fails, Deletes
  <2>2. hand' \in {hand, 0} \/ hand' \notin Ids
    BY <1>2, NewLoaderMade
       DEF Quiet, Begins, OpenGoesOn, Fails, Deletes, AtTurn
  <2>. QED  BY <1>1, <2>1, <2>2 DEF ListsInv, Held
<1>3. ASSUME Keeps
      PROVE  ListsInv' /\ Held' = Held \cup {hand}
  <2>1. /\ hand \in Ids /\ hand \notin Held /\ hand' = 0 /\ hand \in Nat
    BY <1>1, <1>3 DEF Keeps, ListsInv
  <2>2. CASE /\ dllLoaders' = Append(dllLoaders, hand)
             /\ UNCHANGED fixtureLoaders
    <3>1. /\ dllLoaders' \in Seq(Nat) /\ NoneTwice(dllLoaders')
          /\ ToSet(dllLoaders') = ToSet(dllLoaders) \cup {hand}
      BY <1>1, <2>1, <2>2, OneMoreElement, NoneTwiceAppend DEF ListsInv, Held
    <3>. QED  BY <1>1, <1>3, <2>1, <2>2, <3>1 DEF ListsInv, Held
  <2>3. CASE /\ fixtureLoaders' = Append(fixtureLoaders, hand)
             /\ UNCHANGED dllLoaders
    <3>1. /\ fixtureLoaders' \in Seq(Nat) /\ NoneTwice(fixtureLoaders')
          /\ ToSet(fixtureLoaders') = ToSet(fixtureLoaders) \cup {hand}
      BY <1>1, <2>1, <2>3, OneMoreElement, NoneTwiceAppend DEF ListsInv, Held
    <3>. QED  BY <1>1, <1>3, <2>1, <2>3, <3>1 DEF ListsInv, Held
  <2>. QED  BY <1>3, <2>2, <2>3 DEF Keeps
<1>4. ASSUME Drops
      PROVE  ListsInv' /\ Held' = Held \ {Head(Turn)}
  <2>1. /\ Turn # <<>> /\ hand = 0 /\ hand' = 0 /\ Head(Turn) \in Held
    BY <1>1, <1>4, TurnIsHeld DEF Drops, AtTurn
  <2>2. CASE at = "deleteTests"
    <3>1. /\ dllLoaders' \in Seq(Nat) /\ NoneTwice(dllLoaders')
          /\ ToSet(dllLoaders') = ToSet(dllLoaders) \ {Head(Turn)}
          /\ Head(Turn) \notin ToSet(fixtureLoaders)
      <4>1. Turn = dllLoaders /\ dllLoaders' = Tail(dllLoaders)
        BY <1>4, <2>2 DEF Turn, Drops
      <4>2. Head(dllLoaders) \in ToSet(dllLoaders)
        BY <1>1, <2>1, <4>1, Elements DEF ListsInv
      <4>. QED  BY <1>1, <2>1, <4>1, <4>2, NoneTwiceTail DEF ListsInv
    <3>. QED  BY <1>1, <1>4, <2>1, <2>2, <3>1 DEF ListsInv, Held, Drops
  <2>3. CASE at # "deleteTests"
    <3>1. /\ fixtureLoaders' \in Seq(Nat) /\ NoneTwice(fixtureLoaders')
          /\ ToSet(fixtureLoaders') = ToSet(fixtureLoaders) \ {Head(Turn)}
          /\ Head(Turn) \notin ToSet(dllLoaders)
      <4>1. Turn = fixtureLoaders /\ fixtureLoaders' = Tail(fixtureLoaders)
        BY <1>4, <2>3 DEF Turn, Drops
      <4>2. Head(fixtureLoaders) \in ToSet(fixtureLoaders)
        BY <1>1, <2>1, <4>1, Elements DEF ListsInv
      <4>. QED  BY <1>1, <2>1, <4>1, <4>2, NoneTwiceTail DEF ListsInv
    <3>. QED  BY <1>1, <1>4, <2>1, <2>3, <3>1 DEF ListsInv, Held, Drops
  <2>. QED  BY <2>2, <2>3
<1>. QED  BY <1>1, <1>2, <1>3, <1>4, StepKinds

(* The runner's loaders are open until their turn has come.                 *)
LEMMA StepLife ==
    ASSUME LoadInv, [LoadNext]_loadVars
    PROVE  LifeInv'
<1>. USE DEF LoadInv
<1>1. /\ Quiet \/ Begins \/ OpenGoesOn \/ Fails \/ Deletes => Held' = Held
      /\ Keeps => Held' = Held \cup {hand}
      /\ Drops => Held' = Held \ {Head(Turn)}
      /\ Held \subseteq Ids /\ Held' \subseteq Ids' /\ hand \notin Held
      /\ 0 \notin Ids /\ hand \in Ids \cup {0}
  BY StepLists DEF ListsInv
<1>. USE DEF Deleting, OpenPlaces, Opened, OpenFailed
<1>2. CASE Quiet
  <2>1. /\ loaders' = loaders /\ Ids' = Ids /\ Held' = Held
        /\ hand' = hand \/ (hand' = 0 /\ loaders[hand].pc \in {"open", "failed", "empty"})
    BY <1>1, <1>2 DEF Quiet, Ids, Held
  <2>2. CASE at \notin Deleting
    BY <1>1, <2>1, <2>2 DEF LifeInv
  <2>3. CASE UNCHANGED loadVars
    BY <1>1, <2>1, <2>3 DEF LifeInv, loadVars, Turn
  <2>4. CASE tests' = <<>> /\ Turn = <<>> /\ at' \in Deleting
    BY <1>1, <2>1, <2>4 DEF LifeInv
  <2>. QED  BY <1>2, <2>2, <2>3, <2>4 DEF Quiet
<1>3. CASE Begins
  <2>1. PICK kind \in {"dll", "fixture", "script"} : BeginOpen(kind)
    BY <1>3 DEF Begins
  <2>2. /\ Ids' = Ids \cup {hand'} /\ hand' \notin Ids
        /\ \A k \in Ids : loaders'[k] = loaders[k]
        /\ loaders'[hand'].pc = "new"
    BY <2>1, NewLoaderMade DEF NewLoader
  <2>3. /\ Held' = Held /\ hand = 0 /\ at \notin Deleting /\ at' \notin Deleting
    BY <1>3, <2>1 DEF Begins, BeginOpen, Held
  <2>. QED  BY <1>1, <2>2, <2>3 DEF LifeInv
<1>4. ASSUME NEW l \in Ids, OpenStep(l) \/ DeleteStep(l)
      PROVE  /\ Ids' = Ids /\ \A k \in Ids \ {l} : loaders'[k] = loaders[k]
             /\ OpenStep(l) => loaders'[l].pc \in {"mapped", "found", "valid",
                                                   "open", "failed", "empty"}
             /\ Destroy(l) => loaders'[l].pc = "destroyed"
             /\ Unmap(l) => loaders'[l].pc = "deleted"
  BY <1>4, LoaderStep
<1>5. CASE OpenGoesOn
  <2>1. /\ hand \in Ids /\ OpenStep(hand) /\ hand' = hand /\ at' = at
        /\ tests' = tests /\ Held' = Held /\ Turn' = Turn
    BY <1>1, <1>5 DEF OpenGoesOn, Held, Turn
  <2>. QED  BY <1>1, <1>4, <2>1 DEF LifeInv
<1>6. CASE Fails
  <2>1. /\ hand \in Ids /\ Unmap(hand) /\ hand' = 0 /\ Held' = Held
        /\ at \notin Deleting /\ at' \notin Deleting
    BY <1>6 DEF Fails, Held
  <2>. QED  BY <1>1, <1>4, <2>1 DEF LifeInv, DeleteStep
<1>7. CASE Keeps
  <2>1. /\ hand \in Ids /\ loaders[hand].pc = "open" /\ hand' = 0
        /\ Held' = Held \cup {hand} /\ loaders' = loaders /\ Ids' = Ids
        /\ at \notin Deleting /\ at' \notin Deleting
    BY <1>1, <1>7 DEF Keeps, Ids
  <2>. QED  BY <1>1, <2>1 DEF LifeInv
<1>8. CASE Deletes
  <2>1. /\ Head(Turn) \in Ids /\ DeleteStep(Head(Turn))
        /\ at' = at /\ at \in {"deleteTests", "deleteFixtures"} /\ Turn' = Turn
        /\ tests' = <<>> /\ hand' = hand /\ Turn # <<>>
    BY <1>8, TurnIsHeld DEF Deletes, AtTurn, Turn
  <2>. QED  BY <1>1, <1>4, <2>1 DEF LifeInv, DeleteStep
<1>9. CASE Drops
  <2>1. /\ Head(Turn) \in Ids /\ loaders[Head(Turn)].pc = "deleted"
        /\ at' = at /\ at \in {"deleteTests", "deleteFixtures"}
        /\ tests' = <<>> /\ hand' = hand /\ loaders' = loaders /\ Ids' = Ids
    BY <1>9, TurnIsHeld DEF Drops, AtTurn, Deleted, Ids
  <2>. QED  BY <1>1, <2>1 DEF LifeInv
<1>. QED  BY <1>2, <1>3, <1>5, <1>6, <1>7, <1>8, <1>9, StepKinds

(* What is in hand at "openFixture" was made there.                         *)
LEMMA StepHand ==
    ASSUME LoadInv, [LoadNext]_loadVars
    PROVE  HandInv'
<1>1. CASE FixtureElement
  <2>1. BeginOpen("fixture")
    BY <1>1 DEF FixtureElement
  <2>. QED  BY <2>1, NewLoaderMade DEF NewLoader, HandInv, LoadInv
<1>2. CASE OpenGoesOn
  <2>1. hand' = hand /\ at' = at /\ (at = "openFixture" => hand \in Ids)
    BY <1>2 DEF OpenGoesOn, LoadInv, PlaceInv, LoadTypeOK
  <2>. QED  BY <2>1, StepLibrary DEF HandInv, LoadInv
<1>3. CASE \/ NextOption \/ OpenFolder \/ ReadFolder \/ UnknownPlugin
           \/ LoadPlugin \/ PluginOpened \/ PluginFails \/ NoSuiteFile
           \/ BeginSuite \/ TestElement \/ UnknownTest
  BY <1>3, Returns
     DEF NextOption, OpenFolder, ReadFolder, UnknownPlugin, LoadPlugin,
         PluginOpened, PluginFails, NoSuiteFile, BeginSuite, TestElement,
         UnknownTest, HandInv
<1>4. CASE \/ SuiteEnds \/ FixtureOpened \/ FixtureFails \/ TestOpened
           \/ TestFails \/ LoadingDone \/ reportErrors \/ RunEnds
           \/ DeleteTests
  BY <1>4, Returns
     DEF SuiteEnds, FixtureOpened, FixtureFails, TestOpened, TestFails,
         LoadingDone, reportErrors, RunEnds, DeleteTests, HandInv
<1>5. CASE UNCHANGED loadVars
  BY <1>5 DEF loadVars, HandInv, LoadInv
<1>. QED  BY <1>1, <1>2, <1>3, <1>4, <1>5 DEF LoadNext

(* An entry more lists its members.                                         *)
LEMMA ListedGrows ==
    ASSUME tests \in Seq(Entries), NEW e \in Entries,
           tests' = Append(tests, e)
    PROVE  Listed' = Listed \cup Members(e)
<1>1. ToSet(tests') = ToSet(tests) \cup {e}
  BY OneMoreElement
<1>. QED  BY <1>1 DEF Listed

(* The steps that neither list a loader nor give up a suite.                *)
OthersDo ==
    \/ NextOption \/ OpenFolder \/ ReadFolder \/ UnknownPlugin \/ NoSuiteFile
    \/ BeginSuite \/ UnknownTest \/ SuiteEnds \/ LoadingDone \/ reportErrors
    \/ RunEnds \/ LoadPlugin \/ FixtureElement \/ TestElement \/ OpenGoesOn
    \/ PluginFails \/ TestFails

(* What each step does to what is listed.                                   *)
LEMMA CoverSteps ==
    ASSUME LoadInv
    PROVE  /\ OthersDo => Covered' = Covered
           /\ PluginOpened \/ FixtureOpened => Covered' = Covered \cup {hand}
           /\ TestOpened =>
                \/ /\ Covered' = Covered \cup {hand} /\ UNCHANGED errors
                   /\ dllLoaders' = Append(dllLoaders, hand)
                \/ /\ Covered' = Covered /\ AddError("invalid repetition")
                   /\ UNCHANGED dllLoaders
           /\ FixtureFails => Covered' = Listed /\ Listed' = Listed
           /\ DeleteTests => Covered' = {}
<1>1. /\ tests \in Seq(Entries) /\ suite \in Entries \cup {NoSuite}
      /\ NoSuite \notin Entries /\ hand \in Nat
      /\ at \in {"elements", "openTest", "openFixture"} <=> suite # NoSuite
  BY LoadingConstants, Elements
     DEF LoadInv, PlaceInv, LoadTypeOK, LibraryInv, Ids
<1>2. ASSUME UNCHANGED <<tests, suite>>
      PROVE  Covered' = Covered /\ Listed' = Listed
  BY <1>2 DEF Covered, Listed
<1>3. ASSUME UNCHANGED suite, NEW e \in Entries, tests' = Append(tests, e)
      PROVE  Covered' = Covered \cup Members(e)
  BY <1>1, <1>3, ListedGrows DEF Covered
<1>4. ASSUME UNCHANGED tests, suite # NoSuite,
             \/ suite' = [suite EXCEPT !.tests = Append(@, hand)]
             \/ suite' = [suite EXCEPT !.fixtures = Append(@, hand)]
      PROVE  Covered' = Covered \cup {hand}
  <2>1. /\ suite \in Entries /\ suite' \in Entries
        /\ Members(suite') = Members(suite) \cup {hand}
    BY <1>1, <1>4, EntryGrows
  <2>2. Listed' = Listed
    BY <1>4 DEF Listed
  <2>. QED  BY <1>1, <2>1, <2>2 DEF Covered
<1>5. ASSUME NEW ts, NEW fs
      PROVE  Members(Entry(ts, fs)) = ToSet(ts) \cup ToSet(fs)
  BY DEF Members, Entry
<1>6. /\ ToSet(<<>>) = {} /\ ToSet(<<hand>>) = {hand}
      /\ Entry(<<>>, <<>>) \in Entries /\ Entry(<<hand>>, <<>>) \in Entries
  BY <1>1 DEF ToSet, Entry, Entries
<1>7. ASSUME \/ NextOption \/ OpenFolder \/ ReadFolder \/ UnknownPlugin
             \/ NoSuiteFile \/ UnknownTest \/ LoadingDone \/ reportErrors
             \/ RunEnds \/ LoadPlugin \/ FixtureElement \/ TestElement
             \/ OpenGoesOn \/ PluginFails \/ TestFails
      PROVE  Covered' = Covered
  BY <1>2, <1>7
     DEF NextOption, OpenFolder, ReadFolder, UnknownPlugin, NoSuiteFile,
         UnknownTest, LoadingDone, reportErrors, RunEnds, LoadPlugin,
         FixtureElement, TestElement, BeginOpen, OpenGoesOn, PluginFails,
         TestFails
<1>8. ASSUME BeginSuite PROVE Covered' = Covered
  <2>1. /\ Members(Entry(<<>>, <<>>)) = {} /\ suite = NoSuite
        /\ suite' = Entry(<<>>, <<>>) /\ Listed' = Listed
    BY <1>1, <1>5, <1>6, <1>8 DEF BeginSuite, Listed
  <2>. QED  BY <2>1 DEF Covered
<1>9. ASSUME SuiteEnds PROVE Covered' = Covered
  <2>1. Listed' = Listed \cup Members(suite) /\ suite # NoSuite
    BY <1>1, <1>9, ListedGrows DEF SuiteEnds
  <2>. QED  BY <1>9, <2>1 DEF SuiteEnds, Covered
<1>10. ASSUME PluginOpened PROVE Covered' = Covered \cup {hand}
  BY <1>3, <1>5, <1>6, <1>10 DEF PluginOpened
<1>11. ASSUME FixtureOpened PROVE Covered' = Covered \cup {hand}
  BY <1>1, <1>4, <1>11 DEF FixtureOpened
<1>12. ASSUME TestOpened
       PROVE  \/ /\ Covered' = Covered \cup {hand} /\ UNCHANGED errors
                 /\ dllLoaders' = Append(dllLoaders, hand)
              \/ /\ Covered' = Covered /\ AddError("invalid repetition")
                 /\ UNCHANGED dllLoaders
  BY <1>1, <1>2, <1>4, <1>12 DEF TestOpened, Forgotten
<1>13. ASSUME FixtureFails PROVE Covered' = Listed /\ Listed' = Listed
  BY <1>13 DEF FixtureFails, DropSuite, Covered, Listed
<1>14. ASSUME DeleteTests PROVE Covered' = {}
  <2>1. tests' = <<>> /\ suite' = NoSuite
    BY <1>1, <1>14 DEF DeleteTests
  <2>2. Listed' = {}
    BY <2>1, <1>6 DEF Listed
  <2>. QED  BY <2>1, <2>2 DEF Covered
<1>15. OthersDo => Covered' = Covered
  BY <1>7, <1>8, <1>9 DEF OthersDo
<1>. QED
  BY <1>10, <1>11, <1>12, <1>13, <1>14, <1>15

(* The runner and the suite being read list held loaders only.              *)
LEMMA StepEntries ==
    ASSUME LoadInv, [LoadNext]_loadVars
    PROVE  EntriesInv'
<1>1. EntriesInv
  BY DEF LoadInv
<1>2. UNCHANGED <<dllLoaders, fixtureLoaders>> => Held' = Held
  BY DEF Held
<1>3. CASE OthersDo
  <2>1. UNCHANGED <<dllLoaders, fixtureLoaders>>
    BY <1>3
       DEF OthersDo, NextOption, OpenFolder, ReadFolder, UnknownPlugin, NoSuiteFile,
           BeginSuite, UnknownTest, SuiteEnds, LoadingDone, reportErrors,
           RunEnds, LoadPlugin, FixtureElement, TestElement, BeginOpen,
           OpenGoesOn, PluginFails, TestFails
  <2>2. Covered' = Covered
    BY <1>3, CoverSteps
  <2>. QED  BY <1>1, <1>2, <2>1, <2>2 DEF EntriesInv
<1>4. ASSUME Covered' = Covered \cup {hand}, at \in OpenPlaces, Opened(hand),
             hand' = 0, at' \notin Deleting, UNCHANGED <<loaders, mapped>>,
             \/ /\ dllLoaders' = Append(dllLoaders, hand)
                /\ UNCHANGED fixtureLoaders
             \/ /\ fixtureLoaders' = Append(fixtureLoaders, hand)
                /\ UNCHANGED dllLoaders
      PROVE  EntriesInv'
  <2>1. Keeps
    BY <1>4 DEF Keeps, LoadInv, PlaceInv, LoadTypeOK, OpenPlaces
  <2>. QED  BY <1>1, <1>4, <2>1, StepLists DEF EntriesInv
<1>5. CASE PluginOpened \/ FixtureOpened
  BY <1>4, <1>5, CoverSteps, Returns
     DEF PluginOpened, FixtureOpened, OpenPlaces, Deleting
<1>6. CASE TestOpened
  <2>1. CASE Covered' = Covered \cup {hand} /\ dllLoaders' = Append(dllLoaders, hand)
    BY <1>4, <1>6, <2>1 DEF TestOpened, OpenPlaces, Deleting
  <2>2. CASE Covered' = Covered /\ UNCHANGED dllLoaders
    BY <1>1, <1>2, <1>6, <2>2 DEF TestOpened, EntriesInv
  <2>. QED  BY <1>6, <2>1, <2>2, CoverSteps
<1>7. CASE FixtureFails
  BY <1>1, <1>2, <1>7, CoverSteps DEF FixtureFails, EntriesInv, Covered
<1>8. CASE DeleteTests
  BY <1>8, CoverSteps DEF EntriesInv
<1>9. CASE UNCHANGED loadVars
  BY <1>1, <1>9 DEF loadVars, EntriesInv, Covered, Listed, Held
<1>. QED
  BY <1>3, <1>5, <1>6, <1>7, <1>8, <1>9 DEF LoadNext, OthersDo

-----------------------------------------------------------------------------
(* Errors.                                                                  *)

(* reportErrors prints the newer half, rounded up, and leaves the others.   *)
LEMMA Halves ==
    ASSUME NEW es \in Seq(Errors)
    PROVE  LET rest == SubSeq(es, 1, Half(es))
           IN  /\ Popped(es) \in Seq(Errors) /\ rest \in Seq(Errors)
               /\ Len(Popped(es)) + Len(rest) = Len(es)
               /\ Len(rest) <= Len(Popped(es))
               /\ ToSet(es) = ToSet(Popped(es)) \cup ToSet(rest)
               /\ es # <<>> => Popped(es) # <<>> /\ Last(Popped(es)) = Last(es)
<1> DEFINE n == Len(es)
           h == Half(es)
           rest == SubSeq(es, 1, h)
<1>1. n \in Nat /\ \A i \in 1 .. n : es[i] \in Errors
  BY Elements
<1>2. h \in Nat /\ h <= n /\ (n > 0 => h < n)
  BY <1>1 DEF Half
<1>8. h <= n - h
  BY <1>1 DEF Half
<1>. HIDE DEF h
<1>3. /\ rest \in Seq(Errors) /\ Len(rest) = h
      /\ \A i \in 1 .. h : rest[i] = es[i]
  BY <1>1, <1>2, SubSeqProperties
<1>4. Popped(es) = SubSeq(es, h + 1, n)
  BY DEF Popped, h
<1>5. /\ Popped(es) \in Seq(Errors) /\ Len(Popped(es)) = n - h
      /\ \A i \in 1 .. n - h : Popped(es)[i] = es[h + i]
  BY <1>1, <1>2, <1>4, SubSeqProperties
<1>6. ToSet(es) = ToSet(Popped(es)) \cup ToSet(rest)
  <2>1. /\ ToSet(es) = {es[i] : i \in 1 .. n}
        /\ ToSet(Popped(es)) = {Popped(es)[i] : i \in 1 .. n - h}
        /\ ToSet(rest) = {rest[i] : i \in 1 .. h}
    BY <1>3, <1>5, Elements
  <2>2. \A i \in 1 .. n : i \in 1 .. h \/ (i - h \in 1 .. n - h /\ i = h + (i - h))
    BY <1>1, <1>2
  <2>3. \A i \in 1 .. n - h : h + i \in 1 .. n
    BY <1>1, <1>2
  <2>4. ASSUME NEW x \in ToSet(es)
        PROVE  x \in ToSet(Popped(es)) \cup ToSet(rest)
    <3>1. PICK i \in 1 .. n : x = es[i]
      BY <2>1
    <3>2. CASE i \in 1 .. h
      BY <1>3, <2>1, <3>1, <3>2
    <3>3. CASE i - h \in 1 .. n - h /\ i = h + (i - h)
      <4>1. Popped(es)[i - h] = x
        BY <1>5, <3>1, <3>3
      <4>. QED  BY <2>1, <3>3, <4>1
    <3>. QED  BY <2>2, <3>2, <3>3
  <2>5. ASSUME NEW x \in ToSet(Popped(es)) \cup ToSet(rest)
        PROVE  x \in ToSet(es)
    <3>1. CASE x \in ToSet(Popped(es))
      BY <1>5, <2>1, <2>3, <3>1
    <3>2. CASE x \in ToSet(rest)
      BY <1>1, <1>2, <1>3, <2>1, <3>2
    <3>. QED  BY <2>5, <3>1, <3>2
  <2>. QED  BY <2>4, <2>5
<1>7. ASSUME es # <<>>
      PROVE  Popped(es) # <<>> /\ Last(Popped(es)) = Last(es)
  <2>1. n > 0 /\ n - h \in 1 .. n - h /\ h + (n - h) = n
    BY <1>1, <1>2, <1>7
  <2>2. Popped(es)[n - h] = es[n] /\ Len(Popped(es)) # 0
    BY <1>1, <1>2, <1>5, <2>1
  <2>. QED  BY <1>5, <2>2 DEF Last
<1>. QED  BY <1>1, <1>2, <1>3, <1>5, <1>6, <1>7, <1>8 DEF h

(* An error that is added is the last, and of the loader in hand.           *)
LEMMA AddedError ==
    ASSUME LoadInv, NEW e \in Messages, AddError(e)
    PROVE  LET x == [what |-> e, of |-> hand]
           IN  /\ x \in Errors /\ errors' \in Seq(Errors) /\ errors' # <<>>
               /\ Last(errors').what = e
               /\ ToSet(errors') = ToSet(errors) \cup {x}
<1> DEFINE x == [what |-> e, of |-> hand]
<1>1. errors \in Seq(Errors) /\ hand \in Nat
  <2>1. errors \in Seq(Errors)
    BY DEF LoadInv, ReportInv
  <2>2. loaders \in Seq(Loaders) /\ hand \in {0, Len(loaders)}
    BY DEF LoadInv, LibraryInv, PlaceInv
  <2>3. Len(loaders) \in Nat
    BY <2>2
  <2>. QED  BY <2>1, <2>2, <2>3
<1>2. x \in Errors /\ x.what = e
  BY <1>1 DEF Errors
<1>. HIDE DEF x
<1>3. errors' = Append(errors, x)
  BY DEF AddError, x
<1>4. /\ errors' \in Seq(Errors) /\ ToSet(errors') = ToSet(errors) \cup {x}
      /\ Last(errors') = x /\ errors' # <<>>
  BY <1>1, <1>2, <1>3, OneMoreElement
<1>. QED  BY <1>2, <1>4 DEF x

(* What gives up the loading is the last error, and then the first printed. *)
LEMMA StepReport ==
    ASSUME LoadInv, [LoadNext]_loadVars
    PROVE  ReportInv'
<1>. USE DEF Deleting, OpenPlaces, Places, Messages
<1>1. /\ errors \in Seq(Errors) /\ printed \in Seq(Errors) /\ ReportInv
      /\ at \in Places
  BY DEF LoadInv, ReportInv, PlaceInv
<1>2. ASSUME NEW e \in Messages, AddError(e)
      PROVE  /\ errors' \in Seq(Errors) /\ errors' # <<>>
             /\ Last(errors').what = e
  BY <1>1, <1>2, AddedError
<1>3. ASSUME NEW l PROVE LastErrorOf(l) \in {"", "cannot load"}
  BY DEF LastErrorOf
<1>4. CASE \/ NextOption \/ BeginSuite \/ LoadPlugin \/ FixtureElement
           \/ TestElement \/ OpenGoesOn \/ FixtureOpened \/ LoadingDone
  BY <1>1, <1>4
     DEF NextOption, BeginSuite, LoadPlugin, FixtureElement, TestElement,
         BeginOpen, OpenGoesOn, FixtureOpened, LoadingDone, ReportInv
<1>5. CASE OpenFolder \/ ReadFolder \/ UnknownTest
  BY <1>1, <1>2, <1>5 DEF OpenFolder, ReadFolder, UnknownTest, ReportInv
<1>6. ASSUME NEW e \in Messages \cup {"no suite"}, Return(e),
             UNCHANGED printed, at \notin Deleting, at # "run", cause = "none",
             \/ e = "no suite" /\ UNCHANGED errors
             \/ e \in Messages /\ AddError(e)
      PROVE  ReportInv'
  BY <1>1, <1>2, <1>6, Returns DEF ReportInv
<1>7. CASE UnknownPlugin \/ NoSuiteFile
  <2>1. cause = "none"
    BY <1>1, <1>7 DEF UnknownPlugin, NoSuiteFile, ReportInv
  <2>. QED  BY <1>6, <1>7, <2>1 DEF UnknownPlugin, NoSuiteFile
<1>8. CASE PluginOpened \/ SuiteEnds
  BY <1>1, <1>8, Returns DEF PluginOpened, SuiteEnds, ReportInv
<1>9. CASE PluginFails \/ FixtureFails
  BY <1>1, <1>2, <1>3, <1>9, Returns DEF PluginFails, FixtureFails, ReportInv
<1>10. CASE TestOpened \/ TestFails
  BY <1>1, <1>2, <1>3, <1>10
     DEF TestOpened, TestFails, LogTestFailure, ReportInv
<1>11. CASE reportErrors
  BY <1>1, <1>11, Halves DEF reportErrors, ReportInv
<1>12. CASE RunEnds
  BY <1>1, <1>12 DEF RunEnds, ReportInv
<1>13. CASE DeleteTests
  BY <1>1, <1>13 DEF DeleteTests, ReportInv
<1>14. CASE UNCHANGED loadVars
  BY <1>1, <1>14 DEF loadVars, ReportInv
<1>. QED
  BY <1>4, <1>5, <1>7, <1>8, <1>9, <1>10, <1>11, <1>12, <1>13, <1>14
     DEF LoadNext

(* Whatever is lost, left out or left behind is so with an error.           *)
LEMMA StepAccount ==
    ASSUME LoadInv, [LoadNext]_loadVars
    PROVE  AccountInv'
<1>. USE DEF Opened, OpenFailed, Deleted, Failed, LeftBehind
<1>1. /\ AccountInv /\ Covered \subseteq Held /\ Held \subseteq Ids
      /\ hand \notin Held /\ 0 \notin Ids /\ 0 \notin Ids'
      /\ hand \in Ids \cup {0} /\ Len(loaders) \in Nat
      /\ Ids = 1 .. Len(loaders) /\ (hand # 0 => hand = Len(loaders))
      /\ errors \in Seq(Errors) /\ printed \in Seq(Errors)
  <2>1. 0 \notin Ids'
    BY StepLibrary DEF LibraryInv, Ids
  <2>2. LibraryInv /\ PlaceInv /\ ListsInv /\ EntriesInv /\ AccountInv
        /\ ReportInv
    BY DEF LoadInv
  <2>3. Len(loaders) \in Nat /\ Ids = 1 .. Len(loaders)
    BY <2>2 DEF LibraryInv, Ids
  <2>4. hand \in {0, Len(loaders)} /\ hand \in Ids \cup {0}
    BY <2>2 DEF PlaceInv, LoadTypeOK
  <2>5. Covered \subseteq Held /\ Held \subseteq Ids /\ hand \notin Held
    BY <2>2 DEF EntriesInv, ListsInv
  <2>6. errors \in Seq(Errors) /\ printed \in Seq(Errors)
    BY <2>2 DEF ReportInv
  <2>7. 0 \notin Ids
    BY <2>3
  <2>. QED  BY <2>1, <2>2, <2>3, <2>4, <2>5, <2>6, <2>7
<1>3. ASSUME NEW e \in Messages, AddError(e), UNCHANGED printed
      PROVE  Logged' = Logged \cup {[what |-> e, of |-> hand]}
  BY <1>3, AddedError DEF Logged
<1>4. UNCHANGED <<dllLoaders, fixtureLoaders>> => Held' = Held
  BY DEF Held
(* Nothing happens to a loader.                                             *)
<1>5. ASSUME UNCHANGED <<loaders, hand, dllLoaders, fixtureLoaders>>,
             Covered' = Covered, Logged \subseteq Logged', at \notin Deleting
      PROVE  AccountInv'
  <2>1. Held' = Held /\ Ids' = Ids /\ hand' = hand /\ loaders' = loaders
    BY <1>4, <1>5 DEF Ids
  <2>2. Lost' = Lost
    BY <1>5, <2>1 DEF Lost
  <2>3. \A l \in Lost' : \E e \in Logged' : e.of = l
    BY <1>1, <1>5, <2>2 DEF AccountInv
  <2>4. \A l \in Held' \ Covered' :
           \E f \in Ids' \ {hand'} :
              f > l /\ Failed(f)' /\ loaders'[f].kind = "fixture"
    BY <1>1, <1>5, <2>1 DEF AccountInv
  <2>5. \A l \in Ids' \ {hand'} :
           LeftBehind(l)' => NoNumber(l) \in Logged'
    BY <1>1, <1>5, <2>1 DEF AccountInv
  <2>. QED  BY <2>3, <2>4, <2>5 DEF AccountInv
(* The loader in hand is made or moves on.                                  *)
<1>6. ASSUME UNCHANGED <<dllLoaders, fixtureLoaders, errors, printed>>,
             Covered' = Covered, Ids' \ {hand'} = Ids \ {hand},
             \A k \in Ids \ {hand} : loaders'[k] = loaders[k],
             at \notin Deleting
      PROVE  AccountInv'
  <2>1. Held' = Held /\ Lost' = Lost /\ Logged' = Logged
    BY <1>4, <1>6 DEF Lost, Logged
  <2>2. \A l \in Lost' : \E e \in Logged' : e.of = l
    BY <1>1, <1>6, <2>1 DEF AccountInv
  <2>3. \A l \in Held' \ Covered' :
           \E f \in Ids' \ {hand'} :
              f > l /\ Failed(f)' /\ loaders'[f].kind = "fixture"
    BY <1>1, <1>6, <2>1 DEF AccountInv
  <2>4. \A l \in Ids' \ {hand'} :
           LeftBehind(l)' => NoNumber(l) \in Logged'
    BY <1>1, <1>6, <2>1 DEF AccountInv
  <2>. QED  BY <2>2, <2>3, <2>4 DEF AccountInv
(* The loader in hand is kept.                                              *)
<1>7. ASSUME UNCHANGED <<loaders, errors, printed>>, Held' = Held \cup {hand},
             Covered' = Covered \cup {hand}, hand \in Ids, Opened(hand),
             hand' = 0, at \notin Deleting
      PROVE  AccountInv'
  <2>1. Ids' = Ids /\ Logged' = Logged /\ loaders' = loaders
        /\ Ids' \ {hand'} = Ids
    BY <1>1, <1>7 DEF Ids, Logged
  <2>2. Lost' = Lost
    BY <1>1, <1>7, <2>1 DEF Lost
  <2>3. \A l \in Lost' : \E e \in Logged' : e.of = l
    BY <1>1, <1>7, <2>1, <2>2 DEF AccountInv
  <2>4. \A l \in Held' \ Covered' :
           \E f \in Ids' \ {hand'} :
              f > l /\ Failed(f)' /\ loaders'[f].kind = "fixture"
    BY <1>1, <1>7, <2>1 DEF AccountInv
  <2>5. \A l \in Ids' \ {hand'} :
           LeftBehind(l)' => NoNumber(l) \in Logged'
    BY <1>1, <1>7, <2>1 DEF AccountInv
  <2>. QED  BY <2>3, <2>4, <2>5 DEF AccountInv
(* The loader in hand is lost, and with a fixture the suite may be.         *)
<1>8. ASSUME NEW h \in Ids, h = hand, hand' = 0, Ids' = Ids, Held' = Held,
             NEW e \in Messages, AddError(e), UNCHANGED printed,
             \A k \in Ids \ {h} : loaders'[k] = loaders[k],
             loaders'[h].kind = loaders[h].kind,
             Opened(h)' => e = "invalid repetition",
             \/ Covered' = Covered
             \/ Failed(h)' /\ loaders[h].kind = "fixture",
             at \notin Deleting
      PROVE  AccountInv'
  <2>1. /\ Ids' \ {hand'} = Ids
        /\ Logged' = Logged \cup {[what |-> e, of |-> h]}
    BY <1>1, <1>3, <1>8
  <2>2. ASSUME NEW l \in Lost'
        PROVE  \E x \in Logged' : x.of = l
    <3>1. l \in Lost \cup {h}
      BY <1>1, <1>8, <2>1 DEF Lost
    <3>2. CASE l = h
      <4>1. [what |-> e, of |-> h].of = l
        BY <3>2
      <4>. QED  BY <2>1, <4>1
    <3>3. CASE l \in Lost
      BY <1>1, <1>8, <2>1, <3>3 DEF AccountInv
    <3>. QED  BY <3>1, <3>2, <3>3
  <2>3. ASSUME NEW l \in Held \ Covered'
        PROVE  \E f \in Ids' \ {hand'} :
                  f > l /\ Failed(f)' /\ loaders'[f].kind = "fixture"
    <3>1. CASE l \notin Covered
      <4>1. PICK f \in Ids \ {hand} :
                    f > l /\ Failed(f) /\ loaders[f].kind = "fixture"
        BY <1>1, <1>8, <2>3, <3>1 DEF AccountInv
      <4>. QED  BY <1>8, <2>1, <4>1
    <3>2. CASE l \in Covered
      <4>1. Failed(h)' /\ loaders'[h].kind = "fixture"
        BY <1>8, <2>3, <3>2
      <4>2. l \in 1 .. Len(loaders) /\ l # h /\ h = Len(loaders)
        BY <1>1, <1>8, <2>3
      <4>3. h > l
        BY <1>1, <4>2
      <4>. QED  BY <1>8, <2>1, <4>1, <4>3
    <3>. QED  BY <3>1, <3>2
  <2>4. ASSUME NEW l \in Ids, LeftBehind(l)'
        PROVE  NoNumber(l) \in Logged'
    <3>1. CASE l = h
      BY <1>8, <2>1, <2>4, <3>1 DEF NoNumber
    <3>2. CASE l # h
      <4>1. l \in Ids \ {hand} /\ LeftBehind(l)
        BY <1>8, <2>4, <3>2
      <4>. QED  BY <1>1, <2>1, <4>1 DEF AccountInv
    <3>. QED  BY <3>1, <3>2
  <2>. QED  BY <1>8, <2>1, <2>2, <2>3, <2>4 DEF AccountInv
(* Nothing is listed any more.                                              *)
<1>9. ASSUME Deletes \/ Drops
      PROVE  AccountInv'
  <2>1. /\ Turn # <<>> /\ hand = 0 /\ hand' = 0 /\ at' \in Deleting
    BY <1>9 DEF Deletes, Drops, AtTurn, Deleting
  <2>2. Head(Turn) \in Ids /\ Head(Turn) \in Held
    BY <2>1, TurnIsHeld DEF LoadInv
  <2>3. CASE Deletes
    <3>1. DeleteStep(Head(Turn)) /\ Held' = Held /\ Logged' = Logged
      BY <2>3, <1>4 DEF Deletes, AtTurn, Logged
    <3>2. LibraryInv
      BY DEF LoadInv
    <3>3. /\ Ids' = Ids
          /\ \A k \in Ids \ {Head(Turn)} : loaders'[k] = loaders[k]
          /\ loaders'[Head(Turn)].pc \in {"destroyed", "deleted"}
      BY <2>2, <3>1, <3>2, LoaderStep DEF DeleteStep
    <3>4. ASSUME NEW l \in Ids' \ {hand'}, LeftBehind(l)'
          PROVE  NoNumber(l) \in Logged'
      BY <1>1, <2>1, <3>1, <3>3, <3>4 DEF AccountInv
    <3>. QED  BY <2>1, <3>4 DEF AccountInv
  <2>4. CASE Drops
    <3>1. /\ Held' = Held \ {Head(Turn)} /\ loaders' = loaders /\ Ids' = Ids
          /\ loaders[Head(Turn)].pc = "deleted" /\ Logged' = Logged
      BY <2>4, StepLists DEF Drops, AtTurn, Ids, Logged
    <3>2. ASSUME NEW l \in Ids' \ {hand'}, LeftBehind(l)'
          PROVE  NoNumber(l) \in Logged'
      BY <1>1, <2>1, <3>1, <3>2 DEF AccountInv
    <3>. QED  BY <2>1, <3>2 DEF AccountInv
  <2>. QED  BY <1>9, <2>3, <2>4
<1>10. CASE \/ NextOption \/ BeginSuite \/ SuiteEnds \/ LoadingDone
            \/ RunEnds
  <2>1. /\ UNCHANGED <<loaders, hand, dllLoaders, fixtureLoaders, errors,
                       printed>>
        /\ at \notin Deleting /\ Covered' = Covered
    BY <1>10, CoverSteps
       DEF OthersDo, NextOption, BeginSuite, SuiteEnds, LoadingDone, RunEnds,
           Deleting
  <2>. QED  BY <1>5, <2>1 DEF Logged
<1>11. CASE \/ OpenFolder \/ ReadFolder \/ UnknownPlugin \/ NoSuiteFile
            \/ UnknownTest
  <2>1. /\ UNCHANGED <<loaders, hand, dllLoaders, fixtureLoaders, printed>>
        /\ at \notin Deleting /\ Covered' = Covered
        /\ UNCHANGED errors \/ \E e \in Messages : AddError(e)
    BY <1>11, CoverSteps
       DEF OthersDo, OpenFolder, ReadFolder, UnknownPlugin, NoSuiteFile,
           UnknownTest, Deleting, Messages
  <2>2. CASE UNCHANGED errors
    BY <1>5, <2>1, <2>2 DEF Logged
  <2>3. ASSUME NEW e \in Messages, AddError(e)
        PROVE  AccountInv'
    BY <1>3, <1>5, <2>1, <2>3
  <2>. QED  BY <2>1, <2>2, <2>3
<1>12. CASE reportErrors
  <2>1. /\ UNCHANGED <<loaders, hand, dllLoaders, fixtureLoaders>>
        /\ at \notin Deleting /\ Covered' = Covered
        /\ printed' = Popped(errors)
        /\ errors' = SubSeq(errors, 1, Half(errors))
    BY <1>12, CoverSteps DEF OthersDo, reportErrors, Deleting
  <2>2. printed = <<>>
    BY <1>12 DEF reportErrors, LoadInv, ReportInv, Deleting
  <2>3. Logged' = ToSet(errors)
    BY <1>1, <2>1, Halves DEF Logged
  <2>4. Logged = ToSet(errors)
    BY <2>2 DEF Logged, ToSet
  <2>. QED  BY <1>5, <2>1, <2>3, <2>4
<1>13. CASE LoadPlugin \/ FixtureElement \/ TestElement
  <2>1. /\ hand = 0 /\ at \notin Deleting /\ Covered' = Covered
        /\ \E kind \in {"dll", "fixture", "script"} : BeginOpen(kind)
    BY <1>13, CoverSteps
       DEF OthersDo, LoadPlugin, FixtureElement, TestElement, Deleting,
           LoadInv, PlaceInv, LoadTypeOK
  <2>2. /\ Ids' \ {hand'} = Ids /\ \A k \in Ids : loaders'[k] = loaders[k]
        /\ UNCHANGED <<dllLoaders, fixtureLoaders, errors, printed>>
    BY <2>1, NewLoaderMade DEF BeginOpen, LoadInv
  <2>. QED  BY <1>1, <1>6, <2>1, <2>2
<1>14. CASE OpenGoesOn
  <2>1. /\ hand \in Ids /\ OpenStep(hand) /\ hand' = hand
        /\ UNCHANGED <<dllLoaders, fixtureLoaders, errors, printed>>
        /\ Covered' = Covered /\ at \notin Deleting
    BY <1>1, <1>14, CoverSteps
       DEF OthersDo, OpenGoesOn, Deleting, LoadInv, PlaceInv, LoadTypeOK
  <2>2. Ids' = Ids /\ \A k \in Ids \ {hand} : loaders'[k] = loaders[k]
    BY <2>1, LoaderStep DEF LoadInv
  <2>. QED  BY <1>6, <2>1, <2>2
<1>15. ASSUME Covered' = Covered \cup {hand}, at \in OpenPlaces,
              Opened(hand), hand' = 0, at' \notin Deleting,
              UNCHANGED <<loaders, mapped, errors, printed>>,
              \/ /\ dllLoaders' = Append(dllLoaders, hand)
                 /\ UNCHANGED fixtureLoaders
              \/ /\ fixtureLoaders' = Append(fixtureLoaders, hand)
                 /\ UNCHANGED dllLoaders
       PROVE  AccountInv'
  <2>1. Keeps /\ hand \in Ids /\ at \notin Deleting
    BY <1>15 DEF Keeps, LoadInv, PlaceInv, LoadTypeOK, OpenPlaces, Deleting
  <2>2. Held' = Held \cup {hand}
    BY <2>1, StepLists
  <2>. QED  BY <1>7, <1>15, <2>1, <2>2
<1>16. CASE PluginOpened \/ FixtureOpened
  BY <1>15, <1>16, CoverSteps, Returns
     DEF PluginOpened, FixtureOpened, OpenPlaces, Deleting
<1>17. ASSUME at \in OpenPlaces, hand' = 0, NEW e \in Messages, AddError(e),
              UNCHANGED <<dllLoaders, fixtureLoaders, printed>>,
              OpenFailed(hand), Unmap(hand),
              Covered' = Covered \/ at = "openFixture"
       PROVE  AccountInv'
  <2>1. hand \in Ids /\ at \notin Deleting /\ Held' = Held
    BY <1>4, <1>17 DEF LoadInv, PlaceInv, LoadTypeOK, OpenPlaces, Deleting
  <2>2. at = "openFixture" => loaders[hand].kind = "fixture"
    BY DEF LoadInv, HandInv
  <2>3. PICK h \in Ids : h = hand
    BY <2>1
  <2>4. /\ Ids' = Ids /\ \A k \in Ids \ {h} : loaders'[k] = loaders[k]
        /\ loaders'[h].kind = loaders[h].kind /\ loaders'[h].pc = "deleted"
    BY <1>17, <2>3, LoaderStep DEF LoadInv, DeleteStep
  <2>. QED  BY <1>8, <1>17, <2>1, <2>2, <2>3, <2>4
<1>18. ASSUME at \in OpenPlaces, hand' = 0, NEW e \in Messages, AddError(e),
              UNCHANGED <<dllLoaders, fixtureLoaders, printed, loaders>>,
              Opened(hand) => e = "invalid repetition",
              Covered' = Covered
       PROVE  AccountInv'
  <2>1. /\ hand \in Ids /\ at \notin Deleting /\ Held' = Held
        /\ Ids' = Ids /\ loaders' = loaders
    BY <1>4, <1>18 DEF LoadInv, PlaceInv, LoadTypeOK, OpenPlaces, Deleting, Ids
  <2>2. PICK h \in Ids : h = hand
    BY <2>1
  <2>. QED  BY <1>8, <1>18, <2>1, <2>2
<1>19. ASSUME NEW l PROVE LastErrorOf(l) \in Messages
  BY DEF LastErrorOf, Messages
<1>20. CASE PluginFails \/ TestFails \/ FixtureFails
  <2>1. PluginFails \/ TestFails => Covered' = Covered
    BY CoverSteps DEF OthersDo
  <2>2. CASE PluginFails
    BY <1>18, <1>19, <2>1, <2>2 DEF PluginFails, OpenPlaces
  <2>3. CASE TestFails
    BY <1>17, <1>19, <2>1, <2>3 DEF TestFails, LogTestFailure, OpenPlaces
  <2>4. CASE FixtureFails
    BY <1>17, <1>19, <2>4 DEF FixtureFails, OpenPlaces
  <2>. QED  BY <1>20, <2>2, <2>3, <2>4
<1>21. CASE TestOpened
  <2>1. CASE /\ Covered' = Covered \cup {hand} /\ UNCHANGED errors
             /\ dllLoaders' = Append(dllLoaders, hand)
    BY <1>15, <1>21, <2>1 DEF TestOpened, OpenPlaces, Deleting
  <2>2. CASE /\ Covered' = Covered /\ AddError("invalid repetition")
             /\ UNCHANGED dllLoaders
    <3>1. /\ at \in OpenPlaces /\ hand' = 0
          /\ UNCHANGED <<dllLoaders, fixtureLoaders, printed, loaders>>
      BY <1>21, <2>2 DEF TestOpened, OpenPlaces
    <3>2. "invalid repetition" \in Messages
      BY DEF Messages
    <3>. QED  BY <1>18, <2>2, <3>1, <3>2
  <2>. QED  BY <1>21, <2>1, <2>2, CoverSteps
<1>22. CASE DeleteTests \/ UNCHANGED loadVars
  <2>1. CASE DeleteTests /\ (Deletes \/ Drops)
    BY <1>9, <2>1
  <2>2. CASE Quiet /\ (DeleteTests \/ UNCHANGED loadVars)
    <3>1. /\ loaders' = loaders /\ Ids' = Ids /\ Held' = Held
          /\ hand' = hand /\ errors' = errors /\ printed' = printed
          /\ Logged' = Logged
      BY <1>4, <2>2 DEF Quiet, DeleteTests, loadVars, Ids, Logged
    <3>2. CASE at' \in Deleting
      BY <1>1, <3>1, <3>2 DEF AccountInv
    <3>3. CASE at' \notin Deleting
      <4>1. UNCHANGED loadVars
        BY <2>2, <3>3 DEF Quiet, DeleteTests, Deleting
      <4>. QED
        BY <1>1, <3>1, <4>1 DEF loadVars, AccountInv, Lost, Covered, Listed
    <3>. QED  BY <3>2, <3>3
  <2>3. UNCHANGED loadVars => Quiet
    BY DEF loadVars, Quiet
  <2>4. DeleteTests => Quiet \/ Deletes \/ Drops
    BY StepKinds
       DEF DeleteTests, Begins, OpenGoesOn, Fails, Keeps, OpenPlaces, LoadInv,
           PlaceInv, LoadTypeOK
  <2>. QED  BY <1>22, <2>1, <2>2, <2>3, <2>4
<1>. QED
  BY <1>10, <1>11, <1>12, <1>13, <1>14, <1>16, <1>20, <1>21, <1>22
     DEF LoadNext

-----------------------------------------------------------------------------
(* The theorems.                                                            *)

(* main() starts with nothing loaded.                                       *)
LEMMA InitLoadInv == LoadInit => LoadInv
<1>. SUFFICES ASSUME LoadInit PROVE LoadInv  OBVIOUS
<1>. USE DEF LoadInit, LibrariesInit
<1>1. /\ loaders = <<>> /\ Len(loaders) = 0 /\ Ids = {}
      /\ tests = <<>> /\ dllLoaders = <<>> /\ fixtureLoaders = <<>>
      /\ errors = <<>> /\ printed = <<>> /\ hand = 0 /\ suite = NoSuite
      /\ at = "options" /\ exitCode = -1 /\ cause = "none"
      /\ mapped = [b \in Libraries |-> 0]
  BY DEF Ids
<1>2. LibraryInv
  <2>1. \A b : Users(b) = {}
    BY <1>1 DEF Users
  <2>2. Cardinality({}) = 0
    BY FS_EmptySet
  <2>3. MappedInv
    BY <1>1, <2>1, <2>2 DEF MappedInv
  <2>4. loaders \in Seq(Loaders) /\ mapped \in [Libraries -> Nat]
    BY <1>1
  <2>5. \A l \in Ids : LoaderOK(loaders[l])
    BY <1>1
  <2>. QED  BY <2>3, <2>4, <2>5 DEF LibraryInv
<1>3. ToSet(<<>>) = {}
  BY DEF ToSet
<1>4. Held = {} /\ Covered = {} /\ Lost = {}
  BY <1>1, <1>3 DEF Held, Covered, Listed, Lost
<1>5. PlaceInv
  <2>1. exitCode \in {-1, 0, 1}
    BY <1>1
  <2>. QED  BY <1>1, <1>2, <2>1 DEF PlaceInv, LoadTypeOK, Places, LibraryInv
<1>6. ListsInv
  BY <1>1, <1>3, <1>4 DEF ListsInv, NoneTwice
<1>7. LifeInv /\ HandInv /\ EntriesInv
  BY <1>1, <1>4 DEF LifeInv, HandInv, EntriesInv
<1>8. AccountInv
  BY <1>1, <1>4 DEF AccountInv
<1>9. ReportInv
  BY <1>1 DEF ReportInv, Deleting
<1>. QED  BY <1>2, <1>5, <1>6, <1>7, <1>8, <1>9 DEF LoadInv

(* Every step of the program keeps the invariant.                           *)
LEMMA StepLoadInv == LoadInv /\ [LoadNext]_loadVars => LoadInv'
  BY StepLibrary, StepPlaces, StepLists, StepLife, StepHand, StepEntries,
     StepAccount, StepReport DEF LoadInv

(* The invariant holds in every run.                                        *)
LEMMA LoadInvariance == LoadSpec => []LoadInv
  BY InitLoadInv, StepLoadInv, PTL DEF LoadSpec

(* A loader is in hand or a suite being read exactly where the code opens   *)
(* plugins or reads a suite, whatever is loaded.                            *)
THEOREM LoadingTypeCorrect == LoadSpec => []LoadTypeOK
<1>1. LoadInv => LoadTypeOK
  BY DEF LoadInv, PlaceInv
<1>. QED  BY <1>1, LoadInvariance, PTL

(* Whatever opens, fails and is deleted in whatever order, an object's      *)
(* library is mapped, every handle is undone once, and no factory deletes   *)
(* itself.                                                                  *)
THEOREM LibrariesOutliveObjects == LoadSpec => []LibraryOutlivesObject
<1>1. LoadInv => LibraryOutlivesObject
  <2>. SUFFICES ASSUME LoadInv PROVE LibraryOutlivesObject  OBVIOUS
  <2>1. /\ \A b \in Libraries : mapped[b] = Cardinality(Users(b))
        /\ \A l \in Ids : LoaderOK(loaders[l]) /\ loaders[l] \in Loaders
    BY Elements DEF LoadInv, LibraryInv, MappedInv, Ids
  <2>2. ASSUME NEW l \in Ids
        PROVE  /\ loaders[l].content /\ loaders[l].kind # "script"
                      => loaders[l].lib # NoLib
               /\ loaders[l].rct >= IF loaders[l].content
                                         /\ loaders[l].kind # "script"
                                     THEN 2 ELSE 1
    BY <2>1 DEF LoaderOK, Loaders, LoaderPcs
  <2>. QED  BY <2>1, <2>2 DEF LibraryOutlivesObject
<1>. QED  BY <1>1, LoadInvariance, PTL

(* When loading is given up the error that made the program give up is the  *)
(* first one shown, however many were logged.                               *)
THEOREM TheFatalErrorIsShown == LoadSpec => []FatalErrorIsShown
<1>1. LoadInv => FatalErrorIsShown
  BY DEF LoadInv, ReportInv, FatalErrorIsShown
<1>. QED  BY <1>1, LoadInvariance, PTL

(* The places of a loader in a list without repetitions: one or none.       *)
LEMMA PlacesOfOne ==
    ASSUME NEW S, NEW s \in Seq(S), NoneTwice(s), NEW l
    PROVE  Cardinality({i \in DOMAIN s : s[i] = l})
             = IF l \in ToSet(s) THEN 1 ELSE 0
<1>1. /\ DOMAIN s = 1 .. Len(s) /\ ToSet(s) = {s[i] : i \in 1 .. Len(s)}
  BY Elements
<1>2. CASE l \in ToSet(s)
  <2>1. PICK i \in 1 .. Len(s) : s[i] = l
    BY <1>1, <1>2
  <2>2. {j \in DOMAIN s : s[j] = l} = {i}
    BY <1>1, <2>1 DEF NoneTwice
  <2>. QED  BY <1>2, <2>2, FS_Singleton
<1>3. CASE l \notin ToSet(s)
  <2>1. {j \in DOMAIN s : s[j] = l} = {}
    BY <1>1, <1>3
  <2>. QED  BY <1>3, <2>1, FS_EmptySet
<1>. QED  BY <1>2, <1>3

(* A loader has an owner, and one only, if it is in a list or in hand.      *)
LEMMA OneHolder ==
    ASSUME LoadInv, NEW l
    PROVE  Holders(l) = IF l \in Held \/ l = hand THEN 1 ELSE 0
<1>1. ListsInv
  BY DEF LoadInv
<1>2. /\ Cardinality({i \in DOMAIN dllLoaders : dllLoaders[i] = l})
            = IF l \in ToSet(dllLoaders) THEN 1 ELSE 0
      /\ Cardinality({i \in DOMAIN fixtureLoaders : fixtureLoaders[i] = l})
            = IF l \in ToSet(fixtureLoaders) THEN 1 ELSE 0
  BY <1>1, PlacesOfOne DEF ListsInv
<1>3. /\ l \in ToSet(dllLoaders) => l \notin ToSet(fixtureLoaders)
      /\ l = hand => l \notin ToSet(dllLoaders) /\ l \notin ToSet(fixtureLoaders)
      /\ l \in Held <=> l \in ToSet(dllLoaders) \/ l \in ToSet(fixtureLoaders)
  BY <1>1 DEF ListsInv, Held
<1>. QED  BY <1>2, <1>3 DEF Holders

(* The runner and the suite being read list objects that exist, each held   *)
(* once: no call after a deletion, and no deletion twice.                   *)
THEOREM OnlyLiveObjectsListed == LoadSpec => []RunnerListsLiveObjects
<1>1. LoadInv => RunnerListsLiveObjects
  <2>. SUFFICES ASSUME LoadInv PROVE RunnerListsLiveObjects  OBVIOUS
  <2>1. ASSUME NEW l \in Covered
        PROVE  Alive(l) /\ Holders(l) = 1
    <3>1. l \in Held /\ l \in Ids
      BY DEF LoadInv, EntriesInv, ListsInv
    <3>2. at \notin Deleting \/ tests # <<>>
      <4>1. CASE suite # NoSuite
        BY <4>1 DEF LoadInv, PlaceInv, LoadTypeOK, Deleting
      <4>2. CASE suite = NoSuite /\ tests = <<>>
        <5>1. Listed = {}
          BY <4>2 DEF Listed, ToSet
        <5>. QED  BY <4>2, <5>1 DEF Covered
      <4>. QED  BY <4>1, <4>2
    <3>3. Opened(l) /\ LoaderOK(loaders[l])
      BY <3>1, <3>2 DEF LoadInv, LifeInv, LibraryInv
    <3>. QED  BY <3>1, <3>3, OneHolder DEF Alive, Opened, LoaderOK
  <2>2. ASSUME NEW l \in Ids
        PROVE  Holders(l) <= 1
    BY OneHolder
  <2>. QED  BY <2>1, <2>2 DEF RunnerListsLiveObjects, Covered
<1>. QED  BY <1>1, LoadInvariance, PTL

(* No plugin is missing from the run without a reason: when the run starts  *)
(* every plugin that is not in the runner has an error of its own in the    *)
(* logger or belongs to a suite given up for a later fixture, at least half *)
(* of the errors have been shown, and what the deleted runner leaves behind *)
(* was forgotten for a repetition of its own that is no number.             *)
THEOREM PluginsAccountedFor == LoadSpec => []EveryPluginAccountedFor
<1>1. LoadInv => EveryPluginAccountedFor
  <2>. SUFFICES ASSUME LoadInv PROVE EveryPluginAccountedFor  OBVIOUS
  <2> DEFINE failed == {l \in Ids : OpenFailed(l) \/ Deleted(l)}
             forgotten == {l \in Ids : Opened(l) /\ Holders(l) = 0}
             dropped == {l \in Ids : Opened(l) /\ Holders(l) = 1} \ Listed
  <2>1. /\ at \in {"run", "gone"} => hand = 0 /\ suite = NoSuite
        /\ 0 \notin Ids
    BY DEF LoadInv, LibraryInv, PlaceInv, LoadTypeOK, Ids
  <2>2. \A l : Holders(l) = IF l \in Held \/ l = hand THEN 1 ELSE 0
    BY OneHolder
  <2>3. /\ LibraryInv /\ LifeInv /\ AccountInv /\ EntriesInv /\ ListsInv
        /\ ReportInv
    BY DEF LoadInv
  <2>4. ASSUME at = "run"
        PROVE  /\ \A l \in failed \cup forgotten : \E e \in Logged : e.of = l
               /\ \A l \in dropped : \E f \in failed :
                     f > l /\ loaders[f].kind = "fixture"
               /\ Len(errors) <= Len(printed)
    <3>1. failed \cup forgotten = Lost
      BY <2>1, <2>2, <2>4 DEF Lost, Failed, LeftBehind
    <3>2. dropped = {l \in Held \ Covered : Opened(l)}
      BY <2>1, <2>2, <2>3, <2>4 DEF Covered, ListsInv
    <3>3. /\ \A l \in Lost : \E e \in Logged : e.of = l
          /\ \A l \in Held \ Covered :
                \E f \in Ids \ {hand} :
                   f > l /\ Failed(f) /\ loaders[f].kind = "fixture"
      BY <2>3, <2>4 DEF AccountInv, Deleting
    <3>4. Len(errors) <= Len(printed)
      BY <2>3, <2>4 DEF ReportInv, Deleting
    <3>. QED  BY <3>1, <3>2, <3>3, <3>4 DEF Failed
  <2>5. ASSUME at = "gone"
        PROVE  /\ \A l \in Ids : ~Deleted(l) => (loaders[l].content <=> Opened(l))
               /\ \A l \in Ids : loaders[l].lib # NoLib => Opened(l)
               /\ \A l \in forgotten :
                     [what |-> "invalid repetition", of |-> l] \in Logged
    <3>1. ASSUME NEW l \in Ids
          PROVE  /\ loaders[l].pc \in {"open", "failed", "empty", "deleted"}
                 /\ LoaderOK(loaders[l]) /\ loaders[l].content \in BOOLEAN
      <4>1. loaders[l] \in Loaders /\ LoaderOK(loaders[l])
        BY <2>3, Elements DEF LibraryInv, Ids
      <4>2. l # hand
        BY <2>1, <2>5
      <4>. QED  BY <2>3, <2>5, <4>1, <4>2 DEF LifeInv, Loaders, LoaderPcs
    <3>2. ASSUME NEW l \in forgotten
          PROVE  [what |-> "invalid repetition", of |-> l] \in Logged
      <4>1. l \in Ids /\ Opened(l) /\ l \notin Held /\ l # hand
        BY <2>2, <3>2
      <4>2. l \in Ids \ {hand} /\ LeftBehind(l)
        BY <4>1 DEF LeftBehind
      <4>. QED  BY <2>3, <4>2 DEF AccountInv, NoNumber
    <3>. QED  BY <3>1, <3>2 DEF LoaderOK, Opened, Deleted
  <2>. QED  BY <2>4, <2>5 DEF EveryPluginAccountedFor
<1>. QED  BY <1>1, LoadInvariance, PTL
===============================================================================
