---------------------------- MODULE SharedLibraries ----------------------------
(***************************************************************************)
(* How a plugin's object comes out of a shared library and goes back into  *)
(* it: DllPluginLoader and DllFixturePluginLoader on SharedLibrary,        *)
(* SharedLibraryFactory and SharedLibraryClass.  A loader is a record in   *)
(* the list of all loaders ever made:                                      *)
(*                                                                         *)
(*   kind     "dll", "fixture" or "script" (which uses no library)         *)
(*   pc       how far its open() or close() has come                       *)
(*   lib      the library it has mapped, NoLib for none                    *)
(*   content  the object exists                                            *)
(*   rct      the factory's reference count                                *)
(***************************************************************************)
EXTENDS Integers, SequencesExt, FiniteSetsExt

CONSTANTS Libraries, NoLib, MaxLoaders

ASSUME LibraryConstants == NoLib \notin Libraries /\ MaxLoaders \in Nat

VARIABLES
    loaders,   \* every loader made so far
    mapped     \* [Libraries -> Nat]: dlopen calls not yet undone

Ids == DOMAIN loaders

NewLoader(kind) ==
    [kind |-> kind, pc |-> "new", lib |-> NoLib, content |-> FALSE, rct |-> 1]

LibrariesInit ==
    /\ loaders = <<>>
    /\ mapped = [b \in Libraries |-> 0]

CanMake == Len(loaders) < MaxLoaders
Make(kind) == loaders' = Append(loaders, NewLoader(kind))

Set(l, rec) == loaders' = [loaders EXCEPT ![l] = rec]
Library(b, delta) == mapped' = [mapped EXCEPT ![b] = @ + delta]

-----------------------------------------------------------------------------
(* open(): map the library, find the factory, ask it for its interface,     *)
(* create the object.  A failure deletes the Plugin and so unmaps.          *)

OpenLibrary(l) ==
    /\ loaders[l].pc = "new" /\ loaders[l].kind # "script"
    /\ \/ Set(l, [loaders[l] EXCEPT !.pc = "failed"]) /\ UNCHANGED mapped
       \/ \E b \in Libraries :
             /\ Set(l, [loaders[l] EXCEPT !.pc = "mapped", !.lib = b])
             /\ Library(b, 1)

Unmapped(rec) == [rec EXCEPT !.lib = NoLib]

(* No factory symbol: SharedLibraryFactory closes the library itself.       *)
FindFactory(l) ==
    /\ loaders[l].pc = "mapped"
    /\ \/ /\ Set(l, Unmapped([loaders[l] EXCEPT !.pc = "failed"]))
          /\ Library(loaders[l].lib, -1)
       \/ Set(l, [loaders[l] EXCEPT !.pc = "found"]) /\ UNCHANGED mapped

(* useFactoryFunction and isValid: all the marks of the interface agree.    *)
UseFactory(l) ==
    /\ loaders[l].pc = "found"
    /\ \/ /\ Set(l, Unmapped([loaders[l] EXCEPT !.pc = "failed"]))
          /\ Library(loaders[l].lib, -1)
       \/ Set(l, [loaders[l] EXCEPT !.pc = "valid"]) /\ UNCHANGED mapped

(* SharedLibraryClass::open counts its reference before it looks at what it *)
(* got; an empty result fails without a message.                            *)
Create(l) ==
    /\ loaders[l].pc = "valid"
    /\ \/ /\ Set(l, [loaders[l] EXCEPT !.pc = "open", !.content = TRUE, !.rct = @ + 1])
          /\ UNCHANGED mapped
       \/ /\ Set(l, Unmapped([loaders[l] EXCEPT !.pc = "empty", !.rct = @ + 1]))
          /\ Library(loaders[l].lib, -1)

OpenScript(l) ==
    /\ loaders[l].pc = "new" /\ loaders[l].kind = "script"
    /\ \/ Set(l, [loaders[l] EXCEPT !.pc = "open", !.content = TRUE])
       \/ Set(l, [loaders[l] EXCEPT !.pc = "failed"])
    /\ UNCHANGED mapped

OpenStep(l) ==
    \/ OpenLibrary(l) \/ FindFactory(l) \/ UseFactory(l) \/ Create(l)
    \/ OpenScript(l)

Opened(l) == loaders[l].pc = "open"
OpenFailed(l) == loaders[l].pc \in {"failed", "empty"}

-----------------------------------------------------------------------------
(* delete: the object is given back to the factory, then the members of     *)
(* Plugin go in the reverse order of their declaration, the library last.   *)

\* Mutant: class Plugin declares its factory after its test, which then goes first.
UnmapFirst(l) ==
    /\ Opened(l)
    /\ Set(l, [Unmapped(loaders[l]) EXCEPT !.pc = "destroyed"])
    /\ IF loaders[l].lib = NoLib THEN UNCHANGED mapped
       ELSE Library(loaders[l].lib, -1)

Destroy(l) ==
    /\ Opened(l)
    /\ Set(l, [loaders[l] EXCEPT !.pc = "destroyed", !.content = FALSE,
                  !.rct = IF loaders[l].kind = "script" THEN @ ELSE @ - 1])
    /\ UNCHANGED mapped

Unmap(l) ==
    /\ loaders[l].pc \in {"destroyed", "failed", "empty"}
    /\ Set(l, Unmapped([loaders[l] EXCEPT !.pc = "deleted"]))
    /\ IF loaders[l].lib = NoLib THEN UNCHANGED mapped
       ELSE Library(loaders[l].lib, -1)

DeleteStep(l) == Destroy(l) \/ Unmap(l)
Deleted(l) == loaders[l].pc = "deleted"

-----------------------------------------------------------------------------
LoaderPcs == {"new", "mapped", "found", "valid", "open", "failed", "empty",
              "destroyed", "deleted"}
Loaders == [kind : {"dll", "fixture", "script"}, pc : LoaderPcs,
            lib : Libraries \cup {NoLib}, content : BOOLEAN, rct : Nat]

Users(b) == {l \in Ids : loaders[l].lib = b}

(* An object of a library is only ever there while its library is mapped,   *)
(* no handle is closed twice or forgotten while in use, and the factory's   *)
(* count never reaches 0, at which SharedLibraryClass would delete a member *)
(* of Plugin (SharedLibrary.cpp:50-117, SharedLibraryFactory.cpp:43-143,    *)
(* SharedLibraryClass.h:76-106, DllPluginLoader_impl.h:35-40, 69-120).      *)
LibraryOutlivesObject ==
    /\ \A b \in Libraries : mapped[b] = Cardinality(Users(b))
    /\ \A l \in Ids :
         /\ loaders[l].content /\ loaders[l].kind # "script" => loaders[l].lib # NoLib
         /\ loaders[l].rct >= IF loaders[l].content /\ loaders[l].kind # "script"
                             THEN 2 ELSE 1
===============================================================================
