----------------------------- MODULE TypeTable -----------------------------
(***************************************************************************)
(* The type table of Type.cpp: one entry per type, found again by its name *)
(* through TypeMap under TypeMutex.  IR jobs and code generation threads   *)
(* intern derived types (pointers, optional pointers, slices) at the same  *)
(* time; the look-up and the insertion are two critical sections, and the  *)
(* pointer cache of a type is read without the lock.  What one thread does *)
(* between a lock and its unlock is one step.                              *)
(*                                                                         *)
(* A type is named by the words of its name: <<"[]", "*", "S">>.  Entries  *)
(* are counted from 1 here and from 0 in the code.                         *)
(***************************************************************************)
EXTENDS Naturals, Sequences

CONSTANTS
    Main,                 \* the thread of the type checker
    Workers,              \* the other threads of the queue
    Basic,                \* names of the basic types, which TypeMap does not hold
    Structs, Generics,    \* names the program declares, each generic with its number
    MaxTypes              \* bound: entries of the table

VARIABLES
    TypeTable,            \* the entries: kind, name and the entry it is derived from
    TypeMap,              \* name -> entry
    CachedAsPointer,      \* entry -> the entry of the pointer to it, or Invalid
    pc, want,             \* what each thread does, and the type it asks for
    got                   \* the entry it is given

vars == <<TypeTable, TypeMap, CachedAsPointer, pc, want, got>>

Threads == Workers \cup {Main}
Invalid == 0              \* INVALID_TYPE
Derived == {"*", "?*", "[]"}
Kinds == {"basic", "struct", "generic"} \cup Derived

ASSUME TypeTableAssumption ==
    /\ Main \notin Workers
    /\ Basic \in Seq(STRING)
    /\ Structs \cup Generics \subseteq STRING
    /\ \A i \in DOMAIN Basic : Basic[i] \notin Derived \cup Structs \cup Generics
    /\ \A i, j \in DOMAIN Basic : Basic[i] = Basic[j] => i = j
    /\ Structs \cap Generics = {}
    /\ Derived \cap (Structs \cup Generics) = {}
    /\ MaxTypes \in Nat

BasicNames == {Basic[i] : i \in DOMAIN Basic}

Types == DOMAIN TypeTable
Name == Seq(Derived \cup BasicNames \cup Structs \cup Generics)
Entry == [kind : Kinds, name : Name, of : Nat]

\* GetTypeNameAsString of a derived type; a pointer to nothing has no base.
DerivedName(kind, i) == <<kind>> \o (IF i = Invalid THEN << >> ELSE TypeTable[i].name)

\* What a thread asks for; cached where GetPointerTo fills the cache of its base.
Request(kind, i, cached) ==
    [kind |-> kind, name |-> DerivedName(kind, i), of |-> i, cached |-> cached]
NoRequest == [kind |-> "basic", name |-> << >>, of |-> Invalid, cached |-> FALSE]

Init ==
    /\ TypeTable = [i \in DOMAIN Basic |->
                        [kind |-> "basic", name |-> <<Basic[i]>>, of |-> Invalid]]
    /\ TypeMap = << >>
    /\ CachedAsPointer = [i \in DOMAIN Basic |-> Invalid]
    /\ pc = [t \in Threads |-> "idle"]
    /\ want = [t \in Threads |-> NoRequest]
    /\ got = [t \in Threads |-> Invalid]

Goto(t, label) == pc' = [pc EXCEPT ![t] = label]
Give(t, i) == got' = [got EXCEPT ![t] = i]

-----------------------------------------------------------------------------
(* GetPointerTo, GetSliceType, GetOptional and GetNonOptional up to the     *)
(* first lock                                                               *)

\* Mutant: the cache is used whatever the flags.
CachedAnyFlags(t, i) ==
    /\ pc[t] = "idle"
    /\ CachedAsPointer[i] # Invalid
    /\ \E kind \in {"*", "?*"} : want' = [want EXCEPT ![t] = Request(kind, i, kind = "*")]
    /\ Give(t, CachedAsPointer[i])
    /\ Goto(t, "done")
    /\ UNCHANGED <<TypeTable, TypeMap, CachedAsPointer>>

\* GetPointerTo without flags reads the cache, and without the lock.
CachedPointer(t, i) ==
    /\ pc[t] = "idle"
    /\ CachedAsPointer[i] # Invalid
    /\ want' = [want EXCEPT ![t] = Request("*", i, TRUE)]
    /\ Give(t, CachedAsPointer[i])
    /\ Goto(t, "done")
    /\ UNCHANGED <<TypeTable, TypeMap, CachedAsPointer>>

LookUp(t, request) ==
    /\ pc[t] = "idle"
    /\ want' = [want EXCEPT ![t] = request]
    /\ Goto(t, "lookup")
    /\ UNCHANGED <<TypeTable, TypeMap, CachedAsPointer, got>>

PointerNotCached(t, i) == CachedAsPointer[i] = Invalid /\ LookUp(t, Request("*", i, TRUE))

\* With PointerFlag_Optional, or to INVALID_TYPE.
PointerToNothing(t) == \E kind \in {"*", "?*"} : LookUp(t, Request(kind, Invalid, FALSE))
OptionalPointer(t, i) == LookUp(t, Request("?*", i, FALSE))

GetSliceType(t, i) == LookUp(t, Request("[]", i, FALSE))

\* The optional of a pointer, and the pointer of an optional: the caches stay.
GetOptional(t, i) ==
    /\ TypeTable[i].kind \in {"*", "?*"}
    /\ LookUp(t, Request("?*", TypeTable[i].of, FALSE))

GetNonOptional(t, i) ==
    /\ TypeTable[i].kind \in {"*", "?*"}
    /\ LookUp(t, Request("*", TypeTable[i].of, FALSE))

-----------------------------------------------------------------------------
(* The critical sections                                                    *)

\* Mutant: the pointer that was found is cached whatever the flags.
FoundAndCached(t) ==
    /\ pc[t] = "lookup"
    /\ want[t].name \in DOMAIN TypeMap
    /\ want[t].of # Invalid
    /\ CachedAsPointer' = [CachedAsPointer EXCEPT ![want[t].of] = TypeMap[want[t].name]]
    /\ Give(t, TypeMap[want[t].name])
    /\ Goto(t, "done")
    /\ UNCHANGED <<TypeTable, TypeMap, want>>

\* The name is known: a plain pointer is cached under the same lock.
Found(t) ==
    /\ pc[t] = "lookup"
    /\ want[t].name \in DOMAIN TypeMap
    /\ CachedAsPointer' = IF want[t].cached
                          THEN [CachedAsPointer EXCEPT ![want[t].of] = TypeMap[want[t].name]]
                          ELSE CachedAsPointer
    /\ Give(t, TypeMap[want[t].name])
    /\ Goto(t, "done")
    /\ UNCHANGED <<TypeTable, TypeMap, want>>

NotFound(t) ==
    /\ pc[t] = "lookup"
    /\ want[t].name \notin DOMAIN TypeMap
    /\ Goto(t, "add")
    /\ UNCHANGED <<TypeTable, TypeMap, CachedAsPointer, want, got>>

\* AddTypeWithName looks the name up once more: another thread was faster.
AddFindsIt(t) ==
    /\ pc[t] = "add"
    /\ want[t].name \in DOMAIN TypeMap
    /\ Give(t, TypeMap[want[t].name])
    /\ Goto(t, IF want[t].cached THEN "cache" ELSE "done")
    /\ UNCHANGED <<TypeTable, TypeMap, CachedAsPointer, want>>

\* A new entry; a name that TypeMap holds keeps its entry there.
AddEntry(kind, name, of) ==
    /\ Len(TypeTable) < MaxTypes
    /\ TypeTable' = Append(TypeTable, [kind |-> kind, name |-> name, of |-> of])
    /\ CachedAsPointer' = Append(CachedAsPointer, Invalid)
    /\ TypeMap' = [n \in DOMAIN TypeMap \cup {name} |->
                        IF n \in DOMAIN TypeMap THEN TypeMap[n] ELSE Len(TypeTable) + 1]

\* Mutant: AddTypeWithName does not look the name up again.
AddUnchecked(t) ==
    /\ pc[t] = "add"
    /\ AddEntry(want[t].kind, want[t].name, want[t].of)
    /\ Give(t, Len(TypeTable) + 1)
    /\ Goto(t, IF want[t].cached THEN "cache" ELSE "done")
    /\ UNCHANGED want

AddNew(t) ==
    /\ pc[t] = "add"
    /\ want[t].name \notin DOMAIN TypeMap
    /\ AddEntry(want[t].kind, want[t].name, want[t].of)
    /\ Give(t, Len(TypeTable) + 1)
    /\ Goto(t, IF want[t].cached THEN "cache" ELSE "done")
    /\ UNCHANGED want

\* GetPointerTo caches what AddType returned, under the lock once more.
SetCache(t) ==
    /\ pc[t] = "cache"
    /\ CachedAsPointer' = [CachedAsPointer EXCEPT ![want[t].of] = got[t]]
    /\ Goto(t, "done")
    /\ UNCHANGED <<TypeTable, TypeMap, want, got>>

-----------------------------------------------------------------------------
(* The type checker: the main thread declares structs and generics          *)

Given(kind, name, i) ==
    /\ want' = [want EXCEPT ![Main] = [kind |-> kind, name |-> name, of |-> Invalid,
                                       cached |-> FALSE]]
    /\ Give(Main, i)
    /\ Goto(Main, "done")

\* A struct that is declared is found by its name.
DeclareStruct(name) ==
    /\ pc[Main] = "idle"
    /\ IF <<name>> \in DOMAIN TypeMap
       THEN /\ Given("struct", <<name>>, TypeMap[<<name>>])
            /\ UNCHANGED <<TypeTable, TypeMap, CachedAsPointer>>
       ELSE /\ Given("struct", <<name>>, Len(TypeTable) + 1)
            /\ AddEntry("struct", <<name>>, Invalid)

\* Counter gives every generic a number of its own, so its name is never known.
MakeGeneric(name) ==
    /\ pc[Main] = "idle"
    /\ <<name>> \notin DOMAIN TypeMap
    /\ Given("generic", <<name>>, Len(TypeTable) + 1)
    /\ AddEntry("generic", <<name>>, Invalid)

\* The members of a struct replace the opaque entry, and with it its cache.
FillOpaqueStruct(i) ==
    /\ pc[Main] = "idle"
    /\ TypeTable[i].kind = "struct"
    /\ CachedAsPointer' = [CachedAsPointer EXCEPT ![i] = Invalid]
    /\ UNCHANGED <<TypeTable, TypeMap, pc, want, got>>

\* The caller has its type.
Return(t) ==
    /\ pc[t] = "done"
    /\ want' = [want EXCEPT ![t] = NoRequest]
    /\ Give(t, Invalid)
    /\ Goto(t, "idle")
    /\ UNCHANGED <<TypeTable, TypeMap, CachedAsPointer>>

-----------------------------------------------------------------------------
Ask(t) ==
    \/ PointerToNothing(t)
    \/ \E i \in Types :
        \/ CachedPointer(t, i) \/ PointerNotCached(t, i) \/ OptionalPointer(t, i)
        \/ GetSliceType(t, i) \/ GetOptional(t, i) \/ GetNonOptional(t, i)

Intern(t) == Found(t) \/ NotFound(t) \/ AddFindsIt(t) \/ AddNew(t) \/ SetCache(t)

Check ==
    \/ \E n \in Structs : DeclareStruct(n)
    \/ \E n \in Generics : MakeGeneric(n)
    \/ \E i \in Types : FillOpaqueStruct(i)

Next == Check \/ \E t \in Threads : Ask(t) \/ Intern(t) \/ Return(t)

Spec == Init /\ [][Next]_vars

-----------------------------------------------------------------------------
(* What must hold *)

TypeOK ==
    /\ TypeTable \in Seq(Entry)
    /\ CachedAsPointer \in Seq(Types \cup {Invalid})
    /\ Len(CachedAsPointer) = Len(TypeTable)
    /\ DOMAIN TypeMap \subseteq Name
    /\ \A n \in DOMAIN TypeMap : TypeMap[n] \in Types
    /\ pc \in [Threads -> {"idle", "lookup", "add", "cache", "done"}]
    /\ want \in [Threads -> [kind : Kinds, name : Name, of : Types \cup {Invalid},
                             cached : BOOLEAN]]
    /\ got \in [Threads -> Types \cup {Invalid}]

\* Types that are the same by name are the same entry, so comparing the entries
\* compares the types: two threads that add a type at the same time get one
\* entry (AddTypeWithName).
OneEntryPerName ==
    \A i, j \in Types : TypeTable[i].name = TypeTable[j].name => i = j

\* A derived type is derived from an older entry and named after it, so that
\* GetTypeNameAsString and GetTypeSize, which follow it, come to an end.
DerivedFromOlder ==
    \A i \in Types :
        TypeTable[i].kind \in Derived =>
            /\ TypeTable[i].of < i
            /\ TypeTable[i].name = DerivedName(TypeTable[i].kind, TypeTable[i].of)

\* The pointer cached with a type, which GetPointerTo returns without taking the
\* lock, is the plain pointer to a type of this name, whichever thread cached it.
CachedPointerIsRight ==
    \A i \in Types :
        CachedAsPointer[i] # Invalid =>
            /\ TypeTable[CachedAsPointer[i]].kind = "*"
            /\ TypeTable[CachedAsPointer[i]].name = DerivedName("*", i)

\* A thread is given the type it asked for, by way of the cache, of TypeMap or
\* of a new entry, whatever the others add in between.
GivenWhatItAskedFor ==
    \A t \in Threads :
        pc[t] = "done" =>
            /\ TypeTable[got[t]].kind = want[t].kind
            /\ TypeTable[got[t]].name = want[t].name
=============================================================================
