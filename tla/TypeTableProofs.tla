--------------------------- MODULE TypeTableProofs ---------------------------
(***************************************************************************)
(* Proofs about TypeTable for any number of threads and types.             *)
(*                                                                         *)
(* That two threads never add a type twice does not follow from            *)
(* OneEntryPerName alone: the second look-up of AddTypeWithName has to     *)
(* find the entry the other thread made.  So the invariant also says that  *)
(* TypeMap leads from every name to its entry (Mapped), that the first     *)
(* word of a name tells the kind (Kinded), and that what a thread carries  *)
(* from one critical section to the next is still true when it gets there  *)
(* (Wanted): entries are never removed and never renamed.                  *)
(***************************************************************************)
EXTENDS TypeTable, SequenceTheorems, TLAPS

\* The first word of a name tells the kind of the entry.
Kinded ==
    \A i \in Types :
        /\ TypeTable[i].name # << >>
        /\ TypeTable[i].kind = "basic" => TypeTable[i].name[1] \in BasicNames
        /\ TypeTable[i].kind = "struct" => TypeTable[i].name[1] \in Structs
        /\ TypeTable[i].kind = "generic" => TypeTable[i].name[1] \in Generics
        /\ TypeTable[i].kind \in Derived => TypeTable[i].name[1] = TypeTable[i].kind

\* The basic types are the first entries; TypeMap has every other name, leads
\* to an entry of that name, and to the only one.
Mapped ==
    /\ \A i \in Types : TypeTable[i].kind = "basic" =>
            i \in DOMAIN Basic /\ TypeTable[i].name = <<Basic[i]>>
    /\ \A n \in DOMAIN TypeMap :
            TypeTable[TypeMap[n]].name = n /\ TypeTable[TypeMap[n]].kind # "basic"
    /\ \A i \in Types : TypeTable[i].kind # "basic" =>
            TypeTable[i].name \in DOMAIN TypeMap /\ TypeMap[TypeTable[i].name] = i

\* What a thread carries from one critical section to the next.
Carried(t) ==
    pc[t] \in {"lookup", "add", "cache"} =>
        /\ want[t].kind \in Derived
        /\ want[t].name = DerivedName(want[t].kind, want[t].of)
        /\ want[t].cached => want[t].kind = "*" /\ want[t].of # Invalid
        /\ pc[t] = "cache" =>
            /\ want[t].cached
            /\ got[t] # Invalid
            /\ TypeTable[got[t]].kind = want[t].kind
            /\ TypeTable[got[t]].name = want[t].name

Wanted == \A t \in Threads : Carried(t)

\* A thread that is done was given an entry of the table.
GivenAnEntry == \A t \in Threads : pc[t] = "done" => got[t] # Invalid

IInv ==
    /\ TypeOK
    /\ Kinded
    /\ Mapped
    /\ DerivedFromOlder
    /\ CachedPointerIsRight
    /\ Wanted
    /\ GivenAnEntry
    /\ GivenWhatItAskedFor

-----------------------------------------------------------------------------
(* Names *)

\* A word put in front of a name: the result starts with it.
LEMMA Prefixed ==
    ASSUME NEW S, NEW k \in S, NEW s \in Seq(S)
    PROVE  /\ <<k>> \o s \in Seq(S)
           /\ <<k>> \o s # << >>
           /\ (<<k>> \o s)[1] = k
<1>1. <<k>> \in Seq(S)
  OBVIOUS
<1>2. Len(<<k>>) = 1
  OBVIOUS
<1>3. <<k>>[1] = k
  OBVIOUS
<1>4. <<k>> \o s \in Seq(S)
  BY <1>1
<1>5. Len(<<k>> \o s) = 1 + Len(s)
  BY <1>1, <1>2
<1>6. <<k>> \o s # << >>
  BY <1>4, <1>5
<1>7. (<<k>> \o s)[1] = k
  BY <1>1, <1>2, <1>3
<1> QED
  BY <1>4, <1>6, <1>7

\* What an entry of the table is made of.
LEMMA Entries ==
    ASSUME TypeOK
    PROVE  /\ Len(TypeTable) \in Nat
           /\ Types = 1 .. Len(TypeTable)
           /\ \A i \in Types :
                /\ TypeTable[i] \in Entry
                /\ TypeTable[i].kind \in Kinds
                /\ TypeTable[i].name \in Name
                /\ TypeTable[i].of \in Nat
<1>1. TypeTable \in Seq(Entry)
  BY DEF TypeOK
<1>2. Len(TypeTable) \in Nat /\ Types = 1 .. Len(TypeTable)
  BY <1>1 DEF Types
<1>3. \A i \in Types : TypeTable[i] \in Entry
  BY <1>1, <1>2
<1>4. \A i \in Types : /\ TypeTable[i].kind \in Kinds
                        /\ TypeTable[i].name \in Name
                        /\ TypeTable[i].of \in Nat
  BY <1>3 DEF Entry
<1> QED
  BY <1>2, <1>3, <1>4

\* DerivedName gives a name that starts with the kind.
LEMMA DerivedNames ==
    ASSUME TypeOK, NEW kind \in Derived, NEW i \in Types \cup {Invalid}
    PROVE  /\ DerivedName(kind, i) \in Name
           /\ DerivedName(kind, i) # << >>
           /\ DerivedName(kind, i)[1] = kind
<1> DEFINE Words == Derived \cup BasicNames \cup Structs \cup Generics
<1>1. kind \in Words /\ Name = Seq(Words)
  BY DEF Name
<1> HIDE DEF Words
<1>2. CASE i = Invalid
  <2>1. DerivedName(kind, i) = <<kind>> \o << >>
    BY <1>2 DEF DerivedName
  <2>2. << >> \in Seq(Words)
    OBVIOUS
  <2> QED
    BY <2>1, <2>2, <1>1, Prefixed
<1>3. CASE i # Invalid
  <2>1. TypeTable[i].name \in Seq(Words)
    BY <1>1, <1>3, Entries
  <2>2. DerivedName(kind, i) = <<kind>> \o TypeTable[i].name
    BY <1>3 DEF DerivedName
  <2> QED
    BY <2>1, <2>2, <1>1, Prefixed
<1> QED
  BY <1>2, <1>3

\* Entries of one name are of one kind.
LEMMA SameKind ==
    ASSUME TypeOK, Kinded, TypeTableAssumption,
           NEW i \in Types, NEW j \in Types, TypeTable[i].name = TypeTable[j].name
    PROVE  TypeTable[i].kind = TypeTable[j].kind
<1>1. TypeTable[i].kind \in Kinds /\ TypeTable[j].kind \in Kinds
  BY Entries
<1>2. BasicNames \cap (Derived \cup Structs \cup Generics) = {}
  BY DEF BasicNames, TypeTableAssumption
<1>3. Structs \cap Generics = {} /\ Derived \cap (Structs \cup Generics) = {}
  BY DEF TypeTableAssumption
<1> QED
  BY <1>1, <1>2, <1>3 DEF Kinded, Kinds

-----------------------------------------------------------------------------
(* The table *)

\* The part of the type invariant that no thread's state is in.
TableTyped ==
    /\ TypeTable \in Seq(Entry)
    /\ CachedAsPointer \in Seq(Types \cup {Invalid})
    /\ Len(CachedAsPointer) = Len(TypeTable)
    /\ DOMAIN TypeMap \subseteq Name
    /\ \A n \in DOMAIN TypeMap : TypeMap[n] \in Types

\* What a new entry may be.
Proper(kind, name, of) ==
    /\ kind \in Kinds \ {"basic"}
    /\ name \in Name
    /\ of \in Types \cup {Invalid}
    /\ name # << >>
    /\ kind = "struct" => name[1] \in Structs
    /\ kind = "generic" => name[1] \in Generics
    /\ kind \in Derived => name[1] = kind /\ name = DerivedName(kind, of)
    /\ name \notin DOMAIN TypeMap

\* AddEntry puts one entry at the end and leaves the others.
LEMMA Appended ==
    ASSUME TypeOK, NEW kind, NEW name, NEW of, Proper(kind, name, of),
           AddEntry(kind, name, of)
    PROVE  /\ Len(TypeTable) \in Nat
           /\ Types = 1 .. Len(TypeTable)
           /\ Types' = 1 .. Len(TypeTable) + 1
           /\ TypeTable' \in Seq(Entry)
           /\ Len(TypeTable') = Len(TypeTable) + 1
           /\ \A i \in Types : TypeTable'[i] = TypeTable[i]
           /\ TypeTable'[Len(TypeTable) + 1] = [kind |-> kind, name |-> name, of |-> of]
<1> DEFINE e == [kind |-> kind, name |-> name, of |-> of]
<1>1. TypeTable \in Seq(Entry) /\ Len(TypeTable) \in Nat /\ Types = 1 .. Len(TypeTable)
  BY Entries DEF TypeOK
<1>2. of \in Nat
  BY <1>1 DEF Proper, Invalid
<1>3. e \in Entry
  BY <1>2 DEF Proper, Entry
<1>4. TypeTable' = Append(TypeTable, e)
  BY DEF AddEntry
<1> HIDE DEF e
<1>5. TypeTable' \in Seq(Entry) /\ Len(TypeTable') = Len(TypeTable) + 1
  BY <1>1, <1>3, <1>4
<1>6. Types' = 1 .. Len(TypeTable) + 1
  BY <1>1, <1>5 DEF Types
<1>7. \A i \in Types : TypeTable'[i] = TypeTable[i]
  BY <1>1, <1>3, <1>4
<1>8. TypeTable'[Len(TypeTable) + 1] = e
  BY <1>1, <1>3, <1>4
<1>9. TypeTable'[Len(TypeTable) + 1] = [kind |-> kind, name |-> name, of |-> of]
  BY <1>8 DEF e
<1> QED
  BY <1>1, <1>5, <1>6, <1>7, <1>9

\* Names derived from entries that exist do not change.
LEMMA NamesStay ==
    ASSUME TypeOK, NEW kind, NEW name, NEW of, Proper(kind, name, of),
           AddEntry(kind, name, of), NEW k, NEW i \in Types \cup {Invalid}
    PROVE  DerivedName(k, i)' = DerivedName(k, i)
<1>1. i # Invalid => TypeTable'[i] = TypeTable[i]
  BY Appended
<1> QED
  BY <1>1 DEF DerivedName

\* A proper entry keeps the invariants of the table.
LEMMA Growth ==
    ASSUME TypeOK, Kinded, Mapped, DerivedFromOlder, CachedPointerIsRight,
           NEW kind, NEW name, NEW of, Proper(kind, name, of),
           AddEntry(kind, name, of)
    PROVE  TableTyped' /\ Kinded' /\ Mapped' /\ DerivedFromOlder' /\ CachedPointerIsRight'
<1> DEFINE new == Len(TypeTable) + 1
<1>1. /\ Len(TypeTable) \in Nat
      /\ Types = 1 .. Len(TypeTable)
      /\ Types' = Types \cup {new}
      /\ new \notin Types
      /\ new # Invalid
      /\ TypeTable' \in Seq(Entry)
      /\ Len(TypeTable') = new
      /\ \A i \in Types : TypeTable'[i] = TypeTable[i]
      /\ TypeTable'[new].kind = kind
      /\ TypeTable'[new].name = name
      /\ TypeTable'[new].of = of
  <2>1. /\ Len(TypeTable) \in Nat
        /\ Types = 1 .. Len(TypeTable)
        /\ Types' = 1 .. new
        /\ TypeTable' \in Seq(Entry)
        /\ Len(TypeTable') = new
        /\ \A i \in Types : TypeTable'[i] = TypeTable[i]
        /\ TypeTable'[new] = [kind |-> kind, name |-> name, of |-> of]
    BY Appended
  <2>2. Types' = Types \cup {new} /\ new \notin Types /\ new # Invalid
    BY <2>1 DEF Invalid
  <2>3. /\ TypeTable'[new].kind = kind
        /\ TypeTable'[new].name = name
        /\ TypeTable'[new].of = of
    BY <2>1
  <2> QED
    BY <2>1, <2>2, <2>3
<1>2. \A k, i : i \in Types \cup {Invalid} => DerivedName(k, i)' = DerivedName(k, i)
  BY NamesStay
<1>3. /\ DOMAIN TypeMap' = DOMAIN TypeMap \cup {name}
      /\ \A n \in DOMAIN TypeMap : TypeMap'[n] = TypeMap[n]
      /\ name \notin DOMAIN TypeMap => TypeMap'[name] = new
      /\ DOMAIN TypeMap \subseteq Name
      /\ \A n \in DOMAIN TypeMap : TypeMap[n] \in Types
  BY DEF AddEntry, TypeOK
<1>4. /\ CachedAsPointer' \in Seq(Types' \cup {Invalid})
      /\ Len(CachedAsPointer') = new
      /\ \A i \in Types : CachedAsPointer'[i] = CachedAsPointer[i]
      /\ CachedAsPointer'[new] = Invalid
      /\ \A i \in Types : CachedAsPointer[i] \in Types \cup {Invalid}
  <2>1. CachedAsPointer \in Seq(Types \cup {Invalid}) /\ Len(CachedAsPointer) = Len(TypeTable)
    BY DEF TypeOK
  <2>2. CachedAsPointer' = Append(CachedAsPointer, Invalid)
    BY DEF AddEntry
  <2>3. CachedAsPointer' \in Seq(Types \cup {Invalid}) /\ Len(CachedAsPointer') = new
    BY <2>1, <2>2, <1>1
  <2>4. CachedAsPointer' \in Seq(Types' \cup {Invalid})
    BY <2>3, <1>1, SeqMonotonic
  <2>5. /\ \A i \in Types : CachedAsPointer'[i] = CachedAsPointer[i]
        /\ CachedAsPointer'[new] = Invalid
    BY <2>1, <2>2, <1>1
  <2>6. \A i \in Types : CachedAsPointer[i] \in Types \cup {Invalid}
    BY <2>1, <1>1
  <2> QED
    BY <2>3, <2>4, <2>5, <2>6
<1> HIDE DEF new
<1>5. TableTyped'
  <2>1. \A n \in DOMAIN TypeMap' : TypeMap'[n] \in Types'
    BY <1>1, <1>3
  <2> QED
    BY <2>1, <1>1, <1>3, <1>4 DEF TableTyped, Proper
<1>6. Kinded'
  BY <1>1 DEF Kinded, Proper
<1>7. Mapped'
  <2>1. \A i \in Types' : TypeTable'[i].kind = "basic" =>
            i \in DOMAIN Basic /\ TypeTable'[i].name = <<Basic[i]>>
    BY <1>1 DEF Mapped, Proper
  <2>2. \A n \in DOMAIN TypeMap' :
            TypeTable'[TypeMap'[n]].name = n /\ TypeTable'[TypeMap'[n]].kind # "basic"
    BY <1>1, <1>3 DEF Mapped, Proper
  <2>3. \A i \in Types' : TypeTable'[i].kind # "basic" =>
            TypeTable'[i].name \in DOMAIN TypeMap' /\ TypeMap'[TypeTable'[i].name] = i
    BY <1>1, <1>3 DEF Mapped, Proper
  <2> QED
    BY <2>1, <2>2, <2>3 DEF Mapped
<1>8. DerivedFromOlder'
  <2> SUFFICES ASSUME NEW i \in Types', TypeTable'[i].kind \in Derived
               PROVE  /\ TypeTable'[i].of < i
                      /\ TypeTable'[i].name = DerivedName(TypeTable[i].kind, TypeTable[i].of)'
    BY DEF DerivedFromOlder
  <2>1. CASE i \in Types
    <3>1. TypeTable'[i] = TypeTable[i] /\ TypeTable[i].of < i
      BY <2>1, <1>1 DEF DerivedFromOlder
    <3>2. TypeTable[i].of \in Types \cup {Invalid}
      BY <2>1, <3>1, <1>1, Entries DEF Invalid
    <3> QED
      BY <2>1, <3>1, <3>2, <1>2 DEF DerivedFromOlder
  <2>2. CASE i = new
    BY <2>2, <1>1, <1>2 DEF Proper, new, Invalid
  <2> QED
    BY <2>1, <2>2, <1>1
<1>9. CachedPointerIsRight'
  <2> SUFFICES ASSUME NEW i \in Types', CachedAsPointer'[i] # Invalid
               PROVE  /\ TypeTable'[CachedAsPointer'[i]].kind = "*"
                      /\ TypeTable'[CachedAsPointer'[i]].name = DerivedName("*", i)'
    BY DEF CachedPointerIsRight
  <2>1. i \in Types /\ CachedAsPointer'[i] = CachedAsPointer[i] /\ CachedAsPointer[i] \in Types
    BY <1>1, <1>4
  <2> QED
    BY <2>1, <1>1, <1>2 DEF CachedPointerIsRight
<1> QED
  BY <1>5, <1>6, <1>7, <1>8, <1>9

\* The cache of an entry is set or cleared.
LEMMA CacheSet ==
    ASSUME TypeOK, Kinded, Mapped, DerivedFromOlder, CachedPointerIsRight,
           UNCHANGED <<TypeTable, TypeMap>>,
           NEW i \in Types, NEW c \in Types \cup {Invalid},
           c # Invalid => TypeTable[c].kind = "*" /\ TypeTable[c].name = DerivedName("*", i),
           CachedAsPointer' = [CachedAsPointer EXCEPT ![i] = c]
    PROVE  TableTyped' /\ Kinded' /\ Mapped' /\ DerivedFromOlder' /\ CachedPointerIsRight'
<1>1. /\ Len(TypeTable) \in Nat
      /\ Types = 1 .. Len(TypeTable)
      /\ CachedAsPointer \in Seq(Types \cup {Invalid})
      /\ Len(CachedAsPointer) = Len(TypeTable)
  BY Entries DEF TypeOK
<1>2. Types' = Types /\ (\A k, j : DerivedName(k, j)' = DerivedName(k, j))
  BY DEF Types, DerivedName
<1>3. /\ CachedAsPointer' \in Seq(Types \cup {Invalid})
      /\ Len(CachedAsPointer') = Len(TypeTable)
      /\ \A j \in Types : CachedAsPointer'[j] = IF j = i THEN c ELSE CachedAsPointer[j]
  BY <1>1, ExceptSeq
<1>4. TableTyped'
  BY <1>2, <1>3 DEF TableTyped, TypeOK
<1>5. CachedPointerIsRight'
  BY <1>2, <1>3 DEF CachedPointerIsRight
<1>6. Kinded' /\ Mapped' /\ DerivedFromOlder'
  BY <1>2 DEF Kinded, Mapped, DerivedFromOlder
<1> QED
  BY <1>4, <1>5, <1>6

\* The table does not change.
LEMMA TableStays ==
    ASSUME TypeOK, Kinded, Mapped, DerivedFromOlder, CachedPointerIsRight,
           UNCHANGED <<TypeTable, TypeMap, CachedAsPointer>>
    PROVE  TableTyped' /\ Kinded' /\ Mapped' /\ DerivedFromOlder' /\ CachedPointerIsRight'
<1>1. Types' = Types /\ (\A k, j : DerivedName(k, j)' = DerivedName(k, j))
  BY DEF Types, DerivedName
<1> QED
  BY <1>1 DEF TypeOK, TableTyped, Kinded, Mapped, DerivedFromOlder, CachedPointerIsRight

\* An entry whose name starts with a derived kind is of that kind.
LEMMA DerivedByName ==
    ASSUME TypeOK, Kinded, TypeTableAssumption, NEW i \in Types, TypeTable[i].name[1] \in Derived
    PROVE  TypeTable[i].kind = TypeTable[i].name[1]
<1>1. TypeTable[i].kind \in Kinds
  BY Entries
<1>2. BasicNames \cap Derived = {} /\ Derived \cap (Structs \cup Generics) = {}
  BY DEF BasicNames, TypeTableAssumption
<1> QED
  BY <1>1, <1>2 DEF Kinded, Kinds

-----------------------------------------------------------------------------
(* The threads *)

Labels == {"idle", "lookup", "add", "cache", "done"}
Requests == [kind : Kinds, name : Name, of : Types \cup {Invalid}, cached : BOOLEAN]

ThreadsOK ==
    /\ pc \in [Threads -> Labels]
    /\ want \in [Threads -> Requests]
    /\ got \in [Threads -> Types \cup {Invalid}]
    /\ Wanted
    /\ GivenAnEntry
    /\ GivenWhatItAskedFor

\* Entries stay where they are and keep their names.
EntriesStay ==
    /\ Types \subseteq Types'
    /\ \A i \in Types : TypeTable'[i] = TypeTable[i]
    /\ \A k, i : i \in Types \cup {Invalid} => DerivedName(k, i)' = DerivedName(k, i)

\* One thread takes a step: what it has then must be right, and what the
\* others have stays right.
LEMMA ThreadStep ==
    ASSUME ThreadsOK, EntriesStay, NEW t \in Threads,
           NEW l \in Labels, NEW w \in Requests', NEW g \in Types' \cup {Invalid},
           pc' = [pc EXCEPT ![t] = l],
           want' = [want EXCEPT ![t] = w],
           got' = [got EXCEPT ![t] = g],
           l \in {"lookup", "add", "cache"} =>
               /\ w.kind \in Derived
               /\ w.name = DerivedName(w.kind, w.of)'
               /\ w.cached => w.kind = "*" /\ w.of # Invalid,
           l = "cache" => w.cached,
           l \in {"cache", "done"} =>
               g # Invalid /\ TypeTable'[g].kind = w.kind /\ TypeTable'[g].name = w.name
    PROVE  ThreadsOK'
<1>1. /\ pc' \in [Threads -> Labels]
      /\ pc'[t] = l
      /\ \A u \in Threads \ {t} : pc'[u] = pc[u]
  BY DEF ThreadsOK
<1>2. /\ want' \in [Threads -> Requests']
      /\ want'[t] = w
      /\ \A u \in Threads \ {t} : want'[u] = want[u]
  <2>1. Requests \subseteq Requests'
    BY DEF EntriesStay, Requests
  <2> QED
    BY <2>1 DEF ThreadsOK
<1>3. /\ got' \in [Threads -> Types' \cup {Invalid}]
      /\ got'[t] = g
      /\ \A u \in Threads \ {t} : got'[u] = got[u]
  BY DEF ThreadsOK, EntriesStay
<1>4. \A u \in Threads : want[u].of \in Types \cup {Invalid} /\ got[u] \in Types \cup {Invalid}
  BY DEF ThreadsOK, Requests
<1>5. Wanted'
  <2> SUFFICES ASSUME NEW u \in Threads PROVE Carried(u)'
    BY DEF Wanted
  <2>1. CASE u = t
    BY <2>1, <1>1, <1>2, <1>3 DEF Carried
  <2>2. CASE u # t
    <3>1. pc'[u] = pc[u] /\ want'[u] = want[u] /\ got'[u] = got[u]
      BY <2>2, <1>1, <1>2, <1>3
    <3>2. Carried(u)
      BY DEF ThreadsOK, Wanted
    <3> QED
      BY <3>1, <3>2, <1>4 DEF Carried, EntriesStay
  <2> QED
    BY <2>1, <2>2
<1>6. GivenAnEntry' /\ GivenWhatItAskedFor'
  <2> SUFFICES ASSUME NEW u \in Threads, pc'[u] = "done"
               PROVE  /\ got'[u] # Invalid
                      /\ TypeTable'[got'[u]].kind = want'[u].kind
                      /\ TypeTable'[got'[u]].name = want'[u].name
    BY DEF GivenAnEntry, GivenWhatItAskedFor
  <2>1. CASE u = t
    BY <2>1, <1>1, <1>2, <1>3
  <2>2. CASE u # t
    BY <2>2, <1>1, <1>2, <1>3, <1>4 DEF ThreadsOK, EntriesStay, GivenAnEntry, GivenWhatItAskedFor
  <2> QED
    BY <2>1, <2>2
<1> QED
  BY <1>1, <1>2, <1>3, <1>5, <1>6 DEF ThreadsOK

\* No thread takes a step and the entries stay.
LEMMA SameThreads ==
    ASSUME ThreadsOK, UNCHANGED <<TypeTable, pc, want, got>>
    PROVE  ThreadsOK'
<1>1. \A k, i : DerivedName(k, i)' = DerivedName(k, i)
  BY DEF DerivedName
<1>2. Types' = Types
  BY DEF Types
<1>3. Requests' = Requests
  BY <1>2 DEF Requests
<1> QED
  BY <1>1, <1>2, <1>3 DEF ThreadsOK, Wanted, Carried, GivenAnEntry, GivenWhatItAskedFor

-----------------------------------------------------------------------------
(* The invariant is inductive *)

TableOK == TableTyped /\ Kinded /\ Mapped /\ DerivedFromOlder /\ CachedPointerIsRight

LEMMA Parts == IInv <=> TableOK /\ ThreadsOK
  BY DEF IInv, TypeOK, TableOK, TableTyped, ThreadsOK, Labels, Requests

LEMMA PartsNext == TableOK' /\ ThreadsOK' => IInv'
  BY DEF IInv, TypeOK, TableOK, TableTyped, ThreadsOK, Labels, Requests

LEMMA InitIsRight ==
    ASSUME TypeTableAssumption, Init
    PROVE  IInv
<1>1. Basic \in Seq(STRING) /\ Len(Basic) \in Nat /\ DOMAIN Basic = 1 .. Len(Basic)
  BY DEF TypeTableAssumption
<1>2. /\ DOMAIN TypeTable = DOMAIN Basic
      /\ \A i \in Types : /\ TypeTable[i].kind = "basic"
                            /\ TypeTable[i].name = <<Basic[i]>>
                            /\ TypeTable[i].of = 0
                            /\ TypeTable[i] \in [kind : {"basic"}, name : {<<Basic[i]>>}, of : {0}]
  BY DEF Init, Types, Invalid
<1>3. Types = DOMAIN Basic
  BY <1>2 DEF Types
<1>4. \A i \in Types : <<Basic[i]>> \in Name /\ <<Basic[i]>> # << >> /\ <<Basic[i]>>[1] = Basic[i]
  <2>1. \A i \in Types : Basic[i] \in Derived \cup BasicNames \cup Structs \cup Generics
    BY <1>3 DEF BasicNames
  <2> QED
    BY <2>1 DEF Name
<1>5. \A i \in Types : TypeTable[i] \in Entry
  BY <1>2, <1>4 DEF Entry, Kinds
<1>6. TableTyped
  <2>1. TypeTable \in [1 .. Len(Basic) -> Entry]
    BY <1>1, <1>3, <1>5 DEF Init
  <2>2. TypeTable \in Seq(Entry) /\ Len(TypeTable) = Len(Basic)
    BY <2>1, <1>1
  <2>3. CachedAsPointer \in [1 .. Len(Basic) -> Types \cup {Invalid}]
    BY <1>1 DEF Init
  <2>4. CachedAsPointer \in Seq(Types \cup {Invalid}) /\ Len(CachedAsPointer) = Len(Basic)
    BY <2>3, <1>1
  <2>5. DOMAIN TypeMap = {}
    BY DEF Init
  <2> QED
    BY <2>2, <2>4, <2>5 DEF TableTyped
<1>7. Kinded
  BY <1>2, <1>3, <1>4 DEF Kinded, Derived, BasicNames
<1>8. Mapped
  BY <1>2, <1>3 DEF Mapped, Init
<1>9. DerivedFromOlder
  BY <1>2 DEF DerivedFromOlder, Derived
<1>10. CachedPointerIsRight
  BY <1>3 DEF Init, CachedPointerIsRight
<1>11. ThreadsOK
  <2>1. NoRequest \in Requests
    BY DEF NoRequest, Requests, Kinds, Name
  <2> QED
    BY <2>1 DEF Init, ThreadsOK, Labels, Wanted, Carried, GivenAnEntry, GivenWhatItAskedFor
<1> QED
  BY <1>6, <1>7, <1>8, <1>9, <1>10, <1>11, Parts DEF TableOK

\* Neither an unchanged table nor a new entry disturbs the entries there are.
LEMMA StaysIfSame ==
    ASSUME UNCHANGED TypeTable
    PROVE  EntriesStay
<1>1. \A k, i : DerivedName(k, i)' = DerivedName(k, i)
  BY DEF DerivedName
<1> QED
  BY <1>1 DEF EntriesStay, Types

LEMMA StaysIfAdded ==
    ASSUME TypeOK, NEW kind, NEW name, NEW of, Proper(kind, name, of),
           AddEntry(kind, name, of)
    PROVE  EntriesStay
<1>1. \A k, i : i \in Types \cup {Invalid} => DerivedName(k, i)' = DerivedName(k, i)
  BY NamesStay
<1>2. /\ Len(TypeTable) \in Nat
      /\ Types = 1 .. Len(TypeTable)
      /\ Types' = 1 .. Len(TypeTable) + 1
      /\ \A i \in Types : TypeTable'[i] = TypeTable[i]
  BY Appended
<1>3. Types \subseteq Types'
  BY <1>2
<1> QED
  BY <1>1, <1>2, <1>3 DEF EntriesStay

LEMMA MadeRequest ==
    ASSUME TypeOK, NEW kind \in Derived, NEW i \in Types \cup {Invalid}, NEW cached \in BOOLEAN
    PROVE  /\ Request(kind, i, cached) \in Requests
           /\ Request(kind, i, cached).kind = kind
           /\ Request(kind, i, cached).name = DerivedName(kind, i)
           /\ Request(kind, i, cached).of = i
           /\ Request(kind, i, cached).cached = cached
  BY DerivedNames DEF Request, Requests, Kinds

\* The request is made with the names as they are.
LEMMA LookUpStep ==
    ASSUME IInv, NEW t \in Threads, NEW kind \in Derived, NEW i \in Types \cup {Invalid},
           NEW cached \in BOOLEAN, cached => kind = "*" /\ i # Invalid,
           LookUp(t, Request(kind, i, cached))
    PROVE  IInv'
<1>1. PICK r \in Requests :
        /\ r = Request(kind, i, cached)
        /\ r.kind = kind /\ r.name = DerivedName(kind, i) /\ r.of = i /\ r.cached = cached
  BY MadeRequest DEF IInv
<1>2. UNCHANGED <<TypeTable, TypeMap, CachedAsPointer>>
  BY DEF LookUp
<1>3. TableOK'
  BY <1>2, TableStays DEF IInv, TableOK
<1>4. EntriesStay
  BY <1>2, StaysIfSame
<1>5. /\ pc' = [pc EXCEPT ![t] = "lookup"]
      /\ want' = [want EXCEPT ![t] = r]
      /\ got' = [got EXCEPT ![t] = got[t]]
  BY <1>1, Parts DEF LookUp, Goto, ThreadsOK
<1>6. PICK g \in Types' \cup {Invalid} : g = got[t]
  BY <1>4, Parts DEF ThreadsOK, EntriesStay
<1>7. r \in Requests' /\ r.name = DerivedName(r.kind, r.of)'
  BY <1>1, <1>4 DEF EntriesStay, Requests
<1>8. ThreadsOK'
  BY ZenonT(60), <1>1, <1>4, <1>5, <1>6, <1>7, Parts, ThreadStep DEF Labels
<1> QED
  BY <1>3, <1>8, PartsNext

\* What is in the cache is a plain pointer of the right name.
LEMMA CachedPointerStep ==
    ASSUME IInv, NEW t \in Threads, NEW i \in Types, CachedPointer(t, i)
    PROVE  IInv'
<1>1. PICK r \in Requests :
        r = Request("*", i, TRUE) /\ r.kind = "*" /\ r.name = DerivedName("*", i)
  <2>1. "*" \in Derived
    BY DEF Derived
  <2>2. /\ Request("*", i, TRUE) \in Requests
        /\ Request("*", i, TRUE).kind = "*"
        /\ Request("*", i, TRUE).name = DerivedName("*", i)
    <3>1. \A c \in BOOLEAN : /\ Request("*", i, c) \in Requests
                             /\ Request("*", i, c).kind = "*"
                             /\ Request("*", i, c).name = DerivedName("*", i)
      BY <2>1, MadeRequest DEF IInv
    <3>2. TRUE \in BOOLEAN
      OBVIOUS
    <3> QED
      BY ONLY <3>1, <3>2, Zenon
  <2> QED
    BY <2>2
<1>2. UNCHANGED <<TypeTable, TypeMap, CachedAsPointer>> /\ CachedAsPointer[i] # Invalid
  BY DEF CachedPointer
<1>3. PICK g \in Types : /\ g = CachedAsPointer[i] /\ g # Invalid
                         /\ TypeTable[g].kind = "*" /\ TypeTable[g].name = DerivedName("*", i)
  <2>1. CachedAsPointer \in Seq(Types \cup {Invalid}) /\ DOMAIN CachedAsPointer = Types
    BY Entries DEF IInv, TypeOK
  <2> QED
    BY <2>1, <1>2 DEF IInv, CachedPointerIsRight
<1>4. /\ pc' = [pc EXCEPT ![t] = "done"]
      /\ want' = [want EXCEPT ![t] = r]
      /\ got' = [got EXCEPT ![t] = g]
  BY <1>1, <1>3 DEF CachedPointer, Goto, Give
<1>5. TableOK'
  BY <1>2, TableStays DEF IInv, TableOK
<1>6. EntriesStay
  BY <1>2, StaysIfSame
<1>7. r \in Requests' /\ g \in Types' /\ TypeTable'[g] = TypeTable[g]
  BY <1>1, <1>3, <1>6 DEF EntriesStay, Requests
<1>8. ThreadsOK'
  BY <1>1, <1>2, <1>3, <1>4, <1>6, <1>7, Parts, ThreadStep DEF Labels
<1> QED
  BY <1>5, <1>8, PartsNext

\* The entry that TypeMap has under a derived name is the one asked for.
LEMMA FoundByName ==
    ASSUME TypeTableAssumption, IInv, NEW t \in Threads,
           want[t].kind \in Derived,
           want[t].name = DerivedName(want[t].kind, want[t].of),
           want[t].name \in DOMAIN TypeMap
    PROVE  LET g == TypeMap[want[t].name] IN
           /\ g \in Types
           /\ g # Invalid
           /\ TypeTable[g].kind = want[t].kind
           /\ TypeTable[g].name = want[t].name
<1> DEFINE g == TypeMap[want[t].name]
<1>1. g \in Types /\ TypeTable[g].name = want[t].name
  BY DEF IInv, TypeOK, Mapped
<1>2. g # Invalid
  BY <1>1, Entries DEF IInv, Invalid
<1>3. want[t].of \in Types \cup {Invalid}
  BY Parts DEF ThreadsOK, Requests
<1>4. TypeTable[g].name[1] = want[t].kind
  BY <1>1, <1>3, DerivedNames DEF IInv
<1>5. TypeTable[g].kind = want[t].kind
  BY <1>1, <1>4, DerivedByName DEF IInv
<1> QED
  BY <1>1, <1>2, <1>5

\* In a critical section a thread has the request it made.
LEMMA HasRequest ==
    ASSUME IInv, NEW t \in Threads, pc[t] \in {"lookup", "add", "cache"}
    PROVE  /\ want[t] \in Requests
           /\ want[t].of \in Types \cup {Invalid}
           /\ got[t] \in Types \cup {Invalid}
           /\ Carried(t)
           /\ want[t].kind \in Derived
           /\ want[t].name = DerivedName(want[t].kind, want[t].of)
           /\ want[t].cached => want[t].kind = "*" /\ want[t].of # Invalid
<1>1. want[t] \in Requests /\ got[t] \in Types \cup {Invalid} /\ Carried(t)
  BY Parts DEF ThreadsOK, Wanted
<1>2. want[t].of \in Types \cup {Invalid}
  BY <1>1 DEF Requests
<1> QED
  BY <1>1, <1>2 DEF Carried

\* Found and SetCache put the plain pointer that was asked for into the cache.
LEMMA FoundStep ==
    ASSUME TypeTableAssumption, IInv, NEW t \in Threads, Found(t)
    PROVE  IInv'
<1>1. pc[t] = "lookup" /\ want[t].name \in DOMAIN TypeMap /\ UNCHANGED <<TypeTable, TypeMap>>
  BY DEF Found
<1>2. PICK w \in Requests : /\ w = want[t]
                            /\ w.of \in Types \cup {Invalid}
                            /\ w.kind \in Derived
                            /\ w.name = DerivedName(w.kind, w.of)
                            /\ w.cached => w.kind = "*" /\ w.of # Invalid
  BY <1>1, HasRequest
<1>3. PICK g \in Types : /\ g = TypeMap[w.name] /\ g # Invalid
                         /\ TypeTable[g].kind = w.kind /\ TypeTable[g].name = w.name
  BY <1>1, <1>2, FoundByName
<1>4. EntriesStay
  BY <1>1, StaysIfSame
<1>5. TableOK'
  <2>1. CASE w.cached
    <3>1. CachedAsPointer' = [CachedAsPointer EXCEPT ![w.of] = g]
      BY <2>1, <1>2, <1>3 DEF Found
    <3>2. w.of \in Types /\ TypeTable[g].kind = "*" /\ TypeTable[g].name = DerivedName("*", w.of)
      BY <2>1, <1>2, <1>3
    <3> QED
      BY <3>1, <3>2, <1>1, CacheSet DEF IInv, TableOK
  <2>2. CASE ~w.cached
    BY <2>2, <1>1, <1>2, TableStays DEF IInv, TableOK, Found
  <2> QED
    BY <2>1, <2>2
<1>6. /\ pc' = [pc EXCEPT ![t] = "done"]
      /\ want' = [want EXCEPT ![t] = w]
      /\ got' = [got EXCEPT ![t] = g]
  BY <1>2, <1>3, Parts DEF Found, Goto, Give, ThreadsOK
<1>7. w \in Requests' /\ g \in Types' /\ TypeTable'[g] = TypeTable[g]
  BY <1>2, <1>3, <1>4 DEF EntriesStay, Requests
<1>8. ThreadsOK'
  BY <1>3, <1>4, <1>6, <1>7, Parts, ThreadStep DEF Labels
<1> QED
  BY <1>5, <1>8, PartsNext

LEMMA SetCacheStep ==
    ASSUME TypeTableAssumption, IInv, NEW t \in Threads, SetCache(t)
    PROVE  IInv'
<1>1. pc[t] = "cache" /\ UNCHANGED <<TypeTable, TypeMap, want, got>>
  BY DEF SetCache
<1>2. PICK w \in Requests : /\ w = want[t]
                            /\ w.of \in Types
                            /\ w.kind = "*"
                            /\ w.name = DerivedName("*", w.of)
  BY <1>1, HasRequest DEF Carried
<1>3. PICK g \in Types : /\ g = got[t] /\ g # Invalid
                         /\ TypeTable[g].kind = w.kind /\ TypeTable[g].name = w.name
  BY <1>1, <1>2, HasRequest DEF Carried
<1>4. EntriesStay
  BY <1>1, StaysIfSame
<1>5. TableOK'
  <2>1. CachedAsPointer' = [CachedAsPointer EXCEPT ![w.of] = g]
    BY <1>2, <1>3 DEF SetCache
  <2> QED
    BY <2>1, <1>1, <1>2, <1>3, CacheSet DEF IInv, TableOK
<1>6. /\ pc' = [pc EXCEPT ![t] = "done"]
      /\ want' = [want EXCEPT ![t] = w]
      /\ got' = [got EXCEPT ![t] = g]
  BY <1>1, <1>2, <1>3, Parts DEF SetCache, Goto, ThreadsOK
<1>7. w \in Requests' /\ g \in Types' /\ TypeTable'[g] = TypeTable[g]
  BY <1>2, <1>3, <1>4 DEF EntriesStay, Requests
<1>8. ThreadsOK'
  BY <1>3, <1>4, <1>6, <1>7, Parts, ThreadStep DEF Labels
<1> QED
  BY <1>5, <1>8, PartsNext

\* A name that was not found is asked for again, in AddTypeWithName.
LEMMA NotFoundStep ==
    ASSUME IInv, NEW t \in Threads, NotFound(t)
    PROVE  IInv'
<1>1. pc[t] = "lookup" /\ UNCHANGED <<TypeTable, TypeMap, CachedAsPointer, want, got>>
  BY DEF NotFound
<1>2. PICK w \in Requests : /\ w = want[t]
                            /\ w.of \in Types \cup {Invalid}
                            /\ w.kind \in Derived
                            /\ w.name = DerivedName(w.kind, w.of)
                            /\ w.cached => w.kind = "*" /\ w.of # Invalid
  BY <1>1, HasRequest
<1>3. PICK g \in Types \cup {Invalid} : g = got[t]
  BY <1>1, HasRequest
<1>4. EntriesStay
  BY <1>1, StaysIfSame
<1>5. TableOK'
  BY <1>1, TableStays DEF IInv, TableOK
<1>6. /\ pc' = [pc EXCEPT ![t] = "add"]
      /\ want' = [want EXCEPT ![t] = w]
      /\ got' = [got EXCEPT ![t] = g]
  BY <1>1, <1>2, <1>3, Parts DEF NotFound, Goto, ThreadsOK
<1>7. w \in Requests' /\ g \in Types' \cup {Invalid} /\ w.name = DerivedName(w.kind, w.of)'
  BY <1>2, <1>3, <1>4 DEF EntriesStay, Requests
<1>8. ThreadsOK'
  BY <1>2, <1>4, <1>6, <1>7, Parts, ThreadStep DEF Labels
<1> QED
  BY <1>5, <1>8, PartsNext

LEMMA AddFindsItStep ==
    ASSUME TypeTableAssumption, IInv, NEW t \in Threads, AddFindsIt(t)
    PROVE  IInv'
<1>1. /\ pc[t] = "add" /\ want[t].name \in DOMAIN TypeMap
      /\ UNCHANGED <<TypeTable, TypeMap, CachedAsPointer, want>>
  BY DEF AddFindsIt
<1>2. PICK w \in Requests : /\ w = want[t]
                            /\ w.of \in Types \cup {Invalid}
                            /\ w.kind \in Derived
                            /\ w.name = DerivedName(w.kind, w.of)
                            /\ w.cached => w.kind = "*" /\ w.of # Invalid
  BY <1>1, HasRequest
<1>3. PICK g \in Types : /\ g = TypeMap[w.name] /\ g # Invalid
                         /\ TypeTable[g].kind = w.kind /\ TypeTable[g].name = w.name
  BY <1>1, <1>2, FoundByName
<1>4. EntriesStay
  BY <1>1, StaysIfSame
<1>5. TableOK'
  BY <1>1, TableStays DEF IInv, TableOK
<1>6. PICK l \in {"cache", "done"} : l = IF w.cached THEN "cache" ELSE "done"
  OBVIOUS
<1>7. /\ pc' = [pc EXCEPT ![t] = l]
      /\ want' = [want EXCEPT ![t] = w]
      /\ got' = [got EXCEPT ![t] = g]
  BY <1>1, <1>2, <1>3, <1>6, Parts DEF AddFindsIt, Goto, Give, ThreadsOK
<1>8. /\ w \in Requests' /\ g \in Types' /\ TypeTable'[g] = TypeTable[g]
      /\ w.name = DerivedName(w.kind, w.of)'
  BY <1>2, <1>3, <1>4 DEF EntriesStay, Requests
<1>9. l \in Labels /\ (l = "cache" => w.cached)
  BY <1>6 DEF Labels
<1>10. ThreadsOK'
  BY ZenonT(60), <1>2, <1>3, <1>4, <1>7, <1>8, <1>9, Parts, ThreadStep
<1> QED
  BY <1>5, <1>10, PartsNext

\* The look-up that AddTypeWithName does itself makes the new entry proper.
LEMMA AddNewStep ==
    ASSUME TypeTableAssumption, IInv, NEW t \in Threads, AddNew(t)
    PROVE  IInv'
<1>1. pc[t] = "add" /\ want[t].name \notin DOMAIN TypeMap /\ UNCHANGED want
  BY DEF AddNew
<1>2. PICK w \in Requests : /\ w = want[t]
                            /\ w.of \in Types \cup {Invalid}
                            /\ w.kind \in Derived
                            /\ w.name = DerivedName(w.kind, w.of)
                            /\ w.cached => w.kind = "*" /\ w.of # Invalid
  BY <1>1, HasRequest
<1>3. AddEntry(w.kind, w.name, w.of)
  BY <1>2 DEF AddNew
<1>4. Proper(w.kind, w.name, w.of)
  <2>1. w.name \in Name /\ w.name # << >> /\ w.name[1] = w.kind
    BY <1>2, DerivedNames DEF IInv
  <2>2. w.kind \in Kinds /\ w.kind \notin {"basic", "struct", "generic"}
    BY <1>2 DEF Kinds, Derived
  <2> QED
    BY <2>1, <2>2, <1>1, <1>2 DEF Proper
<1>5. TableOK'
  BY <1>3, <1>4, Growth DEF IInv, TableOK
<1>6. EntriesStay
  BY <1>3, <1>4, StaysIfAdded DEF IInv
<1>7. PICK g \in Types' : /\ g = Len(TypeTable) + 1 /\ g # Invalid
                          /\ TypeTable'[g].kind = w.kind /\ TypeTable'[g].name = w.name
  <2>1. /\ Len(TypeTable) \in Nat
        /\ Types' = 1 .. Len(TypeTable) + 1
        /\ TypeTable'[Len(TypeTable) + 1] = [kind |-> w.kind, name |-> w.name, of |-> w.of]
    BY <1>3, <1>4, Appended DEF IInv
  <2> QED
    BY <2>1 DEF Invalid
<1>8. PICK l \in {"cache", "done"} : l = IF w.cached THEN "cache" ELSE "done"
  OBVIOUS
<1>9. /\ pc' = [pc EXCEPT ![t] = l]
      /\ want' = [want EXCEPT ![t] = w]
      /\ got' = [got EXCEPT ![t] = g]
  BY <1>1, <1>2, <1>7, <1>8, Parts DEF AddNew, Goto, Give, ThreadsOK
<1>10. w \in Requests' /\ w.name = DerivedName(w.kind, w.of)'
  BY <1>2, <1>6 DEF EntriesStay, Requests
<1>11. l \in Labels /\ (l = "cache" => w.cached)
  BY <1>8 DEF Labels
<1>12. ThreadsOK'
  BY <1>2, <1>6, <1>7, <1>9, <1>10, <1>11, Parts, ThreadStep
<1> QED
  BY <1>5, <1>12, PartsNext

LEMMA ReturnStep ==
    ASSUME IInv, NEW t \in Threads, Return(t)
    PROVE  IInv'
<1>1. UNCHANGED <<TypeTable, TypeMap, CachedAsPointer>>
  BY DEF Return
<1>2. EntriesStay
  BY <1>1, StaysIfSame
<1>3. TableOK'
  BY <1>1, TableStays DEF IInv, TableOK
<1>4. NoRequest \in Requests'
  BY DEF NoRequest, Requests, Kinds, Name
<1>5. /\ pc' = [pc EXCEPT ![t] = "idle"]
      /\ want' = [want EXCEPT ![t] = NoRequest]
      /\ got' = [got EXCEPT ![t] = Invalid]
  BY DEF Return, Goto, Give
<1>6. ThreadsOK'
  BY <1>2, <1>4, <1>5, Parts, ThreadStep DEF Labels
<1> QED
  BY <1>3, <1>6, PartsNext

\* The main thread is given a type it declares, found or new.
LEMMA GivenStep ==
    ASSUME TypeOK, ThreadsOK, EntriesStay, NEW kind \in {"struct", "generic"}, NEW n \in Name,
           NEW g \in Types', g # Invalid,
           TypeTable'[g].kind = kind, TypeTable'[g].name = n,
           Given(kind, n, g)
    PROVE  ThreadsOK'
<1>1. PICK w \in Requests' : /\ w = [kind |-> kind, name |-> n, of |-> Invalid, cached |-> FALSE]
                             /\ w.kind = kind /\ w.name = n
  <2>1. Requests' = [kind : Kinds, name : Name, of : Types' \cup {Invalid}, cached : BOOLEAN]
    BY DEF Requests
  <2>2. kind \in Kinds
    BY DEF Kinds
  <2> DEFINE r == [kind |-> kind, name |-> n, of |-> Invalid, cached |-> FALSE]
  <2>3. r \in Requests'
    BY <2>1, <2>2
  <2>4. r.kind = kind /\ r.name = n
    OBVIOUS
  <2> QED
    BY ONLY <2>3, <2>4, Zenon
<1>2. /\ pc' = [pc EXCEPT ![Main] = "done"]
      /\ want' = [want EXCEPT ![Main] = w]
      /\ got' = [got EXCEPT ![Main] = g]
  BY <1>1 DEF Given, Goto, Give
<1>3. Main \in Threads
  BY DEF Threads
<1> QED
  BY <1>1, <1>2, <1>3, ThreadStep DEF Labels

\* A name of one word.
LEMMA OneWord ==
    ASSUME NEW n \in Structs \cup Generics
    PROVE  <<n>> \in Name /\ <<n>> # << >> /\ <<n>>[1] = n
  BY DEF Name

\* A new entry that the type checker declares.
LEMMA DeclareNew ==
    ASSUME IInv, NEW kind \in {"struct", "generic"}, NEW n \in Structs \cup Generics,
           kind = "struct" => n \in Structs, <<n>> \notin DOMAIN TypeMap,
           kind = "generic" => n \in Generics,
           Given(kind, <<n>>, Len(TypeTable) + 1),
           AddEntry(kind, <<n>>, Invalid)
    PROVE  IInv'
<1>1. Proper(kind, <<n>>, Invalid)
  <2>1. kind \in Kinds /\ kind \notin Derived /\ kind # "basic"
    BY DEF Kinds, Derived
  <2> QED
    BY <2>1, OneWord DEF Proper
<1>2. TableOK'
  BY <1>1, Growth DEF IInv, TableOK
<1>3. EntriesStay
  BY <1>1, StaysIfAdded DEF IInv
<1>4. PICK g \in Types' : /\ g = Len(TypeTable) + 1 /\ g # Invalid
                          /\ TypeTable'[g].kind = kind /\ TypeTable'[g].name = <<n>>
  <2>1. /\ Len(TypeTable) \in Nat
        /\ Types' = 1 .. Len(TypeTable) + 1
        /\ TypeTable'[Len(TypeTable) + 1] = [kind |-> kind, name |-> <<n>>, of |-> Invalid]
    BY <1>1, Appended DEF IInv
  <2> QED
    BY <2>1 DEF Invalid
<1>5. ThreadsOK'
  BY <1>3, <1>4, OneWord, Parts, GivenStep DEF IInv
<1> QED
  BY <1>2, <1>5, PartsNext

LEMMA DeclareStructStep ==
    ASSUME TypeTableAssumption, IInv, NEW n \in Structs, DeclareStruct(n)
    PROVE  IInv'
<1>1. CASE <<n>> \notin DOMAIN TypeMap
  <2>1. Given("struct", <<n>>, Len(TypeTable) + 1) /\ AddEntry("struct", <<n>>, Invalid)
    BY <1>1 DEF DeclareStruct
  <2>2. PICK kind \in {"struct", "generic"} : kind = "struct"
    OBVIOUS
  <2> QED
    BY <1>1, <2>1, <2>2, DeclareNew
<1>2. CASE <<n>> \in DOMAIN TypeMap
  <2>1. /\ Given("struct", <<n>>, TypeMap[<<n>>])
        /\ UNCHANGED <<TypeTable, TypeMap, CachedAsPointer>>
    BY <1>2 DEF DeclareStruct
  <2>2. PICK g \in Types : /\ g = TypeMap[<<n>>] /\ g # Invalid
                           /\ TypeTable[g].name = <<n>> /\ TypeTable[g].kind = "struct"
    <3>1. TypeMap[<<n>>] \in Types /\ TypeTable[TypeMap[<<n>>]].name = <<n>>
      BY <1>2 DEF IInv, TypeOK, Mapped
    <3>2. PICK g \in Types : g = TypeMap[<<n>>] /\ TypeTable[g].name = <<n>>
      BY <3>1
    <3>3. TypeTable[g].name[1] = n
      BY <3>2
    <3>4. TypeTable[g].kind \in Kinds
      BY Entries DEF IInv
    <3>5. /\ BasicNames \cap Structs = {} /\ Structs \cap Generics = {}
          /\ Derived \cap Structs = {}
      BY DEF BasicNames, TypeTableAssumption
    <3>6. TypeTable[g].kind = "struct"
      BY <3>3, <3>4, <3>5 DEF IInv, Kinded, Kinds
    <3>7. g # Invalid
      BY Entries DEF IInv, Invalid
    <3> QED
      BY <3>2, <3>6, <3>7
  <2>3. TableOK'
    BY <2>1, TableStays DEF IInv, TableOK
  <2>4. EntriesStay
    BY <2>1, StaysIfSame
  <2>5. g \in Types' /\ TypeTable'[g].kind = "struct" /\ TypeTable'[g].name = <<n>>
    BY <2>2, <2>4 DEF EntriesStay
  <2>6. Given("struct", <<n>>, g)
    BY <2>1, <2>2
  <2>7. PICK kind \in {"struct", "generic"} : kind = "struct"
    OBVIOUS
  <2>8. ThreadsOK'
    BY <2>2, <2>4, <2>5, <2>6, <2>7, OneWord, Parts, GivenStep DEF IInv
  <2> QED
    BY <2>3, <2>8, PartsNext
<1> QED
  BY <1>1, <1>2

LEMMA MakeGenericStep ==
    ASSUME IInv, NEW n \in Generics, MakeGeneric(n)
    PROVE  IInv'
<1>1. /\ <<n>> \notin DOMAIN TypeMap
      /\ Given("generic", <<n>>, Len(TypeTable) + 1)
      /\ AddEntry("generic", <<n>>, Invalid)
  BY DEF MakeGeneric
<1>2. PICK kind \in {"struct", "generic"} : kind = "generic"
  OBVIOUS
<1> QED
  BY <1>1, <1>2, DeclareNew

\* The struct that is filled loses its cached pointer and nothing else.
LEMMA FillOpaqueStructStep ==
    ASSUME IInv, NEW i \in Types, FillOpaqueStruct(i)
    PROVE  IInv'
<1>1. /\ UNCHANGED <<TypeTable, TypeMap, pc, want, got>>
      /\ CachedAsPointer' = [CachedAsPointer EXCEPT ![i] = Invalid]
  BY DEF FillOpaqueStruct
<1>2. PICK c \in Types \cup {Invalid} : c = Invalid
  OBVIOUS
<1>3. TableOK'
  BY <1>1, <1>2, CacheSet DEF IInv, TableOK
<1>4. ThreadsOK'
  BY <1>1, SameThreads, Parts
<1> QED
  BY <1>3, <1>4, PartsNext

\* The requests for a derived type, by what they ask for.
LEMMA AskStep ==
    ASSUME TypeTableAssumption, IInv, NEW t \in Threads, Ask(t)
    PROVE  IInv'
<1>1. "*" \in Derived /\ "?*" \in Derived /\ "[]" \in Derived
  BY DEF Derived
<1>2. ASSUME PointerToNothing(t) PROVE IInv'
  <2>1. PICK kind \in {"*", "?*"} : LookUp(t, Request(kind, Invalid, FALSE))
    BY <1>2 DEF PointerToNothing
  <2>2. kind \in Derived
    BY <1>1
  <2>3. PICK no \in Types \cup {Invalid} : no = Invalid
    OBVIOUS
  <2> QED
    BY <2>1, <2>2, <2>3, LookUpStep
<1>3. ASSUME NEW i \in Types, PointerNotCached(t, i) PROVE IInv'
  <2>1. i # Invalid
    BY Entries DEF IInv, Invalid
  <2> QED
    BY <1>1, <1>3, <2>1, LookUpStep DEF PointerNotCached
<1>4. ASSUME NEW i \in Types, OptionalPointer(t, i) PROVE IInv'
  BY <1>1, <1>4, LookUpStep DEF OptionalPointer
<1>5. ASSUME NEW i \in Types, GetSliceType(t, i) PROVE IInv'
  BY <1>1, <1>5, LookUpStep DEF GetSliceType
<1>6. ASSUME NEW i \in Types, TypeTable[i].kind \in {"*", "?*"}
      PROVE  TypeTable[i].of \in Types \cup {Invalid}
  <2>1. TypeTable[i].of \in Nat /\ TypeTable[i].of < i
    BY <1>6, Entries DEF IInv, DerivedFromOlder, Derived
  <2> QED
    BY <2>1, Entries DEF IInv, Invalid
<1>7. ASSUME NEW i \in Types, GetOptional(t, i) PROVE IInv'
  BY <1>1, <1>6, <1>7, LookUpStep DEF GetOptional
<1>8. ASSUME NEW i \in Types, GetNonOptional(t, i) PROVE IInv'
  BY <1>1, <1>6, <1>8, LookUpStep DEF GetNonOptional
<1> QED
  BY <1>2, <1>3, <1>4, <1>5, <1>7, <1>8, CachedPointerStep DEF Ask

LEMMA NextStep ==
    ASSUME TypeTableAssumption, IInv, [Next]_vars
    PROVE  IInv'
<1>1. CASE UNCHANGED vars
  <2>1. UNCHANGED <<TypeTable, TypeMap, CachedAsPointer, pc, want, got>>
    BY <1>1 DEF vars
  <2> QED
    BY <2>1, SameThreads, TableStays, Parts, PartsNext DEF IInv, TableOK
<1>2. CASE Check
  BY <1>2, DeclareStructStep, MakeGenericStep, FillOpaqueStructStep DEF Check
<1>3. ASSUME NEW t \in Threads, Ask(t) \/ Intern(t) \/ Return(t)
      PROVE  IInv'
  BY <1>3, AskStep, FoundStep, NotFoundStep, AddFindsItStep, AddNewStep, SetCacheStep,
     ReturnStep DEF Intern
<1> QED
  BY <1>1, <1>2, <1>3 DEF Next

-----------------------------------------------------------------------------
(* What holds of the table for any threads and any program *)

\* The invariant the other theorems rest on: it holds at the start and every
\* critical section keeps it.
THEOREM InductiveInvariant == Spec => []IInv
<1>1. Init => IInv
  BY InitIsRight, TypeTableAssumption
<1>2. IInv /\ [Next]_vars => IInv'
  BY NextStep, TypeTableAssumption
<1> QED
  BY <1>1, <1>2, PTL DEF Spec

\* The table, its map and the state of every thread are of their types.
THEOREM TypeCorrect == Spec => []TypeOK
<1>1. IInv => TypeOK
  BY DEF IInv
<1> QED
  BY <1>1, InductiveInvariant, PTL

\* However many threads intern types at the same time, every type has one entry (AddTypeWithName, Type.cpp:404-435).
THEOREM TypesAreUnique == Spec => []OneEntryPerName
<1>1. ASSUME IInv PROVE OneEntryPerName
  <2> SUFFICES ASSUME NEW i \in Types, NEW j \in Types,
                      TypeTable[i].name = TypeTable[j].name
               PROVE  i = j
    BY DEF OneEntryPerName
  <2>1. TypeTable[i].kind = TypeTable[j].kind
    BY <1>1, SameKind, TypeTableAssumption DEF IInv
  <2>2. CASE TypeTable[i].kind = "basic"
    <3>1. /\ i \in DOMAIN Basic /\ j \in DOMAIN Basic
          /\ <<Basic[i]>> = <<Basic[j]>>
      <4>1. TypeTable[j].kind = "basic"
        BY <2>1, <2>2
      <4>2. /\ i \in DOMAIN Basic /\ j \in DOMAIN Basic
            /\ TypeTable[i].name = <<Basic[i]>> /\ TypeTable[j].name = <<Basic[j]>>
        BY <1>1, <2>2, <4>1 DEF IInv, Mapped
      <4> QED
        BY <4>2
    <3>2. <<Basic[i]>>[1] = Basic[i] /\ <<Basic[j]>>[1] = Basic[j]
      OBVIOUS
    <3>3. Basic[i] = Basic[j]
      BY <3>1, <3>2
    <3> QED
      BY <3>1, <3>3, TypeTableAssumption DEF TypeTableAssumption
  <2>3. CASE TypeTable[i].kind # "basic"
    BY <1>1, <2>1, <2>3 DEF IInv, Mapped
  <2> QED
    BY <2>2, <2>3
<1> QED
  BY <1>1, InductiveInvariant, PTL

\* Following a derived type leads to older and older entries, so walks over a
\* type (GetTypeNameAsString, GetTypeSize) end.
THEOREM DerivationEnds == Spec => []DerivedFromOlder
<1>1. IInv => DerivedFromOlder
  BY DEF IInv
<1> QED
  BY <1>1, InductiveInvariant, PTL

\* The cache that GetPointerTo reads without the lock never holds anything but
\* the plain pointer to the type (Type.cpp:1548, 1602).
THEOREM CacheIsSound == Spec => []CachedPointerIsRight
<1>1. IInv => CachedPointerIsRight
  BY DEF IInv
<1> QED
  BY <1>1, InductiveInvariant, PTL

\* Every thread is given the type it asked for, found, cached or new.
THEOREM InterningIsSound == Spec => []GivenWhatItAskedFor
<1>1. IInv => GivenWhatItAskedFor
  BY DEF IInv
<1> QED
  BY <1>1, InductiveInvariant, PTL
=============================================================================
