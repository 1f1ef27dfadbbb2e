------------------------- MODULE BuildDriverProofs -------------------------
(***************************************************************************)
(* What one target is given does not depend on the targets built before it *)
(* nor on what the hooks did, for every list of targets, every set of      *)
(* declared names and every bound on the tables.                           *)
(***************************************************************************)
EXTENDS BuildDriver, TLAPS

Words == Structs \cup {Basic, "*", "?*"}
TypeNames == Seq(Words)
Registers == {32, 64}
Object == [name : TypeNames, size : {0} \cup Registers, pointer : Nat]
Dictionaries == UNION {[D -> Nat] : D \in SUBSET TypeNames}

(* A table: entry 1 is the basic type, the others are made later.          *)
Table(T) ==
    /\ T \in [heap : Seq(Object), slots : Seq(Nat), count : Nat, dicts : Seq(Dictionaries),
              map : Nat]
    /\ T.count >= 1 /\ T.count <= Len(T.slots)
    /\ Len(T.heap) >= 1
    /\ T.slots[1] = 1
    /\ \A i \in 2 .. Len(T.slots) : T.slots[i] \in 2 .. Len(T.heap)
    /\ T.map \in 1 .. Len(T.dicts)

(* Every name in the dictionary leads to its entry, and a cached pointer to *)
(* the pointer to its entry.                                                *)
NamesFound(T) ==
    \A n \in DOMAIN Dict(T) : Dict(T)[n] \in Types(T) /\ Entry(T, Dict(T)[n]).name = n
PointersFound(T) ==
    \A i \in Types(T) :
        Entry(T, i).pointer # Invalid =>
            /\ Entry(T, i).pointer \in Types(T)
            /\ Entry(T, Entry(T, i).pointer).name = PointerName(T, i)
Found(T) == NamesFound(T) /\ PointersFound(T)

(* What happens to a table while a program is compiled or interpreted: types *)
(* are added behind the others, and objects of the table get a pointer.     *)
Grown(T, U, size) ==
    /\ Table(U)
    /\ U.map = T.map
    /\ Len(U.dicts) = Len(T.dicts)
    /\ \A d \in 1 .. Len(T.dicts) : d # T.map => U.dicts[d] = T.dicts[d]
    /\ U.count >= T.count
    /\ \A i \in Types(T) : U.slots[i] = T.slots[i]
    /\ \A i \in Types(U) : i > T.count => U.slots[i] > Len(T.heap) /\ Entry(U, i).size = size
    /\ Len(U.heap) >= Len(T.heap)
    /\ \A o \in 1 .. Len(T.heap) :
        U.heap[o].name = T.heap[o].name /\ U.heap[o].size = T.heap[o].size
    /\ \A o \in 1 .. Len(T.heap) :
        (\A i \in Types(T) : T.slots[i] # o) => U.heap[o] = T.heap[o]
    /\ Found(T) => Found(U)

(* Names last, and a cached size is only ever forgotten.                    *)
NamesLast(T, U) ==
    /\ Len(U.heap) >= Len(T.heap)
    /\ Len(U.dicts) >= Len(T.dicts)
    /\ \A o \in 1 .. Len(T.heap) :
        U.heap[o].name = T.heap[o].name /\ U.heap[o].size \in {0, T.heap[o].size}

(* A saved table, of objects of T's heap and a dictionary of T's.           *)
SavedIn(T, S) ==
    /\ S \in [pointers : Seq(Nat), dictionary : Nat]
    /\ \A i \in 1 .. Len(S.pointers) : S.pointers[i] \in 2 .. Len(T.heap)
    /\ S.dictionary \in 1 .. Len(T.dicts)

ObjectsKept(T, U) == \A o \in 1 .. Len(T.heap) : U.heap[o] = T.heap[o]

-----------------------------------------------------------------------------
LEMMA PutInto ==
  ASSUME NEW s \in Seq(Nat), NEW x \in Nat, NEW i \in 1 .. Len(s) + 1
  PROVE  /\ Put(s, i, x) \in Seq(Nat)
         /\ Len(Put(s, i, x)) >= Len(s) /\ Len(Put(s, i, x)) >= i
         /\ Len(Put(s, i, x)) <= Len(s) + 1
         /\ Put(s, i, x)[i] = x
         /\ \A j \in 1 .. Len(Put(s, i, x)) : j # i => j <= Len(s) /\ Put(s, i, x)[j] = s[j]
  <1>1. CASE i \in DOMAIN s
    BY <1>1 DEF Put
  <1>2. CASE i \notin DOMAIN s
    <2>1. i = Len(s) + 1 /\ Put(s, i, x) = Append(s, x)
      BY <1>2 DEF Put
    <2>. QED
      BY SMTT(60), <2>1
  <1>. QED
    BY <1>1, <1>2

(* A slot of a table refers to an object of its heap.                      *)
LEMMA SlotsInHeap ==
  ASSUME NEW T, Table(T)
  PROVE  /\ \A i \in 1 .. Len(T.slots) : T.slots[i] \in 1 .. Len(T.heap)
         /\ \A i \in Types(T) : i \in 1 .. Len(T.slots) /\ Entry(T, i) \in Object
         /\ Dict(T) \in Dictionaries
  <1>1. \A i \in 1 .. Len(T.slots) : T.slots[i] \in 1 .. Len(T.heap)
    BY DEF Table
  <1>2. \A i \in Types(T) : i \in 1 .. Len(T.slots)
    BY DEF Table, Types
  <1>. QED
    BY <1>1, <1>2 DEF Table, Entry, Dict

LEMMA DictionaryGrows ==
  ASSUME NEW D \in Dictionaries, NEW n \in TypeNames, NEW k \in Nat
  PROVE  [m \in DOMAIN D \cup {n} |-> IF m = n THEN k ELSE D[m]] \in Dictionaries
  <1>1. PICK N \in SUBSET TypeNames : D \in [N -> Nat]
    BY DEF Dictionaries
  <1>2. [m \in DOMAIN D \cup {n} |-> IF m = n THEN k ELSE D[m]] \in [N \cup {n} -> Nat]
    BY <1>1
  <1>. QED
    BY <1>1, <1>2 DEF Dictionaries

(* A type whose name is not known yet is put behind the others.            *)
LEMMA TypeIsAdded ==
  ASSUME NEW T, Table(T), NEW name \in TypeNames, NEW size \in Registers,
         name \notin DOMAIN Dict(T), NEW U, U = AddType(T, name, size)
  PROVE  /\ Grown(T, U, size)
         /\ U.count = T.count + 1
         /\ Len(U.heap) = Len(T.heap) + 1
         /\ Entry(U, U.count) = [name |-> name, size |-> size, pointer |-> Invalid]
         /\ name \in DOMAIN Dict(U) /\ Dict(U)[name] = U.count
         /\ ObjectsKept(T, U)
  <1>. DEFINE new == [name |-> name, size |-> size, pointer |-> Invalid]
              grown == [n \in DOMAIN Dict(T) \cup {name} |->
                            IF n = name THEN T.count + 1 ELSE Dict(T)[n]]
  <1>1. /\ U.heap = Append(T.heap, new)
        /\ U.slots = Put(T.slots, T.count + 1, Len(T.heap) + 1)
        /\ U.count = T.count + 1
        /\ U.map = T.map
        /\ U.dicts = [T.dicts EXCEPT ![T.map] = grown]
    BY DEF AddType, Dict
  <1>0. U = [heap |-> U.heap, slots |-> U.slots, count |-> U.count, dicts |-> U.dicts,
             map |-> U.map]
    BY DEF AddType, Dict
  <1>. HIDE DEF new, grown
  <1>2. T.heap \in Seq(Object) /\ T.slots \in Seq(Nat) /\ T.count \in Nat
        /\ T.dicts \in Seq(Dictionaries) /\ T.map \in 1 .. Len(T.dicts)
        /\ T.count >= 1 /\ T.count <= Len(T.slots) /\ Len(T.heap) >= 1
    BY DEF Table
  <1>3. new \in Object
    BY DEF Object, Invalid, new
  <1>4. /\ U.heap \in Seq(Object) /\ Len(U.heap) = Len(T.heap) + 1
        /\ U.heap[Len(T.heap) + 1] = new
        /\ \A o \in 1 .. Len(T.heap) : U.heap[o] = T.heap[o]
      BY <1>1, <1>2, <1>3
  <1>5. T.count + 1 \in 1 .. Len(T.slots) + 1 /\ Len(T.heap) + 1 \in Nat
    BY <1>2
  <1>6. /\ U.slots \in Seq(Nat)
        /\ Len(U.slots) >= T.count + 1
        /\ U.slots[T.count + 1] = Len(T.heap) + 1
        /\ \A j \in 1 .. Len(U.slots) :
            j # T.count + 1 => j <= Len(T.slots) /\ U.slots[j] = T.slots[j]
    <2>. DEFINE s == T.slots
                x == Len(T.heap) + 1
                i == T.count + 1
    <2>1. s \in Seq(Nat) /\ x \in Nat /\ i \in 1 .. Len(s) + 1
      BY <1>2, <1>5
    <2>2. U.slots = Put(s, i, x)
      BY <1>1
    <2>. HIDE DEF s, x, i
    <2>3. /\ Put(s, i, x) \in Seq(Nat)
          /\ Len(Put(s, i, x)) >= i
          /\ Put(s, i, x)[i] = x
          /\ \A j \in 1 .. Len(Put(s, i, x)) : j # i => j <= Len(s) /\ Put(s, i, x)[j] = s[j]
      BY <2>1, PutInto
    <2>. QED
      BY <2>2, <2>3 DEF s, x, i
  <1>7. Dict(T) \in Dictionaries
    BY SlotsInHeap
  <1>8. grown \in Dictionaries
    <2>. DEFINE D == Dict(T)
                k == T.count + 1
    <2>1. D \in Dictionaries /\ k \in Nat
      BY <1>2, <1>7
    <2>2. grown = [m \in DOMAIN D \cup {name} |-> IF m = name THEN k ELSE D[m]]
      BY DEF grown
    <2>. HIDE DEF D, k
    <2>. QED
      BY <2>1, <2>2, DictionaryGrows
  <1>9. /\ U.dicts \in Seq(Dictionaries) /\ Len(U.dicts) = Len(T.dicts)
        /\ Dict(U) = grown
        /\ \A d \in 1 .. Len(T.dicts) : d # T.map => U.dicts[d] = T.dicts[d]
    <2>. DEFINE ds == T.dicts
                m == T.map
    <2>1. ds \in Seq(Dictionaries) /\ m \in 1 .. Len(ds)
      BY <1>2
    <2>2. U.dicts = [ds EXCEPT ![m] = grown] /\ U.map = m
      BY <1>1
    <2>. HIDE DEF ds, m
    <2>3. [ds EXCEPT ![m] = grown] \in Seq(Dictionaries)
      BY <1>8, <2>1
    <2>4. Len([ds EXCEPT ![m] = grown]) = Len(ds)
      BY <2>1
    <2>5. /\ [ds EXCEPT ![m] = grown][m] = grown
          /\ \A d \in 1 .. Len(ds) : d # m => [ds EXCEPT ![m] = grown][d] = ds[d]
      BY <2>1
    <2>. QED
      BY <2>2, <2>3, <2>4, <2>5 DEF Dict, ds, m
  <1>10. Table(U)
    <2>1. U \in [heap : Seq(Object), slots : Seq(Nat), count : Nat, dicts : Seq(Dictionaries),
                 map : Nat]
      <3>1. U.count \in Nat /\ U.map \in Nat
        BY SMTT(60), <1>1, <1>2
      <3>. QED
        BY <1>0, <1>4, <1>6, <1>9, <3>1
    <2>2. T.slots[1] = 1 /\ \A i \in 2 .. Len(T.slots) : T.slots[i] \in 2 .. Len(T.heap)
      BY DEF Table
    <2>3. U.slots[1] = 1
      <3>1. 1 # T.count + 1 /\ 1 \in 1 .. Len(U.slots)
        BY <1>2, <1>6
      <3>. QED
        BY <1>6, <2>2, <3>1
    <2>4. \A i \in 2 .. Len(U.slots) : U.slots[i] \in 2 .. Len(U.heap)
      <3>. SUFFICES ASSUME NEW i \in 2 .. Len(U.slots)
                    PROVE  U.slots[i] \in 2 .. Len(U.heap)
        OBVIOUS
      <3>1. CASE i = T.count + 1
        <4>1. Len(T.heap) \in Nat /\ Len(T.heap) >= 1
          BY <1>2
        <4>2. Len(U.heap) = Len(T.heap) + 1
          BY <1>4
        <4>3. U.slots[i] = Len(T.heap) + 1
          BY <1>6, <3>1
        <4>. QED
          BY <4>1, <4>2, <4>3
      <3>2. CASE i # T.count + 1
        <4>1. i \in 1 .. Len(U.slots)
          BY <1>6
        <4>2. i <= Len(T.slots) /\ U.slots[i] = T.slots[i]
          BY <1>6, <3>2, <4>1
        <4>3. T.slots[i] \in 2 .. Len(T.heap)
          BY <2>2, <4>2
        <4>. QED
          BY <1>2, <1>4, <4>2, <4>3
      <3>. QED
        BY <3>1, <3>2
    <2>5. U.count >= 1 /\ U.count <= Len(U.slots) /\ Len(U.heap) >= 1
          /\ U.map \in 1 .. Len(U.dicts)
      BY SMTT(60), <1>1, <1>2, <1>4, <1>6, <1>9
    <2>. QED
      BY <2>1, <2>3, <2>4, <2>5 DEF Table
  <1>11. \A i \in Types(T) : U.slots[i] = T.slots[i] /\ Entry(U, i) = Entry(T, i)
    <2>1. \A i \in Types(T) : i \in 1 .. Len(T.slots) /\ i # T.count + 1
                              /\ T.slots[i] \in 1 .. Len(T.heap)
      BY <1>2, SlotsInHeap DEF Types
    <2>2. \A i \in Types(T) : i \in 1 .. Len(U.slots)
      BY <1>2, <1>6 DEF Types
    <2>3. \A i \in Types(T) : U.slots[i] = T.slots[i]
      BY <1>6, <2>1, <2>2
    <2>. QED
      BY <1>4, <2>1, <2>3 DEF Entry
  <1>12. Entry(U, U.count) = new
    BY <1>1, <1>4, <1>6 DEF Entry
  <1>13. Types(U) = Types(T) \cup {U.count}
    BY <1>1, <1>2 DEF Types
  <1>14. NamesFound(T) => NamesFound(U)
    <2>. SUFFICES ASSUME NamesFound(T), NEW n \in DOMAIN Dict(U)
                  PROVE  Dict(U)[n] \in Types(U) /\ Entry(U, Dict(U)[n]).name = n
      BY DEF NamesFound
    <2>1. CASE n = name
      BY <1>1, <1>9, <1>12, <1>13, <2>1 DEF grown, new
    <2>2. CASE n # name
      BY <1>9, <1>11, <1>13, <2>2 DEF NamesFound, grown
    <2>. QED
      BY <2>1, <2>2
  <1>15. PointersFound(T) => PointersFound(U)
    <2>. SUFFICES ASSUME PointersFound(T), NEW i \in Types(U), Entry(U, i).pointer # Invalid
                  PROVE  /\ Entry(U, i).pointer \in Types(U)
                         /\ Entry(U, Entry(U, i).pointer).name = PointerName(U, i)
      BY DEF PointersFound
    <2>1. i \in Types(T)
      BY <1>12, <1>13 DEF new
    <2>. QED
      BY <1>11, <1>13, <2>1 DEF PointersFound, PointerName
  <1>16. Grown(T, U, size)
    <2>1. \A i \in Types(U) : i > T.count => U.slots[i] > Len(T.heap) /\ Entry(U, i).size = size
      BY SMTT(60), <1>1, <1>2, <1>6, <1>12, <1>13 DEF Types, new
    <2>. QED
      BY SMTT(60), <1>1, <1>2, <1>4, <1>9, <1>10, <1>11, <1>14, <1>15, <2>1 DEF Grown, Found
  <1>. QED
    BY <1>1, <1>4, <1>9, <1>12, <1>16 DEF ObjectsKept, grown, new

LEMMA TableIsGrown ==
  ASSUME NEW T, Table(T), NEW size \in Registers
  PROVE  Grown(T, T, size)
  <1>1. T.count \in Nat
    BY DEF Table
  <1>2. \A i \in Types(T) : ~(i > T.count)
    BY <1>1 DEF Types
  <1>3. Len(T.heap) >= Len(T.heap) /\ T.count >= T.count
    BY DEF Table
  <1>. QED
    BY <1>1, <1>2, <1>3 DEF Grown

(* The name of a pointer is a name of a type.                              *)
LEMMA PointerHasName ==
  ASSUME NEW T, Table(T), NEW i \in Types(T)
  PROVE  PointerName(T, i) \in TypeNames
  <1>1. Entry(T, i).name \in TypeNames
    BY SlotsInHeap DEF Object
  <1>2. <<"*">> \in TypeNames
    BY DEF TypeNames, Words
  <1>. QED
    BY <1>1, <1>2 DEF PointerName, TypeNames

(* AddType, whether the name is known or not.                              *)
LEMMA TypeIsFoundOrAdded ==
  ASSUME NEW T, Table(T), NEW name \in TypeNames, NEW size \in Registers,
         NEW U, U = AddType(T, name, size)
  PROVE  /\ Grown(T, U, size)
         /\ name \in DOMAIN Dict(U)
         /\ ObjectsKept(T, U)
  <1>1. CASE name \in DOMAIN Dict(T)
    <2>1. U = T
      BY <1>1 DEF AddType
    <2>2. Grown(T, T, size)
      BY TableIsGrown
    <2>. QED
      BY <1>1, <2>1, <2>2 DEF ObjectsKept
  <1>2. CASE name \notin DOMAIN Dict(T)
    BY <1>2, TypeIsAdded
  <1>. QED
    BY <1>1, <1>2

(* A pointer to an entry is found, or added and kept with the entry.       *)
LEMMA PointerIsFoundOrAdded ==
  ASSUME NEW T, Table(T), NEW i \in Types(T), NEW size \in Registers,
         NEW U, U = GetPointerTo(T, i, size)
  PROVE  Grown(T, U, size)
  <1>1. CASE Entry(T, i).pointer # Invalid
    <2>1. U = T
      BY <1>1 DEF GetPointerTo
    <2>. QED
      BY <2>1, TableIsGrown
  <1>2. CASE Entry(T, i).pointer = Invalid
    <2>. DEFINE V == AddType(T, PointerName(T, i), size)
                n == PointerName(T, i)
                p == Dict(V)[n]
                o == V.slots[i]
    <2>1. U = [V EXCEPT !.heap[o].pointer = p]
      BY <1>2 DEF GetPointerTo
    <2>2. n \in TypeNames
      BY PointerHasName
    <2>3. V = AddType(T, n, size)
      OBVIOUS
    <2>. HIDE DEF V
    <2>4. /\ Grown(T, V, size)
          /\ n \in DOMAIN Dict(V)
          /\ ObjectsKept(T, V)
      <3>. HIDE DEF n
      <3>. QED
        BY <2>2, <2>3, TypeIsFoundOrAdded
    <2>5. Table(V)
      BY <2>4 DEF Grown
    <2>6. o = T.slots[i] /\ o \in 1 .. Len(T.heap) /\ i \in Types(V) /\ o \in 1 .. Len(V.heap)
      <3>1. o = T.slots[i] /\ T.slots[i] \in 1 .. Len(T.heap)
        BY <2>4, SlotsInHeap DEF Grown
      <3>2. T.count \in Nat /\ V.count \in Nat /\ V.count >= T.count
        BY <2>4, <2>5 DEF Grown, Table
      <3>3. i \in Types(V)
        BY <3>2 DEF Types
      <3>. QED
        BY <2>5, <3>1, <3>3, SlotsInHeap
    <2>7. p \in Nat
      <3>1. Dict(V) \in Dictionaries
        BY <2>5, SlotsInHeap
      <3>2. PICK N \in SUBSET TypeNames : Dict(V) \in [N -> Nat]
        BY <3>1 DEF Dictionaries
      <3>. QED
        BY <2>4, <3>2
    <2>8. /\ V \in [heap : Seq(Object), slots : Seq(Nat), count : Nat, dicts : Seq(Dictionaries),
                    map : Nat]
      BY <2>5 DEF Table
    <2>. HIDE DEF o, p
    <2>9. /\ U.slots = V.slots /\ U.count = V.count /\ U.dicts = V.dicts /\ U.map = V.map
          /\ U.heap = [V.heap EXCEPT ![o].pointer = p]
          /\ U = [heap |-> U.heap, slots |-> V.slots, count |-> V.count, dicts |-> V.dicts,
                  map |-> V.map]
      <3>. DEFINE f == [V.heap EXCEPT ![o] = [V.heap[o] EXCEPT !.pointer = p]]
      <3>1. U = [V EXCEPT !.heap = f]
        BY <2>1
      <3>2. f = [V.heap EXCEPT ![o].pointer = p]
        OBVIOUS
      <3>. HIDE DEF f
      <3>3. U.slots = V.slots /\ U.count = V.count /\ U.dicts = V.dicts /\ U.map = V.map
            /\ U.heap = f
        BY <2>8, <3>1
      <3>4. U = [heap |-> f, slots |-> V.slots, count |-> V.count, dicts |-> V.dicts,
                 map |-> V.map]
        BY <2>8, <3>1
      <3>. QED
        BY <3>2, <3>3, <3>4
    <2>10. V.heap \in Seq(Object) /\ V.heap[o] \in Object
      BY <2>6, <2>8
    <2>11. [V.heap[o] EXCEPT !.pointer = p] \in Object
      BY <2>7, <2>10 DEF Object
    <2>. DEFINE h == V.heap
                g == [h EXCEPT ![o] = [h[o] EXCEPT !.pointer = p]]
    <2>12. h \in Seq(Object) /\ o \in 1 .. Len(h) /\ [h[o] EXCEPT !.pointer = p] \in Object
           /\ U.heap = g
      BY <2>6, <2>9, <2>10, <2>11
    <2>. HIDE DEF h
    <2>13. /\ g \in Seq(Object) /\ Len(g) = Len(h)
           /\ \A x \in 1 .. Len(h) : x # o => g[x] = h[x]
           /\ g[o] = [h[o] EXCEPT !.pointer = p]
      BY <2>12
    <2>. HIDE DEF g
    <2>14. g[o].name = h[o].name /\ g[o].size = h[o].size /\ g[o].pointer = p
      <3>1. h[o] \in Object
        BY <2>10 DEF h
      <3>. QED
        BY <2>13, <3>1 DEF Object
    <2>15. \A x \in 1 .. Len(h) : g[x].name = h[x].name /\ g[x].size = h[x].size
      BY <2>13, <2>14
    <2>16. Table(U)
      <3>1. U \in [heap : Seq(Object), slots : Seq(Nat), count : Nat, dicts : Seq(Dictionaries),
                   map : Nat]
        BY <2>8, <2>9, <2>12, <2>13
      <3>2. Len(U.heap) = Len(V.heap)
        BY <2>12, <2>13 DEF h
      <3>. QED
        BY <2>5, <2>9, <3>1, <3>2 DEF Table
    <2>17. Types(U) = Types(V) /\ Dict(U) = Dict(V)
      BY <2>9 DEF Types, Dict
    <2>18. \A j \in Types(V) : Entry(U, j).name = Entry(V, j).name
                               /\ Entry(U, j).size = Entry(V, j).size
                               /\ (V.slots[j] # o => Entry(U, j) = Entry(V, j))
                               /\ (V.slots[j] = o => Entry(U, j).pointer = p)
      <3>1. \A j \in Types(V) : V.slots[j] \in 1 .. Len(h)
        BY <2>5, SlotsInHeap DEF h
      <3>. QED
        BY <2>9, <2>12, <2>13, <2>14, <2>15, <3>1 DEF Entry, h
    <2>19. NamesFound(V) => NamesFound(U)
      BY <2>17, <2>18 DEF NamesFound
    <2>20. Entry(V, i).name = Entry(T, i).name
      BY <2>4, <2>6 DEF ObjectsKept, Entry, o
    <2>21. Found(V) => PointersFound(U)
      <3>. SUFFICES ASSUME Found(V), NEW j \in Types(V), Entry(U, j).pointer # Invalid
                    PROVE  /\ Entry(U, j).pointer \in Types(V)
                           /\ Entry(U, Entry(U, j).pointer).name = PointerName(U, j)
        BY <2>17 DEF PointersFound
      <3>1. CASE V.slots[j] = o
        <4>1. Entry(U, j).pointer = p
          BY <2>18, <3>1
        <4>2. p \in Types(V) /\ Entry(V, p).name = n
          BY <2>4 DEF Found, NamesFound, p
        <4>3. Entry(V, j).name = Entry(V, i).name
          BY <3>1 DEF Entry, o
        <4>4. Entry(U, j).name = Entry(T, i).name
          BY <2>18, <2>20, <4>3
        <4>. QED
          BY <2>18, <4>1, <4>2, <4>4 DEF PointerName
      <3>2. CASE V.slots[j] # o
        <4>1. Entry(U, j) = Entry(V, j)
          BY <2>18, <3>2
        <4>2. /\ Entry(V, j).pointer \in Types(V)
              /\ Entry(V, Entry(V, j).pointer).name = PointerName(V, j)
          BY <4>1 DEF Found, PointersFound
        <4>. QED
          BY <2>18, <4>1, <4>2 DEF PointerName
      <3>. QED
        BY <3>1, <3>2
    <2>22. Found(T) => Found(U)
      BY <2>4, <2>19, <2>21 DEF Grown, Found
    <2>23. \A x \in 1 .. Len(T.heap) : x \in 1 .. Len(h)
      BY <2>4, <2>5 DEF Grown, Table, h
    <2>24. \A x \in 1 .. Len(T.heap) :
              U.heap[x].name = T.heap[x].name /\ U.heap[x].size = T.heap[x].size
      BY <2>4, <2>12, <2>15, <2>23 DEF ObjectsKept, h
    <2>25. \A x \in 1 .. Len(T.heap) :
              (\A k \in Types(T) : T.slots[k] # x) => U.heap[x] = T.heap[x]
      BY <2>4, <2>6, <2>12, <2>13, <2>23 DEF ObjectsKept, h
    <2>26. Len(U.heap) = Len(V.heap)
      BY <2>12, <2>13 DEF h
    <2>27. \A x \in Types(U) : x > T.count => U.slots[x] > Len(T.heap) /\ Entry(U, x).size = size
      BY <2>4, <2>9, <2>17, <2>18 DEF Grown
    <2>28. \A x \in Types(T) : U.slots[x] = T.slots[x]
      BY <2>4, <2>9 DEF Grown
    <2>. QED
      BY <2>4, <2>9, <2>16, <2>22, <2>24, <2>25, <2>26, <2>27, <2>28 DEF Grown
  <1>. QED
    BY <1>1, <1>2

LEMMA GrownNamesLast ==
  ASSUME NEW T, NEW U, NEW size, Table(T), Grown(T, U, size)
  PROVE  NamesLast(T, U)
  BY SMTT(60) DEF Grown, NamesLast, Table

(* The size and the pointer of the basic type are forgotten.               *)
LEMMA BasicIsReset ==
  ASSUME NEW T, Table(T), NEW R, R = ResetBasic(T)
  PROVE  /\ Table(R)
         /\ R.slots = T.slots /\ R.count = T.count /\ R.dicts = T.dicts /\ R.map = T.map
         /\ Len(R.heap) = Len(T.heap)
         /\ \A o \in 2 .. Len(T.heap) : R.heap[o] = T.heap[o]
         /\ R.heap[1].name = T.heap[1].name
         /\ R.heap[1].size = 0 /\ R.heap[1].pointer = Invalid
  <1>. DEFINE h == T.heap
              g == [o \in DOMAIN h |-> IF o = 1 THEN [h[o] EXCEPT !.size = 0, !.pointer = Invalid]
                                       ELSE h[o]]
  <1>1. T \in [heap : Seq(Object), slots : Seq(Nat), count : Nat, dicts : Seq(Dictionaries),
               map : Nat]
    BY DEF Table
  <1>2. h \in Seq(Object) /\ Len(h) >= 1 /\ T.slots[1] = 1
    BY DEF Table
  <1>3. R = [T EXCEPT !.heap = g]
    <2>1. \A o : (\E i \in 1 .. BasicTypesCount : T.slots[i] = o) <=> o = 1
      BY <1>2 DEF BasicTypesCount
    <2>. DEFINE g0 == [o \in DOMAIN h |->
                          IF \E i \in 1 .. BasicTypesCount : T.slots[i] = o
                          THEN [h[o] EXCEPT !.size = 0, !.pointer = Invalid] ELSE h[o]]
    <2>2. R = [T EXCEPT !.heap = g0]
      BY DEF ResetBasic
    <2>3. g0 = g
      BY <2>1
    <2>. QED
      BY <2>2, <2>3
  <1>. HIDE DEF h, g
  <1>4. /\ R.slots = T.slots /\ R.count = T.count /\ R.dicts = T.dicts /\ R.map = T.map
        /\ R.heap = g
        /\ R = [heap |-> g, slots |-> T.slots, count |-> T.count, dicts |-> T.dicts,
                map |-> T.map]
    BY <1>1, <1>3
  <1>. DEFINE fresh == [h[1] EXCEPT !.size = 0, !.pointer = Invalid]
  <1>5. h[1] \in Object /\ fresh \in Object
        /\ fresh.name = h[1].name /\ fresh.size = 0 /\ fresh.pointer = Invalid
    <2>1. h[1] \in Object
      BY <1>2
    <2>. QED
      BY <2>1 DEF Object, Invalid
  <1>6. /\ g \in [1 .. Len(h) -> Object]
        /\ \A o \in 2 .. Len(h) : g[o] = h[o]
        /\ g[1] = fresh
    <2>1. DOMAIN h = 1 .. Len(h) /\ 1 \in DOMAIN h /\ \A o \in DOMAIN h : h[o] \in Object
      BY <1>2
    <2>2. g = [o \in DOMAIN h |-> IF o = 1 THEN fresh ELSE h[o]]
      BY DEF g
    <2>. HIDE DEF fresh
    <2>. QED
      BY <1>5, <2>1, <2>2
  <1>. HIDE DEF fresh
  <1>7. g \in Seq(Object) /\ Len(g) = Len(h)
    BY <1>2, <1>6
  <1>8. g[1].name = h[1].name /\ g[1].size = 0 /\ g[1].pointer = Invalid
    BY <1>5, <1>6
  <1>9. Table(R)
    <2>1. R \in [heap : Seq(Object), slots : Seq(Nat), count : Nat, dicts : Seq(Dictionaries),
                 map : Nat]
      BY <1>1, <1>4, <1>7
    <2>. QED
      BY <1>4, <1>7, <2>1 DEF Table, h
  <1>. QED
    BY <1>4, <1>6, <1>7, <1>8, <1>9 DEF h

(* SaveTypeTableAndReset leaves a table of its own.                        *)
LEMMA TableIsReset ==
  ASSUME NEW T, Table(T), NEW size \in Registers, NEW U, U = Reset(T, size)
  PROVE  /\ Table(U) /\ Found(U) /\ NamesLast(T, U)
         /\ U.count = NULLType
         /\ Entry(U, NULLType).name = <<"?*">>
         /\ Entry(U, 1).size = 0 /\ Entry(U, NULLType).size = size
         /\ U.slots[NULLType] > Len(T.heap)
         /\ U.map = Len(T.dicts) + 1
         /\ \A d \in 1 .. Len(T.dicts) : U.dicts[d] = T.dicts[d]
         /\ \A o \in 2 .. Len(T.heap) : U.heap[o] = T.heap[o]
  <1>. DEFINE R == ResetBasic(T)
              Q == [R EXCEPT !.count = BasicTypesCount, !.dicts = Append(@, << >>),
                             !.map = Len(T.dicts) + 1]
              empty == << >>
  <1>1. /\ Table(R)
        /\ R.slots = T.slots /\ R.count = T.count /\ R.dicts = T.dicts /\ R.map = T.map
        /\ Len(R.heap) = Len(T.heap)
        /\ \A o \in 2 .. Len(T.heap) : R.heap[o] = T.heap[o]
        /\ R.heap[1].name = T.heap[1].name
        /\ R.heap[1].size = 0 /\ R.heap[1].pointer = Invalid
    BY BasicIsReset
  <1>2. U = AddType(Q, <<"?*">>, size)
    BY DEF Reset
  <1>. HIDE DEF R
  <1>3. R \in [heap : Seq(Object), slots : Seq(Nat), count : Nat, dicts : Seq(Dictionaries),
               map : Nat]
    BY <1>1 DEF Table
  <1>4. /\ Q.heap = R.heap /\ Q.slots = R.slots /\ Q.count = 1
        /\ Q.dicts = Append(R.dicts, empty) /\ Q.map = Len(T.dicts) + 1
        /\ Q = [heap |-> R.heap, slots |-> R.slots, count |-> 1,
                dicts |-> Append(R.dicts, empty), map |-> Len(T.dicts) + 1]
    <2>. DEFINE f == Append(R.dicts, empty)
                k == Len(T.dicts) + 1
    <2>1. Q = [R EXCEPT !.count = 1, !.dicts = f, !.map = k]
      BY DEF BasicTypesCount
    <2>. HIDE DEF f, k, Q
    <2>2. Q.heap = R.heap /\ Q.slots = R.slots /\ Q.count = 1 /\ Q.dicts = f /\ Q.map = k
      BY <1>3, <2>1
    <2>3. Q = [heap |-> R.heap, slots |-> R.slots, count |-> 1, dicts |-> f, map |-> k]
      BY <1>3, <2>1
    <2>. QED
      BY <2>2, <2>3 DEF f, k
  <1>5. empty \in Dictionaries /\ DOMAIN empty = {}
    <2>1. empty \in [{} -> Nat] /\ {} \in SUBSET TypeNames
      OBVIOUS
    <2>. QED
      BY <2>1 DEF Dictionaries
  <1>. HIDE DEF Q, empty
  <1>6. /\ Append(R.dicts, empty) \in Seq(Dictionaries)
        /\ Len(Append(R.dicts, empty)) = Len(T.dicts) + 1
        /\ Append(R.dicts, empty)[Len(T.dicts) + 1] = empty
        /\ \A d \in 1 .. Len(T.dicts) : Append(R.dicts, empty)[d] = T.dicts[d]
    <2>. DEFINE ds == T.dicts
    <2>1. ds \in Seq(Dictionaries) /\ R.dicts = ds
      BY <1>1, <1>3
    <2>. HIDE DEF ds
    <2>2. /\ Append(ds, empty) \in Seq(Dictionaries)
          /\ Len(Append(ds, empty)) = Len(ds) + 1
          /\ Append(ds, empty)[Len(ds) + 1] = empty
          /\ \A d \in 1 .. Len(ds) : Append(ds, empty)[d] = ds[d]
      BY <1>5, <2>1
    <2>. QED
      BY <2>1, <2>2 DEF ds
  <1>7. Table(Q)
    <2>1. Len(T.dicts) \in Nat
      BY DEF Table
    <2>2. Q \in [heap : Seq(Object), slots : Seq(Nat), count : Nat, dicts : Seq(Dictionaries),
                 map : Nat]
      BY <1>3, <1>4, <1>6, <2>1
    <2>3. Q.map \in 1 .. Len(Q.dicts)
      BY <1>4, <1>6, <2>1
    <2>4. 1 <= Len(R.slots)
      BY <1>1 DEF Table
    <2>. QED
      BY <1>1, <1>4, <2>2, <2>3, <2>4 DEF Table
  <1>8. Dict(Q) = empty /\ Types(Q) = {1} /\ Entry(Q, 1) = R.heap[1]
    BY <1>1, <1>4, <1>6 DEF Dict, Types, Entry, Table
  <1>9. Found(Q)
    BY <1>1, <1>5, <1>8 DEF Found, NamesFound, PointersFound
  <1>10. <<"?*">> \in TypeNames
    BY DEF TypeNames, Words
  <1>11. <<"?*">> \notin DOMAIN Dict(Q)
    BY <1>5, <1>8
  <1>12. /\ Grown(Q, U, size)
         /\ U.count = Q.count + 1
         /\ Len(U.heap) = Len(Q.heap) + 1
         /\ Entry(U, U.count) = [name |-> <<"?*">>, size |-> size, pointer |-> Invalid]
         /\ ObjectsKept(Q, U)
    <2>. DEFINE name == <<"?*">>
    <2>1. U = AddType(Q, name, size) /\ name \in TypeNames /\ name \notin DOMAIN Dict(Q)
      BY <1>2, <1>10, <1>11
    <2>. HIDE DEF name
    <2>2. /\ Grown(Q, U, size)
          /\ U.count = Q.count + 1
          /\ Len(U.heap) = Len(Q.heap) + 1
          /\ Entry(U, U.count) = [name |-> name, size |-> size, pointer |-> Invalid]
          /\ ObjectsKept(Q, U)
      BY <1>7, <2>1, TypeIsAdded
    <2>. QED
      BY <2>2 DEF name
  <1>13. U.count = NULLType /\ NULLType \in Types(U) /\ NULLType > Q.count
    BY <1>4, <1>12 DEF NULLType, BasicTypesCount, Types
  <1>14. Table(U) /\ Found(U) /\ U.slots[NULLType] > Len(T.heap)
         /\ U.map = Q.map /\ Len(U.dicts) = Len(Q.dicts)
         /\ \A d \in 1 .. Len(Q.dicts) : d # Q.map => U.dicts[d] = Q.dicts[d]
    BY <1>1, <1>4, <1>9, <1>12, <1>13 DEF Grown
  <1>15. Entry(U, 1) = R.heap[1]
    <2>1. U.slots[1] = 1 /\ 1 \in 1 .. Len(Q.heap)
      BY <1>7, <1>14 DEF Table
    <2>. QED
      BY <1>4, <1>12, <2>1 DEF Entry, ObjectsKept
  <1>16. \A d \in 1 .. Len(T.dicts) : U.dicts[d] = T.dicts[d]
    <2>1. Len(T.dicts) \in Nat
      BY DEF Table
    <2>. QED
      BY SMTT(60), <1>4, <1>6, <1>14, <2>1
  <1>17. \A o \in 1 .. Len(T.heap) : U.heap[o] = R.heap[o]
    BY <1>1, <1>4, <1>12 DEF ObjectsKept
  <1>18. Len(T.heap) \in Nat /\ Len(T.dicts) \in Nat /\ T.heap \in Seq(Object)
    BY DEF Table
  <1>19. NamesLast(T, U)
    <2>1. Len(U.heap) >= Len(T.heap) /\ Len(U.dicts) >= Len(T.dicts)
      BY <1>1, <1>4, <1>6, <1>12, <1>14, <1>18
    <2>2. \A o \in 1 .. Len(T.heap) :
              R.heap[o].name = T.heap[o].name /\ R.heap[o].size \in {0, T.heap[o].size}
      BY <1>1, <1>18
    <2>. QED
      BY <1>17, <2>1, <2>2 DEF NamesLast
  <1>. QED
    BY <1>1, <1>4, <1>12, <1>13, <1>14, <1>15, <1>16, <1>17, <1>19

LEMMA TableIsSaved ==
  ASSUME NEW T, Table(T), NEW S, S = Saved(T)
  PROVE  /\ SavedIn(T, S)
         /\ S.dictionary = T.map
         /\ Len(S.pointers) = T.count - 1
         /\ \A i \in 1 .. Len(S.pointers) : S.pointers[i] = T.slots[i + 1]
  <1>. DEFINE s == T.slots
              n == T.count
  <1>1. s \in Seq(Nat) /\ n \in Nat /\ n >= 1 /\ n <= Len(s) /\ T.map \in 1 .. Len(T.dicts)
        /\ \A i \in 2 .. Len(s) : s[i] \in 2 .. Len(T.heap)
    BY DEF Table
  <1>2. S = [pointers |-> SubSeq(s, 2, n), dictionary |-> T.map]
    BY DEF Saved, BasicTypesCount
  <1>3. T.map \in Nat
    BY DEF Table
  <1>. HIDE DEF s, n
  <1>4. /\ SubSeq(s, 2, n) \in Seq(Nat) /\ Len(SubSeq(s, 2, n)) = n - 1
        /\ \A i \in 1 .. n - 1 : SubSeq(s, 2, n)[i] = s[i + 1]
    BY <1>1
  <1>5. \A i \in 1 .. n - 1 : i + 1 \in 2 .. Len(s)
    BY <1>1
  <1>. QED
    BY SMTT(60), <1>1, <1>2, <1>3, <1>4, <1>5 DEF SavedIn, s, n

(* RestoreTypeTable puts the saved objects and the saved dictionary back.  *)
LEMMA TableIsRestored ==
  ASSUME NEW T, Table(T), NEW S, SavedIn(T, S), NEW U, U = Restore(T, S)
  PROVE  /\ Table(U) /\ NamesLast(T, U)
         /\ U.count = 1 + Len(S.pointers)
         /\ \A i \in 2 .. U.count : U.slots[i] = S.pointers[i - 1]
         /\ U.map = S.dictionary
         /\ U.dicts = T.dicts
         /\ Len(U.heap) = Len(T.heap)
         /\ \A o \in 2 .. Len(T.heap) : U.heap[o] = T.heap[o]
         /\ Entry(U, 1).name = T.heap[1].name
         /\ Entry(U, 1).size = 0 /\ Entry(U, 1).pointer = Invalid
  <1>. DEFINE R == ResetBasic(T)
              q == S.pointers
              top == 1 + Len(q)
              f == [i \in DOMAIN R.slots \cup 1 .. top |->
                        IF i \in 2 .. top THEN q[i - 1] ELSE R.slots[i]]
  <1>1. /\ Table(R)
        /\ R.slots = T.slots /\ R.count = T.count /\ R.dicts = T.dicts /\ R.map = T.map
        /\ Len(R.heap) = Len(T.heap)
        /\ \A o \in 2 .. Len(T.heap) : R.heap[o] = T.heap[o]
        /\ R.heap[1].name = T.heap[1].name
        /\ R.heap[1].size = 0 /\ R.heap[1].pointer = Invalid
    BY BasicIsReset
  <1>2. U = [R EXCEPT !.slots = f, !.count = top, !.map = S.dictionary]
    BY DEF Restore, BasicTypesCount
  <1>. HIDE DEF R, f
  <1>3. R \in [heap : Seq(Object), slots : Seq(Nat), count : Nat, dicts : Seq(Dictionaries),
               map : Nat]
    BY <1>1 DEF Table
  <1>4. /\ U.heap = R.heap /\ U.slots = f /\ U.count = top /\ U.dicts = R.dicts
        /\ U.map = S.dictionary
        /\ U = [heap |-> R.heap, slots |-> f, count |-> top, dicts |-> R.dicts,
                map |-> S.dictionary]
    BY <1>2, <1>3
  <1>5. q \in Seq(Nat) /\ top \in Nat /\ top >= 1 /\ S.dictionary \in Nat
        /\ S.dictionary \in 1 .. Len(T.dicts)
        /\ \A i \in 1 .. Len(q) : q[i] \in 2 .. Len(T.heap)
    BY DEF SavedIn
  <1>6. R.slots \in Seq(Nat) /\ Len(R.slots) >= 1 /\ R.slots[1] = 1
        /\ \A i \in 2 .. Len(R.slots) : R.slots[i] \in 2 .. Len(T.heap)
    BY <1>1 DEF Table
  <1>7. /\ \A i \in 2 .. top : f[i] = q[i - 1] /\ q[i - 1] \in 2 .. Len(T.heap)
        /\ f[1] = 1
        /\ \A i \in DOMAIN f : i \notin 2 .. top => f[i] = R.slots[i] /\ i \in 1 .. Len(R.slots)
    <2>1. DOMAIN R.slots = 1 .. Len(R.slots)
      BY <1>6
    <2>2. \A i \in 2 .. top : i - 1 \in 1 .. Len(q) /\ i \in 1 .. top
      BY <1>5
    <2>3. \A i \in 2 .. top : f[i] = q[i - 1]
      BY <2>2 DEF f
    <2>4. f[1] = R.slots[1]
      BY <1>5, <1>6, <2>1 DEF f
    <2>5. \A i \in 1 .. top : i \notin 2 .. top => i = 1
      BY <1>5
    <2>6. \A i \in DOMAIN f : i \notin 2 .. top => f[i] = R.slots[i] /\ i \in 1 .. Len(R.slots)
      BY <1>6, <2>1, <2>5 DEF f
    <2>. QED
      BY <1>5, <1>6, <2>2, <2>3, <2>4, <2>6
  <1>8. \E m \in Nat : DOMAIN f = 1 .. m /\ m >= top
    <2>1. DOMAIN f = 1 .. Len(R.slots) \cup 1 .. top
      BY <1>6 DEF f
    <2>2. Len(R.slots) \in Nat
      BY <1>6
    <2>. DEFINE n == Len(R.slots)
    <2>3. n \in Nat /\ top \in Nat /\ DOMAIN f = 1 .. n \cup 1 .. top
      BY <1>5, <2>1, <2>2
    <2>. HIDE DEF n, top
    <2>4. CASE n >= top
      <3>1. 1 .. n \cup 1 .. top = 1 .. n
        BY <2>3, <2>4
      <3>. QED
        BY <2>3, <2>4, <3>1
    <2>5. CASE n < top
      <3>1. 1 .. n \cup 1 .. top = 1 .. top
        BY <2>3, <2>5
      <3>2. top >= top
        BY <2>3
      <3>. QED
        BY <2>3, <3>1, <3>2
    <2>. QED
      BY <2>3, <2>4, <2>5
  <1>9. PICK m \in Nat : DOMAIN f = 1 .. m /\ m >= top
    BY <1>8
  <1>10. \A i \in DOMAIN f : f[i] \in Nat /\ (i >= 2 => f[i] \in 2 .. Len(T.heap))
    <2>1. Len(T.heap) \in Nat
      BY DEF Table
    <2>. SUFFICES ASSUME NEW i \in DOMAIN f
                  PROVE  f[i] \in Nat /\ (i >= 2 => f[i] \in 2 .. Len(T.heap))
      OBVIOUS
    <2>2. CASE i \in 2 .. top
      BY <1>7, <2>1, <2>2
    <2>3. CASE i \notin 2 .. top
      <3>1. f[i] = R.slots[i] /\ i \in 1 .. Len(R.slots)
        BY <1>7, <2>3
      <3>2. i >= 2 => i \in 2 .. Len(R.slots)
        BY <1>6, <3>1
      <3>3. R.slots[i] \in Nat
        BY <1>6, <3>1
      <3>. QED
        BY <1>6, <3>1, <3>2, <3>3
    <2>. QED
      BY <2>2, <2>3
  <1>11. f = [i \in DOMAIN f |-> f[i]]
    BY DEF f
  <1>12. f \in Seq(Nat) /\ Len(f) = m
    <2>1. f \in [1 .. m -> Nat]
      BY <1>9, <1>10, <1>11
    <2>. QED
      BY <1>9, <2>1
  <1>13. Table(U)
    <2>1. U \in [heap : Seq(Object), slots : Seq(Nat), count : Nat, dicts : Seq(Dictionaries),
                 map : Nat]
      BY <1>3, <1>4, <1>5, <1>12
    <2>2. \A i \in 2 .. Len(U.slots) : U.slots[i] \in 2 .. Len(U.heap)
      <3>. SUFFICES ASSUME NEW i \in 2 .. m
                    PROVE  f[i] \in 2 .. Len(T.heap)
        BY <1>1, <1>4, <1>12
      <3>1. i \in DOMAIN f /\ i >= 2
        BY <1>9
      <3>. QED
        BY <1>10, <3>1
    <2>3. U.count >= 1 /\ U.count <= Len(U.slots) /\ U.slots[1] = 1
      BY <1>4, <1>5, <1>7, <1>9, <1>12
    <2>4. U.map \in 1 .. Len(U.dicts)
      BY <1>1, <1>4, <1>5
    <2>5. Len(U.heap) >= 1
      BY <1>1, <1>4 DEF Table
    <2>. QED
      BY <2>1, <2>2, <2>3, <2>4, <2>5 DEF Table
  <1>14. Entry(U, 1) = R.heap[1]
    BY <1>4, <1>7 DEF Entry
  <1>15. NamesLast(T, U)
    <2>1. T.heap \in Seq(Object) /\ Len(T.dicts) \in Nat
      BY DEF Table
    <2>2. \A o \in 1 .. Len(T.heap) :
              R.heap[o].name = T.heap[o].name /\ R.heap[o].size \in {0, T.heap[o].size}
      BY <1>1, <2>1
    <2>. QED
      BY <1>1, <1>4, <2>1, <2>2 DEF NamesLast
  <1>16. \A i \in 2 .. U.count : U.slots[i] = S.pointers[i - 1]
    BY <1>4, <1>7
  <1>. QED
    BY <1>1, <1>4, <1>13, <1>14, <1>15, <1>16

(* TypeTableInvalidateSizeCaches forgets the sizes and nothing else.       *)
LEMMA SizesAreInvalidated ==
  ASSUME NEW T, Table(T), NEW U, U = Invalidate(T)
  PROVE  /\ Table(U) /\ NamesLast(T, U)
         /\ U.slots = T.slots /\ U.count = T.count /\ U.dicts = T.dicts /\ U.map = T.map
         /\ Len(U.heap) = Len(T.heap)
         /\ \A i \in Types(T) : Entry(U, i).size = 0
         /\ Found(T) => Found(U)
  <1>. DEFINE h == T.heap
              used(o) == \E i \in Types(T) : T.slots[i] = o
              g == [o \in DOMAIN h |-> IF used(o) THEN [h[o] EXCEPT !.size = 0] ELSE h[o]]
  <1>1. T \in [heap : Seq(Object), slots : Seq(Nat), count : Nat, dicts : Seq(Dictionaries),
               map : Nat]
    BY DEF Table
  <1>2. h \in Seq(Object) /\ DOMAIN h = 1 .. Len(h) /\ \A o \in DOMAIN h : h[o] \in Object
    BY DEF Table
  <1>3. U = [T EXCEPT !.heap = g]
    BY DEF Invalidate
  <1>4. \A i \in Types(T) : T.slots[i] \in DOMAIN h
    BY <1>2, SlotsInHeap
  <1>5. /\ DOMAIN g = DOMAIN h
        /\ \A o \in DOMAIN h : g[o] = IF used(o) THEN [h[o] EXCEPT !.size = 0] ELSE h[o]
    OBVIOUS
  <1>6. \A i \in Types(T) : used(T.slots[i])
    OBVIOUS
  <1>. HIDE DEF h, g, used
  <1>7. /\ U.slots = T.slots /\ U.count = T.count /\ U.dicts = T.dicts /\ U.map = T.map
        /\ U.heap = g
        /\ U = [heap |-> g, slots |-> T.slots, count |-> T.count, dicts |-> T.dicts,
                map |-> T.map]
    BY <1>1, <1>3
  <1>8. \A o \in DOMAIN h : /\ g[o] \in Object
                            /\ g[o].name = h[o].name /\ g[o].pointer = h[o].pointer
                            /\ g[o].size \in {0, h[o].size}
                            /\ (used(o) => g[o].size = 0)
    <2>. SUFFICES ASSUME NEW o \in DOMAIN h
                  PROVE  /\ g[o] \in Object
                         /\ g[o].name = h[o].name /\ g[o].pointer = h[o].pointer
                         /\ g[o].size \in {0, h[o].size}
                         /\ (used(o) => g[o].size = 0)
      OBVIOUS
    <2>1. h[o] \in Object
      BY <1>2
    <2>2. CASE used(o)
      <3>1. g[o] = [h[o] EXCEPT !.size = 0]
        BY <1>5, <2>2
      <3>. QED
        BY <2>1, <3>1 DEF Object
    <2>3. CASE ~used(o)
      <3>1. g[o] = h[o]
        BY <1>5, <2>3
      <3>. QED
        BY <2>1, <2>3, <3>1
    <2>. QED
      BY <2>2, <2>3
  <1>9. g \in Seq(Object) /\ Len(g) = Len(h)
    <2>1. g = [o \in DOMAIN g |-> g[o]]
      BY DEF g
    <2>2. g \in [1 .. Len(h) -> Object] /\ Len(h) \in Nat
      BY <1>2, <1>5, <1>8, <2>1
    <2>. DEFINE n == Len(h)
    <2>3. g \in [1 .. n -> Object] /\ n \in Nat
      BY <2>2
    <2>. HIDE DEF n
    <2>4. g \in Seq(Object) /\ Len(g) = n
      BY <2>3
    <2>. QED
      BY <2>4 DEF n
  <1>10. Table(U)
    <2>1. U \in [heap : Seq(Object), slots : Seq(Nat), count : Nat, dicts : Seq(Dictionaries),
                 map : Nat]
      BY <1>1, <1>7, <1>9
    <2>. QED
      BY <1>7, <1>9, <2>1 DEF Table, h
  <1>11. \A i \in Types(T) : /\ Entry(U, i).name = Entry(T, i).name
                             /\ Entry(U, i).pointer = Entry(T, i).pointer
                             /\ Entry(U, i).size = 0
    BY <1>4, <1>6, <1>7, <1>8 DEF Entry, h
  <1>12. Types(U) = Types(T) /\ Dict(U) = Dict(T)
    BY <1>7 DEF Types, Dict
  <1>13. NamesFound(T) => NamesFound(U)
    BY <1>11, <1>12 DEF NamesFound
  <1>14. PointersFound(T) => PointersFound(U)
    BY SMTT(60), <1>11, <1>12 DEF PointersFound, PointerName
  <1>15. NamesLast(T, U)
    <2>1. Len(T.heap) \in Nat /\ Len(T.dicts) \in Nat
      BY DEF Table
    <2>. QED
      BY <1>2, <1>7, <1>8, <1>9, <2>1 DEF NamesLast, h
  <1>. QED
    BY <1>7, <1>9, <1>10, <1>11, <1>13, <1>14, <1>15 DEF Found, h

-----------------------------------------------------------------------------
(* The IR's index of a type is its place in the table, NULLType's too.     *)
CurrentHas(T, ir) ==
    \E n \in NULLType .. T.count :
        /\ DOMAIN ir = 1 .. n
        /\ \A i \in 1 .. n : Entry(T, i).name = ir[i]
        /\ ir[NULLType] = <<"?*">>

SavedHas(T, S, ir) ==
    /\ SavedIn(T, S)
    /\ \E n \in NULLType .. 1 + Len(S.pointers) :
        /\ DOMAIN ir = 1 .. n
        /\ ir[1] = T.heap[1].name
        /\ \A i \in 2 .. n : T.heap[S.pointers[i - 1]].name = ir[i]
        /\ ir[NULLType] = <<"?*">>

(* Found of the table that S would restore.                                *)
SavedName(T, S, i) == IF i = 1 THEN T.heap[1].name ELSE T.heap[S.pointers[i - 1]].name
SavedFound(T, S) ==
    /\ \A n \in DOMAIN T.dicts[S.dictionary] :
        /\ T.dicts[S.dictionary][n] \in 1 .. 1 + Len(S.pointers)
        /\ SavedName(T, S, T.dicts[S.dictionary][n]) = n
    /\ \A k \in 1 .. Len(S.pointers) :
        LET p == T.heap[S.pointers[k]].pointer IN
        p # Invalid => /\ p \in 1 .. 1 + Len(S.pointers)
                       /\ SavedName(T, S, p) = <<"*">> \o T.heap[S.pointers[k]].name

(* Nothing but the basic type in common.                                   *)
Apart(T, S) ==
    /\ T.map # S.dictionary
    /\ \A i \in 2 .. T.count : \A k \in 1 .. Len(S.pointers) : T.slots[i] # S.pointers[k]
SavedApart(S, R) ==
    /\ S.dictionary # R.dictionary
    /\ \A i \in 1 .. Len(S.pointers) : \A k \in 1 .. Len(R.pointers) :
        S.pointers[i] # R.pointers[k]

SavedSizes(T, S, size) ==
    \A k \in 1 .. Len(S.pointers) : T.heap[S.pointers[k]].size \in {0, size}
CurrentSizes(T, size) == \A i \in Types(T) : Entry(T, i).size \in {0, size}

(* The inductive invariant.                                                *)
Labels == {"compile", "target", "configured", "pipeline", "swap", "inspect", "compiled",
           "comptime", "output", "generate", "link", "after", "clean", "done", "exit"}
WellTyped ==
    /\ pc \in Labels
    /\ RegisterBitSize \in Registers
    /\ SaveRegisterBitSize \in Registers
    /\ Table(tt)

\* The register size that target k is compiled at: no target sets it back to 64.
BitsAt(k) == IF \E j \in 1 .. k : ArchOf(j) \in Arches32 THEN 32 ELSE 64

\* RegisterBitSize is the host's or the one of the target, which is kept aside
\* while the host's is in use.
RegistersFit ==
    /\ target \in Nat \ {0}
    /\ pc = "compile" => target = 1
    /\ pc \in ForHost \cup {"swap", "compiled"} => RegisterBitSize = HostBits
    /\ pc = "target" => RegisterBitSize = BitsAt(target - 1)
    /\ pc \in {"configured", "pipeline", "output", "generate"} =>
        RegisterBitSize = BitsAt(target)
    /\ pc \in {"swap", "inspect", "compiled", "comptime", "output", "generate", "link", "after",
               "clean"} =>
        SaveRegisterBitSize = BitsAt(target)

BuildBegun == pc = "compile" => tt.count >= NULLType /\ Entry(tt, NULLType).name = <<"?*">>
BuildAside ==
    pc \notin {"compile", "exit"} =>
        SavedHas(tt, BuildTable, buildIR) /\ SavedSizes(tt, BuildTable, HostBits)
BuildHere == pc \in OfBuild => CurrentHas(tt, buildIR)

TargetCompiled == {"swap", "compiled", "comptime", "output", "generate"}
TargetHere ==
    pc \in {"pipeline"} \cup TargetCompiled =>
        /\ tt.count >= NULLType /\ Entry(tt, NULLType).name = <<"?*">>
        /\ Found(tt)
        /\ Apart(tt, BuildTable)
TargetKept == pc \in TargetCompiled => CurrentHas(tt, targetIR)
TargetAside ==
    pc = "inspect" =>
        /\ SavedHas(tt, CompileTable, targetIR)
        /\ SavedFound(tt, CompileTable)
        /\ Apart(tt, CompileTable)
        /\ SavedApart(CompileTable, BuildTable)

SizesFit == pc \in ForHost \cup ForTarget => CurrentSizes(tt, RegisterBitSize)

IInv ==
    /\ WellTyped /\ RegistersFit
    /\ BuildBegun /\ BuildAside /\ BuildHere
    /\ TargetHere /\ TargetKept /\ TargetAside
    /\ SizesFit

-----------------------------------------------------------------------------
(* How these carry over from one table to the next.                        *)

LEMMA NamesAreHad ==
  ASSUME NEW T, Table(T), T.count >= NULLType, Entry(T, NULLType).name = <<"?*">>
  PROVE  CurrentHas(T, Names(T))
  <1>1. T.count \in Nat /\ NULLType = 2
    BY DEF Table, NULLType, BasicTypesCount
  <1>2. T.count \in NULLType .. T.count /\ NULLType \in 1 .. T.count
    BY <1>1
  <1>. QED
    BY <1>1, <1>2 DEF CurrentHas, Names, Types

LEMMA HadWhenGrown ==
  ASSUME NEW T, NEW U, NEW size, NEW ir, Table(T), Grown(T, U, size), CurrentHas(T, ir)
  PROVE  CurrentHas(U, ir)
  <1>1. T.count \in Nat /\ U.count \in Nat /\ U.count >= T.count /\ NULLType = 2
    BY DEF Grown, Table, NULLType, BasicTypesCount
  <1>2. \A i \in Types(T) : Entry(U, i).name = Entry(T, i).name
    <2>1. \A i \in Types(T) : T.slots[i] \in 1 .. Len(T.heap)
      BY SlotsInHeap
    <2>. QED
      BY <2>1 DEF Grown, Entry
  <1>3. PICK n \in NULLType .. T.count : /\ DOMAIN ir = 1 .. n
                                         /\ \A i \in 1 .. n : Entry(T, i).name = ir[i]
                                         /\ ir[NULLType] = <<"?*">>
    BY DEF CurrentHas
  <1>4. n \in NULLType .. U.count /\ \A i \in 1 .. n : i \in Types(T)
    BY <1>1 DEF Types
  <1>. QED
    BY <1>2, <1>3, <1>4 DEF CurrentHas

LEMMA SavedWhenNamesLast ==
  ASSUME NEW T, NEW U, NEW S, Table(T), Table(U), NamesLast(T, U), SavedIn(T, S)
  PROVE  /\ SavedIn(U, S)
         /\ \A ir : SavedHas(T, S, ir) => SavedHas(U, S, ir)
         /\ \A size : SavedSizes(T, S, size) => SavedSizes(U, S, size)
  <1>1. /\ Len(T.heap) \in Nat /\ Len(U.heap) \in Nat /\ Len(T.heap) >= 1
        /\ Len(T.dicts) \in Nat /\ Len(U.dicts) \in Nat
    BY SMTT(60) DEF Table
  <1>2. Len(S.pointers) \in Nat /\ NULLType = 2
    BY DEF SavedIn, NULLType, BasicTypesCount
  <1>3. SavedIn(U, S)
    BY SMTT(60), <1>1, <1>2 DEF SavedIn, NamesLast
  <1>4. \A k \in 1 .. Len(S.pointers) :
            /\ U.heap[S.pointers[k]].name = T.heap[S.pointers[k]].name
            /\ U.heap[S.pointers[k]].size \in {0, T.heap[S.pointers[k]].size}
    <2>1. \A k \in 1 .. Len(S.pointers) : S.pointers[k] \in 1 .. Len(T.heap)
      BY <1>1 DEF SavedIn
    <2>. QED
      BY <2>1 DEF NamesLast
  <1>5. U.heap[1].name = T.heap[1].name
    BY <1>1 DEF NamesLast
  <1>6. ASSUME NEW ir, SavedHas(T, S, ir)
        PROVE  SavedHas(U, S, ir)
    <2>1. PICK n \in NULLType .. 1 + Len(S.pointers) :
            /\ DOMAIN ir = 1 .. n
            /\ ir[1] = T.heap[1].name
            /\ \A i \in 2 .. n : T.heap[S.pointers[i - 1]].name = ir[i]
            /\ ir[NULLType] = <<"?*">>
      BY <1>6 DEF SavedHas
    <2>2. \A i \in 2 .. n : i - 1 \in 1 .. Len(S.pointers)
      BY <1>2
    <2>3. \A i \in 2 .. n : U.heap[S.pointers[i - 1]].name = ir[i]
      BY <1>4, <2>1, <2>2
    <2>. QED
      BY <1>3, <1>5, <2>1, <2>3 DEF SavedHas
  <1>7. ASSUME NEW size, SavedSizes(T, S, size)
        PROVE  SavedSizes(U, S, size)
    BY <1>4, <1>7 DEF SavedSizes
  <1>. QED
    BY <1>3, <1>6, <1>7

(* Saving keeps what the table had, restoring gives it back.               *)
LEMMA SavedAsHad ==
  ASSUME NEW T, NEW ir, Table(T), CurrentHas(T, ir)
  PROVE  SavedHas(T, Saved(T), ir)
  <1>. DEFINE S == Saved(T)
  <1>1. /\ SavedIn(T, S) /\ Len(S.pointers) = T.count - 1
        /\ \A i \in 1 .. Len(S.pointers) : S.pointers[i] = T.slots[i + 1]
    BY TableIsSaved
  <1>. HIDE DEF S
  <1>2. PICK n \in NULLType .. T.count : /\ DOMAIN ir = 1 .. n
                                         /\ \A i \in 1 .. n : Entry(T, i).name = ir[i]
                                         /\ ir[NULLType] = <<"?*">>
    BY DEF CurrentHas
  <1>3. T.count \in Nat /\ T.slots[1] = 1 /\ NULLType = 2
    BY DEF Table, NULLType, BasicTypesCount
  <1>4. n \in NULLType .. 1 + Len(S.pointers) /\ 1 \in 1 .. n
    BY <1>1, <1>3
  <1>5. ir[1] = T.heap[1].name
    BY <1>2, <1>3, <1>4 DEF Entry
  <1>6. \A i \in 2 .. n : T.heap[S.pointers[i - 1]].name = ir[i]
    <2>. SUFFICES ASSUME NEW i \in 2 .. n
                  PROVE  T.heap[S.pointers[i - 1]].name = ir[i]
      OBVIOUS
    <2>1. i \in 1 .. n /\ i - 1 \in 1 .. Len(S.pointers) /\ (i - 1) + 1 = i
      BY <1>1, <1>3
    <2>2. S.pointers[i - 1] = T.slots[i]
      BY <1>1, <2>1
    <2>. QED
      BY <1>2, <2>1, <2>2 DEF Entry
  <1>. QED
    BY <1>1, <1>2, <1>4, <1>5, <1>6 DEF SavedHas, S

LEMMA HadWhenRestored ==
  ASSUME NEW T, NEW S, NEW ir, Table(T), SavedHas(T, S, ir)
  PROVE  /\ CurrentHas(Restore(T, S), ir)
         /\ Restore(T, S).count >= NULLType
         /\ Entry(Restore(T, S), NULLType).name = <<"?*">>
  <1>. DEFINE U == Restore(T, S)
  <1>1. SavedIn(T, S)
    BY DEF SavedHas
  <1>2. /\ U.count = 1 + Len(S.pointers)
        /\ \A i \in 2 .. U.count : U.slots[i] = S.pointers[i - 1]
        /\ \A o \in 2 .. Len(T.heap) : U.heap[o] = T.heap[o]
        /\ Entry(U, 1).name = T.heap[1].name
    BY <1>1, TableIsRestored
  <1>. HIDE DEF U
  <1>3. PICK n \in NULLType .. 1 + Len(S.pointers) :
            /\ DOMAIN ir = 1 .. n
            /\ ir[1] = T.heap[1].name
            /\ \A i \in 2 .. n : T.heap[S.pointers[i - 1]].name = ir[i]
            /\ ir[NULLType] = <<"?*">>
    BY DEF SavedHas
  <1>4. Len(S.pointers) \in Nat /\ NULLType = 2
    BY <1>1 DEF SavedIn, NULLType, BasicTypesCount
  <1>5. \A i \in 2 .. n : Entry(U, i).name = ir[i]
    <2>. SUFFICES ASSUME NEW i \in 2 .. n
                  PROVE  Entry(U, i).name = ir[i]
      OBVIOUS
    <2>1. i \in 2 .. U.count /\ i - 1 \in 1 .. Len(S.pointers)
      BY <1>2, <1>4
    <2>2. U.slots[i] = S.pointers[i - 1] /\ S.pointers[i - 1] \in 2 .. Len(T.heap)
      BY <1>1, <1>2, <2>1 DEF SavedIn
    <2>. QED
      BY ZenonT(60), <1>2, <1>3, <2>2 DEF Entry
  <1>6. \A i \in 1 .. n : i = 1 \/ i \in 2 .. n
    BY <1>4
  <1>7. \A i \in 1 .. n : Entry(U, i).name = ir[i]
    BY <1>2, <1>3, <1>5, <1>6
  <1>8. n \in NULLType .. U.count /\ U.count >= NULLType /\ NULLType \in 1 .. n
    BY <1>2, <1>4
  <1>. QED
    BY <1>3, <1>7, <1>8 DEF CurrentHas, U

LEMMA SizesWhenRestored ==
  ASSUME NEW T, NEW S, NEW size, Table(T), SavedIn(T, S), SavedSizes(T, S, size)
  PROVE  CurrentSizes(Restore(T, S), size)
  <1>. DEFINE U == Restore(T, S)
  <1>2. /\ U.count = 1 + Len(S.pointers)
        /\ \A i \in 2 .. U.count : U.slots[i] = S.pointers[i - 1]
        /\ \A o \in 2 .. Len(T.heap) : U.heap[o] = T.heap[o]
        /\ Entry(U, 1).size = 0
    BY TableIsRestored
  <1>. HIDE DEF U
  <1>3. Len(S.pointers) \in Nat
    BY DEF SavedIn
  <1>. SUFFICES ASSUME NEW i \in Types(U)
                PROVE  Entry(U, i).size \in {0, size}
    BY DEF CurrentSizes, U
  <1>4. CASE i = 1
    BY <1>2, <1>4
  <1>5. CASE i # 1
    <2>1. i \in 2 .. U.count /\ i - 1 \in 1 .. Len(S.pointers)
      BY <1>2, <1>3, <1>5 DEF Types
    <2>2. U.slots[i] = S.pointers[i - 1] /\ S.pointers[i - 1] \in 2 .. Len(T.heap)
      BY <1>2, <2>1 DEF SavedIn
    <2>. QED
      BY <1>2, <2>1, <2>2 DEF Entry, SavedSizes
  <1>. QED
    BY <1>4, <1>5

LEMMA SizesWhenGrown ==
  ASSUME NEW T, NEW U, NEW size, Table(T), Grown(T, U, size), CurrentSizes(T, size)
  PROVE  CurrentSizes(U, size)
  <1>. SUFFICES ASSUME NEW i \in Types(U)
                PROVE  Entry(U, i).size \in {0, size}
    BY DEF CurrentSizes
  <1>1. T.count \in Nat
    BY DEF Table
  <1>2. CASE i \in Types(T)
    <2>1. T.slots[i] \in 1 .. Len(T.heap)
      BY <1>2, SlotsInHeap
    <2>. QED
      BY SMTT(60), <1>2, <2>1 DEF Grown, CurrentSizes, Entry
  <1>3. CASE i \notin Types(T)
    <2>1. i > T.count
      BY <1>1, <1>3 DEF Types
    <2>. QED
      BY <2>1 DEF Grown
  <1>. QED
    BY <1>2, <1>3

(* Nothing in common, before and after.                                    *)
LEMMA ApartWhenGrown ==
  ASSUME NEW T, NEW U, NEW S, NEW size, Table(T), Grown(T, U, size), SavedIn(T, S),
         Apart(T, S)
  PROVE  Apart(U, S)
  <1>1. T.count \in Nat /\ U.count \in Nat /\ Len(T.heap) \in Nat
    BY DEF Grown, Table
  <1>2. U.map # S.dictionary
    BY DEF Grown, Apart
  <1>3. ASSUME NEW i \in 2 .. U.count, NEW k \in 1 .. Len(S.pointers)
        PROVE  U.slots[i] # S.pointers[k]
    <2>1. CASE i <= T.count
      <3>1. i \in Types(T) /\ i \in 2 .. T.count
        BY <1>1, <2>1 DEF Types
      <3>2. U.slots[i] = T.slots[i]
        BY <3>1 DEF Grown
      <3>. QED
        BY <3>1, <3>2 DEF Apart
    <2>2. CASE i > T.count
      <3>1. i \in Types(U)
        BY <1>1 DEF Types
      <3>2. U.slots[i] > Len(T.heap)
        BY <2>2, <3>1 DEF Grown
      <3>3. S.pointers[k] \in 2 .. Len(T.heap)
        BY DEF SavedIn
      <3>. QED
        BY <1>1, <3>2, <3>3
    <2>. QED
      BY <1>1, <2>1, <2>2
  <1>. QED
    BY <1>2, <1>3 DEF Apart

LEMMA ApartWhenReset ==
  ASSUME NEW T, NEW S, NEW size \in Registers, Table(T), SavedIn(T, S)
  PROVE  Apart(Reset(T, size), S)
  <1>. DEFINE U == Reset(T, size)
  <1>1. U.count = NULLType /\ U.slots[NULLType] > Len(T.heap) /\ U.map = Len(T.dicts) + 1
    BY TableIsReset
  <1>. HIDE DEF U
  <1>2. Len(T.heap) \in Nat /\ Len(T.dicts) \in Nat /\ NULLType = 2
    BY DEF Table, NULLType, BasicTypesCount
  <1>3. S.dictionary \in 1 .. Len(T.dicts)
        /\ \A k \in 1 .. Len(S.pointers) : S.pointers[k] \in 2 .. Len(T.heap)
    BY DEF SavedIn
  <1>4. U.map # S.dictionary
    BY <1>1, <1>2, <1>3
  <1>5. \A i \in 2 .. U.count : i = NULLType
    BY <1>1, <1>2
  <1>6. \A k \in 1 .. Len(S.pointers) : U.slots[NULLType] # S.pointers[k]
    BY <1>1, <1>2, <1>3
  <1>. QED
    BY <1>4, <1>5, <1>6 DEF Apart, U

LEMMA ApartWhenRestored ==
  ASSUME NEW T, NEW S, NEW R, Table(T), SavedIn(T, S), SavedApart(S, R)
  PROVE  Apart(Restore(T, S), R)
  <1>. DEFINE U == Restore(T, S)
  <1>1. /\ U.count = 1 + Len(S.pointers)
        /\ \A i \in 2 .. U.count : U.slots[i] = S.pointers[i - 1]
        /\ U.map = S.dictionary
    BY TableIsRestored
  <1>. HIDE DEF U
  <1>2. Len(S.pointers) \in Nat
    BY DEF SavedIn
  <1>3. \A i \in 2 .. U.count : i - 1 \in 1 .. Len(S.pointers)
    BY <1>1, <1>2
  <1>. QED
    BY <1>1, <1>3 DEF Apart, SavedApart, U

LEMMA SavedApartWhenSaved ==
  ASSUME NEW T, NEW R, Table(T), Apart(T, R)
  PROVE  SavedApart(Saved(T), R)
  <1>. DEFINE S == Saved(T)
  <1>1. /\ SavedIn(T, S) /\ Len(S.pointers) = T.count - 1 /\ S.dictionary = T.map
        /\ \A i \in 1 .. Len(S.pointers) : S.pointers[i] = T.slots[i + 1]
    BY TableIsSaved
  <1>. HIDE DEF S
  <1>2. T.count \in Nat
    BY DEF Table
  <1>3. \A i \in 1 .. Len(S.pointers) : i + 1 \in 2 .. T.count
    BY <1>1, <1>2
  <1>. QED
    BY SMTT(60), <1>1, <1>3 DEF Apart, SavedApart, S

(* What is aside is found as long as its objects and dictionary are left alone. *)
LEMMA SavedIsFound ==
  ASSUME NEW T, Table(T), Found(T)
  PROVE  SavedFound(T, Saved(T))
  <1>. DEFINE S == Saved(T)
  <1>1. /\ SavedIn(T, S) /\ Len(S.pointers) = T.count - 1 /\ S.dictionary = T.map
        /\ \A i \in 1 .. Len(S.pointers) : S.pointers[i] = T.slots[i + 1]
    BY TableIsSaved
  <1>. HIDE DEF S
  <1>2. T.count \in Nat /\ T.slots[1] = 1
    BY DEF Table
  <1>3. \A i \in Types(T) : i \in 1 .. 1 + Len(S.pointers) /\ SavedName(T, S, i) = Entry(T, i).name
    <2>. SUFFICES ASSUME NEW i \in Types(T)
                  PROVE  i \in 1 .. 1 + Len(S.pointers) /\ SavedName(T, S, i) = Entry(T, i).name
      OBVIOUS
    <2>1. i \in 1 .. 1 + Len(S.pointers)
      BY <1>1, <1>2 DEF Types
    <2>2. CASE i = 1
      BY <1>2, <2>1, <2>2 DEF SavedName, Entry
    <2>3. CASE i # 1
      <3>1. i - 1 \in 1 .. Len(S.pointers) /\ (i - 1) + 1 = i
        BY <1>1, <1>2, <2>1, <2>3
      <3>2. S.pointers[i - 1] = T.slots[i]
        BY <1>1, <3>1
      <3>. QED
        BY <2>1, <2>3, <3>2 DEF SavedName, Entry
    <2>. QED
      BY <2>2, <2>3
  <1>4. \A k \in 1 .. Len(S.pointers) :
            k + 1 \in Types(T) /\ T.heap[S.pointers[k]] = Entry(T, k + 1)
    BY SMTT(60), <1>1, <1>2 DEF Types, Entry
  <1>5. \A n \in DOMAIN T.dicts[S.dictionary] :
            /\ T.dicts[S.dictionary][n] \in 1 .. 1 + Len(S.pointers)
            /\ SavedName(T, S, T.dicts[S.dictionary][n]) = n
    BY <1>1, <1>3 DEF Found, NamesFound, Dict
  <1>6. ASSUME NEW k \in 1 .. Len(S.pointers), T.heap[S.pointers[k]].pointer # Invalid
        PROVE  /\ T.heap[S.pointers[k]].pointer \in 1 .. 1 + Len(S.pointers)
               /\ SavedName(T, S, T.heap[S.pointers[k]].pointer)
                    = <<"*">> \o T.heap[S.pointers[k]].name
    <2>1. /\ Entry(T, k + 1).pointer \in Types(T)
          /\ Entry(T, Entry(T, k + 1).pointer).name = PointerName(T, k + 1)
      BY <1>4, <1>6 DEF Found, PointersFound
    <2>. QED
      BY <1>3, <1>4, <2>1 DEF PointerName
  <1>. QED
    BY ZenonT(60), <1>5, <1>6 DEF SavedFound, S

LEMMA SavedStaysFound ==
  ASSUME NEW T, NEW U, NEW S, SavedIn(T, S), SavedFound(T, S),
         U.dicts[S.dictionary] = T.dicts[S.dictionary],
         U.heap[1].name = T.heap[1].name,
         \A k \in 1 .. Len(S.pointers) : U.heap[S.pointers[k]] = T.heap[S.pointers[k]]
  PROVE  SavedFound(U, S)
  <1>1. Len(S.pointers) \in Nat
    BY DEF SavedIn
  <1>2. \A i \in 1 .. 1 + Len(S.pointers) : i = 1 \/ i - 1 \in 1 .. Len(S.pointers)
    BY <1>1
  <1>3. \A i \in 1 .. 1 + Len(S.pointers) : SavedName(U, S, i) = SavedName(T, S, i)
    BY <1>2 DEF SavedName
  <1>. QED
    BY ZenonT(60), <1>3 DEF SavedFound

LEMMA SavedFoundWhenGrown ==
  ASSUME NEW T, NEW U, NEW S, NEW size, Table(T), Grown(T, U, size), SavedIn(T, S),
         Apart(T, S), SavedFound(T, S)
  PROVE  SavedFound(U, S)
  <1>1. U.dicts[S.dictionary] = T.dicts[S.dictionary]
    BY DEF Grown, Apart, SavedIn
  <1>2. U.heap[1].name = T.heap[1].name
    <2>1. 1 \in 1 .. Len(T.heap)
      BY DEF Table
    <2>. QED
      BY <2>1 DEF Grown
  <1>3. ASSUME NEW k \in 1 .. Len(S.pointers)
        PROVE  U.heap[S.pointers[k]] = T.heap[S.pointers[k]]
    <2>1. Len(T.heap) \in Nat /\ T.count \in Nat /\ T.slots[1] = 1
      BY DEF Table
    <2>2. S.pointers[k] \in 2 .. Len(T.heap)
      BY DEF SavedIn
    <2>3. \A i \in Types(T) : i = 1 \/ i \in 2 .. T.count
      BY <2>1 DEF Types
    <2>4. \A i \in Types(T) : T.slots[i] # S.pointers[k]
      BY <2>1, <2>2, <2>3 DEF Apart
    <2>5. S.pointers[k] \in 1 .. Len(T.heap)
      BY <2>1, <2>2
    <2>. QED
      BY <2>4, <2>5 DEF Grown
  <1>. QED
    BY <1>1, <1>2, <1>3, SavedStaysFound

LEMMA FoundWhenRestored ==
  ASSUME NEW T, NEW S, Table(T), SavedIn(T, S), SavedFound(T, S)
  PROVE  Found(Restore(T, S))
  <1>. DEFINE U == Restore(T, S)
  <1>1. /\ U.count = 1 + Len(S.pointers)
        /\ \A i \in 2 .. U.count : U.slots[i] = S.pointers[i - 1]
        /\ U.map = S.dictionary /\ U.dicts = T.dicts
        /\ \A o \in 2 .. Len(T.heap) : U.heap[o] = T.heap[o]
        /\ Entry(U, 1).name = T.heap[1].name /\ Entry(U, 1).pointer = Invalid
    BY TableIsRestored
  <1>. HIDE DEF U
  <1>2. Len(S.pointers) \in Nat
    BY DEF SavedIn
  <1>3. \A i \in Types(U) : i = 1 \/ (i \in 2 .. U.count /\ i - 1 \in 1 .. Len(S.pointers))
    BY <1>1, <1>2 DEF Types
  <1>4. \A i \in 2 .. U.count : i - 1 \in 1 .. Len(S.pointers)
                                => Entry(U, i) = T.heap[S.pointers[i - 1]]
    BY <1>1 DEF Entry, SavedIn
  <1>5. Types(U) = 1 .. 1 + Len(S.pointers)
    BY <1>1 DEF Types
  <1>6. \A i \in Types(U) : Entry(U, i).name = SavedName(T, S, i)
    <2>1. \A i \in 2 .. U.count : i # 1
      BY SMTT(60), <1>1, <1>2
    <2>. QED
      BY <1>1, <1>3, <1>4, <2>1 DEF SavedName
  <1>7. NamesFound(U)
    BY <1>1, <1>5, <1>6 DEF NamesFound, SavedFound, Dict
  <1>8. PointersFound(U)
    <2>. SUFFICES ASSUME NEW i \in Types(U), Entry(U, i).pointer # Invalid
                  PROVE  /\ Entry(U, i).pointer \in Types(U)
                         /\ Entry(U, Entry(U, i).pointer).name = PointerName(U, i)
      BY DEF PointersFound
    <2>1. i \in 2 .. U.count /\ i - 1 \in 1 .. Len(S.pointers)
      BY <1>1, <1>3
    <2>2. Entry(U, i) = T.heap[S.pointers[i - 1]]
      BY SMTT(60), <1>4, <2>1
    <2>. DEFINE p == T.heap[S.pointers[i - 1]].pointer
    <2>3. p \in 1 .. 1 + Len(S.pointers)
          /\ SavedName(T, S, p) = <<"*">> \o T.heap[S.pointers[i - 1]].name
      BY ZenonT(60), <2>1, <2>2 DEF SavedFound
    <2>4. Entry(U, i).pointer = p
      BY <2>2
    <2>. QED
      BY ZenonT(60), <1>5, <1>6, <2>2, <2>3, <2>4 DEF PointerName
  <1>. QED
    BY <1>7, <1>8 DEF Found, U

-----------------------------------------------------------------------------
(* The invariant holds at the start, and every step keeps it.              *)

LEMMA TableOfOne ==
  ASSUME NEW h \in Seq(Object), NEW sl \in Seq(Nat), NEW ds \in Seq(Dictionaries),
         Len(h) = 1, Len(sl) = 1, sl[1] = 1, Len(ds) = 1,
         NEW T, T = [heap |-> h, slots |-> sl, count |-> 1, dicts |-> ds, map |-> 1]
  PROVE  Table(T)
  <1>1. T.heap = h /\ T.slots = sl /\ T.count = 1 /\ T.dicts = ds /\ T.map = 1
    OBVIOUS
  <1>2. \A i \in 2 .. Len(sl) : sl[i] \in 2 .. Len(h)
    OBVIOUS
  <1>3. 1 \in 1 .. Len(ds) /\ 1 <= Len(sl) /\ 1 <= Len(h)
    OBVIOUS
  <1>4. T \in [heap : Seq(Object), slots : Seq(Nat), count : Nat, dicts : Seq(Dictionaries),
               map : Nat]
    OBVIOUS
  <1>. QED
    BY <1>1, <1>2, <1>3, <1>4 DEF Table

LEMMA StartsWithATable ==
  /\ Table(StartTable)
  /\ StartTable.count = NULLType /\ Entry(StartTable, NULLType).name = <<"?*">>
  /\ CurrentSizes(StartTable, HostBits)
  <1>. DEFINE basic == [name |-> <<Basic>>, size |-> 0, pointer |-> Invalid]
              empty == << >>
              h == <<basic>>
              ds == <<empty>>
              sl == <<1>>
              T == [heap |-> h, slots |-> sl, count |-> 1, dicts |-> ds, map |-> 1]
              name == <<"?*">>
  <1>1. basic \in Object
    <2>1. <<Basic>> \in TypeNames
      BY DEF TypeNames, Words
    <2>. QED
      BY <2>1 DEF Object, Invalid
  <1>2. empty \in Dictionaries /\ DOMAIN empty = {}
    <2>1. empty \in [{} -> Nat] /\ {} \in SUBSET TypeNames
      OBVIOUS
    <2>. QED
      BY <2>1 DEF Dictionaries
  <1>3. name \in TypeNames
    BY DEF TypeNames, Words
  <1>4. StartTable = AddType(T, name, 64)
    BY DEF StartTable
  <1>. HIDE DEF basic, empty, name
  <1>5. /\ h \in Seq(Object) /\ Len(h) = 1 /\ h[1] = basic
        /\ ds \in Seq(Dictionaries) /\ Len(ds) = 1 /\ ds[1] = empty
        /\ sl \in Seq(Nat) /\ Len(sl) = 1 /\ sl[1] = 1
    BY <1>1, <1>2
  <1>. HIDE DEF h, ds, sl
  <1>6. /\ T.heap = h /\ T.slots = sl /\ T.count = 1 /\ T.dicts = ds /\ T.map = 1
    OBVIOUS
  <1>8. Table(T)
    BY <1>5, TableOfOne
  <1>. HIDE DEF T
  <1>9. name \notin DOMAIN Dict(T)
    BY <1>2, <1>5, <1>6 DEF Dict
  <1>10. 64 \in Registers
    BY DEF Registers
  <1>. DEFINE U == StartTable
              size == 64
  <1>11. U = AddType(T, name, size) /\ size \in Registers
    BY <1>4, <1>10
  <1>. HIDE DEF U, size
  <1>12. /\ Grown(T, U, size)
         /\ U.count = T.count + 1
         /\ Entry(U, U.count) = [name |-> name, size |-> size, pointer |-> Invalid]
    BY <1>3, <1>8, <1>9, <1>11, TypeIsAdded
  <1>13. CurrentSizes(T, size)
    <2>1. \A i \in Types(T) : Entry(T, i) = basic
      BY <1>5, <1>6 DEF Types, Entry
    <2>. QED
      BY <2>1 DEF CurrentSizes, basic
  <1>14. CurrentSizes(U, size)
    BY <1>8, <1>12, <1>13, SizesWhenGrown
  <1>15. Table(U)
    BY <1>12 DEF Grown
  <1>16. U.count = NULLType
    BY <1>6, <1>12 DEF NULLType, BasicTypesCount
  <1>. QED
    BY <1>12, <1>14, <1>15, <1>16 DEF U, size, name, HostBits

LEMMA StartsInvariant == Init => IInv
  <1>. SUFFICES ASSUME Init PROVE IInv
    OBVIOUS
  <1>1. /\ pc = "compile" /\ tt = StartTable
        /\ RegisterBitSize = 64 /\ SaveRegisterBitSize = 64 /\ target = 1
    BY DEF Init
  <1>2. WellTyped
    BY <1>1, StartsWithATable DEF WellTyped, Labels, Registers
  <1>3. RegistersFit
    BY <1>1 DEF RegistersFit, HostBits, ForHost
  <1>4. BuildBegun /\ BuildAside /\ BuildHere
    <2>1. NULLType >= NULLType
      BY DEF NULLType, BasicTypesCount
    <2>. QED
      BY <1>1, <2>1, StartsWithATable DEF BuildBegun, BuildAside, BuildHere, OfBuild
  <1>5. TargetHere /\ TargetKept /\ TargetAside
    BY <1>1 DEF TargetHere, TargetKept, TargetAside, TargetCompiled
  <1>6. SizesFit
    BY <1>1, StartsWithATable DEF SizesFit, HostBits
  <1>. QED
    BY <1>2, <1>3, <1>4, <1>5, <1>6 DEF IInv

\* A target is compiled at 32 bits when it or one before it is a 32-bit one.
LEMMA BitsOfTargets ==
  /\ BitsAt(0) = 64
  /\ \A k \in Nat \ {0} :
        BitsAt(k) = IF ArchOf(k) \in Arches32 THEN 32 ELSE BitsAt(k - 1)
  <1>1. BitsAt(0) = 64
    <2>1. 1 .. 0 = {}
      OBVIOUS
    <2>. QED
      BY <2>1 DEF BitsAt
  <1>2. ASSUME NEW k \in Nat \ {0}
        PROVE  BitsAt(k) = IF ArchOf(k) \in Arches32 THEN 32 ELSE BitsAt(k - 1)
    <2>1. 1 .. k = (1 .. k - 1) \cup {k}
      OBVIOUS
    <2>. QED
      BY <2>1 DEF BitsAt
  <1>. QED
    BY <1>1, <1>2

LEMMA SameTarget ==
  ASSUME target' = target
  PROVE  BitsAt(target)' = BitsAt(target)
  BY DEF BitsAt

(* Types are added to the table that is in place.                          *)
LEMMA GrowingKeeps ==
  ASSUME IInv, Grown(tt, tt', RegisterBitSize),
         pc \in {"compile", "pipeline", "inspect", "comptime", "generate", "after"},
         UNCHANGED <<pc, target, config, bits, BuildTable, CompileTable, buildIR, targetIR>>
  PROVE  IInv'
  <1>. DEFINE size == RegisterBitSize
  <1>1. /\ pc' = pc /\ target' = target /\ RegisterBitSize' = RegisterBitSize
        /\ SaveRegisterBitSize' = SaveRegisterBitSize
        /\ PTarget' = PTarget /\ ConfigIDs' = ConfigIDs /\ Lookups' = Lookups
        /\ BuildTable' = BuildTable /\ CompileTable' = CompileTable
        /\ buildIR' = buildIR /\ targetIR' = targetIR
    BY DEF config, bits
  <1>2. BitsAt(target)' = BitsAt(target)
    BY <1>1, SameTarget
  <1>3. Table(tt) /\ Table(tt') /\ NamesLast(tt, tt') /\ size \in Registers
    BY GrownNamesLast DEF IInv, WellTyped, Grown
  <1>4. WellTyped'
    BY <1>1, <1>3 DEF IInv, WellTyped
  <1>5. RegistersFit'
    BY <1>1, <1>2 DEF IInv, RegistersFit
  <1>6. tt.count >= NULLType =>
            /\ tt'.count >= NULLType
            /\ Entry(tt', NULLType).name = Entry(tt, NULLType).name
    <2>1. tt.count \in Nat /\ tt'.count \in Nat /\ tt'.count >= tt.count /\ NULLType = 2
      BY <1>3 DEF Grown, Table, NULLType, BasicTypesCount
    <2>2. tt.count >= NULLType => NULLType \in Types(tt)
      BY <2>1 DEF Types
    <2>3. \A i \in Types(tt) : Entry(tt', i).name = Entry(tt, i).name
      BY <1>3, SlotsInHeap DEF Grown, Entry
    <2>. QED
      BY <2>1, <2>2, <2>3
  <1>7. BuildBegun'
    BY <1>1, <1>6 DEF IInv, BuildBegun
  <1>8. BuildAside'
    <2>1. pc \notin {"compile", "exit"} => SavedIn(tt, BuildTable)
      BY DEF IInv, BuildAside, SavedHas
    <2>. QED
      BY <1>1, <1>3, <2>1, SavedWhenNamesLast DEF IInv, BuildAside
  <1>9. BuildHere'
    BY <1>1, <1>3, HadWhenGrown DEF IInv, BuildHere
  <1>10. TargetHere'
    <2>. SUFFICES ASSUME pc \in {"pipeline"} \cup TargetCompiled
                  PROVE  /\ tt'.count >= NULLType /\ Entry(tt', NULLType).name = <<"?*">>
                         /\ Found(tt')
                         /\ Apart(tt', BuildTable)
      BY <1>1 DEF TargetHere
    <2>1. /\ tt.count >= NULLType /\ Entry(tt, NULLType).name = <<"?*">>
          /\ Found(tt) /\ Apart(tt, BuildTable)
      BY DEF IInv, TargetHere
    <2>2. SavedIn(tt, BuildTable)
      BY DEF IInv, BuildAside, SavedHas, TargetCompiled
    <2>3. Found(tt')
      BY <2>1 DEF Grown
    <2>. QED
      BY <1>3, <1>6, <2>1, <2>2, <2>3, ApartWhenGrown
  <1>11. TargetKept'
    BY <1>1, <1>3, HadWhenGrown DEF IInv, TargetKept
  <1>12. TargetAside'
    <2>. SUFFICES ASSUME pc = "inspect"
                  PROVE  /\ SavedHas(tt', CompileTable, targetIR)
                         /\ SavedFound(tt', CompileTable)
                         /\ Apart(tt', CompileTable)
                         /\ SavedApart(CompileTable, BuildTable)
      BY <1>1 DEF TargetAside
    <2>1. /\ SavedHas(tt, CompileTable, targetIR)
          /\ SavedFound(tt, CompileTable)
          /\ Apart(tt, CompileTable)
          /\ SavedApart(CompileTable, BuildTable)
      BY DEF IInv, TargetAside
    <2>2. SavedIn(tt, CompileTable)
      BY <2>1 DEF SavedHas
    <2>3. SavedHas(tt', CompileTable, targetIR)
      BY <1>3, <2>1, <2>2, SavedWhenNamesLast
    <2>4. SavedFound(tt', CompileTable)
      BY <1>3, <2>1, <2>2, SavedFoundWhenGrown
    <2>5. Apart(tt', CompileTable)
      BY <1>3, <2>1, <2>2, ApartWhenGrown
    <2>. QED
      BY <2>1, <2>3, <2>4, <2>5
  <1>13. SizesFit'
    BY <1>1, <1>3, SizesWhenGrown DEF IInv, SizesFit
  <1>. QED
    BY <1>4, <1>5, <1>7, <1>8, <1>9, <1>10, <1>11, <1>12, <1>13 DEF IInv

(* A step that goes to a label where nothing is asked of the table.        *)
Asking == {"compile", "pipeline", "inspect", "after", "exit"} \cup TargetCompiled

LEMMA IdleKeeps ==
  ASSUME IInv, WellTyped', RegistersFit',
         pc \notin {"compile", "exit"}, pc' \notin Asking,
         UNCHANGED <<tables, buildIR>>
  PROVE  IInv'
  <1>1. tt' = tt /\ BuildTable' = BuildTable /\ buildIR' = buildIR
    BY DEF tables
  <1>2. BuildAside'
    BY <1>1 DEF IInv, BuildAside
  <1>3. /\ pc' \notin {"compile", "pipeline", "inspect", "after"} \cup TargetCompiled
        /\ pc' \notin OfBuild /\ pc' \notin ForHost \cup ForTarget
    BY DEF Asking, OfBuild, ForHost, ForTarget, TargetCompiled
  <1>4. BuildBegun' /\ BuildHere' /\ TargetHere' /\ TargetKept' /\ TargetAside' /\ SizesFit'
    BY <1>3 DEF BuildBegun, BuildHere, TargetHere, TargetKept, TargetAside, SizesFit
  <1>. QED
    BY <1>2, <1>4 DEF IInv

LEMMA NothingKeeps ==
  ASSUME IInv, UNCHANGED <<pc, target, config, bits, tables, buildIR, targetIR>>
  PROVE  IInv'
  <1>1. /\ pc' = pc /\ target' = target /\ RegisterBitSize' = RegisterBitSize
        /\ SaveRegisterBitSize' = SaveRegisterBitSize
        /\ PTarget' = PTarget /\ ConfigIDs' = ConfigIDs /\ Lookups' = Lookups
        /\ BuildTable' = BuildTable /\ CompileTable' = CompileTable
        /\ buildIR' = buildIR /\ targetIR' = targetIR /\ tt' = tt
    BY DEF config, bits, tables
  <1>2. BitsAt(target)' = BitsAt(target)
    BY <1>1, SameTarget
  <1>3. WellTyped' /\ RegistersFit'
    BY <1>1, <1>2 DEF IInv, WellTyped, RegistersFit
  <1>4. BuildBegun' /\ BuildAside' /\ BuildHere'
    BY <1>1 DEF IInv, BuildBegun, BuildAside, BuildHere
  <1>5. TargetHere' /\ TargetKept' /\ TargetAside'
    BY <1>1 DEF IInv, TargetHere, TargetKept, TargetAside
  <1>6. SizesFit'
    BY <1>1 DEF IInv, SizesFit
  <1>. QED
    BY <1>3, <1>4, <1>5, <1>6 DEF IInv

LEMMA DeclareStructKeeps ==
  ASSUME IInv, NEW n \in Structs, DeclareStruct(n)
  PROVE  IInv'
  <1>. DEFINE name == <<n>>
  <1>1. name \in TypeNames
    BY DEF TypeNames, Words
  <1>2. tt' = AddType(tt, name, RegisterBitSize)
    BY DEF DeclareStruct, TableStep
  <1>. HIDE DEF name
  <1>3. Table(tt) /\ RegisterBitSize \in Registers
    BY DEF IInv, WellTyped
  <1>4. Grown(tt, tt', RegisterBitSize)
    BY <1>1, <1>2, <1>3, TypeIsFoundOrAdded
  <1>. QED
    BY <1>4, GrowingKeeps DEF DeclareStruct, TableStep

LEMMA InternPointerKeeps ==
  ASSUME IInv, NEW i \in Types(tt), InternPointer(i)
  PROVE  IInv'
  <1>1. tt' = GetPointerTo(tt, i, RegisterBitSize)
    BY DEF InternPointer, TableStep
  <1>2. Table(tt) /\ RegisterBitSize \in Registers
    BY DEF IInv, WellTyped
  <1>3. Grown(tt, tt', RegisterBitSize)
    BY <1>1, <1>2, PointerIsFoundOrAdded
  <1>. QED
    BY <1>3, GrowingKeeps DEF InternPointer, TableStep

LEMMA ExitKeeps ==
  ASSUME IInv, Exit
  PROVE  IInv'
  <1>1. pc' = "exit" /\ target' = target /\ UNCHANGED <<bits, tables>>
    BY DEF Exit, Goto
  <1>2. WellTyped'
    BY <1>1 DEF IInv, WellTyped, bits, tables, Labels
  <1>. QED
    BY <1>1, <1>2 DEF IInv, RegistersFit, BuildBegun, BuildAside, BuildHere,
       TargetHere, TargetKept, TargetAside, SizesFit, OfBuild, ForHost, ForTarget,
       TargetCompiled

LEMMA SaveBuildTableKeeps ==
  ASSUME IInv, SaveBuildTable
  PROVE  IInv'
  <1>. DEFINE S == Saved(tt)
  <1>1. /\ pc = "compile" /\ pc' = "target"
        /\ buildIR' = Names(tt) /\ BuildTable' = S /\ tt' = Reset(tt, RegisterBitSize)
        /\ target' = target /\ UNCHANGED bits
    BY DEF SaveBuildTable, Goto
  <1>2. /\ Table(tt) /\ RegisterBitSize \in Registers /\ RegisterBitSize = HostBits
        /\ target = 1
    BY <1>1 DEF IInv, WellTyped, RegistersFit, ForHost
  <1>3. Table(tt') /\ NamesLast(tt, tt')
    BY <1>1, <1>2, TableIsReset
  <1>4. CurrentHas(tt, buildIR')
    BY <1>1, <1>2, NamesAreHad DEF IInv, BuildBegun
  <1>5. SavedHas(tt, S, buildIR')
    BY <1>2, <1>4, SavedAsHad
  <1>6. SavedSizes(tt, S, HostBits)
    <2>1. /\ Len(S.pointers) = tt.count - 1
          /\ \A k \in 1 .. Len(S.pointers) : S.pointers[k] = tt.slots[k + 1]
      BY <1>2, TableIsSaved
    <2>2. tt.count \in Nat
      BY <1>2 DEF Table
    <2>3. CurrentSizes(tt, HostBits)
      BY <1>1, <1>2 DEF IInv, SizesFit, ForHost
    <2>. HIDE DEF S
    <2>4. \A k \in 1 .. Len(S.pointers) : k + 1 \in Types(tt)
      BY <2>1, <2>2 DEF Types
    <2>. QED
      BY <2>1, <2>3, <2>4 DEF SavedSizes, CurrentSizes, Entry
  <1>. HIDE DEF S
  <1>7. SavedHas(tt', S, buildIR') /\ SavedSizes(tt', S, HostBits)
    <2>1. SavedIn(tt, S)
      BY <1>5 DEF SavedHas
    <2>. QED
      BY <1>2, <1>3, <1>5, <1>6, <2>1, SavedWhenNamesLast
  <1>8. BuildAside'
    BY <1>1, <1>7 DEF BuildAside
  <1>9. WellTyped'
    BY <1>1, <1>3 DEF IInv, WellTyped, bits, Labels
  <1>10. RegistersFit'
    BY <1>1, <1>2, BitsOfTargets DEF RegistersFit, ForHost, HostBits, bits
  <1>. QED
    BY <1>1, <1>8, <1>9, <1>10 DEF IInv, BuildBegun, BuildHere,
       TargetHere, TargetKept, TargetAside, SizesFit, OfBuild, ForHost, ForTarget,
       TargetCompiled

LEMMA ConfigureKeeps ==
  ASSUME IInv, Configure
  PROVE  IInv'
  <1>1. /\ pc = "target" /\ pc' = "configured" /\ target' = target
        /\ Lookups' = OwnLookups /\ PTarget' = System
        /\ ConfigIDs' = OwnIDs \cup {System}
        /\ RegisterBitSize' = IF Arch \in Arches32 THEN 32 ELSE RegisterBitSize
        /\ SaveRegisterBitSize' = SaveRegisterBitSize
        /\ UNCHANGED <<tables, buildIR>>
    BY DEF Configure, Goto
  <1>2. BitsAt(target)' = BitsAt(target)
    BY <1>1, SameTarget
  <1>3. WellTyped'
    BY <1>1 DEF IInv, WellTyped, tables, Labels, Registers
  <1>4. RegistersFit'
    <2>1. target \in Nat \ {0} /\ RegisterBitSize = BitsAt(target - 1)
      BY <1>1 DEF IInv, RegistersFit
    <2>2. RegisterBitSize' = BitsAt(target)
      BY <1>1, <2>1, BitsOfTargets DEF Arch
    <2>. QED
      BY <1>1, <1>2, <2>1, <2>2 DEF RegistersFit, ForHost
  <1>. QED
    BY <1>1, <1>3, <1>4, IdleKeeps DEF Asking, TargetCompiled

LEMMA StartPipelineKeeps ==
  ASSUME IInv, StartPipeline
  PROVE  IInv'
  <1>1. /\ pc = "configured" /\ pc' = "pipeline" /\ target' = target
        /\ tt' = Reset(tt, RegisterBitSize)
        /\ UNCHANGED <<config, bits, BuildTable, buildIR>>
    BY DEF StartPipeline, Goto, TableStep
  <1>2. BitsAt(target)' = BitsAt(target)
    BY <1>1, SameTarget
  <1>3. Table(tt) /\ RegisterBitSize \in Registers
    BY DEF IInv, WellTyped
  <1>4. /\ Table(tt') /\ Found(tt') /\ NamesLast(tt, tt')
        /\ tt'.count = NULLType
        /\ Entry(tt', NULLType).name = <<"?*">>
        /\ Entry(tt', 1).size = 0 /\ Entry(tt', NULLType).size = RegisterBitSize
    BY <1>1, <1>3, TableIsReset
  <1>5. WellTyped'
    BY <1>1, <1>4 DEF IInv, WellTyped, bits, Labels
  <1>6. RegistersFit'
    BY <1>1, <1>2 DEF IInv, RegistersFit, ForHost, bits, config
  <1>7. SavedHas(tt, BuildTable, buildIR) /\ SavedSizes(tt, BuildTable, HostBits)
    BY <1>1 DEF IInv, BuildAside
  <1>8. SavedIn(tt, BuildTable)
    BY <1>7 DEF SavedHas
  <1>9. BuildAside'
    BY <1>1, <1>3, <1>4, <1>7, <1>8, SavedWhenNamesLast DEF BuildAside
  <1>10. Apart(tt', BuildTable)
    BY <1>1, <1>3, <1>8, ApartWhenReset
  <1>11. TargetHere'
    <2>1. tt'.count >= NULLType
      BY <1>4 DEF NULLType, BasicTypesCount
    <2>. QED
      BY <1>1, <1>4, <1>10, <2>1 DEF TargetHere
  <1>12. SizesFit'
    <2>1. \A i \in Types(tt') : i = 1 \/ i = NULLType
      BY <1>4 DEF Types, NULLType, BasicTypesCount
    <2>. QED
      BY <1>1, <1>4, <2>1 DEF SizesFit, CurrentSizes, bits
  <1>. QED
    BY <1>1, <1>5, <1>6, <1>9, <1>11, <1>12 DEF IInv, BuildBegun, BuildHere, TargetKept,
       TargetAside, OfBuild, TargetCompiled

LEMMA EndPipelineKeeps ==
  ASSUME IInv, EndPipeline
  PROVE  IInv'
  <1>1. /\ pc = "pipeline" /\ pc' \in {"swap", "compiled"} /\ target' = target
        /\ targetIR' = Names(tt)
        /\ SaveRegisterBitSize' = RegisterBitSize /\ RegisterBitSize' = HostBits
        /\ UNCHANGED <<config, tables, buildIR>>
    BY DEF EndPipeline, Goto
  <1>2. BitsAt(target)' = BitsAt(target)
    BY <1>1, SameTarget
  <1>3. /\ tt.count >= NULLType /\ Entry(tt, NULLType).name = <<"?*">> /\ Table(tt)
    BY <1>1 DEF IInv, TargetHere, WellTyped
  <1>4. WellTyped' /\ RegistersFit'
    BY <1>1, <1>2 DEF IInv, WellTyped, RegistersFit, tables, Labels, Registers,
       HostBits, ForHost
  <1>5. BuildAside' /\ TargetHere'
    BY <1>1 DEF IInv, BuildAside, TargetHere, TargetCompiled, tables
  <1>6. TargetKept'
    BY <1>1, <1>3, NamesAreHad DEF TargetKept, tables
  <1>. QED
    BY <1>1, <1>4, <1>5, <1>6 DEF IInv, BuildBegun, BuildHere, TargetAside, SizesFit, OfBuild,
       ForHost, ForTarget

LEMMA StartInspectKeeps ==
  ASSUME IInv, StartInspect
  PROVE  IInv'
  <1>. DEFINE S == Saved(tt)
              R == Reset(tt, RegisterBitSize)
              U == Restore(R, BuildTable)
  <1>1. /\ pc = "swap" /\ pc' = "inspect" /\ target' = target
        /\ CompileTable' = S /\ tt' = U
        /\ UNCHANGED <<bits, BuildTable, buildIR, targetIR>>
    BY DEF StartInspect, Goto
  <1>2. BitsAt(target)' = BitsAt(target)
    BY <1>1, SameTarget
  <1>3. Table(tt) /\ RegisterBitSize \in Registers /\ RegisterBitSize = HostBits
    BY <1>1 DEF IInv, WellTyped, RegistersFit
  <1>4. SavedHas(tt, BuildTable, buildIR) /\ SavedSizes(tt, BuildTable, HostBits)
        /\ SavedIn(tt, BuildTable)
    BY <1>1 DEF IInv, BuildAside, SavedHas
  <1>5. Found(tt) /\ Apart(tt, BuildTable) /\ CurrentHas(tt, targetIR)
    BY <1>1 DEF IInv, TargetHere, TargetKept, TargetCompiled
  <1>6. SavedHas(tt, S, targetIR) /\ SavedFound(tt, S) /\ SavedApart(S, BuildTable)
    BY <1>3, <1>5, SavedAsHad, SavedIsFound, SavedApartWhenSaved
  <1>7. SavedIn(tt, S)
    BY <1>6 DEF SavedHas
  <1>8. /\ Table(R) /\ NamesLast(tt, R)
        /\ \A d \in 1 .. Len(tt.dicts) : R.dicts[d] = tt.dicts[d]
        /\ \A o \in 2 .. Len(tt.heap) : R.heap[o] = tt.heap[o]
    BY <1>3, TableIsReset
  <1>. HIDE DEF S, R
  <1>9. /\ SavedIn(R, BuildTable) /\ SavedHas(R, BuildTable, buildIR)
        /\ SavedSizes(R, BuildTable, HostBits)
        /\ SavedIn(R, S) /\ SavedHas(R, S, targetIR)
    BY <1>3, <1>4, <1>6, <1>7, <1>8, SavedWhenNamesLast
  <1>10. SavedFound(R, S)
    <2>1. R.heap[1].name = tt.heap[1].name
      <3>1. 1 \in 1 .. Len(tt.heap)
        BY <1>3 DEF Table
      <3>. QED
        BY <1>8, <3>1 DEF NamesLast
    <2>2. \A k \in 1 .. Len(S.pointers) : R.heap[S.pointers[k]] = tt.heap[S.pointers[k]]
      BY <1>7, <1>8 DEF SavedIn
    <2>3. R.dicts[S.dictionary] = tt.dicts[S.dictionary]
      BY <1>7, <1>8 DEF SavedIn
    <2>. QED
      BY <1>6, <1>7, <2>1, <2>2, <2>3, SavedStaysFound
  <1>11. /\ Table(U) /\ NamesLast(R, U)
         /\ U.count = 1 + Len(BuildTable.pointers)
         /\ \A i \in 2 .. U.count : U.slots[i] = BuildTable.pointers[i - 1]
         /\ U.map = BuildTable.dictionary
         /\ U.dicts = R.dicts
         /\ \A o \in 2 .. Len(R.heap) : U.heap[o] = R.heap[o]
    BY <1>8, <1>9, TableIsRestored
  <1>12. CurrentHas(U, buildIR) /\ CurrentSizes(U, HostBits)
    BY <1>8, <1>9, HadWhenRestored, SizesWhenRestored
  <1>. HIDE DEF U
  <1>13. /\ SavedHas(U, BuildTable, buildIR) /\ SavedSizes(U, BuildTable, HostBits)
         /\ SavedHas(U, S, targetIR)
    BY <1>8, <1>9, <1>11, SavedWhenNamesLast
  <1>14. SavedFound(U, S)
    <2>1. U.heap[1].name = R.heap[1].name
      <3>1. 1 \in 1 .. Len(R.heap)
        BY <1>8 DEF Table
      <3>. QED
        BY <1>11, <3>1 DEF NamesLast
    <2>2. \A k \in 1 .. Len(S.pointers) : U.heap[S.pointers[k]] = R.heap[S.pointers[k]]
      BY <1>9, <1>11 DEF SavedIn
    <2>. QED
      BY <1>9, <1>10, <1>11, <2>1, <2>2, SavedStaysFound
  <1>15. Apart(U, S)
    <2>1. Len(BuildTable.pointers) \in Nat
      BY <1>4 DEF SavedIn
    <2>2. \A i \in 2 .. U.count : i - 1 \in 1 .. Len(BuildTable.pointers)
      BY <1>11, <2>1
    <2>. QED
      BY <1>6, <1>11, <2>2 DEF Apart, SavedApart
  <1>16. WellTyped' /\ RegistersFit'
    BY <1>1, <1>2, <1>11 DEF IInv, WellTyped, RegistersFit, bits, Labels, ForHost
  <1>17. BuildAside' /\ BuildHere'
    BY <1>1, <1>12, <1>13 DEF BuildAside, BuildHere
  <1>18. TargetAside'
    BY <1>1, <1>6, <1>13, <1>14, <1>15 DEF TargetAside
  <1>19. SizesFit'
    BY <1>1, <1>3, <1>12 DEF SizesFit, bits
  <1>. QED
    BY <1>1, <1>16, <1>17, <1>18, <1>19 DEF IInv, BuildBegun, TargetHere, TargetKept,
       TargetCompiled

LEMMA EndInspectKeeps ==
  ASSUME IInv, EndInspect
  PROVE  IInv'
  <1>. DEFINE U == Restore(tt, CompileTable)
  <1>1. /\ pc = "inspect" /\ pc' = "compiled" /\ target' = target /\ tt' = U
        /\ UNCHANGED <<bits, BuildTable, buildIR, targetIR>>
    BY DEF EndInspect, Goto, TableStep
  <1>2. BitsAt(target)' = BitsAt(target)
    BY <1>1, SameTarget
  <1>3. Table(tt)
    BY DEF IInv, WellTyped
  <1>4. /\ SavedHas(tt, CompileTable, targetIR) /\ SavedIn(tt, CompileTable)
        /\ SavedFound(tt, CompileTable)
        /\ SavedApart(CompileTable, BuildTable)
    BY <1>1 DEF IInv, TargetAside, SavedHas
  <1>5. SavedHas(tt, BuildTable, buildIR) /\ SavedSizes(tt, BuildTable, HostBits)
        /\ SavedIn(tt, BuildTable)
    BY <1>1 DEF IInv, BuildAside, SavedHas
  <1>6. Table(U) /\ NamesLast(tt, U)
    BY <1>3, <1>4, TableIsRestored
  <1>7. /\ CurrentHas(U, targetIR) /\ U.count >= NULLType /\ Entry(U, NULLType).name = <<"?*">>
        /\ Found(U) /\ Apart(U, BuildTable)
    BY <1>3, <1>4, HadWhenRestored, FoundWhenRestored, ApartWhenRestored
  <1>. HIDE DEF U
  <1>8. SavedHas(U, BuildTable, buildIR) /\ SavedSizes(U, BuildTable, HostBits)
    BY <1>3, <1>5, <1>6, SavedWhenNamesLast
  <1>9. WellTyped' /\ RegistersFit'
    BY <1>1, <1>2, <1>6 DEF IInv, WellTyped, RegistersFit, bits, Labels, ForHost
  <1>10. BuildAside' /\ TargetHere' /\ TargetKept'
    BY <1>1, <1>7, <1>8 DEF BuildAside, TargetHere, TargetKept
  <1>. QED
    BY <1>1, <1>9, <1>10 DEF IInv, BuildBegun, BuildHere, TargetAside, SizesFit, OfBuild,
       ForHost, ForTarget

(* The cached sizes are forgotten and the types stay where they are.       *)
LEMMA InvalidatingKeeps ==
  ASSUME IInv, WellTyped', RegistersFit',
         pc \in TargetCompiled, pc' \in TargetCompiled,
         tt' = Invalidate(tt), UNCHANGED <<BuildTable, buildIR, targetIR>>
  PROVE  IInv'
  <1>. DEFINE U == Invalidate(tt)
  <1>1. pc \notin {"compile", "exit"} /\ pc' \notin {"compile", "exit", "inspect"}
        /\ pc' \notin OfBuild
    BY DEF TargetCompiled, OfBuild
  <1>2. Table(tt)
    BY DEF IInv, WellTyped
  <1>3. SavedHas(tt, BuildTable, buildIR) /\ SavedSizes(tt, BuildTable, HostBits)
        /\ SavedIn(tt, BuildTable)
    BY <1>1 DEF IInv, BuildAside, SavedHas
  <1>4. /\ tt.count >= NULLType /\ Entry(tt, NULLType).name = <<"?*">>
        /\ Found(tt) /\ Apart(tt, BuildTable) /\ CurrentHas(tt, targetIR)
    BY DEF IInv, TargetHere, TargetKept
  <1>5. /\ Table(U) /\ NamesLast(tt, U)
        /\ U.slots = tt.slots /\ U.count = tt.count /\ U.map = tt.map
        /\ \A i \in Types(tt) : Entry(U, i).size = 0
        /\ Found(U)
    BY <1>2, <1>4, SizesAreInvalidated
  <1>. HIDE DEF U
  <1>6. tt' = U
    BY DEF U
  <1>7. SavedHas(U, BuildTable, buildIR) /\ SavedSizes(U, BuildTable, HostBits)
    BY <1>2, <1>3, <1>5, SavedWhenNamesLast
  <1>8. BuildAside'
    BY <1>6, <1>7 DEF BuildAside
  <1>9. \A i \in Types(tt) : Entry(U, i).name = Entry(tt, i).name
    <2>1. \A i \in Types(tt) : tt.slots[i] \in 1 .. Len(tt.heap)
      BY <1>2, SlotsInHeap
    <2>. QED
      BY <1>5, <2>1 DEF NamesLast, Entry
  <1>10. tt.count \in Nat /\ NULLType = 2
    BY <1>2 DEF Table, NULLType, BasicTypesCount
  <1>11. Entry(U, NULLType).name = <<"?*">>
    BY <1>4, <1>9, <1>10 DEF Types
  <1>12. Apart(U, BuildTable)
    BY <1>4, <1>5 DEF Apart
  <1>13. TargetHere'
    BY <1>4, <1>5, <1>6, <1>11, <1>12 DEF TargetHere
  <1>14. CurrentHas(U, targetIR)
    <2>1. PICK n \in NULLType .. tt.count : /\ DOMAIN targetIR = 1 .. n
                                            /\ \A i \in 1 .. n : Entry(tt, i).name = targetIR[i]
                                            /\ targetIR[NULLType] = <<"?*">>
      BY <1>4 DEF CurrentHas
    <2>2. \A i \in 1 .. n : i \in Types(tt)
      BY <1>10 DEF Types
    <2>. QED
      BY <1>5, <1>9, <2>1, <2>2 DEF CurrentHas
  <1>15. TargetKept'
    BY <1>6, <1>14 DEF TargetKept
  <1>16. SizesFit'
    BY <1>5, <1>6 DEF SizesFit, CurrentSizes, Types
  <1>17. BuildBegun' /\ BuildHere' /\ TargetAside'
    BY <1>1 DEF BuildBegun, BuildHere, TargetAside
  <1>. QED
    BY <1>8, <1>13, <1>15, <1>16, <1>17 DEF IInv

LEMMA StartComptimeKeeps ==
  ASSUME IInv, StartComptime
  PROVE  IInv'
  <1>1. /\ pc = "compiled" /\ pc' = "comptime" /\ target' = target /\ tt' = Invalidate(tt)
        /\ UNCHANGED <<config, bits, BuildTable, buildIR, targetIR>>
    BY DEF StartComptime, Goto, TableStep
  <1>2. BitsAt(target)' = BitsAt(target)
    BY <1>1, SameTarget
  <1>3. Table(tt')
    BY <1>1, SizesAreInvalidated DEF IInv, WellTyped
  <1>4. WellTyped' /\ RegistersFit'
    BY <1>1, <1>2, <1>3 DEF IInv, WellTyped, RegistersFit, bits, Labels, ForHost
  <1>. QED
    BY <1>1, <1>4, InvalidatingKeeps DEF TargetCompiled

LEMMA StartGenerateKeeps ==
  ASSUME IInv, StartGenerate
  PROVE  IInv'
  <1>1. /\ pc = "output" /\ pc' = "generate" /\ target' = target /\ tt' = Invalidate(tt)
        /\ UNCHANGED <<config, bits, BuildTable, buildIR, targetIR>>
    BY DEF StartGenerate, Goto, TableStep
  <1>2. BitsAt(target)' = BitsAt(target)
    BY <1>1, SameTarget
  <1>3. Table(tt')
    BY <1>1, SizesAreInvalidated DEF IInv, WellTyped
  <1>4. WellTyped' /\ RegistersFit'
    BY <1>1, <1>2, <1>3 DEF IInv, WellTyped, RegistersFit, bits, Labels, ForHost
  <1>. QED
    BY <1>1, <1>4, InvalidatingKeeps DEF TargetCompiled

LEMMA EndComptimeKeeps ==
  ASSUME IInv, EndComptime
  PROVE  IInv'
  <1>1. /\ pc = "comptime" /\ pc' \in {"link", "output"} /\ target' = target
        /\ RegisterBitSize' = SaveRegisterBitSize
        /\ SaveRegisterBitSize' = SaveRegisterBitSize
        /\ UNCHANGED <<tables, buildIR, targetIR>>
    BY DEF EndComptime, Goto
  <1>2. BitsAt(target)' = BitsAt(target)
    BY <1>1, SameTarget
  <1>3. WellTyped' /\ RegistersFit'
    BY <1>1, <1>2 DEF IInv, WellTyped, RegistersFit, tables, Labels, ForHost
  <1>4. BuildAside'
    BY <1>1 DEF IInv, BuildAside, tables
  <1>5. TargetHere' /\ TargetKept'
    BY <1>1 DEF IInv, TargetHere, TargetKept, TargetCompiled, tables
  <1>. QED
    BY <1>1, <1>3, <1>4, <1>5 DEF IInv, BuildBegun, BuildHere, TargetAside, SizesFit, OfBuild,
       ForHost, ForTarget

LEMMA EndGenerateKeeps ==
  ASSUME IInv, EndGenerate
  PROVE  IInv'
  <1>1. /\ pc = "generate" /\ pc' = "link" /\ tt' = tt /\ target' = target
        /\ UNCHANGED <<bits, BuildTable, CompileTable, buildIR>>
    BY DEF EndGenerate, Goto, TableStep
  <1>2. WellTyped' /\ RegistersFit'
    BY <1>1 DEF IInv, WellTyped, RegistersFit, bits, Labels, ForHost
  <1>. QED
    BY <1>1, <1>2, IdleKeeps DEF Asking, TargetCompiled, tables

LEMMA EndLinkKeeps ==
  ASSUME IInv, EndLink
  PROVE  IInv'
  <1>1. /\ pc = "link" /\ SaveRegisterBitSize' = SaveRegisterBitSize
        /\ target' = target /\ UNCHANGED <<BuildTable, CompileTable, buildIR>>
    BY DEF EndLink
  <1>2. /\ Table(tt) /\ RegisterBitSize \in Registers /\ SaveRegisterBitSize \in Registers
        /\ target \in Nat \ {0} /\ SaveRegisterBitSize = BitsAt(target)
    BY <1>1 DEF IInv, WellTyped, RegistersFit
  <1>3. CASE "after_link" \notin hooks
    <2>1. pc' = "clean" /\ RegisterBitSize' = RegisterBitSize /\ tt' = tt
      BY <1>3 DEF EndLink, Goto
    <2>2. WellTyped' /\ RegistersFit'
      BY <1>1, <1>2, <2>1 DEF WellTyped, RegistersFit, Labels, ForHost
    <2>. QED
      BY <1>1, <2>1, <2>2, IdleKeeps DEF Asking, TargetCompiled, tables
  <1>4. CASE "after_link" \in hooks
    <2>. DEFINE U == Restore(tt, BuildTable)
    <2>1. pc' = "after" /\ RegisterBitSize' = HostBits /\ tt' = U
      BY <1>4 DEF EndLink, Goto
    <2>2. SavedHas(tt, BuildTable, buildIR) /\ SavedSizes(tt, BuildTable, HostBits)
          /\ SavedIn(tt, BuildTable)
      BY <1>1 DEF IInv, BuildAside, SavedHas
    <2>3. Table(U) /\ NamesLast(tt, U)
      BY <1>2, <2>2, TableIsRestored
    <2>4. CurrentHas(U, buildIR) /\ CurrentSizes(U, HostBits)
      BY <1>2, <2>2, HadWhenRestored, SizesWhenRestored
    <2>. HIDE DEF U
    <2>5. SavedHas(U, BuildTable, buildIR) /\ SavedSizes(U, BuildTable, HostBits)
      BY <1>2, <2>2, <2>3, SavedWhenNamesLast
    <2>6. WellTyped' /\ RegistersFit'
      BY <1>1, <1>2, <2>1, <2>3 DEF WellTyped, RegistersFit, Labels, Registers,
         HostBits, ForHost
    <2>7. BuildAside' /\ BuildHere' /\ SizesFit'
      BY <1>1, <2>1, <2>4, <2>5 DEF BuildAside, BuildHere, SizesFit
    <2>. QED
      BY <2>1, <2>6, <2>7 DEF IInv, BuildBegun, TargetHere, TargetKept, TargetAside,
         TargetCompiled
  <1>. QED
    BY <1>3, <1>4

LEMMA EndAfterKeeps ==
  ASSUME IInv, EndAfter
  PROVE  IInv'
  <1>1. /\ pc = "after" /\ pc' = "clean" /\ tt' = tt /\ target' = target
        /\ UNCHANGED <<bits, BuildTable, CompileTable, buildIR>>
    BY DEF EndAfter, Goto, TableStep
  <1>2. WellTyped' /\ RegistersFit'
    BY <1>1 DEF IInv, WellTyped, RegistersFit, bits, Labels, ForHost
  <1>. QED
    BY <1>1, <1>2, IdleKeeps DEF Asking, TargetCompiled, tables

LEMMA NextTargetKeeps ==
  ASSUME IInv, NextTarget
  PROVE  IInv'
  <1>1. /\ pc = "clean" /\ pc' \in {"target", "done"}
        /\ RegisterBitSize' = SaveRegisterBitSize
        /\ SaveRegisterBitSize' = SaveRegisterBitSize
        /\ UNCHANGED <<tables, buildIR>>
        /\ pc' = "target" => target' = target + 1
        /\ pc' = "done" => target' = target
    BY DEF NextTarget, Goto
  <1>2. WellTyped'
    BY <1>1 DEF IInv, WellTyped, tables, Labels
  <1>3. RegistersFit'
    <2>1. target \in Nat \ {0} /\ SaveRegisterBitSize = BitsAt(target)
      BY <1>1 DEF IInv, RegistersFit
    <2>2. target' \in Nat \ {0} /\ (pc' = "target" => target' - 1 = target)
      BY <1>1, <2>1
    <2>. QED
      BY <1>1, <2>1, <2>2 DEF RegistersFit, ForHost
  <1>. QED
    BY <1>1, <1>2, <1>3, IdleKeeps DEF Asking, TargetCompiled

LEMMA StepKeepsInvariant == IInv /\ [Next]_vars => IInv'
  <1>. SUFFICES ASSUME IInv, [Next]_vars PROVE IInv'
    OBVIOUS
  <1>1. CASE UNCHANGED vars
    BY <1>1, NothingKeeps DEF vars
  <1>2. CASE \E n \in Structs : DeclareStruct(n)
    BY <1>2, DeclareStructKeeps
  <1>3. CASE \E i \in Types(tt) : InternPointer(i)
    BY <1>3, InternPointerKeeps
  <1>4. CASE StopOutput
    BY <1>4, NothingKeeps DEF StopOutput
  <1>5. CASE Exit
    BY <1>5, ExitKeeps
  <1>6. CASE SaveBuildTable
    BY <1>6, SaveBuildTableKeeps
  <1>7. CASE Configure
    BY <1>7, ConfigureKeeps
  <1>8. CASE StartPipeline
    BY <1>8, StartPipelineKeeps
  <1>9. CASE EndPipeline
    BY <1>9, EndPipelineKeeps
  <1>10. CASE StartInspect
    BY <1>10, StartInspectKeeps
  <1>11. CASE EndInspect
    BY <1>11, EndInspectKeeps
  <1>12. CASE StartComptime
    BY <1>12, StartComptimeKeeps
  <1>13. CASE EndComptime
    BY <1>13, EndComptimeKeeps
  <1>14. CASE StartGenerate
    BY <1>14, StartGenerateKeeps
  <1>15. CASE EndGenerate
    BY <1>15, EndGenerateKeeps
  <1>16. CASE EndLink
    BY <1>16, EndLinkKeeps
  <1>17. CASE EndAfter
    BY <1>17, EndAfterKeeps
  <1>18. CASE NextTarget
    BY <1>18, NextTargetKeeps
  <1>19. CASE Terminated
    BY <1>1, <1>19 DEF Terminated
  <1>. QED
    BY <1>1, <1>2, <1>3, <1>4, <1>5, <1>6, <1>7, <1>8, <1>9, <1>10, <1>11, <1>12, <1>13,
       <1>14, <1>15, <1>16, <1>17, <1>18, <1>19 DEF Next

-----------------------------------------------------------------------------
(* The theorems                                                            *)

(* The invariant of the driver: while the build program's table is aside it *)
(* keeps the types its IR speaks of, and the target's has no object but the *)
(* basic type, nor its dictionary, in common with it.                       *)
THEOREM InductiveInvariant == Spec => []IInv
  <1>1. Init => IInv
    BY StartsInvariant
  <1>2. IInv /\ [Next]_vars => IInv'
    BY StepKeepsInvariant
  <1>. QED
    BY <1>1, <1>2, PTL DEF Spec

(* The current table is a table: every slot refers to an object of the heap *)
(* and TypeMap to a dictionary, after any number of swaps (Type.cpp:130-180). *)
THEOREM TypeCorrect == Spec => []WellTyped
  <1>1. IInv => WellTyped
    BY DEF IInv
  <1>. QED
    BY <1>1, InductiveInvariant, PTL

(* What a target's compilation looks up by name or through a cached pointer  *)
(* is there, whatever the hooks and the targets before added.               *)
THEOREM TargetFindsItsTypes == Spec => []TargetTypesAreFound
  <1>1. IInv => TargetTypesAreFound
    <2>. SUFFICES ASSUME IInv, pc \in OfTarget
                  PROVE  /\ \A n \in DOMAIN Dict(tt) :
                                Dict(tt)[n] \in Types(tt) /\ Names(tt)[Dict(tt)[n]] = n
                         /\ \A i \in Types(tt) :
                                LET p == Entry(tt, i).pointer IN
                                p # Invalid => p \in Types(tt) /\ Names(tt)[p] = PointerName(tt, i)
      BY DEF TargetTypesAreFound
    <2>1. Found(tt)
      BY DEF IInv, TargetHere, TargetCompiled, OfTarget
    <2>2. \A i \in Types(tt) : Names(tt)[i] = Entry(tt, i).name
      BY DEF Names
    <2>. QED
      BY <2>1, <2>2 DEF Found, NamesFound, PointersFound
  <1>. QED
    BY <1>1, InductiveInvariant, PTL

(* An index in the IR means the type it meant when the IR was made, in the  *)
(* build program's hooks and for the target (Type.cpp:130-180).             *)
THEOREM IndicesAreStable == Spec => []IndicesKeepTheirMeaning
  <1>1. IInv => IndicesKeepTheirMeaning
    <2>. SUFFICES ASSUME IInv
                  PROVE  IndicesKeepTheirMeaning
      OBVIOUS
    <2>1. Table(tt) /\ NULLType = 2
      BY DEF IInv, WellTyped, NULLType, BasicTypesCount
    <2>2. ASSUME NEW ir, CurrentHas(tt, ir)
          PROVE  /\ \A i \in DOMAIN ir : i \in Types(tt) /\ Names(tt)[i] = ir[i]
                 /\ Names(tt)[NULLType] = <<"?*">>
      <3>1. PICK n \in NULLType .. tt.count : /\ DOMAIN ir = 1 .. n
                                              /\ \A i \in 1 .. n : Entry(tt, i).name = ir[i]
                                              /\ ir[NULLType] = <<"?*">>
        BY <2>2 DEF CurrentHas
      <3>2. tt.count \in Nat
        BY <2>1 DEF Table
      <3>3. NULLType \in 1 .. n /\ \A i \in 1 .. n : i \in Types(tt)
        BY <2>1, <3>2 DEF Types
      <3>. QED
        BY <3>1, <3>3 DEF Names
    <2>3. pc \in OfBuild => CurrentHas(tt, buildIR)
      BY DEF IInv, BuildHere
    <2>4. pc \in {"comptime", "generate"} => CurrentHas(tt, targetIR)
      BY DEF IInv, TargetKept, TargetCompiled
    <2>5. pc = "pipeline" => Names(tt)[NULLType] = <<"?*">>
      <3>1. tt.count \in Nat
        BY <2>1 DEF Table
      <3>. QED
        BY <2>1, <3>1 DEF IInv, TargetHere, Names, Types
    <2>. QED
      BY <2>2, <2>3, <2>4, <2>5 DEF IndicesKeepTheirMeaning, OfTarget, OfBuild
  <1>. QED
    BY <1>1, InductiveInvariant, PTL

(* Code is made at the size of its target, unless a 32-bit target came      *)
(* before, and interpreted at the host's; a size that was computed for one  *)
(* machine is not used on the other (Main.cpp:468-503, Type.cpp:130-180).   *)
THEOREM SizesAreOfTheMachine == Spec => []SizesFitTheMachine
  <1>1. IInv => SizesFitTheMachine
    <2>. SUFFICES ASSUME IInv
                  PROVE  SizesFitTheMachine
      OBVIOUS
    <2>1. pc \in ForHost => RegisterBitSize = HostBits
      BY DEF IInv, RegistersFit
    <2>2. pc \in ForTarget /\ ~LeftAt32 => RegisterBitSize = Bits(Arch)
      <3>. SUFFICES ASSUME pc \in ForTarget, ~LeftAt32
                    PROVE  RegisterBitSize = Bits(Arch)
        OBVIOUS
      <3>1. target \in Nat \ {0} /\ RegisterBitSize = BitsAt(target)
        BY DEF IInv, RegistersFit, ForTarget
      <3>2. CASE Arch \in Arches32
        BY <3>1, <3>2, BitsOfTargets DEF Arch, Bits
      <3>3. CASE Arch \notin Arches32
        <4>1. BitsAt(target - 1) = 64
          BY <3>3 DEF LeftAt32, BitsAt
        <4>. QED
          BY <3>1, <3>3, <4>1, BitsOfTargets DEF Arch, Bits
      <3>. QED
        BY <3>2, <3>3
    <2>. QED
      BY <2>1, <2>2 DEF IInv, SizesFitTheMachine, SizesFit, CurrentSizes
  <1>. QED
    BY <1>1, InductiveInvariant, PTL
=============================================================================
