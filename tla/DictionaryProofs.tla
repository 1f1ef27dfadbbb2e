-------------------------- MODULE DictionaryProofs --------------------------
(***************************************************************************)
(* The dictionary is a map for every set of keys, every hash function and  *)
(* every initial capacity of two or more.                                  *)
(***************************************************************************)
EXTENDS Dictionary, FiniteSetTheorems, TLAPS

LEMMA RemainderInRange ==
  ASSUME NEW n \in Nat, NEW c \in Nat, c > 0
  PROVE  n % c \in 0 .. c - 1
  OBVIOUS

LEMMA AroundInRange ==
  ASSUME NEW c \in Nat, NEW i \in 0 .. c - 1, NEW d \in 0 .. c - 1
  PROVE  (IF i + d < c THEN i + d ELSE i + d - c) \in 0 .. c - 1
  OBVIOUS

(* A probe stays inside the arrays, meets every slot, and no slot twice.   *)
LEMMA ProbeInRange ==
  ASSUME TypeOK, NEW k \in Keys, NEW d \in 0 .. capacity - 1
  PROVE  Probe(k, d) \in 0 .. capacity - 1
  <1>1. Hash[k] \in Nat /\ capacity \in Nat /\ capacity > 0
    BY HashAssumption, BucketAssumption DEF TypeOK
  <1>2. Home(k) \in 0 .. capacity - 1
    BY <1>1, RemainderInRange DEF Home
  <1>. QED
    BY <1>1, <1>2 DEF Probe, Around

LEMMA ProbeReaches ==
  ASSUME TypeOK, NEW k \in Keys, NEW i \in 0 .. capacity - 1
  PROVE  \E d \in 0 .. capacity - 1 : Probe(k, d) = i
  <1>1. Hash[k] \in Nat /\ capacity \in Nat /\ capacity > 0
    BY HashAssumption, BucketAssumption DEF TypeOK
  <1>2. Home(k) \in 0 .. capacity - 1
    BY <1>1, RemainderInRange DEF Home
  <1>3. CASE i >= Home(k)
    <2>. DEFINE d == i - Home(k)
    <2>1. d \in 0 .. capacity - 1 /\ Probe(k, d) = i
      BY <1>1, <1>2, <1>3 DEF Probe, Around
    <2>. QED
      BY <2>1
  <1>4. CASE i < Home(k)
    <2>. DEFINE d == i + capacity - Home(k)
    <2>1. d \in 0 .. capacity - 1 /\ Probe(k, d) = i
      BY <1>1, <1>2, <1>4 DEF Probe, Around
    <2>. QED
      BY <2>1
  <1>. QED
    BY <1>1, <1>2, <1>3, <1>4

LEMMA ProbeInjective ==
  ASSUME TypeOK, NEW k \in Keys,
         NEW d \in 0 .. capacity - 1, NEW e \in 0 .. capacity - 1,
         Probe(k, d) = Probe(k, e)
  PROVE  d = e
  <1>1. Hash[k] \in Nat /\ capacity \in Nat /\ capacity > 0
    BY HashAssumption, BucketAssumption DEF TypeOK
  <1>2. Home(k) \in 0 .. capacity - 1
    BY <1>1, RemainderInRange DEF Home
  <1>. QED
    BY <1>1, <1>2 DEF Probe, Around

-----------------------------------------------------------------------------
Distinct ==
  /\ \A i, j \in Occupied : slots[i] = slots[j] => i = j
  /\ \A i, j \in Waiting : old.slots[i] = old.slots[j] => i = j
  /\ \A i \in Occupied, j \in Waiting : slots[i] # old.slots[j]

Counted == used = Cardinality(Occupied)

Loads ==
  /\ used * 10 <= capacity * 8
  /\ mode # "rehash" => Waiting = {}
  /\ mode = "rehash" => /\ used <= at /\ at <= old.capacity
                        /\ capacity = 2 * old.capacity /\ capacity >= 4
  /\ mode = "insert" => ~Crowded

IInv == TypeOK /\ Distinct /\ NothingIsHidden /\ Counted /\ Loads /\ AlwaysRoom

LEMMA OccupiedFinite ==
  ASSUME TypeOK
  PROVE  /\ IsFiniteSet(Occupied) /\ Cardinality(Occupied) \in Nat
         /\ IsFiniteSet(0 .. capacity - 1)
         /\ Cardinality(0 .. capacity - 1) = capacity
  <1>1. capacity \in Nat /\ capacity > 0
    BY BucketAssumption DEF TypeOK
  <1>2. IsFiniteSet(0 .. capacity - 1) /\ Cardinality(0 .. capacity - 1) = capacity
    BY <1>1, FS_Interval
  <1>3. Occupied \subseteq 0 .. capacity - 1
    BY DEF Occupied
  <1>. QED
    BY <1>2, <1>3, FS_Subset, FS_CardinalityType

LEMMA SomeSlotIsFree ==
  ASSUME TypeOK, Counted, used < capacity
  PROVE  \E i \in 0 .. capacity - 1 : slots[i] = Free
  <1>1. SUFFICES ASSUME \A i \in 0 .. capacity - 1 : slots[i] # Free
                 PROVE  FALSE
    OBVIOUS
  <1>2. Occupied = 0 .. capacity - 1
    BY <1>1 DEF Occupied
  <1>3. used = capacity
    BY <1>2, OccupiedFinite DEF Counted
  <1>. QED
    BY <1>3 DEF TypeOK

LEMMA ProbeDoesNotPassAll ==
  ASSUME TypeOK, Counted, used < capacity, NEW k \in Keys
  PROVE  ~Passes(k, capacity)
  <1>1. PICK i \in 0 .. capacity - 1 : slots[i] = Free
    BY SomeSlotIsFree
  <1>2. PICK d \in 0 .. capacity - 1 : Probe(k, d) = i
    BY ProbeReaches
  <1>. QED
    BY <1>1, <1>2 DEF Passes

LEMMA FreeMeansNotStored ==
  ASSUME TypeOK, NothingIsHidden, NEW k \in Keys, NEW d \in 0 .. capacity - 1,
         slots[Probe(k, d)] = Free, Passes(k, d)
  PROVE  \A i \in Occupied : slots[i] # k
  <1>1. SUFFICES ASSUME NEW i \in Occupied, slots[i] = k
                 PROVE  FALSE
    OBVIOUS
  <1>2. i \in 0 .. capacity - 1
    BY DEF Occupied
  <1>3. PICK e \in 0 .. capacity - 1 : Probe(k, e) = i
    BY <1>2, ProbeReaches
  <1>4. Passes(k, e)
    BY <1>1, <1>3 DEF NothingIsHidden
  <1>5. capacity \in Nat
    BY DEF TypeOK
  <1>6. ~(d < e)
    BY <1>4, <1>5 DEF Passes
  <1>7. ~(e < d)
    BY <1>1, <1>3, <1>5 DEF Passes
  <1>8. d # e
    BY <1>1, <1>3, FreeAssumption
  <1>. QED
    BY <1>5, <1>6, <1>7, <1>8

Here == {<<slots[i], items[i]>> : i \in Occupied}
There == {<<old.slots[i], old.items[i]>> : i \in Waiting}

(* Writing a new key where its probe ends.                                 *)
LEMMA FillKeeps ==
  ASSUME TypeOK, NothingIsHidden, Counted,
         \A i, j \in Occupied : slots[i] = slots[j] => i = j,
         NEW k \in Keys, NEW v \in Items, NEW d \in 0 .. capacity - 1,
         StopsAt(k, d), Fill(k, v, d), capacity' = capacity
  PROVE  /\ slots' \in SlotsOf(capacity) /\ items' \in ItemsOf(capacity)
         /\ \A i \in Occupied' : items'[i] \in Items
         /\ \A i, j \in Occupied' : slots'[i] = slots'[j] => i = j
         /\ NothingIsHidden' /\ Counted'
         /\ \A i \in Occupied' : slots'[i] = k \/ \E j \in Occupied : slots'[i] = slots[j]
         /\ Here' = Here \cup {<<k, v>>}
         /\ \A i \in Occupied : slots[i] # k
  <1>. DEFINE p == Probe(k, d)
  <1>1. p \in 0 .. capacity - 1
    BY ProbeInRange
  <1>2. slots[p] = Free /\ Passes(k, d)
    BY DEF Fill, StopsAt
  <1>3. \A i \in Occupied : slots[i] # k
    BY <1>2, FreeMeansNotStored
  <1>4. /\ slots' = [slots EXCEPT ![p] = k]
        /\ items' = [items EXCEPT ![p] = v]
        /\ used' = used + 1
    BY DEF Fill
  <1>5. /\ DOMAIN slots = 0 .. capacity - 1 /\ DOMAIN items = 0 .. capacity - 1
        /\ slots'[p] = k /\ items'[p] = v
        /\ \A i \in 0 .. capacity - 1 : i # p => slots'[i] = slots[i] /\ items'[i] = items[i]
    BY <1>1, <1>4 DEF TypeOK, SlotsOf, ItemsOf
  <1>. HIDE DEF p
  <1>6. Occupied' = Occupied \cup {p} /\ p \notin Occupied
    BY <1>1, <1>2, <1>5, FreeAssumption DEF Occupied
  <1>7. slots' \in SlotsOf(capacity) /\ items' \in ItemsOf(capacity)
    BY <1>1, <1>4 DEF TypeOK, SlotsOf, ItemsOf
  <1>8. \A i \in Occupied : i # p /\ slots'[i] = slots[i] /\ items'[i] = items[i]
    BY <1>5, <1>6 DEF Occupied
  <1>9. \A i \in Occupied' : items'[i] \in Items
    BY <1>5, <1>6, <1>8 DEF TypeOK
  <1>10. \A i, j \in Occupied' : slots'[i] = slots'[j] => i = j
    BY <1>3, <1>5, <1>6, <1>8
  <1>11. Counted'
    <2>1. Cardinality(Occupied \cup {p}) = Cardinality(Occupied) + 1
      BY <1>6, OccupiedFinite, FS_AddElement
    <2>. QED
      BY <2>1, <1>4, <1>6 DEF Counted
  <1>12. Here' = Here \cup {<<k, v>>}
    BY <1>5, <1>6, <1>8 DEF Here
  <1>13. NothingIsHidden'
    <2>1. \A l \in Keys, e \in 0 .. capacity - 1 : Probe(l, e)' = Probe(l, e)
      BY DEF Probe, Around, Home
    <2>2. SUFFICES ASSUME NEW l \in Keys, NEW e \in 0 .. capacity - 1,
                          slots'[Probe(l, e)] = l,
                          NEW f \in 0 .. e - 1
                   PROVE  slots'[Probe(l, f)] \notin {Free, l}
      <3>1. capacity \in Nat
        BY DEF TypeOK
      <3>2. \A e \in 0 .. capacity - 1 : \A f \in 0 .. e - 1 : f \in 0 .. capacity - 1
        BY <3>1
      <3>. QED
        BY <2>1, <2>2, <3>2 DEF NothingIsHidden, Passes
    <2>3. f \in 0 .. capacity - 1 /\ f < e
      BY DEF TypeOK
    <2>4. Probe(l, e) \in 0 .. capacity - 1 /\ Probe(l, f) \in 0 .. capacity - 1
      BY <2>3, ProbeInRange
    <2>5. CASE Probe(l, e) = p
      <3>1. l = k
        BY <2>2, <2>5, <1>5
      <3>2. e = d
        BY <3>1, <2>5, ProbeInjective DEF p
      <3>3. slots[Probe(l, f)] \notin {Free, l}
        BY <3>1, <3>2, <1>2 DEF Passes
      <3>4. Probe(l, f) # p
        BY <3>3, <1>2
      <3>. QED
        BY <3>3, <3>4, <2>4, <1>5
    <2>6. CASE Probe(l, e) # p
      <3>1. slots[Probe(l, e)] = l
        BY <2>2, <2>4, <2>6, <1>5
      <3>2. slots[Probe(l, f)] \notin {Free, l}
        BY <3>1 DEF NothingIsHidden, Passes
      <3>3. l # k
        BY <3>1, <2>4, <1>3, FreeAssumption DEF Occupied
      <3>4. CASE Probe(l, f) = p
        BY <3>2, <3>4, <1>2
      <3>5. CASE Probe(l, f) # p
        BY <3>2, <3>5, <2>4, <1>5
      <3>. QED
        BY <3>4, <3>5
    <2>. QED
      BY <2>5, <2>6
  <1>14. \A i \in Occupied' : slots'[i] = k \/ \E j \in Occupied : slots'[i] = slots[j]
    BY <1>5, <1>6, <1>8
  <1>. QED
    BY <1>3, <1>7, <1>9, <1>10, <1>11, <1>12, <1>13, <1>14

-----------------------------------------------------------------------------
LEMMA InitInv == Init => IInv
  <1>1. SUFFICES ASSUME Init PROVE IInv
    OBVIOUS
  <1>2. Occupied = {} /\ Waiting = {}
    BY <1>1, BucketAssumption DEF Init, Occupied, Waiting, Empty
  <1>3. TypeOK
    BY <1>1, <1>2, BucketAssumption DEF Init, TypeOK, Empty, NoItems, SlotsOf, ItemsOf
  <1>4. Distinct /\ AlwaysRoom
    BY <1>1, <1>2 DEF Distinct, AlwaysRoom, Init
  <1>5. Counted
    BY <1>1, <1>2, FS_EmptySet DEF Counted, Init
  <1>6. Loads
    BY <1>1, <1>2, BucketAssumption DEF Loads, Init
  <1>7. NothingIsHidden
    <2>1. \A i \in 0 .. capacity - 1 : slots[i] = Free
      BY <1>1 DEF Init, Empty
    <2>. QED
      BY <2>1, <1>3, ProbeInRange, FreeAssumption DEF NothingIsHidden
  <1>. QED
    BY <1>3, <1>4, <1>5, <1>6, <1>7 DEF IInv

LEMMA BeginAddKeeps ==
  ASSUME IInv, NEW k \in Keys, NEW v \in Items, NEW r \in BOOLEAN, BeginAdd(k, v, r)
  PROVE  IInv' /\ Entries' = Entries
  <1>. USE DEF IInv
  <1>1. Waiting = {} /\ mode = "idle"
    BY DEF Loads, BeginAdd
  <1>2. CASE Crowded
    <2>1. /\ old' = [slots |-> slots, items |-> items, capacity |-> capacity]
          /\ capacity' = 2 * capacity
          /\ slots' = Empty(2 * capacity) /\ items' = NoItems(2 * capacity)
          /\ used' = 0 /\ at' = 0 /\ mode' = "rehash"
          /\ call' = [key |-> k, item |-> v, replaces |-> r]
      BY <1>2 DEF BeginAdd
    <2>2. capacity \in Nat /\ capacity >= 2
      BY BucketAssumption DEF TypeOK
    <2>3. \A i \in 0 .. capacity' - 1 : slots'[i] = Free
      BY <2>1 DEF Empty
    <2>4. Occupied' = {} /\ Waiting' = Occupied
      BY <2>1, <2>3 DEF Occupied, Waiting
    <2>5. TypeOK'
      BY <2>1, <2>2, <2>4, BucketAssumption
      DEF TypeOK, Empty, NoItems, SlotsOf, ItemsOf
    <2>6. Distinct'
      BY <2>1, <2>4 DEF Distinct
    <2>7. Counted'
      BY <2>1, <2>4, FS_EmptySet DEF Counted
    <2>8. Loads' /\ AlwaysRoom'
      BY <2>1, <2>2 DEF Loads, AlwaysRoom
    <2>9. NothingIsHidden'
      <3>1. \A l \in Keys, e \in 0 .. capacity' - 1 : Probe(l, e)' \in 0 .. capacity' - 1
        <4>1. SUFFICES ASSUME NEW l \in Keys, NEW e \in 0 .. capacity' - 1
                       PROVE  Probe(l, e)' \in 0 .. capacity' - 1
          OBVIOUS
        <4>2. capacity' \in Nat /\ capacity' > 0 /\ Hash[l] \in Nat
          BY <2>1, <2>2, HashAssumption
        <4>3. Hash[l] % capacity' \in 0 .. capacity' - 1
          BY <4>2, RemainderInRange
        <4>4. Probe(l, e)' = IF (Hash[l] % capacity') + e < capacity'
                               THEN (Hash[l] % capacity') + e
                               ELSE (Hash[l] % capacity') + e - capacity'
          BY DEF Probe, Around, Home
        <4>. QED
          BY <4>2, <4>3, <4>4, AroundInRange
      <3>. QED
        BY <3>1, <2>3, FreeAssumption DEF NothingIsHidden
    <2>10. Entries' = Entries
      BY <2>1, <2>4, <1>1 DEF Entries
    <2>. QED
      BY <2>5, <2>6, <2>7, <2>8, <2>9, <2>10
  <1>3. CASE ~Crowded
    <2>1. /\ UNCHANGED <<slots, items, capacity, used, old, at>>
          /\ mode' = "insert" /\ call' = [key |-> k, item |-> v, replaces |-> r]
      BY <1>3 DEF BeginAdd
    <2>2. Occupied' = Occupied /\ Waiting' = Waiting /\ Entries' = Entries
      BY <2>1 DEF Occupied, Waiting, Entries
    <2>3. TypeOK'
      BY <2>1, <2>2 DEF TypeOK
    <2>4. Distinct' /\ Counted' /\ Loads' /\ AlwaysRoom'
      BY <2>1, <2>2, <1>1, <1>3 DEF Distinct, Counted, Loads, AlwaysRoom, Crowded
    <2>5. NothingIsHidden'
      BY <2>1 DEF NothingIsHidden, Passes, Probe, Around, Home
    <2>. QED
      BY <2>2, <2>3, <2>4, <2>5
  <1>. QED
    BY <1>2, <1>3

LEMMA MoveSlotKeeps ==
  ASSUME IInv, MoveSlot
  PROVE  IInv' /\ Entries' = Entries
  <1>. USE DEF IInv
  <1>1. /\ mode = "rehash" /\ at \in Nat /\ old.capacity \in Nat
        /\ used \in Nat /\ capacity \in Nat /\ at < old.capacity /\ at' = at + 1
        /\ UNCHANGED <<capacity, old, call, answer>>
        /\ used <= at /\ capacity = 2 * old.capacity /\ capacity >= 4
    BY DEF MoveSlot, TypeOK, Loads
  <1>2. CASE old.slots[at] = Free
    <2>1. UNCHANGED <<slots, items, used, mode>>
      BY <1>2, FreeAssumption DEF MoveSlot
    <2>2. Occupied' = Occupied /\ Waiting' = Waiting
      BY <1>1, <1>2, <2>1 DEF Occupied, Waiting
    <2>3. TypeOK'
      BY <1>1, <2>1, <2>2 DEF TypeOK
    <2>4. Distinct' /\ Counted' /\ AlwaysRoom' /\ Entries' = Entries
      BY <1>1, <2>1, <2>2 DEF Distinct, Counted, AlwaysRoom, Entries
    <2>5. Loads'
      BY <1>1, <2>1, <2>2 DEF Loads
    <2>6. NothingIsHidden'
      BY <1>1, <2>1 DEF NothingIsHidden, Passes, Probe, Around, Home
    <2>. QED
      BY <2>3, <2>4, <2>5, <2>6
  <1>3. CASE old.slots[at] # Free
    <2>. DEFINE k == old.slots[at]
                v == old.items[at]
    <2>1. at \in Waiting
      BY <1>1, <1>3 DEF Waiting
    <2>2. k \in Keys /\ v \in Items
      BY <1>1, <1>3, <2>1 DEF TypeOK, SlotsOf
    <2>3. Waiting = Waiting' \cup {at} /\ at \notin Waiting'
      BY <1>1, <2>1 DEF Waiting
    <2>4. ~Passes(k, capacity)
      BY <1>1, <2>2, ProbeDoesNotPassAll
    <2>5. PICK d \in 0 .. capacity - 1 :
             /\ StopsAt(k, d) /\ (Fill(k, v, d) \/ Keep(k, d)) /\ mode' = mode
      BY <1>3, <2>4 DEF MoveSlot
    <2>6. Fill(k, v, d)
      <3>1. Probe(k, d) \in 0 .. capacity - 1
        BY <2>2, ProbeInRange
      <3>2. slots[Probe(k, d)] # k
        BY <3>1, <2>1, <1>3 DEF Distinct, Occupied
      <3>. QED
        BY <3>2, <2>5 DEF Keep
    <2>. HIDE DEF k, v
    <2>7. /\ slots' \in SlotsOf(capacity) /\ items' \in ItemsOf(capacity)
          /\ \A i \in Occupied' : items'[i] \in Items
          /\ \A i, j \in Occupied' : slots'[i] = slots'[j] => i = j
          /\ NothingIsHidden' /\ Counted'
          /\ \A i \in Occupied' : slots'[i] = k \/ \E j \in Occupied : slots'[i] = slots[j]
          /\ Here' = Here \cup {<<k, v>>}
      BY <1>1, <2>2, <2>5, <2>6, FillKeeps DEF Distinct
    <2>8. used' = used + 1 /\ mode' = mode
      BY <2>5, <2>6 DEF Fill
    <2>9. TypeOK'
      BY <1>1, <2>3, <2>7, <2>8 DEF TypeOK
    <2>10. Distinct'
      <3>1. \A i, j \in Waiting' : old'.slots[i] = old'.slots[j] => i = j
        BY <1>1, <2>3 DEF Distinct
      <3>2. ASSUME NEW i \in Occupied', NEW j \in Waiting'
            PROVE  slots'[i] # old'.slots[j]
        <4>1. k # old.slots[j]
          BY <2>1, <2>3 DEF Distinct, k
        <4>2. \A n \in Occupied : slots[n] # old.slots[j]
          BY <2>3 DEF Distinct
        <4>. QED
          BY <4>1, <4>2, <2>7, <1>1
      <3>. QED
        BY <3>1, <3>2, <2>7 DEF Distinct
    <2>11. Loads' /\ AlwaysRoom'
      BY <1>1, <2>8 DEF Loads, AlwaysRoom
    <2>12. Entries' = Entries
      <3>1. There = There' \cup {<<k, v>>}
        BY <1>1, <2>3 DEF There, k, v
      <3>2. Entries = Here \cup There /\ Entries' = Here' \cup There'
        BY DEF Entries, Here, There
      <3>. QED
        BY <3>1, <3>2, <2>7
    <2>. QED
      BY <2>7, <2>9, <2>10, <2>11, <2>12
  <1>. QED
    BY <1>2, <1>3

LEMMA EndReHashKeeps ==
  ASSUME IInv, EndReHash
  PROVE  IInv' /\ Entries' = Entries
  <1>. USE DEF IInv
  <1>1. /\ mode = "rehash" /\ at = old.capacity /\ mode' = "insert" /\ at' = 0
        /\ old' = [slots |-> Empty(0), items |-> NoItems(0), capacity |-> 0]
        /\ UNCHANGED <<slots, items, capacity, used, call, answer>>
    BY DEF EndReHash
  <1>2. Waiting = {} /\ Waiting' = {} /\ Occupied' = Occupied
    BY <1>1 DEF Waiting, Occupied, TypeOK
  <1>3. TypeOK'
    BY <1>1, <1>2 DEF TypeOK, Empty, NoItems, SlotsOf, ItemsOf
  <1>4. Distinct' /\ Counted' /\ AlwaysRoom' /\ Entries' = Entries
    BY <1>1, <1>2 DEF Distinct, Counted, AlwaysRoom, Entries
  <1>5. Loads'
    BY <1>1, <1>2 DEF Loads, Crowded, TypeOK
  <1>6. NothingIsHidden'
    BY <1>1 DEF NothingIsHidden, Passes, Probe, Around, Home
  <1>. QED
    BY <1>3, <1>4, <1>5, <1>6

LEMMA InsertKeeps ==
  ASSUME IInv, Insert
  PROVE  IInv' /\ M!Next
  <1>. USE DEF IInv
  <1>. DEFINE k == call.key
              v == call.item
  <1>1. /\ mode = "insert" /\ used \in Nat /\ capacity \in Nat /\ k \in Keys /\ v \in Items
        /\ UNCHANGED <<capacity, old, at, call>> /\ Waiting = {}
        /\ capacity >= 2 /\ ~Crowded
    BY BucketAssumption DEF Insert, TypeOK, Loads
  <1>2. ~Passes(k, capacity)
    <2>1. used < capacity
      BY <1>1 DEF Crowded
    <2>. QED
      BY <1>1, <2>1, ProbeDoesNotPassAll
  <1>3. PICK d \in 0 .. capacity - 1 :
           /\ StopsAt(k, d)
           /\ \/ /\ Fill(k, v, d)
                 /\ answer' = IF call.replaces THEN <<"replaced", k>>
                                               ELSE <<"added", k, TRUE>>
              \/ /\ ~call.replaces
                 /\ Keep(k, d)
                 /\ answer' = <<"added", k, FALSE>>
              \/ /\ call.replaces
                 /\ slots[Probe(k, d)] = k
                 /\ items' = [items EXCEPT ![Probe(k, d)] = v]
                 /\ answer' = <<"replaced", k>>
                 /\ UNCHANGED <<slots, used>>
    BY <1>2 DEF Insert
  <1>4. mode' = "idle"
    BY <1>2 DEF Insert
  <1>. HIDE DEF k, v
  <1>5. Waiting' = {}
    BY <1>1 DEF Waiting
  <1>6. Entries = Here /\ Entries' = Here'
    BY <1>1, <1>5 DEF Entries, Here
  <1>7. Probe(k, d) \in 0 .. capacity - 1
    BY <1>1, ProbeInRange
  <1>8. call.replaces \in BOOLEAN
    BY DEF TypeOK
  <1>9. CASE Fill(k, v, d)
    <2>1. /\ slots' \in SlotsOf(capacity) /\ items' \in ItemsOf(capacity)
          /\ \A i \in Occupied' : items'[i] \in Items
          /\ \A i, j \in Occupied' : slots'[i] = slots'[j] => i = j
          /\ NothingIsHidden' /\ Counted'
          /\ Here' = Here \cup {<<k, v>>}
          /\ \A i \in Occupied : slots[i] # k
      BY <1>1, <1>3, <1>9, FillKeeps DEF Distinct
    <2>2. used' = used + 1
      BY <1>9 DEF Fill
    <2>3. TypeOK'
      BY <1>1, <1>4, <1>5, <2>1, <2>2 DEF TypeOK
    <2>4. Distinct' /\ AlwaysRoom'
      BY <1>4, <1>5, <2>1 DEF Distinct, AlwaysRoom
    <2>5. Loads'
      BY <1>1, <1>4, <1>5, <2>2 DEF Loads, Crowded
    <2>6. ~M!Has(k) /\ {e \in Here : e[1] # k} = Here
      BY <1>6, <2>1 DEF M!Has, Here
    <2>7. slots[Probe(k, d)] = Free /\ Free # k
      BY <1>1, <1>9, FreeAssumption DEF Fill
    <2>8. CASE call.replaces
      <3>1. answer' = <<"replaced", k>>
        BY <1>3, <2>7, <2>8 DEF Keep
      <3>2. M!AddOrReplace(k, v)
        BY <1>6, <2>1, <2>6, <3>1 DEF M!AddOrReplace
      <3>. QED
        BY <1>1, <2>1, <2>3, <2>4, <2>5, <3>2 DEF M!Next
    <2>9. CASE ~call.replaces
      <3>1. answer' = <<"added", k, TRUE>>
        BY <1>3, <2>7, <2>9 DEF Keep
      <3>2. M!Add(k, v)
        BY <1>6, <2>1, <2>6, <3>1 DEF M!Add
      <3>. QED
        BY <1>1, <2>1, <2>3, <2>4, <2>5, <3>2 DEF M!Next
    <2>. QED
      BY <2>8, <2>9
  <1>10. ASSUME slots[Probe(k, d)] = k
         PROVE  Probe(k, d) \in Occupied
    BY <1>1, <1>7, <1>10, FreeAssumption DEF Occupied
  <1>11. CASE Keep(k, d) /\ ~call.replaces /\ answer' = <<"added", k, FALSE>>
    <2>1. UNCHANGED <<slots, items, used>> /\ slots[Probe(k, d)] = k
      BY <1>11 DEF Keep
    <2>2. Occupied' = Occupied /\ Here' = Here
      BY <1>1, <2>1 DEF Occupied, Here
    <2>3. TypeOK'
      BY <1>1, <1>4, <1>5, <2>1, <2>2 DEF TypeOK
    <2>4. Distinct' /\ AlwaysRoom' /\ Counted'
      BY <1>4, <1>5, <2>1, <2>2 DEF Distinct, AlwaysRoom, Counted
    <2>5. Loads'
      BY <1>1, <1>4, <1>5, <2>1 DEF Loads
    <2>6. NothingIsHidden'
      BY <1>1, <2>1 DEF NothingIsHidden, Passes, Probe, Around, Home
    <2>7. M!Has(k)
      <3>1. <<k, items[Probe(k, d)]>> \in Here /\ items[Probe(k, d)] \in Items
        BY <1>10, <2>1 DEF Here, TypeOK
      <3>. QED
        BY <3>1, <1>6 DEF M!Has
    <2>8. M!Add(k, v)
      BY <1>6, <1>11, <2>2, <2>7 DEF M!Add
    <2>. QED
      BY <1>1, <2>3, <2>4, <2>5, <2>6, <2>8 DEF M!Next
  <1>12. CASE /\ slots[Probe(k, d)] = k
              /\ items' = [items EXCEPT ![Probe(k, d)] = v]
              /\ answer' = <<"replaced", k>> /\ UNCHANGED <<slots, used>>
    <2>. DEFINE p == Probe(k, d)
    <2>1. p \in Occupied /\ slots[p] = k
      BY <1>10, <1>12
    <2>2. Occupied' = Occupied
      BY <1>1, <1>12 DEF Occupied
    <2>. HIDE DEF p
    <2>3. /\ items' \in ItemsOf(capacity) /\ items'[p] = v
          /\ \A i \in Occupied : i # p => items'[i] = items[i]
      BY <1>1, <1>7, <1>12 DEF TypeOK, ItemsOf, Occupied, p
    <2>4. TypeOK'
      BY <1>1, <1>4, <1>5, <1>12, <2>2, <2>3 DEF TypeOK
    <2>5. Distinct' /\ AlwaysRoom' /\ Counted'
      BY <1>4, <1>5, <1>12, <2>2 DEF Distinct, AlwaysRoom, Counted
    <2>6. Loads'
      BY <1>1, <1>4, <1>5, <1>12 DEF Loads
    <2>7. NothingIsHidden'
      BY <1>1, <1>12 DEF NothingIsHidden, Passes, Probe, Around, Home
    <2>8. \A i \in Occupied : slots[i] = k <=> i = p
      BY <2>1 DEF Distinct
    <2>9. Here' = {e \in Here : e[1] # k} \cup {<<k, v>>}
      <3>1. Here' = {<<slots[i], items'[i]>> : i \in Occupied}
        BY <1>12, <2>2 DEF Here
      <3>2. ASSUME NEW e \in Here' PROVE e \in {x \in Here : x[1] # k} \cup {<<k, v>>}
        <4>1. PICK i \in Occupied : e = <<slots[i], items'[i]>>
          BY <3>1
        <4>. QED
          BY <4>1, <2>1, <2>3, <2>8 DEF Here
      <3>3. ASSUME NEW e \in Here, e[1] # k PROVE e \in Here'
        <4>1. PICK i \in Occupied : e = <<slots[i], items[i]>>
          BY DEF Here
        <4>. QED
          BY <4>1, <3>1, <3>3, <2>3, <2>8
      <3>4. <<k, v>> \in Here'
        BY <3>1, <2>1, <2>3
      <3>. QED
        BY <3>2, <3>3, <3>4
    <2>10. M!AddOrReplace(k, v)
      BY <1>6, <1>12, <2>9 DEF M!AddOrReplace
    <2>. QED
      BY <1>1, <2>4, <2>5, <2>6, <2>7, <2>10 DEF M!Next
  <1>. QED
    BY <1>3, <1>9, <1>11, <1>12

LEMMA ReadsKeep ==
  ASSUME IInv, NEW k \in Keys, Get(k) \/ Contains(k)
  PROVE  IInv' /\ M!Next
  <1>. USE DEF IInv
  <1>1. /\ UNCHANGED <<slots, items, capacity, used, old, at, call, mode>> /\ mode = "idle"
        /\ capacity \in Nat
    BY DEF Get, Contains, TypeOK
  <1>2. Occupied' = Occupied /\ Waiting' = Waiting /\ Entries' = Entries /\ Waiting = {}
    BY <1>1 DEF Occupied, Waiting, Entries, Loads
  <1>3. IInv'
    BY <1>1, <1>2 DEF TypeOK, Distinct, Counted, Loads, Crowded, AlwaysRoom,
                      NothingIsHidden, Passes, Probe, Around, Home
  <1>4. Entries = Here
    BY <1>2 DEF Entries, Here
  <1>5. ASSUME NEW d \in 0 .. capacity - 1, FoundAt(k, d)
        PROVE  /\ items[Probe(k, d)] \in Items
               /\ <<k, items[Probe(k, d)]>> \in Entries
    <2>1. Probe(k, d) \in Occupied /\ slots[Probe(k, d)] = k
      BY <1>5, ProbeInRange, FreeAssumption DEF FoundAt, Occupied
    <2>. QED
      BY <2>1, <1>4 DEF Here, TypeOK
  <1>6. ASSUME Missing(k)
        PROVE  ~M!Has(k)
    <2>1. \A i \in Occupied : slots[i] # k
      <3>1. CASE Passes(k, capacity)
        <4>1. SUFFICES ASSUME NEW i \in Occupied, slots[i] = k PROVE FALSE
          OBVIOUS
        <4>2. PICK e \in 0 .. capacity - 1 : Probe(k, e) = i
          BY ProbeReaches DEF Occupied
        <4>. QED
          BY <3>1, <4>1, <4>2 DEF Passes
      <3>. QED
        BY <1>6, <3>1, FreeMeansNotStored DEF Missing
    <2>. QED
      BY <2>1, <1>4 DEF M!Has, Here
  <1>7. CASE Get(k)
    <2>1. M!Get(k)
      BY <1>2, <1>5, <1>6, <1>7 DEF Get, M!Get
    <2>. QED
      BY <1>3, <2>1 DEF M!Next
  <1>8. CASE Contains(k)
    <2>1. (\E d \in 0 .. capacity - 1 : FoundAt(k, d)) => M!Has(k)
      BY <1>5 DEF M!Has
    <2>2. M!Contains(k)
      BY <1>2, <2>1, <1>6, <1>8 DEF Contains, M!Contains
    <2>. QED
      BY <1>3, <2>2 DEF M!Next
  <1>. QED
    BY <1>7, <1>8

LEMMA NextInv ==
  ASSUME IInv, [Next]_vars
  PROVE  IInv' /\ [M!Next]_(M!vars)
  <1>1. CASE \E k \in Keys : Get(k) \/ Contains(k)
    BY <1>1, ReadsKeep
  <1>2. CASE \E k \in Keys, v \in Items, r \in BOOLEAN : BeginAdd(k, v, r)
    BY <1>2, BeginAddKeeps DEF BeginAdd, M!vars
  <1>3. CASE MoveSlot
    BY <1>3, MoveSlotKeeps DEF MoveSlot, M!vars
  <1>4. CASE EndReHash
    BY <1>4, EndReHashKeeps DEF EndReHash, M!vars
  <1>5. CASE Insert
    BY <1>5, InsertKeeps
  <1>6. CASE UNCHANGED vars
    BY <1>6 DEF vars, M!vars, IInv, TypeOK, Distinct, Counted, Loads, Crowded,
                AlwaysRoom, NothingIsHidden, Passes, Probe, Around, Home,
                Occupied, Waiting, Entries
  <1>. QED
    BY <1>1, <1>2, <1>3, <1>4, <1>5, <1>6 DEF Next

-----------------------------------------------------------------------------
(* The inductive invariant of dict<T>: keys are stored once, in reach of   *)
(* their home slot, used counts them, and every call leaves room (Dict.h). *)
THEOREM InductiveInvariant == Spec => []IInv
  <1>1. Init => IInv
    BY InitInv
  <1>2. IInv /\ [Next]_vars => IInv'
    BY NextInv
  <1>. QED
    BY <1>1, <1>2, PTL DEF Spec

(* The arrays, the counts and the pending call stay of their types.        *)
THEOREM TypeCorrect == Spec => []TypeOK
  <1>1. IInv => TypeOK
    BY DEF IInv
  <1>. QED
    BY <1>1, InductiveInvariant, PTL

(* Every stored key is found by the probe that looks for it.               *)
THEOREM EveryKeyIsFound == Spec => []NothingIsHidden
  <1>1. IInv => NothingIsHidden
    BY DEF IInv
  <1>. QED
    BY <1>1, InductiveInvariant, PTL

(* The assertion in Add_ never fails for a dictionary that is not copied.  *)
THEOREM TheAssertionHolds == Spec => []AlwaysRoom
  <1>1. IInv => AlwaysRoom
    BY DEF IInv
  <1>. QED
    BY <1>1, InductiveInvariant, PTL

(* A dictionary is a map, and a rehash is not seen by its users.           *)
THEOREM DictionaryIsMap == Spec => ImplementsMapping
  <1>1. Init => M!Init
    BY BucketAssumption DEF Init, M!Init, Entries, Occupied, Waiting, Empty
  <1>2. IInv /\ [Next]_vars => [M!Next]_(M!vars)
    BY NextInv
  <1>. QED
    BY <1>1, <1>2, InductiveInvariant, PTL DEF Spec, ImplementsMapping, M!Spec
=============================================================================
