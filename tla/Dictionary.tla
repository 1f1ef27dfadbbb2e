----------------------------- MODULE Dictionary -----------------------------
(***************************************************************************)
(* dict<T> of Dict.h: open addressing with linear probing in three arrays  *)
(* (Control, Keys, Data_) that double when they are four fifths full.      *)
(* ReHash moves one old slot in a step; the rest of a call is one step.    *)
(*                                                                         *)
(* One dictionary with one owner.  A copy of it shares the arrays and has  *)
(* a Used of its own: what the users of copies meet (the table of #self    *)
(* functions, Semantics.cpp:1220) is not modelled.                         *)
(***************************************************************************)
EXTENDS Integers, FiniteSets

CONSTANTS Keys,         \* strings
          Items,        \* values of type T
          Hash,         \* murmur3_32 of each key
          BucketCount,  \* capacity of a new dictionary, 32 in the code
          Free,         \* a slot whose Control is zero
          Default       \* what a read answers for a key that is not there

ASSUME HashAssumption == Hash \in [Keys -> Nat]
ASSUME BucketAssumption == BucketCount \in Nat /\ BucketCount >= 2
ASSUME FreeAssumption == Free \notin Keys

VARIABLES slots,     \* the key of each slot, or Free (Control and Keys)
          items,     \* the item of each slot (Data_)
          capacity,
          used,      \* Used
          old,       \* ReHash's copies: the old slots and items
          at,        \* ReHash's index into them
          call,      \* the Add that is under way
          answer,
          mode       \* where the program stands
vars == <<slots, items, capacity, used, old, at, call, answer, mode>>

Empty(n) == [i \in 0 .. n - 1 |-> Free]
NoItems(n) == [i \in 0 .. n - 1 |-> Default]

-----------------------------------------------------------------------------
(* Probing: capacity is a power of two, so "& Mask" is the remainder.      *)

Home(k) == Hash[k] % capacity

Around(i, d) == IF i + d < capacity THEN i + d ELSE i + d - capacity

Probe(k, d) == Around(Home(k), d)

\* The first d slots of the probe of k hold other keys.
Passes(k, d) == \A e \in 0 .. d - 1 : slots[Probe(k, e)] \notin {Free, k}

\* The loop of Add_, Contains and GetUnstablePtr ends d slots from home.
StopsAt(k, d) == slots[Probe(k, d)] \in {Free, k} /\ Passes(k, d)

\* Mutant: only the hashes are compared.
FoundByHash(k, d) ==
  /\ slots[Probe(k, d)] \in Keys /\ Hash[slots[Probe(k, d)]] = Hash[k]
  /\ Passes(k, d)

FoundAt(k, d) == slots[Probe(k, d)] = k /\ Passes(k, d)

Missing(k) == \/ Passes(k, capacity)
              \/ \E d \in 0 .. capacity - 1 :
                    slots[Probe(k, d)] = Free /\ Passes(k, d)

-----------------------------------------------------------------------------
Init ==
  /\ slots = Empty(BucketCount) /\ items = NoItems(BucketCount)
  /\ capacity = BucketCount /\ used = 0
  /\ old = [slots |-> Empty(0), items |-> NoItems(0), capacity |-> 0]
  /\ at = 0
  /\ call = [key |-> Free, item |-> Default, replaces |-> FALSE]
  /\ answer = <<"nothing">> /\ mode = "idle"

\* Mutant: the table grows only once it is full.
Overfull == used > capacity

Crowded == (used + 1) * 10 > capacity * 8

\* Add and AddOrReplace up to the call of ReHash or of Add_.
BeginAdd(k, v, r) ==
  /\ mode = "idle"
  /\ call' = [key |-> k, item |-> v, replaces |-> r]
  /\ \/ /\ Crowded
        /\ old' = [slots |-> slots, items |-> items, capacity |-> capacity]
        /\ capacity' = 2 * capacity
        /\ slots' = Empty(2 * capacity) /\ items' = NoItems(2 * capacity)
        /\ used' = 0 /\ at' = 0 /\ mode' = "rehash"
     \/ /\ ~Crowded
        /\ mode' = "insert"
        /\ UNCHANGED <<slots, items, capacity, used, old, at>>
  /\ UNCHANGED answer

\* Add_ finds slot d of the probe free.
Fill(k, v, d) ==
  /\ slots[Probe(k, d)] = Free
  /\ slots' = [slots EXCEPT ![Probe(k, d)] = k]
  /\ items' = [items EXCEPT ![Probe(k, d)] = v]
  /\ used' = used + 1

\* Add_ finds the key.
Keep(k, d) == slots[Probe(k, d)] = k /\ UNCHANGED <<slots, items, used>>

\* One turn of the loop of ReHash.
MoveSlot ==
  /\ mode = "rehash" /\ at < old.capacity
  /\ at' = at + 1
  /\ \/ /\ old.slots[at] = Free
        /\ mode' = mode
        /\ UNCHANGED <<slots, items, used>>
     \/ /\ old.slots[at] # Free
        /\ \/ \E d \in 0 .. capacity - 1 :
                 /\ StopsAt(old.slots[at], d)
                 /\ \/ Fill(old.slots[at], old.items[at], d)
                    \/ Keep(old.slots[at], d)
                 /\ mode' = mode
           \/ /\ Passes(old.slots[at], capacity)
              /\ mode' = "failed"
              /\ UNCHANGED <<slots, items, used>>
  /\ UNCHANGED <<capacity, old, call, answer>>

\* ReHash frees the old arrays and returns.
EndReHash ==
  /\ mode = "rehash" /\ at = old.capacity
  /\ old' = [slots |-> Empty(0), items |-> NoItems(0), capacity |-> 0]
  /\ at' = 0 /\ mode' = "insert"
  /\ UNCHANGED <<slots, items, capacity, used, call, answer>>

\* Add_ and, in AddOrReplace, the assignment through GetUnstablePtr.
Insert ==
  /\ mode = "insert"
  /\ \/ \E d \in 0 .. capacity - 1 :
           /\ StopsAt(call.key, d)
           /\ \/ /\ Fill(call.key, call.item, d)
                 /\ answer' = IF call.replaces THEN <<"replaced", call.key>>
                                               ELSE <<"added", call.key, TRUE>>
              \/ /\ ~call.replaces
                 /\ Keep(call.key, d)
                 /\ answer' = <<"added", call.key, FALSE>>
              \/ /\ call.replaces
                 /\ slots[Probe(call.key, d)] = call.key
                 /\ items' = [items EXCEPT ![Probe(call.key, d)] = call.item]
                 /\ answer' = <<"replaced", call.key>>
                 /\ UNCHANGED <<slots, used>>
           /\ mode' = "idle"
     \/ /\ Passes(call.key, capacity)       \* Assert in Add_
        /\ mode' = "failed"
        /\ UNCHANGED <<slots, items, used, answer>>
  /\ UNCHANGED <<capacity, old, at, call>>

\* operator[]
Get(k) ==
  /\ mode = "idle"
  /\ \/ \E d \in 0 .. capacity - 1 :
           FoundAt(k, d) /\ answer' = <<"item", k, items[Probe(k, d)]>>
     \/ Missing(k) /\ answer' = <<"item", k, Default>>
  /\ UNCHANGED <<slots, items, capacity, used, old, at, call, mode>>

Contains(k) ==
  /\ mode = "idle"
  /\ \/ (\E d \in 0 .. capacity - 1 : FoundAt(k, d)) /\ answer' = <<"contains", k, TRUE>>
     \/ Missing(k) /\ answer' = <<"contains", k, FALSE>>
  /\ UNCHANGED <<slots, items, capacity, used, old, at, call, mode>>

Next == \/ \E k \in Keys : \/ Get(k) \/ Contains(k)
                           \/ \E v \in Items, r \in BOOLEAN : BeginAdd(k, v, r)
        \/ MoveSlot \/ EndReHash \/ Insert

Spec == Init /\ [][Next]_vars

-----------------------------------------------------------------------------
Occupied == {i \in 0 .. capacity - 1 : slots[i] # Free}

\* The old slots ReHash has not moved yet.
Waiting == {i \in at .. old.capacity - 1 : old.slots[i] # Free}

Entries == {<<slots[i], items[i]>> : i \in Occupied}
             \cup {<<old.slots[i], old.items[i]>> : i \in Waiting}

SlotsOf(n) == [0 .. n - 1 -> Keys \cup {Free}]
ItemsOf(n) == [0 .. n - 1 -> Items \cup {Default}]

TypeOK ==
  /\ capacity \in Nat /\ capacity >= BucketCount
  /\ slots \in SlotsOf(capacity) /\ items \in ItemsOf(capacity)
  /\ \A i \in Occupied : items[i] \in Items
  /\ used \in Nat /\ at \in Nat
  /\ old.capacity \in Nat /\ old.slots \in SlotsOf(old.capacity)
  /\ old.items \in ItemsOf(old.capacity)
  /\ \A i \in Waiting : old.items[i] \in Items
  /\ old = [slots |-> old.slots, items |-> old.items, capacity |-> old.capacity]
  /\ mode \in {"idle", "rehash", "insert", "failed"}
  /\ mode \in {"rehash", "insert"} => call.key \in Keys /\ call.item \in Items
  /\ call.replaces \in BOOLEAN

(* Nothing is hidden: from the home slot of a stored key to the slot that  *)
(* holds it there is no free one, and no second copy of it, so every probe *)
(* finds it (Add_, Contains, GetUnstablePtr; Dict.h).                      *)
NothingIsHidden ==
  \A k \in Keys, d \in 0 .. capacity - 1 :
     slots[Probe(k, d)] = k => Passes(k, d)

(* There is room: a probe for a key that is not stored meets a free slot,  *)
(* as Add_ asserts.                                                        *)
AlwaysRoom == mode # "failed"

(* The dictionary is a map: ReHash changes nothing a caller can see.       *)
M == INSTANCE Mapping WITH entries <- Entries, answer <- answer
ImplementsMapping == M!Spec
=============================================================================
