------------------------------- MODULE Mapping -------------------------------
(***************************************************************************)
(* What a dictionary promises: a set of entries, at most one of a key.     *)
(* Add keeps the entry that is there and says so, AddOrReplace takes its   *)
(* place, a read answers the item of the key or the default.               *)
(***************************************************************************)
CONSTANTS Keys, Items, Default

VARIABLES entries,  \* pairs of a key and its item
          answer    \* the last call and what it answered
vars == <<entries, answer>>

Has(k) == \E v \in Items : <<k, v>> \in entries

Init == entries = {} /\ answer = <<"nothing">>

Add(k, v) ==
  \/ /\ Has(k)
     /\ answer' = <<"added", k, FALSE>>
     /\ UNCHANGED entries
  \/ /\ ~Has(k)
     /\ entries' = entries \cup {<<k, v>>}
     /\ answer' = <<"added", k, TRUE>>

AddOrReplace(k, v) ==
  /\ entries' = {e \in entries : e[1] # k} \cup {<<k, v>>}
  /\ answer' = <<"replaced", k>>

Get(k) ==
  /\ UNCHANGED entries
  /\ \/ \E v \in Items : <<k, v>> \in entries /\ answer' = <<"item", k, v>>
     \/ ~Has(k) /\ answer' = <<"item", k, Default>>

Contains(k) ==
  /\ UNCHANGED entries
  /\ \/ Has(k) /\ answer' = <<"contains", k, TRUE>>
     \/ ~Has(k) /\ answer' = <<"contains", k, FALSE>>

Next == \E k \in Keys : \/ Get(k) \/ Contains(k)
                        \/ \E v \in Items : Add(k, v) \/ AddOrReplace(k, v)

Spec == Init /\ [][Next]_vars
=============================================================================
