------------------------------ MODULE IndexMap ------------------------------
(***************************************************************************)
(* The keyed array of network_account_storage/index_map.rs.  It lives in   *)
(* three key spaces of a contract's storage: the length, KI from keys to   *)
(* indices, and IV from indices to values.  Nothing ties the three         *)
(* together but the order in which they are written.                       *)
(***************************************************************************)
EXTENDS Integers, Sequences, FiniteSetsExt

CONSTANTS Keys,       \* what KeySpaced::key returns
          Value,      \* records with a field `key'
          Capacity,
          None        \* no such row in the storage

ASSUME CapacityIsPositive == Capacity \in Nat \ {0}
ASSUME ValuesAreKeyed == \A v \in Value : v.key \in Keys
ASSUME NoneIsNothing == None \notin Value /\ None \notin 0..Capacity

Index == 0 .. Capacity - 1

IndexMaps == [len : 0..Capacity, ki : [Keys -> Index \cup {None}],
              iv : [Index -> Value \cup {None}]]

EmptyMap == [len |-> 0, ki |-> [k \in Keys |-> None], iv |-> [i \in Index |-> None]]

(* `get'. *)
At(m, i) == IF i >= Capacity THEN None ELSE m.iv[i]

(* `get_by'. *)
ByKey(m, k) == IF m.ki[k] = None THEN None ELSE At(m, m.ki[k])

(* `set'. *)
MapSet(m, i, v) ==
    [len |-> m.len, ki |-> [m.ki EXCEPT ![v.key] = i], iv |-> [m.iv EXCEPT ![i] = v]]

(* `delete'. *)
MapDelete(m, i, k) ==
    [len |-> m.len, ki |-> [m.ki EXCEPT ![k] = None], iv |-> [m.iv EXCEPT ![i] = None]]

(* `set_length'. *)
WithLength(m, n) == [len |-> n, ki |-> m.ki, iv |-> m.iv]

(* Variant: the index of a known key is kept. *)
MapPushKeepingIndex(m, v) ==
    [len |-> m.len + 1, iv |-> [m.iv EXCEPT ![m.len] = v],
     ki  |-> IF m.ki[v.key] = None THEN [m.ki EXCEPT ![v.key] = m.len] ELSE m.ki]

(* `push', where there is room: nothing looks whether the key is there.    *)
MapPush(m, v) == WithLength(MapSet(m, m.len, v), m.len + 1)

(* `clear': the key of every value, and the value, then the length. *)
MapClear(m) ==
    LET keys == {m.iv[i].key : i \in 0 .. m.len - 1}
    IN  [len |-> 0,
         ki  |-> [k \in Keys |-> IF k \in keys THEN None ELSE m.ki[k]],
         iv  |-> [i \in Index |-> IF i < m.len THEN None ELSE m.iv[i]]]

(* The rest of `reset', on a list that fits; a later duplicate wins in KI. *)
MapFill(m, list) ==
    LET last(k) == Max({j \in 1 .. Len(list) : list[j].key = k})
    IN  [len |-> Len(list),
         ki  |-> [k \in Keys |-> IF \E j \in 1 .. Len(list) : list[j].key = k
                                 THEN last(k) - 1 ELSE m.ki[k]],
         iv  |-> [i \in Index |-> IF i < Len(list) THEN list[i + 1] ELSE m.iv[i]]]

-----------------------------------------------------------------------------
(* KI and IV say the same: a one-to-one correspondence between the keys    *)
(* stored and the indices below the length, and no row besides.            *)
Exact(m) ==
    /\ \A i \in Index : IF i < m.len THEN m.iv[i] # None /\ m.ki[m.iv[i].key] = i
                        ELSE m.iv[i] = None
    /\ \A k \in Keys : m.ki[k] # None => m.iv[m.ki[k]] # None /\ m.iv[m.ki[k]].key = k

ValuesIn(m) == {m.iv[i] : i \in 0 .. m.len - 1}
=============================================================================
