------------------------- MODULE KeyedPriorityQueue -------------------------
(***************************************************************************)
(* What an IndexHeap promises, without indices: a bounded collection of    *)
(* values, one per key, from which a least one is extracted.               *)
(***************************************************************************)
EXTENDS Naturals, FiniteSets, Sequences

CONSTANTS Keys, Value, Rank, Capacity, None, Failed, Lists

VARIABLES items,     \* the values
          out        \* what the last operation returned

vars == <<items, out>>

Key(v) == v.key
KeysOf(S) == {Key(v) : v \in S}
Least(S) == {v \in S : \A w \in S : Rank[v] <= Rank[w]}
Full == Cardinality(items) = Capacity

Init == items = {} /\ out = None

Extract == \/ /\ items = {}
              /\ out' = None
              /\ UNCHANGED items
           \/ \E v \in Least(items) : out' = v /\ items' = items \ {v}

Insert(v) == /\ Key(v) \notin KeysOf(items)
             /\ IF Full THEN out' = Failed /\ UNCHANGED items
                ELSE out' = None /\ items' = items \cup {v}

InsertExtract(v) ==
    /\ Key(v) \notin KeysOf(items)
    /\ \/ ~Full /\ out' = None /\ items' = items \cup {v}
       \/ /\ Full /\ \A w \in items : Rank[v] < Rank[w]
          /\ out' = Failed
          /\ UNCHANGED items
       \/ /\ Full
          /\ \E w \in Least(items) : /\ Rank[v] >= Rank[w]
                                     /\ out' = w
                                     /\ items' = (items \ {w}) \cup {v}

ChangeKey(v) ==
    /\ out' = None
    /\ items' = IF \E w \in items : Key(w) = Key(v) /\ Rank[w] # Rank[v]
                THEN {w \in items : Key(w) # Key(v)} \cup {v} ELSE items

RemoveItem(k) == /\ out' = None
                 /\ items' = {v \in items : Key(v) # k}

(* Clear is the reset with the empty list. *)
Reset(list) == IF Len(list) > Capacity THEN out' = Failed /\ UNCHANGED items
               ELSE out' = None /\ items' = {list[j] : j \in 1 .. Len(list)}

Next == \/ Extract
        \/ \E v \in Value : Insert(v) \/ InsertExtract(v) \/ ChangeKey(v)
        \/ \E k \in Keys : RemoveItem(k)
        \/ \E list \in Lists \cup {<<>>} : Reset(list)

Spec == Init /\ [][Next]_vars
=============================================================================
