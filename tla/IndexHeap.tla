------------------------------ MODULE IndexHeap ------------------------------
(***************************************************************************)
(* The binary heap of network_account_storage/index_heap.rs, kept in the   *)
(* array of an IndexMap.  An operation is one step up to the loop that     *)
(* moves a value to its place; each turn of the loop is a step.  No other  *)
(* operation begins before the loop ends: the heap is borrowed mutably.    *)
(*                                                                         *)
(* Values are ordered by Rank: the power of a stake, or the power and then *)
(* the operator of a pool.  A u32 index does not overflow: capacities are  *)
(* u16.                                                                    *)
(***************************************************************************)
EXTENDS IndexMap

CONSTANTS Rank,       \* the order of the values
          Failed,     \* IndexHeapOperationError
          Lists       \* what a caller resets a heap with

ASSUME RankIsNat == Rank \in [Value -> Nat]
ASSUME ListsAreSequences == Lists \subseteq Seq(Value)

VARIABLES heap,       \* the IndexMap
          sift,       \* the loop that runs, and the index it has reached
          pending,    \* the value insert_extract has still to insert
          out         \* what the last operation returned

vars == <<heap, sift, pending, out>>

Idle == [way |-> "none", at |-> 0]
Down(i) == [way |-> "down", at |-> i]
Up(i) == [way |-> "up", at |-> i]

Before(v, w) == Rank[v] < Rank[w]
Parent(i) == (i - 1) \div 2
Left(i) == 2 * i + 1
Right(i) == 2 * i + 2

Has(k) == heap.ki[k] # None

(* Variant: the index of v's key stays. *)
ReplaceKeepingKey(m, i, v, j, w) ==
    MapSet([len |-> m.len, ki |-> m.ki, iv |-> [m.iv EXCEPT ![j] = None]], i, w)

(* `replace': value w of index j goes to index i, value v of i goes away. *)
Replace(m, i, v, j, w) ==
    MapSet([len |-> m.len, ki |-> [m.ki EXCEPT ![v.key] = None],
            iv |-> [m.iv EXCEPT ![j] = None]], i, w)

(* `swap'. *)
Swap(m, i, v, j, w) == MapSet(MapSet(m, i, w), j, v)

Init == heap = EmptyMap /\ sift = Idle /\ pending = None /\ out = None

(* The caller's turn. *)
Ready == sift = Idle /\ pending = None

-----------------------------------------------------------------------------
(* Variant: no case of its own for a single value. *)
ExtractFirstUniform ==
    LET first == At(heap, 0)
        last  == At(heap, heap.len - 1)
    IN  /\ heap' = WithLength(Replace(heap, 0, first, heap.len - 1, last), heap.len - 1)
        /\ sift' = Down(0)

(* What `extract' does to a heap that is not empty, up to its loop. *)
ExtractFirst ==
    LET first == At(heap, 0)
        last  == At(heap, heap.len - 1)
    IN  /\ heap' = IF heap.len = 1 THEN MapDelete(WithLength(heap, 0), 0, first.key)
                   ELSE WithLength(Replace(heap, 0, first, heap.len - 1, last), heap.len - 1)
        /\ sift' = IF heap.len = 1 THEN Idle ELSE Down(0)

(* What `insert' does where there is room, up to its loop. *)
InsertLast(v) == /\ heap' = WithLength(MapSet(heap, heap.len, v), heap.len + 1)
                 /\ sift' = Up(heap.len)

Extract ==
    /\ Ready
    /\ IF heap.len = 0 THEN out' = None /\ UNCHANGED <<heap, sift>>
       ELSE out' = At(heap, 0) /\ ExtractFirst
    /\ UNCHANGED pending

(* Variant: the capacity is not looked at. *)
InsertAnyway(v) == /\ Ready
                   /\ out' = None
                   /\ InsertLast(v)
                   /\ UNCHANGED pending

(* `insert' looks for no earlier value of the key. *)
InsertUnchecked(v) ==
    /\ Ready
    /\ IF heap.len = Capacity THEN out' = Failed /\ UNCHANGED <<heap, sift>>
       ELSE out' = None /\ InsertLast(v)
    /\ UNCHANGED pending

(* Variant: a full heap always makes room. *)
InsertExtractAlways(v) ==
    /\ Ready
    /\ IF heap.len < Capacity THEN out' = None /\ InsertLast(v) /\ UNCHANGED pending
       ELSE out' = At(heap, 0) /\ ExtractFirst /\ pending' = v

InsertExtractUnchecked(v) ==
    /\ Ready
    /\ \/ /\ heap.len < Capacity
          /\ out' = None
          /\ InsertLast(v)
          /\ UNCHANGED pending
       \/ /\ heap.len = Capacity /\ Before(v, At(heap, 0))
          /\ out' = Failed
          /\ UNCHANGED <<heap, sift, pending>>
       \/ /\ heap.len = Capacity /\ ~Before(v, At(heap, 0))
          /\ out' = At(heap, 0)
          /\ ExtractFirst
          /\ pending' = v

(* A caller that inserts no key that is there. *)
Insert(v) == ~Has(v.key) /\ InsertUnchecked(v)
InsertExtract(v) == ~Has(v.key) /\ InsertExtractUnchecked(v)

(* The insertion of insert_extract, once its extraction is through.        *)
InsertPending ==
    /\ sift = Idle /\ pending # None
    /\ InsertLast(pending)
    /\ pending' = None
    /\ UNCHANGED out

ChangeKey(v) ==
    LET i == heap.ki[v.key]
    IN  /\ Ready
        /\ out' = None
        /\ IF i = None \/ i >= heap.len THEN UNCHANGED <<heap, sift>>
           ELSE \/ /\ Before(At(heap, i), v)
                   /\ heap' = MapSet(heap, i, v) /\ sift' = Down(i)
                \/ /\ Before(v, At(heap, i))
                   /\ heap' = MapSet(heap, i, v) /\ sift' = Up(i)
                \/ /\ Rank[v] = Rank[At(heap, i)]
                   /\ UNCHANGED <<heap, sift>>
        /\ UNCHANGED pending

(* Variant: the moved value only ever goes down. *)
RemoveItemDown(k) ==
    LET i    == heap.ki[k]
        this == At(heap, i)
        last == At(heap, heap.len - 1)
    IN  /\ Ready
        /\ out' = None
        /\ IF i = None \/ i >= heap.len THEN UNCHANGED <<heap, sift>>
           ELSE \/ i = 0 /\ ExtractFirst
                \/ /\ i # 0 /\ i = heap.len - 1
                   /\ heap' = WithLength(MapDelete(heap, i, k), heap.len - 1)
                   /\ UNCHANGED sift
                \/ /\ i # 0 /\ i # heap.len - 1
                   /\ heap' = WithLength(Replace(heap, i, this, heap.len - 1, last),
                                         heap.len - 1)
                   /\ sift' = Down(i)
        /\ UNCHANGED pending

(* The first value by an extraction, the last by a deletion, any other by  *)
(* moving the last to its place.                                           *)
RemoveItem(k) ==
    LET i    == heap.ki[k]
        this == At(heap, i)
        last == At(heap, heap.len - 1)
    IN  /\ Ready
        /\ out' = None
        /\ IF i = None \/ i >= heap.len THEN UNCHANGED <<heap, sift>>
           ELSE \/ i = 0 /\ ExtractFirst
                \/ /\ i # 0 /\ i = heap.len - 1
                   /\ heap' = WithLength(MapDelete(heap, i, k), heap.len - 1)
                   /\ UNCHANGED sift
                \/ /\ i # 0 /\ i # heap.len - 1
                   /\ heap' = WithLength(Replace(heap, i, this, heap.len - 1, last),
                                         heap.len - 1)
                   /\ sift' = IF Before(this, last) THEN Down(i)
                              ELSE IF Before(last, this) THEN Up(i) ELSE Idle
        /\ UNCHANGED pending

Clear == /\ Ready
         /\ heap' = MapClear(heap)
         /\ out' = None
         /\ UNCHANGED <<sift, pending>>

(* IndexMap::push, which a heap hands through by DerefMut: no value moves. *)
Push(v) ==
    /\ Ready
    /\ IF heap.len >= Capacity THEN out' = Failed /\ UNCHANGED heap
       ELSE out' = None /\ heap' = MapPush(heap, v)
    /\ UNCHANGED <<sift, pending>>

(* IndexMap::reset, which a heap hands through by DerefMut. *)
Reset(list) ==
    /\ Ready
    /\ IF Len(list) > Capacity THEN out' = Failed /\ UNCHANGED heap
       ELSE out' = None /\ heap' = MapFill(MapClear(heap), list)
    /\ UNCHANGED <<sift, pending>>

-----------------------------------------------------------------------------
(* Variant: the right child is not looked at. *)
LeftOf(m, i) ==
    IF Left(i) < m.len /\ Before(At(m, Left(i)), At(m, i)) THEN Left(i) ELSE i

(* `down_heapify': the child that is taken, if one is before its parent.   *)
HeadOf(m, i) ==
    LET l == IF Left(i) < m.len /\ Before(At(m, Left(i)), At(m, i)) THEN Left(i) ELSE i
    IN  IF Right(i) < m.len /\ Before(At(m, Right(i)), At(m, l)) THEN Right(i) ELSE l

DownHeapify ==
    LET i == sift.at
        h == HeadOf(heap, i)
    IN  /\ sift.way = "down"
        /\ IF h = i THEN sift' = Idle /\ UNCHANGED heap
           ELSE /\ heap' = Swap(heap, i, At(heap, i), h, At(heap, h))
                /\ sift' = Down(h)
        /\ UNCHANGED <<pending, out>>

(* Variant: the root is its own parent, and equal values are swapped. *)
UpHeapifyTies ==
    LET i == sift.at
        p == IF i = 0 THEN 0 ELSE Parent(i)
    IN  /\ sift.way = "up"
        /\ IF ~Before(At(heap, p), At(heap, i))
           THEN /\ heap' = Swap(heap, i, At(heap, i), p, At(heap, p))
                /\ sift' = Up(p)
           ELSE sift' = Idle /\ UNCHANGED heap
        /\ UNCHANGED <<pending, out>>

(* `up_heapify'. *)
UpHeapify ==
    LET i == sift.at
        p == Parent(i)
    IN  /\ sift.way = "up"
        /\ IF i # 0 /\ Before(At(heap, i), At(heap, p))
           THEN /\ heap' = Swap(heap, i, At(heap, i), p, At(heap, p))
                /\ sift' = Up(p)
           ELSE sift' = Idle /\ UNCHANGED heap
        /\ UNCHANGED <<pending, out>>

Loop == DownHeapify \/ UpHeapify \/ InsertPending

-----------------------------------------------------------------------------
(* Lists in the order of a heap, as `unordered_values' returns them. *)
InHeapOrder(list) ==
    /\ list \in Seq(Value)
    /\ \A i, j \in 1 .. Len(list) : list[i].key = list[j].key => i = j
    /\ \A j \in 2 .. Len(list) : Rank[list[j \div 2]] <= Rank[list[j]]

HeapLists == {list \in Lists : InHeapOrder(list)}

Operation == \/ Extract
             \/ \E v \in Value : Insert(v) \/ InsertExtract(v) \/ ChangeKey(v)
             \/ \E k \in Keys : RemoveItem(k)
             \/ Clear
             \/ \E list \in HeapLists : Reset(list)

Next == Operation \/ Loop

Spec == Init /\ [][Next]_vars

(* A caller that may insert a key that is there, and uses the methods of   *)
(* the map as well, as ValidatorPool's `push' resets the stakes with a     *)
(* list in any order.                                                      *)
AnyNext == \/ Next
           \/ \E v \in Value : \/ InsertUnchecked(v)
                              \/ InsertExtractUnchecked(v)
                              \/ Push(v)
           \/ \E list \in Lists : Reset(list)
AnySpec == Init /\ [][AnyNext]_vars

(* A loop of the code goes on until it breaks, whatever it finds. *)
FairAnySpec == AnySpec /\ WF_vars(Loop)
-----------------------------------------------------------------------------
(* Type invariant. *)
TypeOK ==
    /\ heap \in IndexMaps
    /\ sift \in [way : {"none", "down", "up"}, at : Index]
    /\ pending \in Value \cup {None}
    /\ out \in Value \cup {None, Failed}

(* Through every operation, and in the middle of every loop, the key index *)
(* and the array correspond one to one and no row is left of what was      *)
(* removed: no unwrap of a `get' in the heap can fail, and index_of_key    *)
(* never finds a value of another key.                                     *)
IndexExact == Exact(heap)

(* Whatever a caller does, with one key twice in the heap or the values in *)
(* no order, in the middle of every loop too: the array has no gap below   *)
(* the length and nothing above it, and a key has a value's index or none. *)
(* No unwrap of a `get' fails and index_of_key does not mislead; a value   *)
(* whose key went with another value of that key is still in the array.    *)
IndexSound ==
    /\ \A i \in Index : heap.iv[i] # None <=> i < heap.len
    /\ \A k \in Keys : Has(k) => heap.ki[k] < heap.len /\ heap.iv[heap.ki[k]].key = k

(* When an operation returns no value is before its parent: a moved value  *)
(* went in the right direction, and far enough.                            *)
HeapOrder ==
    Ready => \A i \in 1 .. heap.len - 1 :
                 ~Before(heap.iv[i], heap.iv[Parent(i)])

(* `extract' returns the least value ("extract the least value").          *)
FirstIsLeast ==
    Ready => \A i \in 0 .. heap.len - 1 : ~Before(heap.iv[i], heap.iv[0])

(* Every loop ends, so every operation returns. *)
OperationsReturn == ~Ready ~> Ready

(* The refinement: the values below the length, and the one on its way. *)
Queue == INSTANCE KeyedPriorityQueue WITH
             items <- ValuesIn(heap) \cup ({pending} \ {None}),
             Lists <- HeapLists

(* The heap implements the keyed priority queue. *)
ImplementsQueue == Queue!Spec
=============================================================================
