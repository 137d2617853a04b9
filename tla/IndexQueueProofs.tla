-------------------------- MODULE IndexQueueProofs --------------------------
(***************************************************************************)
(* The index heap implements the keyed priority queue, for every capacity, *)
(* set of keys and order of values.  An operation is a step of the queue   *)
(* at its first step; the turns of its loop, and the second half of        *)
(* insert_extract, change nothing a queue knows of.                        *)
(***************************************************************************)
EXTENDS IndexHeapProofs, FiniteSetTheorems

-----------------------------------------------------------------------------
(* What each way of writing the map does to the set of its values. *)

(* Different places of an exact map have values of different keys. *)
LEMMA ValuesApart ==
    ASSUME NEW m \in IndexMaps, Exact(m), NEW i \in 0 .. m.len - 1, NEW j \in 0 .. m.len - 1,
           m.iv[i].key = m.iv[j].key
    PROVE  i = j
  BY Stored

(* A key has an index where some value has the key. *)
LEMMA KeyOfValue ==
    ASSUME NEW m \in IndexMaps, Exact(m), NEW k \in Keys
    PROVE  /\ m.ki[k] # None <=> \E w \in ValuesIn(m) : w.key = k
           /\ \A w \in ValuesIn(m) : w.key = k => w = m.iv[m.ki[k]]
<1>1. ASSUME m.ki[k] # None PROVE \E w \in ValuesIn(m) : w.key = k
  BY <1>1, Found DEF ValuesIn
<1>2. ASSUME NEW w \in ValuesIn(m), w.key = k
      PROVE  m.ki[k] # None /\ w = m.iv[m.ki[k]]
  <2>1. PICK i \in 0 .. m.len - 1 : w = m.iv[i] BY DEF ValuesIn
  <2>2. m.ki[k] = i /\ i \in Index BY <1>2, <2>1, Stored
  <2> QED BY <2>1, <2>2, IndexIsNotNone
<1> QED BY <1>1, <1>2

(* What an exact map stores is values. *)
LEMMA ValuesTyped ==
    ASSUME NEW m \in IndexMaps, Exact(m)
    PROVE  ValuesIn(m) \subseteq Value
  BY Stored DEF ValuesIn

(* There are as many values as the length says. *)
LEMMA CountOfValues ==
    ASSUME NEW m \in IndexMaps, Exact(m)
    PROVE  IsFiniteSet(ValuesIn(m)) /\ Cardinality(ValuesIn(m)) = m.len
<1> DEFINE S == 0 .. m.len - 1
           T == ValuesIn(m)
           f == [i \in S |-> m.iv[i]]
<1>1. m.len \in Nat BY CapacityIsPositive DEF IndexMaps
<1>2. IsFiniteSet(S) /\ Cardinality(S) = m.len
  <2> DEFINE e == m.len - 1
  <2>1. 0 \in Int /\ e \in Int
    BY <1>1
  <2> HIDE DEF e
  <2>2. /\ IsFiniteSet(0 .. e)
        /\ Cardinality(0 .. e) = IF 0 > e THEN 0 ELSE e - 0 + 1
    BY ONLY <2>1, FS_Interval, Zenon
  <2> QED BY <1>1, <2>2 DEF e
<1>3. f \in [S -> T] BY DEF ValuesIn
<1>4. f \in Surjection(S, T) BY <1>3 DEF ValuesIn, Surjection
<1>5. \A i, j \in S : f[i] = f[j] => i = j BY ValuesApart
<1>6. f \in Injection(S, T) BY <1>3, <1>5 DEF Injection, IsInjective
<1> HIDE DEF S, T, f
<1>7. IsFiniteSet(T) /\ Cardinality(T) = Cardinality(S)
  BY <1>2, <1>4, <1>6, FS_Surjection
<1> QED BY <1>2, <1>7 DEF T

(* `insert' behind the last value adds the value. *)
LEMMA AppendedValues ==
    ASSUME NEW m \in IndexMaps, Exact(m), NEW v \in Value,
           m.len < Capacity, m.ki[v.key] = None,
           NEW n, n = WithLength(MapSet(m, m.len, v), m.len + 1)
    PROVE  ValuesIn(n) = ValuesIn(m) \cup {v}
<1>1. /\ n.len = m.len + 1 /\ m.len \in Nat /\ m.len \in Index
      /\ \A i \in Index : n.iv[i] = IF i = m.len THEN v ELSE m.iv[i]
  BY Appended, CapacityIsPositive DEF IndexMaps, Index
<1>2. \A i \in 0 .. m.len - 1 : i \in Index /\ i # m.len /\ i \in 0 .. n.len - 1
  BY <1>1, Stored
<1>3. ASSUME NEW w \in ValuesIn(n) PROVE w \in ValuesIn(m) \cup {v}
  <2>1. PICK i \in 0 .. n.len - 1 : w = n.iv[i] BY DEF ValuesIn
  <2>2. i = m.len \/ i \in 0 .. m.len - 1 BY <1>1
  <2> QED BY <1>1, <1>2, <2>1, <2>2 DEF ValuesIn
<1>4. v \in ValuesIn(n)
  <2>1. m.len \in 0 .. n.len - 1 BY <1>1
  <2> QED BY <1>1, <2>1 DEF ValuesIn
<1>5. ASSUME NEW w \in ValuesIn(m) PROVE w \in ValuesIn(n)
  BY <1>1, <1>2 DEF ValuesIn
<1> QED BY <1>3, <1>4, <1>5

(* `swap' moves values and keeps every one of them. *)
LEMMA SwappedValues ==
    ASSUME NEW m \in IndexMaps, Exact(m),
           NEW i \in 0 .. m.len - 1, NEW j \in 0 .. m.len - 1, i # j,
           NEW n, n = Swap(m, i, At(m, i), j, At(m, j))
    PROVE  ValuesIn(n) = ValuesIn(m)
<1>1. /\ n.len = m.len
      /\ \A x \in 0 .. m.len - 1 :
            n.iv[x] = IF x = i THEN m.iv[j] ELSE IF x = j THEN m.iv[i] ELSE m.iv[x]
  BY Swapped, Stored
<1>2. ASSUME NEW w \in ValuesIn(n) PROVE w \in ValuesIn(m)
  BY <1>1 DEF ValuesIn
<1>3. ASSUME NEW w \in ValuesIn(m) PROVE w \in ValuesIn(n)
  <2>1. PICK x \in 0 .. m.len - 1 : w = m.iv[x] BY DEF ValuesIn
  <2>2. \E y \in 0 .. n.len - 1 : w = n.iv[y]
    BY <1>1, <2>1
  <2> QED BY <2>2 DEF ValuesIn
<1> QED BY <1>2, <1>3

(* The deletion of the last value takes that one only. *)
LEMMA ShortenedValues ==
    ASSUME NEW m \in IndexMaps, Exact(m), m.len # 0,
           NEW n, n = WithLength(MapDelete(m, m.len - 1, m.iv[m.len - 1].key), m.len - 1)
    PROVE  ValuesIn(n) = ValuesIn(m) \ {m.iv[m.len - 1]}
<1>1. m.len \in Nat /\ m.len - 1 \in 0 .. m.len - 1
  BY CapacityIsPositive DEF IndexMaps
<1>2. n.len = m.len - 1 /\ \A x \in 0 .. m.len - 1 : x < n.len => n.iv[x] = m.iv[x]
  BY Shortened, Stored
<1>3. \A x \in 0 .. m.len - 1 : m.iv[x] = m.iv[m.len - 1] => x = m.len - 1
  BY <1>1, ValuesApart
<1>4. \A x \in 0 .. n.len - 1 : x \in 0 .. m.len - 1 /\ x < n.len /\ x # m.len - 1
  BY <1>1, <1>2
<1>5. \A x \in 0 .. m.len - 1 : x # m.len - 1 => x \in 0 .. n.len - 1
  BY <1>1, <1>2
<1>6. ASSUME NEW w \in ValuesIn(n) PROVE w \in ValuesIn(m) \ {m.iv[m.len - 1]}
  BY <1>1, <1>2, <1>3, <1>4 DEF ValuesIn
<1>7. ASSUME NEW w \in ValuesIn(m), w # m.iv[m.len - 1] PROVE w \in ValuesIn(n)
  BY <1>2, <1>4, <1>5, <1>7 DEF ValuesIn
<1> QED BY <1>6, <1>7

(* A value that gives way to the last one is the only one to go. *)
LEMMA ReplacedValues ==
    ASSUME NEW m \in IndexMaps, Exact(m), NEW i \in 0 .. m.len - 1, i # m.len - 1,
           NEW n, n = WithLength(Replace(m, i, At(m, i), m.len - 1, At(m, m.len - 1)),
                                 m.len - 1)
    PROVE  ValuesIn(n) = ValuesIn(m) \ {m.iv[i]}
<1>1. m.len \in Nat /\ m.len - 1 \in 0 .. m.len - 1 /\ i < m.len - 1
  BY CapacityIsPositive DEF IndexMaps
<1>2. /\ n.len = m.len - 1
      /\ \A x \in 0 .. m.len - 1 : x < n.len =>
            n.iv[x] = IF x = i THEN m.iv[m.len - 1] ELSE m.iv[x]
  BY Replaced, Stored
<1>3. \A x \in 0 .. m.len - 1 : m.iv[x] = m.iv[i] => x = i
  BY ValuesApart
<1>4. \A x \in 0 .. n.len - 1 : x \in 0 .. m.len - 1 /\ x < n.len
  BY <1>1, <1>2
<1>5. ASSUME NEW w \in ValuesIn(n) PROVE w \in ValuesIn(m) \ {m.iv[i]}
  <2>1. PICK x \in 0 .. n.len - 1 : w = n.iv[x] BY DEF ValuesIn
  <2>2. \E y \in 0 .. m.len - 1 : y # i /\ w = m.iv[y]
    BY <1>1, <1>2, <1>4, <2>1
  <2> QED BY <1>3, <2>2 DEF ValuesIn
<1>6. ASSUME NEW w \in ValuesIn(m), w # m.iv[i] PROVE w \in ValuesIn(n)
  <2>1. PICK x \in 0 .. m.len - 1 : w = m.iv[x] BY DEF ValuesIn
  <2>2. x # i BY <1>6, <2>1
  <2>3. CASE x = m.len - 1
    <3>1. i \in 0 .. n.len - 1 /\ i < n.len BY <1>1, <1>2
    <3>2. n.iv[i] = w BY <1>2, <2>1, <2>3, <3>1
    <3> QED BY <3>1, <3>2 DEF ValuesIn
  <2>4. CASE x # m.len - 1
    <3>1. x \in 0 .. n.len - 1 /\ x < n.len BY <1>1, <1>2, <2>4
    <3>2. n.iv[x] = w BY <1>2, <2>1, <2>2, <3>1
    <3> QED BY <3>1, <3>2 DEF ValuesIn
  <2> QED BY <2>3, <2>4
<1> QED BY <1>5, <1>6

(* `set' at the index of a key exchanges the value of that key. *)
LEMMA OverwrittenValues ==
    ASSUME NEW m \in IndexMaps, Exact(m), NEW v \in Value, m.ki[v.key] # None,
           NEW n, n = MapSet(m, m.ki[v.key], v)
    PROVE  ValuesIn(n) = {w \in ValuesIn(m) : w.key # v.key} \cup {v}
<1> DEFINE e == m.ki[v.key]
<1>1. v.key \in Keys /\ e \in 0 .. m.len - 1 /\ m.iv[e].key = v.key
  BY ValuesAreKeyed, Found
<1>2. n.len = m.len /\ \A x \in 0 .. m.len - 1 : n.iv[x] = IF x = e THEN v ELSE m.iv[x]
  BY Overwritten, Stored
<1>3. \A x \in 0 .. m.len - 1 : m.iv[x].key = v.key => x = e
  BY <1>1, ValuesApart
<1> HIDE DEF e
<1>4. ASSUME NEW w \in ValuesIn(n)
      PROVE  w \in {u \in ValuesIn(m) : u.key # v.key} \cup {v}
  BY <1>2, <1>3 DEF ValuesIn
<1>5. v \in ValuesIn(n)
  BY <1>1, <1>2 DEF ValuesIn
<1>6. ASSUME NEW w \in ValuesIn(m), w.key # v.key PROVE w \in ValuesIn(n)
  <2>1. PICK x \in 0 .. m.len - 1 : w = m.iv[x] BY DEF ValuesIn
  <2>2. x # e BY <1>1, <1>6, <2>1
  <2> QED BY <1>2, <2>1, <2>2 DEF ValuesIn
<1> QED BY <1>4, <1>5, <1>6

(* `reset' leaves the values of the list. *)
LEMMA FilledValues ==
    ASSUME NEW list \in Seq(Value), Len(list) <= Capacity,
           \A i, j \in 1 .. Len(list) : list[i].key = list[j].key => i = j,
           NEW n, n = MapFill(EmptyMap, list)
    PROVE  ValuesIn(n) = {list[j] : j \in 1 .. Len(list)}
<1>1. Len(list) \in Nat OBVIOUS
<1>2. /\ n \in IndexMaps /\ Exact(n) /\ n.len = Len(list)
      /\ \A x \in Index : x < n.len => n.iv[x] = list[x + 1]
  BY Filled
<1>3. ASSUME NEW x \in 0 .. n.len - 1
      PROVE  n.iv[x] = list[x + 1] /\ x + 1 \in 1 .. Len(list)
  <2>1. x \in Nat /\ x < n.len BY <1>1, <1>2
  <2>2. x \in Index BY <1>2, Stored
  <2>3. n.iv[x] = list[x + 1] BY <1>2, <2>1, <2>2
  <2> QED BY <1>1, <1>2, <2>1, <2>3
<1>4. \A j \in 1 .. Len(list) : j - 1 \in 0 .. n.len - 1 /\ (j - 1) + 1 = j
  BY <1>1, <1>2
<1>5. ASSUME NEW w \in ValuesIn(n) PROVE w \in {list[j] : j \in 1 .. Len(list)}
  BY <1>3 DEF ValuesIn
<1>6. ASSUME NEW j \in 1 .. Len(list) PROVE list[j] \in ValuesIn(n)
  <2>1. n.iv[j - 1] = list[j] BY <1>3, <1>4
  <2> QED BY <1>4, <2>1 DEF ValuesIn
<1> QED BY <1>5, <1>6

-----------------------------------------------------------------------------
(* The refinement mapping, and what it is where an operation begins.       *)
Items == ValuesIn(heap) \cup ({pending} \ {None})

(* Nothing is on its way where an operation begins. *)
LEMMA ItemsWhenReady ==
    ASSUME IInv, Ready
    PROVE  Items = ValuesIn(heap)
  BY WhenReady DEF Items

(* No value on its way after the step. *)
LEMMA ItemsAfter ==
    ASSUME pending' = None
    PROVE  Items' = ValuesIn(heap')
  BY DEF Items, ValuesIn

(* An empty heap is an empty queue. *)
LEMMA InitRefines == Init => Queue!Init
<1> SUFFICES ASSUME Init PROVE Queue!Init
  OBVIOUS
<1>1. heap.len = 0 /\ pending = None /\ out = None
  BY DEF Init, EmptyMap
<1>2. ValuesIn(heap) = {}
  BY <1>1 DEF ValuesIn
<1> QED BY <1>1, <1>2 DEF Queue!Init

(* A queue is full where the heap is. *)
LEMMA FullWhenReady ==
    ASSUME IInv, Ready
    PROVE  Queue!Full <=> heap.len = Capacity
<1>1. Cardinality(Items) = heap.len
  BY ItemsWhenReady, WhenReady, CountOfValues
<1>2. Queue!Cardinality(Items) = Cardinality(Items)
  BY DEF Queue!Cardinality, Cardinality, Queue!IsFiniteSet, IsFiniteSet
<1> QED BY <1>1, <1>2 DEF Queue!Full, Items

(* A key without an index is a key of no value. *)
LEMMA AbsentWhenReady ==
    ASSUME IInv, Ready, NEW v \in Value, heap.ki[v.key] = None
    PROVE  Queue!Key(v) \notin Queue!KeysOf(Items)
<1>1. v.key \in Keys BY ValuesAreKeyed
<1>2. ~ \E w \in Items : w.key = v.key
  BY <1>1, ItemsWhenReady, WhenReady, KeyOfValue
<1> QED BY <1>2 DEF Queue!Key, Queue!KeysOf

(* The first value of a heap that is ready is a least one of the queue.    *)
LEMMA FirstWhenReady ==
    ASSUME IInv, Ready, heap.len # 0
    PROVE  /\ 0 \in 0 .. heap.len - 1
           /\ heap.iv[0] \in Value /\ At(heap, 0) = heap.iv[0]
           /\ heap.iv[0] \in Queue!Least(Items)
<1>1. /\ heap \in IndexMaps /\ Exact(heap) /\ AllInOrder(heap)
      /\ 0 \in 0 .. heap.len - 1
  BY WhenReady
<1>2. heap.iv[0] \in Value /\ At(heap, 0) = heap.iv[0]
  BY <1>1, Stored
<1>3. ASSUME NEW w \in ValuesIn(heap) PROVE Rank[heap.iv[0]] <= Rank[w]
  <2>1. PICK i \in 0 .. heap.len - 1 : w = heap.iv[i] BY DEF ValuesIn
  <2>2. ~Before(heap.iv[i], heap.iv[0]) BY <1>1, FirstOfHeap
  <2>3. heap.iv[i] \in Value BY <1>1, Stored
  <2> QED BY <1>2, <2>1, <2>2, <2>3, RankIsNat DEF Before
<1>4. heap.iv[0] \in ValuesIn(heap)
  BY <1>1 DEF ValuesIn
<1> QED BY <1>1, <1>2, <1>3, <1>4, ItemsWhenReady DEF Queue!Least

(* What an extraction takes from the values. *)
LEMMA ExtractedValues ==
    ASSUME IInv, Ready, heap.len # 0, ExtractFirst
    PROVE  ValuesIn(heap') = ValuesIn(heap) \ {heap.iv[0]}
<1>1. /\ heap \in IndexMaps /\ Exact(heap) /\ 0 \in 0 .. heap.len - 1
      /\ heap.len \in Nat
  BY WhenReady
<1>2. CASE heap.len = 1
  <2>1. heap' = WithLength(MapDelete(heap, heap.len - 1, heap.iv[heap.len - 1].key),
                           heap.len - 1)
    BY <1>1, <1>2, Stored DEF ExtractFirst, WithLength, MapDelete
  <2> QED BY <1>1, <1>2, <2>1, ShortenedValues
<1>3. CASE heap.len # 1
  <2>1. heap' = WithLength(Replace(heap, 0, At(heap, 0), heap.len - 1,
                                   At(heap, heap.len - 1)), heap.len - 1)
    BY <1>3 DEF ExtractFirst
  <2>2. 0 # heap.len - 1 BY <1>1, <1>3
  <2> QED BY <1>1, <2>1, <2>2, ReplacedValues
<1> QED BY <1>2, <1>3

-----------------------------------------------------------------------------
(* Each action of the heap is one of the queue, or changes nothing there.  *)

(* `extract' is the extraction of the queue. *)
LEMMA ExtractRefines ==
    ASSUME IInv, Extract PROVE Queue!Extract
<1>1. Ready /\ pending' = None
  BY WhenReady DEF Extract
<1>2. Items = ValuesIn(heap) /\ Items' = ValuesIn(heap')
  BY <1>1, ItemsWhenReady, ItemsAfter
<1>3. CASE heap.len = 0
  <2>1. heap' = heap /\ out' = None
    BY <1>3 DEF Extract
  <2>2. ValuesIn(heap) = {}
    BY <1>3 DEF ValuesIn
  <2>3. Items = {} /\ Items' = Items
    BY <1>2, <2>1, <2>2 DEF ValuesIn
  <2> QED BY <2>1, <2>3 DEF Queue!Extract, Items
<1>4. CASE heap.len # 0
  <2>1. out' = heap.iv[0] /\ ExtractFirst
    BY <1>1, <1>4, FirstWhenReady DEF Extract
  <2>2. Items' = Items \ {heap.iv[0]}
    BY <1>1, <1>2, <1>4, <2>1, ExtractedValues
  <2>3. heap.iv[0] \in Queue!Least(Items)
    BY <1>1, <1>4, FirstWhenReady
  <2> QED BY <2>1, <2>2, <2>3 DEF Queue!Extract, Items
<1> QED BY <1>3, <1>4

(* The insertion of `insert' and `insert_extract' adds the value. *)
LEMMA InsertLastValues ==
    ASSUME IInv, Ready, NEW v \in Value, heap.len # Capacity, heap.ki[v.key] = None,
           InsertLast(v)
    PROVE  ValuesIn(heap') = ValuesIn(heap) \cup {v}
<1>1. heap.len < Capacity
  BY WhenReady, CapacityIsPositive
<1> QED BY <1>1, WhenReady, AppendedValues DEF InsertLast

(* `insert' is the insertion of the queue, refused where it is full. *)
LEMMA InsertRefines ==
    ASSUME IInv, NEW v \in Value, Insert(v) PROVE Queue!Insert(v)
<1>1. Ready /\ pending' = None /\ heap.ki[v.key] = None
  BY WhenReady DEF Insert, InsertUnchecked, Has
<1>2. Items = ValuesIn(heap) /\ Items' = ValuesIn(heap')
  BY <1>1, ItemsWhenReady, ItemsAfter
<1>3. Queue!Key(v) \notin Queue!KeysOf(Items) /\ (Queue!Full <=> heap.len = Capacity)
  BY <1>1, AbsentWhenReady, FullWhenReady
<1>4. CASE heap.len = Capacity
  <2>1. heap' = heap /\ out' = Failed
    BY <1>4 DEF Insert, InsertUnchecked
  <2>2. Items' = Items
    BY <1>2, <2>1 DEF ValuesIn
  <2> QED BY <1>3, <1>4, <2>1, <2>2 DEF Queue!Insert, Items
<1>5. CASE heap.len # Capacity
  <2>1. InsertLast(v) /\ out' = None
    BY <1>5 DEF Insert, InsertUnchecked
  <2>2. Items' = Items \cup {v}
    BY <1>1, <1>2, <1>5, <2>1, InsertLastValues
  <2> QED BY <1>3, <1>5, <2>1, <2>2 DEF Queue!Insert, Items
<1> QED BY <1>4, <1>5

(* The value to be inserted after the extraction counts as one of the      *)
(* queue from the first step on.                                           *)
LEMMA InsertExtractRefines ==
    ASSUME IInv, NEW v \in Value, InsertExtract(v) PROVE Queue!InsertExtract(v)
<1>1. Ready /\ heap.ki[v.key] = None /\ pending = None
  BY WhenReady DEF InsertExtract, InsertExtractUnchecked, Has
<1>2. /\ Items = ValuesIn(heap)
      /\ Queue!Key(v) \notin Queue!KeysOf(Items)
      /\ Queue!Full <=> heap.len = Capacity
  BY <1>1, ItemsWhenReady, AbsentWhenReady, FullWhenReady
<1>3. CASE heap.len < Capacity /\ out' = None /\ InsertLast(v) /\ UNCHANGED pending
  <2>1. heap.len # Capacity
    BY <1>3, CapacityIsPositive
  <2>2. Items' = Items \cup {v}
    BY <1>1, <1>2, <1>3, <2>1, InsertLastValues, ItemsAfter
  <2> QED BY <1>2, <1>3, <2>1, <2>2 DEF Queue!InsertExtract, Items
<1>4. ASSUME heap.len = Capacity
      PROVE  /\ heap.len # 0 /\ At(heap, 0) = heap.iv[0] /\ heap.iv[0] \in Value
             /\ heap.iv[0] \in Queue!Least(Items)
  <2>1. heap.len # 0
    BY <1>4, CapacityIsPositive
  <2> QED BY <1>1, <2>1, FirstWhenReady
<1>5. CASE /\ heap.len = Capacity /\ Before(v, At(heap, 0))
           /\ out' = Failed /\ UNCHANGED <<heap, sift, pending>>
  <2>1. Items' = Items
    BY <1>5 DEF Items, ValuesIn
  <2>2. ASSUME NEW w \in Items PROVE Rank[v] < Rank[w]
    <3>1. w \in Value
      BY <1>1, <1>2, ValuesTyped, WhenReady
    <3>2. Rank[v] < Rank[heap.iv[0]] /\ Rank[heap.iv[0]] <= Rank[w]
      BY <1>4, <1>5, <2>2 DEF Before, Queue!Least
    <3> QED BY <1>4, <1>5, <3>1, <3>2, RankIsNat
  <2> QED BY <1>2, <1>5, <2>1, <2>2 DEF Queue!InsertExtract, Items
<1>6. CASE /\ heap.len = Capacity /\ ~Before(v, At(heap, 0))
           /\ out' = At(heap, 0) /\ ExtractFirst /\ pending' = v
  <2>1. ValuesIn(heap') = ValuesIn(heap) \ {heap.iv[0]}
    BY <1>1, <1>4, <1>6, ExtractedValues
  <2>2. {pending'} \ {None} = {v}
    BY <1>6, NoneIsNothing
  <2>3. Items' = (Items \ {heap.iv[0]}) \cup {v}
    BY <1>2, <2>1, <2>2 DEF Items, ValuesIn
  <2>4. Rank[v] >= Rank[heap.iv[0]] /\ out' = heap.iv[0]
    BY <1>4, <1>6, RankIsNat DEF Before
  <2> QED BY <1>2, <1>4, <1>6, <2>3, <2>4 DEF Queue!InsertExtract, Items
<1> QED BY <1>3, <1>5, <1>6 DEF InsertExtract, InsertExtractUnchecked

(* `change_key' exchanges the value of the key where the order differs. *)
LEMMA ChangeKeyRefines ==
    ASSUME IInv, NEW v \in Value, ChangeKey(v) PROVE Queue!ChangeKey(v)
<1> DEFINE i == heap.ki[v.key]
           Differs == \E w \in Items : w.key = v.key /\ Rank[w] # Rank[v]
<1>1. Ready /\ pending' = None /\ out' = None /\ v.key \in Keys
  BY WhenReady, ValuesAreKeyed DEF ChangeKey
<1>2. /\ Items = ValuesIn(heap) /\ Items' = ValuesIn(heap')
      /\ heap \in IndexMaps /\ Exact(heap)
  BY <1>1, ItemsWhenReady, ItemsAfter, WhenReady
<1>3. ASSUME i # None
      PROVE  /\ i \in 0 .. heap.len - 1 /\ At(heap, i) = heap.iv[i]
             /\ heap.iv[i] \in Items /\ heap.iv[i] \in Value /\ heap.iv[i].key = v.key
  <2>1. i \in 0 .. heap.len - 1 /\ heap.iv[i].key = v.key
    BY <1>1, <1>2, <1>3, Found
  <2> QED BY <1>2, <2>1, Stored DEF ValuesIn
<1>4. \A w \in Items : w.key = v.key => i # None /\ w = heap.iv[i]
  BY <1>1, <1>2, KeyOfValue
<1>5. CASE Differs
  <2>1. i # None /\ Rank[heap.iv[i]] # Rank[v]
    BY <1>4, <1>5
  <2>2. ~(i >= heap.len)
    BY <1>1, <1>3, <2>1, WhenReady
  <2>3. heap' = MapSet(heap, i, v)
    BY <1>3, <2>1, <2>2 DEF ChangeKey
  <2>4. Items' = {w \in Items : w.key # v.key} \cup {v}
    BY <1>2, <2>1, <2>3, OverwrittenValues
  <2> QED BY <1>1, <1>5, <2>4 DEF Queue!ChangeKey, Queue!Key, Items
<1>6. CASE ~Differs
  <2>1. i = None \/ Rank[heap.iv[i]] = Rank[v]
    BY <1>3, <1>6
  <2>2. Rank[v] \in Nat
    BY RankIsNat
  <2>3. i # None => ~Before(At(heap, i), v) /\ ~Before(v, At(heap, i))
    BY <1>3, <2>1, <2>2 DEF Before
  <2>4. heap' = heap
    BY <2>3 DEF ChangeKey
  <2>5. Items' = Items
    BY <1>2, <2>4 DEF ValuesIn
  <2> QED BY <1>1, <1>6, <2>5 DEF Queue!ChangeKey, Queue!Key, Items
<1> QED BY <1>5, <1>6

(* `remove_item' takes the value of the key, wherever it is. *)
LEMMA RemoveItemRefines ==
    ASSUME IInv, NEW k \in Keys, RemoveItem(k) PROVE Queue!RemoveItem(k)
<1> DEFINE i == heap.ki[k]
           this == At(heap, i)
           last == At(heap, heap.len - 1)
<1>1. Ready /\ pending' = None /\ out' = None
  BY WhenReady DEF RemoveItem
<1>2. /\ Items = ValuesIn(heap) /\ Items' = ValuesIn(heap')
      /\ heap \in IndexMaps /\ Exact(heap) /\ heap.len \in Nat
  BY <1>1, ItemsWhenReady, ItemsAfter, WhenReady
<1>3. \A w \in Items : w.key = k => i # None /\ w = heap.iv[i]
  BY <1>2, KeyOfValue
<1>4. SUFFICES Items' = {w \in Items : w.key # k}
  BY <1>1 DEF Queue!RemoveItem, Queue!Key, Items
<1>5. CASE i = None
  <2>1. heap' = heap
    BY <1>5 DEF RemoveItem
  <2>2. Items' = Items
    BY <1>2, <2>1 DEF ValuesIn
  <2> QED BY <1>3, <1>5, <2>2
<1>6. CASE i # None
  <2>1. i \in 0 .. heap.len - 1 /\ heap.iv[i].key = k
    BY <1>2, <1>6, Found
  <2>2. ~(i >= heap.len) /\ heap.len # 0 /\ heap.len - 1 \in 0 .. heap.len - 1
    BY <1>2, <2>1
  <2>3. {w \in Items : w.key # k} = Items \ {heap.iv[i]}
    BY <1>3, <2>1
  <2>4. CASE i = 0 /\ ExtractFirst
    BY <1>1, <1>2, <2>2, <2>3, <2>4, ExtractedValues
  <2>5. CASE i = heap.len - 1 /\ heap' = WithLength(MapDelete(heap, i, k), heap.len - 1)
    BY <1>2, <2>1, <2>2, <2>3, <2>5, ShortenedValues
  <2>6. CASE /\ i # heap.len - 1
             /\ heap' = WithLength(Replace(heap, i, this, heap.len - 1, last),
                                   heap.len - 1)
    BY <1>2, <2>1, <2>3, <2>6, ReplacedValues
  <2> QED BY <1>6, <2>2, <2>4, <2>5, <2>6 DEF RemoveItem
<1> QED BY <1>5, <1>6

(* `clear' is the reset of the queue with no value. *)
LEMMA ClearRefines ==
    ASSUME IInv, Clear PROVE Queue!Reset(<<>>)
<1>1. Ready /\ pending' = None /\ out' = None
  BY WhenReady DEF Clear
<1>2. heap' = EmptyMap /\ Items' = ValuesIn(heap')
  BY <1>1, Cleared, WhenReady, ItemsAfter DEF Clear
<1>3. Items' = {}
  BY <1>2 DEF ValuesIn, EmptyMap
<1>4. Len(<<>>) = 0 /\ ~(Len(<<>>) > Capacity)
  BY CapacityIsPositive
<1>5. {<<>>[j] : j \in 1 .. Len(<<>>)} = {}
  BY <1>4
<1> QED BY <1>1, <1>3, <1>4, <1>5 DEF Queue!Reset, Items

(* `reset' is the reset of the queue, refused where the list is too long. *)
LEMMA ResetRefines ==
    ASSUME IInv, NEW list \in HeapLists, Reset(list) PROVE Queue!Reset(list)
<1>1. Ready /\ pending' = None
  BY WhenReady DEF Reset
<1>2. Items = ValuesIn(heap) /\ Items' = ValuesIn(heap')
  BY <1>1, ItemsWhenReady, ItemsAfter
<1>3. CASE Len(list) > Capacity
  <2>1. heap' = heap /\ out' = Failed
    BY <1>3 DEF Reset
  <2>2. Items' = Items
    BY <1>2, <2>1 DEF ValuesIn
  <2> QED BY <1>3, <2>1, <2>2 DEF Queue!Reset, Items
<1>4. CASE ~(Len(list) > Capacity)
  <2>1. /\ list \in Seq(Value)
        /\ \A i, j \in 1 .. Len(list) : list[i].key = list[j].key => i = j
    BY DEF HeapLists, InHeapOrder
  <2>2. heap' = MapFill(EmptyMap, list) /\ out' = None
    BY <1>1, <1>4, Cleared, WhenReady DEF Reset
  <2>3. Len(list) <= Capacity
    BY <1>4, <2>1, CapacityIsPositive
  <2>4. Items' = {list[j] : j \in 1 .. Len(list)}
    BY <1>2, <2>1, <2>2, <2>3, FilledValues
  <2> QED BY <1>4, <2>2, <2>4 DEF Queue!Reset, Items
<1> QED BY <1>3, <1>4

(* A turn of either loop moves values only within the array.               *)
LEMMA LoopRefines ==
    ASSUME IInv, Loop PROVE UNCHANGED Queue!vars
<1>1. heap \in IndexMaps /\ Exact(heap)
  BY DEF IInv, TypeOK
<1>2. ASSUME UNCHANGED <<pending, out>>, ValuesIn(heap') = ValuesIn(heap)
      PROVE  UNCHANGED Queue!vars
  BY <1>2 DEF Queue!vars, ValuesIn
<1>3. CASE DownHeapify
  <2> DEFINE i == sift.at
             h == HeadOf(heap, i)
  <2>1. i \in 0 .. heap.len - 1
    BY <1>3 DEF DownHeapify, IInv, LoopOK, MovingDown, Idle, Up, Down
  <2>2. h \in 0 .. heap.len - 1
    BY <1>1, <2>1, HeadIsLeast
  <2> SUFFICES ValuesIn(heap') = ValuesIn(heap)
    BY <1>2, <1>3 DEF DownHeapify
  <2>3. CASE h = i
    <3>1. heap' = heap BY <1>3, <2>3 DEF DownHeapify
    <3> QED BY <3>1 DEF ValuesIn
  <2>4. CASE h # i
    <3>1. heap' = Swap(heap, i, At(heap, i), h, At(heap, h))
      BY <1>3, <2>4 DEF DownHeapify
    <3> HIDE DEF i, h
    <3> QED BY <1>1, <2>1, <2>2, <2>4, <3>1, SwappedValues
  <2> QED BY <2>3, <2>4
<1>4. CASE UpHeapify
  <2> DEFINE i == sift.at
             p == Parent(i)
  <2>1. i \in 0 .. heap.len - 1 /\ heap.len \in Nat
    BY <1>1, <1>4 DEF UpHeapify, IInv, LoopOK, MovingUp, Idle, Up, Down, IndexMaps
  <2>2. i # 0 => p \in 0 .. heap.len - 1 /\ p # i
    BY <1>1, <2>1, ParentStored
  <2> SUFFICES ValuesIn(heap') = ValuesIn(heap)
    BY <1>2, <1>4 DEF UpHeapify
  <2>3. CASE ~(i # 0 /\ Before(At(heap, i), At(heap, p)))
    <3>1. heap' = heap BY <1>4, <2>3 DEF UpHeapify
    <3> QED BY <3>1 DEF ValuesIn
  <2>4. CASE i # 0 /\ Before(At(heap, i), At(heap, p))
    <3>1. heap' = Swap(heap, i, At(heap, i), p, At(heap, p))
      BY <1>4, <2>4 DEF UpHeapify
    <3> HIDE DEF i, p
    <3> QED BY <1>1, <2>1, <2>2, <2>4, <3>1, SwappedValues
  <2> QED BY <2>3, <2>4
<1>5. CASE InsertPending
  <2>1. /\ pending \in Value /\ heap.ki[pending.key] = None /\ heap.len < Capacity
        /\ heap' = WithLength(MapSet(heap, heap.len, pending), heap.len + 1)
        /\ pending' = None /\ out' = out
    BY <1>5 DEF InsertPending, InsertLast, IInv, TypeOK, PendingOK
  <2>2. ValuesIn(heap') = ValuesIn(heap) \cup {pending}
    BY <1>1, <2>1, AppendedValues
  <2>3. Items' = ValuesIn(heap')
    BY <2>1, ItemsAfter
  <2>4. {pending} \ {None} = {pending}
    BY <2>1, NoneIsNothing
  <2>5. Items' = Items
    BY <2>2, <2>3, <2>4 DEF Items
  <2> QED BY <2>1, <2>5 DEF Queue!vars, Items
<1> QED BY <1>3, <1>4, <1>5 DEF Loop

-----------------------------------------------------------------------------
(* Every step of the heap is a step of the queue or none.                  *)
LEMMA NextRefines == IInv /\ [Next]_vars => [Queue!Next]_(Queue!vars)
<1> SUFFICES ASSUME IInv, [Next]_vars PROVE Queue!Next \/ UNCHANGED Queue!vars
  BY DEF Queue!vars
<1>1. CASE Extract BY <1>1, ExtractRefines DEF Queue!Next
<1>2. CASE \E v \in Value : Insert(v) BY <1>2, InsertRefines DEF Queue!Next
<1>3. CASE \E v \in Value : InsertExtract(v) BY <1>3, InsertExtractRefines DEF Queue!Next
<1>4. CASE \E v \in Value : ChangeKey(v) BY <1>4, ChangeKeyRefines DEF Queue!Next
<1>5. CASE \E k \in Keys : RemoveItem(k) BY <1>5, RemoveItemRefines DEF Queue!Next
<1>6. CASE Clear BY <1>6, ClearRefines DEF Queue!Next
<1>7. CASE \E list \in HeapLists : Reset(list) BY <1>7, ResetRefines DEF Queue!Next
<1>8. CASE Loop BY <1>8, LoopRefines
<1>9. CASE UNCHANGED vars BY <1>9 DEF vars, Queue!vars, ValuesIn
<1> QED BY <1>1, <1>2, <1>3, <1>4, <1>5, <1>6, <1>7, <1>8, <1>9 DEF Next, Operation

(* An IndexHeap is the keyed priority queue it promises to be: `extract'   *)
(* and `insert_extract' take a least value, no operation loses, doubles or *)
(* adds a value, and a heap that is full refuses or makes room.            *)
THEOREM Refinement == Spec => ImplementsQueue
BY InitEstablishes, NextPreserves, InitRefines, NextRefines, PTL
   DEF Spec, ImplementsQueue, Queue!Spec
=============================================================================
