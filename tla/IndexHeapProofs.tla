--------------------------- MODULE IndexHeapProofs ---------------------------
(***************************************************************************)
(* The index heap, for every capacity, set of keys and order of values:    *)
(* the key index and the array stay exact, the heap is in order whenever   *)
(* an operation may begin, and its first value is a least one.             *)
(***************************************************************************)
EXTENDS IndexHeap, WellFoundedInduction, TLAPS

-----------------------------------------------------------------------------
(* The inductive invariant.  While a value moves, all pairs of parent and  *)
(* child are in order but those of the moving value; and the values below  *)
(* it are in order with the value above it, which is what the moving value *)
(* leaves behind.                                                          *)
InOrder(m, i) == ~Before(m.iv[i], m.iv[Parent(i)])
AllInOrder(m) == \A i \in 1 .. m.len - 1 : InOrder(m, i)
Bridged(m, j) ==
    \A i \in 1 .. m.len - 1 : Parent(i) = j /\ j # 0 => ~Before(m.iv[i], m.iv[Parent(j)])

MovingUp(m, j) == /\ j \in 0 .. m.len - 1
                  /\ \A i \in 1 .. m.len - 1 : i # j => InOrder(m, i)
                  /\ Bridged(m, j)
MovingDown(m, j) == /\ j \in 0 .. m.len - 1
                    /\ \A i \in 1 .. m.len - 1 : Parent(i) # j => InOrder(m, i)
                    /\ Bridged(m, j)

LoopOK ==
    \/ sift = Idle /\ AllInOrder(heap)
    \/ \E i \in Index : sift = Up(i) /\ MovingUp(heap, i) /\ pending = None
    \/ \E i \in Index : sift = Down(i) /\ MovingDown(heap, i)

PendingOK == pending # None => heap.ki[pending.key] = None /\ heap.len < Capacity

IInv == TypeOK /\ Exact(heap) /\ LoopOK /\ PendingOK

-----------------------------------------------------------------------------
(* The parent of an index of the array, as index_heap.rs computes it.      *)
LEMMA ParentOfIndex ==
    ASSUME NEW i \in Nat, i # 0
    PROVE  /\ Parent(i) \in Nat
           /\ Parent(i) < i
           /\ i = Left(Parent(i)) \/ i = Right(Parent(i))
    BY DEF Parent, Left, Right

(* The children of an index have it as their parent. *)
LEMMA ParentOfChildren ==
    ASSUME NEW i \in Nat
    PROVE  Parent(Left(i)) = i /\ Parent(Right(i)) = i
    BY DEF Parent, Left, Right

(* Indices are told apart from the absent row.                             *)
LEMMA IndexIsNotNone == \A i \in Index : i \in Nat /\ i # None
    BY CapacityIsPositive, NoneIsNothing DEF Index

(* In an exact map a stored index holds a value whose key leads back.      *)
LEMMA Stored ==
    ASSUME NEW m \in IndexMaps, Exact(m), NEW i \in 0 .. m.len - 1
    PROVE  /\ i \in Index
           /\ m.iv[i] \in Value
           /\ m.iv[i].key \in Keys
           /\ m.ki[m.iv[i].key] = i
           /\ At(m, i) = m.iv[i]
    BY CapacityIsPositive, ValuesAreKeyed, NoneIsNothing DEF IndexMaps, Exact, Index, At

(* In an exact map a stored key leads to a stored index, and back.         *)
LEMMA Found ==
    ASSUME NEW m \in IndexMaps, Exact(m), NEW k \in Keys, m.ki[k] # None
    PROVE  /\ m.ki[k] \in 0 .. m.len - 1
           /\ m.iv[m.ki[k]].key = k
    BY CapacityIsPositive, ValuesAreKeyed, NoneIsNothing DEF IndexMaps, Exact, Index

-----------------------------------------------------------------------------
(* What each way of writing the map does to an exact one. *)

(* `insert' behind the last value. *)
LEMMA Appended ==
    ASSUME NEW m \in IndexMaps, Exact(m), NEW v \in Value,
           m.len < Capacity, m.ki[v.key] = None,
           NEW n, n = WithLength(MapSet(m, m.len, v), m.len + 1)
    PROVE  /\ n \in IndexMaps /\ Exact(n)
           /\ n.len = m.len + 1
           /\ \A i \in Index : n.iv[i] = IF i = m.len THEN v ELSE m.iv[i]
<1>1. v.key \in Keys /\ m.len \in Index /\ m.len + 1 \in 0 .. Capacity
  BY CapacityIsPositive, ValuesAreKeyed DEF IndexMaps, Index
<1>2. n.len = m.len + 1 /\ n.ki = [m.ki EXCEPT ![v.key] = m.len]
        /\ n.iv = [m.iv EXCEPT ![m.len] = v]
        /\ n = [len |-> n.len, ki |-> n.ki, iv |-> n.iv]
  BY DEF WithLength, MapSet
<1>3. n \in IndexMaps
  BY <1>1, <1>2 DEF IndexMaps
<1>4. \A i \in Index : n.iv[i] = IF i = m.len THEN v ELSE m.iv[i]
  BY <1>1, <1>2 DEF IndexMaps
<1>5. Exact(n)
  <2>1. ASSUME NEW i \in Index
        PROVE  IF i < n.len THEN n.iv[i] # None /\ n.ki[n.iv[i].key] = i
               ELSE n.iv[i] = None
    <3>1. CASE i = m.len
      BY <1>1, <1>2, <1>4, <3>1, NoneIsNothing DEF IndexMaps
    <3>2. CASE i < m.len
      <4>1. m.iv[i] \in Value /\ m.iv[i].key \in Keys /\ m.ki[m.iv[i].key] = i
        BY <3>2, Stored, CapacityIsPositive DEF Index, IndexMaps
      <4>2. m.iv[i].key # v.key BY <4>1, IndexIsNotNone
      <4>3. n.iv[i] = m.iv[i] /\ n.ki[m.iv[i].key] = i
        BY <1>1, <1>2, <1>4, <3>2, <4>1, <4>2 DEF IndexMaps
      <4>4. i < n.len BY <1>1, <1>2, <3>2, IndexIsNotNone
      <4> QED BY <4>1, <4>3, <4>4, NoneIsNothing
    <3>3. CASE i > m.len
      BY <1>1, <1>2, <1>4, <3>3 DEF IndexMaps, Index, Exact
    <3> QED BY <3>1, <3>2, <3>3, CapacityIsPositive DEF IndexMaps, Index
  <2>2. ASSUME NEW k \in Keys, n.ki[k] # None
        PROVE  n.iv[n.ki[k]] # None /\ n.iv[n.ki[k]].key = k
    <3>1. CASE k = v.key
      BY <1>1, <1>2, <1>4, <3>1, NoneIsNothing DEF IndexMaps
    <3>2. CASE k # v.key
      <4>1. n.ki[k] = m.ki[k] BY <1>1, <1>2, <3>2 DEF IndexMaps
      <4>2. m.ki[k] \in 0 .. m.len - 1 /\ m.iv[m.ki[k]].key = k BY <2>2, <4>1, Found
      <4> QED BY <1>4, <4>1, <4>2, Stored, NoneIsNothing
    <3> QED BY <3>1, <3>2
  <2> QED BY <2>1, <2>2 DEF Exact
<1> QED BY <1>2, <1>3, <1>4, <1>5

(* A value replaced by one with the same key (`change_key').               *)
LEMMA Overwritten ==
    ASSUME NEW m \in IndexMaps, Exact(m), NEW v \in Value, m.ki[v.key] # None,
           NEW n, n = MapSet(m, m.ki[v.key], v)
    PROVE  /\ n \in IndexMaps /\ Exact(n)
           /\ n.len = m.len
           /\ n.ki = m.ki
           /\ \A i \in Index : n.iv[i] = IF i = m.ki[v.key] THEN v ELSE m.iv[i]
<1>1. v.key \in Keys /\ m.ki[v.key] \in Index
  BY CapacityIsPositive, ValuesAreKeyed, NoneIsNothing DEF IndexMaps, Index
<1>2. n.len = m.len /\ n.ki = m.ki /\ n.iv = [m.iv EXCEPT ![m.ki[v.key]] = v]
        /\ n = [len |-> n.len, ki |-> n.ki, iv |-> n.iv]
  BY DEF MapSet, IndexMaps
<1>3. n \in IndexMaps
  BY <1>1, <1>2 DEF IndexMaps
<1>4. \A i \in Index : n.iv[i] = IF i = m.ki[v.key] THEN v ELSE m.iv[i]
  BY <1>1, <1>2 DEF IndexMaps
<1>5. m.ki[v.key] \in 0 .. m.len - 1
  BY <1>1, Found
<1>6. Exact(n)
  BY <1>1, <1>2, <1>4, <1>5, Stored, Found, NoneIsNothing DEF Exact
<1> QED BY <1>2, <1>3, <1>4, <1>6

(* Two stored values exchanged (`swap').                                   *)
LEMMA Swapped ==
    ASSUME NEW m \in IndexMaps, Exact(m),
           NEW i \in 0 .. m.len - 1, NEW j \in 0 .. m.len - 1, i # j,
           NEW n, n = Swap(m, i, At(m, i), j, At(m, j))
    PROVE  /\ n \in IndexMaps /\ Exact(n)
           /\ n.len = m.len
           /\ \A k \in Keys : m.ki[k] = None => n.ki[k] = None
           /\ \A x \in Index :
                 n.iv[x] = IF x = i THEN m.iv[j] ELSE IF x = j THEN m.iv[i] ELSE m.iv[x]
<1> DEFINE v == m.iv[i]
           w == m.iv[j]
<1>1. /\ i \in Index /\ v \in Value /\ v.key \in Keys /\ m.ki[v.key] = i /\ At(m, i) = v
      /\ j \in Index /\ w \in Value /\ w.key \in Keys /\ m.ki[w.key] = j /\ At(m, j) = w
  BY Stored
<1>2. v.key # w.key /\ i < m.len /\ j < m.len
  BY <1>1 DEF IndexMaps
<1> HIDE DEF v, w
<1>3. n.len = m.len /\ n.ki = [[m.ki EXCEPT ![w.key] = i] EXCEPT ![v.key] = j]
        /\ n.iv = [[m.iv EXCEPT ![i] = w] EXCEPT ![j] = v]
        /\ n = [len |-> n.len, ki |-> n.ki, iv |-> n.iv]
  BY <1>1 DEF Swap, MapSet
<1>4. /\ n.ki \in [Keys -> Index \cup {None}]
      /\ \A k \in Keys : n.ki[k] = IF k = v.key THEN j ELSE IF k = w.key THEN i ELSE m.ki[k]
  BY <1>1, <1>3 DEF IndexMaps
<1>5. /\ n.iv \in [Index -> Value \cup {None}]
      /\ \A x \in Index : n.iv[x] = IF x = i THEN w ELSE IF x = j THEN v ELSE m.iv[x]
  BY <1>1, <1>3 DEF IndexMaps
<1>6. n \in IndexMaps
  BY <1>3, <1>4, <1>5 DEF IndexMaps
<1>7. Exact(n)
  <2>1. ASSUME NEW x \in Index
        PROVE  IF x < n.len THEN n.iv[x] # None /\ n.ki[n.iv[x].key] = x
               ELSE n.iv[x] = None
    <3>1. CASE x = i
      BY <1>1, <1>2, <1>3, <1>4, <1>5, <3>1, NoneIsNothing
    <3>2. CASE x = j
      BY <1>1, <1>2, <1>3, <1>4, <1>5, <3>2, NoneIsNothing
    <3>3. CASE x # i /\ x # j /\ x < m.len
      <4>1. m.iv[x] \in Value /\ m.iv[x].key \in Keys /\ m.ki[m.iv[x].key] = x
        BY <3>3, Stored, IndexIsNotNone DEF IndexMaps
      <4>2. m.iv[x].key # v.key /\ m.iv[x].key # w.key
        BY <1>1, <3>3, <4>1
      <4> QED BY <1>3, <1>4, <1>5, <3>3, <4>1, <4>2, NoneIsNothing
    <3>4. CASE ~(x < m.len)
      BY <1>1, <1>3, <1>5, <3>4 DEF Exact, IndexMaps
    <3> QED BY <3>1, <3>2, <3>3, <3>4
  <2>2. ASSUME NEW k \in Keys, n.ki[k] # None
        PROVE  n.iv[n.ki[k]] # None /\ n.iv[n.ki[k]].key = k
    <3>1. CASE k = v.key \/ k = w.key
      BY <1>1, <1>2, <1>4, <1>5, <3>1, NoneIsNothing
    <3>2. CASE k # v.key /\ k # w.key
      <4>1. n.ki[k] = m.ki[k] BY <1>4, <3>2
      <4>2. m.ki[k] \in 0 .. m.len - 1 /\ m.iv[m.ki[k]].key = k BY <2>2, <4>1, Found
      <4>3. m.ki[k] \in Index /\ m.iv[m.ki[k]] \in Value BY <4>2, Stored
      <4>4. m.ki[k] # i /\ m.ki[k] # j BY <3>2, <4>2 DEF v, w
      <4> QED BY <1>5, <4>1, <4>2, <4>3, <4>4, NoneIsNothing
    <3> QED BY <3>1, <3>2
  <2> QED BY <2>1, <2>2 DEF Exact
<1>8. \A k \in Keys : m.ki[k] = None => n.ki[k] = None
  BY <1>1, <1>4, IndexIsNotNone
<1> QED BY <1>3, <1>5, <1>6, <1>7, <1>8 DEF v, w

(* The last value deleted (`remove_item', and `extract' of the only one).  *)
LEMMA Shortened ==
    ASSUME NEW m \in IndexMaps, Exact(m), m.len # 0,
           NEW n, n = WithLength(MapDelete(m, m.len - 1, m.iv[m.len - 1].key), m.len - 1)
    PROVE  /\ n \in IndexMaps /\ Exact(n)
           /\ n.len = m.len - 1
           /\ \A k \in Keys : m.ki[k] = None => n.ki[k] = None
           /\ \A x \in Index : x < n.len => n.iv[x] = m.iv[x]
<1> DEFINE e == m.len - 1
           w == m.iv[e]
<1>1. m.len \in Nat /\ e \in 0 .. m.len - 1
  BY CapacityIsPositive DEF IndexMaps
<1>2. e \in Index /\ w \in Value /\ w.key \in Keys /\ m.ki[w.key] = e
  BY <1>1, Stored
<1>3. n.len = e /\ n.ki = [m.ki EXCEPT ![w.key] = None] /\ n.iv = [m.iv EXCEPT ![e] = None]
        /\ n = [len |-> n.len, ki |-> n.ki, iv |-> n.iv]
  BY DEF WithLength, MapDelete
<1>e. e = m.len - 1 /\ e < m.len BY <1>1
<1> HIDE DEF e, w
<1>4. /\ n.ki \in [Keys -> Index \cup {None}]
      /\ \A k \in Keys : n.ki[k] = IF k = w.key THEN None ELSE m.ki[k]
  BY <1>2, <1>3 DEF IndexMaps
<1>5. /\ n.iv \in [Index -> Value \cup {None}]
      /\ \A x \in Index : n.iv[x] = IF x = e THEN None ELSE m.iv[x]
  BY <1>2, <1>3 DEF IndexMaps
<1>6. n \in IndexMaps
  BY <1>2, <1>3, <1>4, <1>5, CapacityIsPositive DEF IndexMaps, Index
<1>7. Exact(n)
  <2>1. ASSUME NEW x \in Index
        PROVE  IF x < n.len THEN n.iv[x] # None /\ n.ki[n.iv[x].key] = x
               ELSE n.iv[x] = None
    <3>1. CASE x = e
      <4>1. ~(x < n.len) BY <1>2, <1>3, <3>1, IndexIsNotNone
      <4> QED BY <1>5, <3>1, <4>1
    <3>2. CASE x < e
      <4>1. m.iv[x] \in Value /\ m.iv[x].key \in Keys /\ m.ki[m.iv[x].key] = x
        BY <1>1, <1>e, <3>2, Stored, IndexIsNotNone
      <4>2. m.iv[x].key # w.key
        BY <1>2, <3>2, <4>1, IndexIsNotNone
      <4>3. x < n.len /\ x # e BY <1>2, <1>3, <3>2, IndexIsNotNone
      <4>4. n.iv[x] = m.iv[x] /\ n.ki[m.iv[x].key] = x BY <1>4, <1>5, <4>1, <4>2, <4>3
      <4> QED BY <4>1, <4>3, <4>4, NoneIsNothing
    <3>3. CASE x > e
      <4>1. ~(x < n.len) /\ ~(x < m.len) /\ x # e
        BY <1>1, <1>2, <1>e, <1>3, <3>3, IndexIsNotNone
      <4>2. m.iv[x] = None BY <4>1 DEF Exact
      <4> QED BY <1>5, <4>1, <4>2
    <3>4. x \in Nat /\ e \in Nat BY <1>2, IndexIsNotNone
    <3>5. x = e \/ x < e \/ x > e BY <3>4
    <3> QED BY <3>1, <3>2, <3>3, <3>5
  <2>2. ASSUME NEW k \in Keys, n.ki[k] # None
        PROVE  n.iv[n.ki[k]] # None /\ n.iv[n.ki[k]].key = k
    <3>1. k # w.key /\ n.ki[k] = m.ki[k] BY <1>4, <2>2
    <3>2. m.ki[k] \in 0 .. m.len - 1 /\ m.iv[m.ki[k]].key = k BY <2>2, <3>1, Found
    <3>3. m.ki[k] \in Index /\ m.iv[m.ki[k]] \in Value BY <3>2, Stored
    <3>4. m.ki[k] # e BY <3>1, <3>2 DEF w
    <3> QED BY <1>5, <3>1, <3>2, <3>3, <3>4, NoneIsNothing
  <2> QED BY <2>1, <2>2 DEF Exact
<1>8. \A x \in Index : x < n.len => n.iv[x] = m.iv[x]
  BY <1>2, <1>3, <1>5, IndexIsNotNone
<1>9. \A k \in Keys : m.ki[k] = None => n.ki[k] = None
  BY <1>4
<1> QED BY <1>3, <1>6, <1>7, <1>8, <1>9 DEF e

(* A stored value that is not the last gives way to the last one, and the  *)
(* array gets shorter (`replace' and `set_length').                        *)
LEMMA Replaced ==
    ASSUME NEW m \in IndexMaps, Exact(m), NEW i \in 0 .. m.len - 1, i # m.len - 1,
           NEW n, n = WithLength(Replace(m, i, At(m, i), m.len - 1, At(m, m.len - 1)),
                                 m.len - 1)
    PROVE  /\ n \in IndexMaps /\ Exact(n)
           /\ n.len = m.len - 1
           /\ \A k \in Keys : m.ki[k] = None => n.ki[k] = None
           /\ \A x \in Index : x < n.len =>
                 n.iv[x] = IF x = i THEN m.iv[m.len - 1] ELSE m.iv[x]
<1> DEFINE e == m.len - 1
           v == m.iv[i]
           w == m.iv[e]
<1>1. m.len \in Nat /\ e \in 0 .. m.len - 1 /\ i < e
  BY CapacityIsPositive DEF IndexMaps
<1>2. /\ i \in Index /\ v \in Value /\ v.key \in Keys /\ m.ki[v.key] = i /\ At(m, i) = v
      /\ e \in Index /\ w \in Value /\ w.key \in Keys /\ m.ki[w.key] = e /\ At(m, e) = w
  BY <1>1, Stored
<1>3. v.key # w.key
  BY <1>1, <1>2
<1>e. e = m.len - 1 /\ e < m.len BY <1>1
<1>4. n = WithLength(Replace(m, i, v, e, w), e)
  BY <1>2
<1> HIDE DEF e, v, w
<1>5. n.len = e /\ n.ki = [[m.ki EXCEPT ![v.key] = None] EXCEPT ![w.key] = i]
        /\ n.iv = [[m.iv EXCEPT ![e] = None] EXCEPT ![i] = w]
        /\ n = [len |-> n.len, ki |-> n.ki, iv |-> n.iv]
  BY <1>4 DEF WithLength, Replace, MapSet
<1>6. /\ n.ki \in [Keys -> Index \cup {None}]
      /\ \A k \in Keys : n.ki[k] = IF k = w.key THEN i
                                   ELSE IF k = v.key THEN None ELSE m.ki[k]
  BY <1>2, <1>5 DEF IndexMaps
<1>7. /\ n.iv \in [Index -> Value \cup {None}]
      /\ \A x \in Index : n.iv[x] = IF x = i THEN w ELSE IF x = e THEN None ELSE m.iv[x]
  BY <1>2, <1>5 DEF IndexMaps
<1>8. n \in IndexMaps
  BY <1>2, <1>5, <1>6, <1>7, CapacityIsPositive DEF IndexMaps, Index
<1>9. Exact(n)
  <2>1. ASSUME NEW x \in Index
        PROVE  IF x < n.len THEN n.iv[x] # None /\ n.ki[n.iv[x].key] = x
               ELSE n.iv[x] = None
    <3>1. CASE x = i
      <4>1. x < n.len BY <1>1, <1>5, <3>1
      <4> QED BY <1>2, <1>6, <1>7, <3>1, <4>1, NoneIsNothing
    <3>2. CASE x = e
      <4>1. ~(x < n.len) /\ x # i BY <1>1, <1>2, <1>5, <3>2, IndexIsNotNone
      <4> QED BY <1>7, <3>2, <4>1
    <3>3. CASE x < e /\ x # i
      <4>1. m.iv[x] \in Value /\ m.iv[x].key \in Keys /\ m.ki[m.iv[x].key] = x
        BY <1>1, <1>e, <3>3, Stored, IndexIsNotNone
      <4>2. x < n.len /\ x # e BY <1>2, <1>5, <3>3, IndexIsNotNone
      <4>3. m.iv[x].key # w.key /\ m.iv[x].key # v.key
        BY <1>2, <3>3, <4>1, <4>2
      <4>4. n.iv[x] = m.iv[x] /\ n.ki[m.iv[x].key] = x BY <1>6, <1>7, <3>3, <4>1, <4>2, <4>3
      <4> QED BY <4>1, <4>2, <4>4, NoneIsNothing
    <3>4. CASE x > e
      <4>1. ~(x < n.len) /\ ~(x < m.len) /\ x # e /\ x # i
        BY <1>1, <1>2, <1>e, <1>5, <3>4, IndexIsNotNone
      <4>2. m.iv[x] = None BY <4>1 DEF Exact
      <4> QED BY <1>7, <4>1, <4>2
    <3>5. x \in Nat /\ e \in Nat BY <1>2, IndexIsNotNone
    <3>6. x = e \/ x < e \/ x > e BY <3>5
    <3> QED BY <3>1, <3>2, <3>3, <3>4, <3>6
  <2>2. ASSUME NEW k \in Keys, n.ki[k] # None
        PROVE  n.iv[n.ki[k]] # None /\ n.iv[n.ki[k]].key = k
    <3>1. CASE k = w.key
      BY <1>2, <1>6, <1>7, <3>1, NoneIsNothing
    <3>2. CASE k # w.key
      <4>1. k # v.key /\ n.ki[k] = m.ki[k] BY <1>6, <2>2, <3>2
      <4>2. m.ki[k] \in 0 .. m.len - 1 /\ m.iv[m.ki[k]].key = k BY <2>2, <4>1, Found
      <4>3. m.ki[k] \in Index /\ m.iv[m.ki[k]] \in Value BY <4>2, Stored
      <4>4. m.ki[k] # e /\ m.ki[k] # i BY <3>2, <4>1, <4>2 DEF w, v
      <4> QED BY <1>7, <4>1, <4>2, <4>3, <4>4, NoneIsNothing
    <3> QED BY <3>1, <3>2
  <2> QED BY <2>1, <2>2 DEF Exact
<1>10. \A x \in Index : x < n.len => n.iv[x] = IF x = i THEN w ELSE m.iv[x]
  BY <1>2, <1>5, <1>7, IndexIsNotNone
<1>11. \A k \in Keys : m.ki[k] = None => n.ki[k] = None
  BY <1>2, <1>6, IndexIsNotNone
<1> QED BY <1>5, <1>8, <1>9, <1>10, <1>11 DEF e, w

(* `clear' of an exact map leaves nothing.                                 *)
LEMMA Cleared ==
    ASSUME NEW m \in IndexMaps, Exact(m)
    PROVE  MapClear(m) = EmptyMap
<1> DEFINE keys == {m.iv[i].key : i \in 0 .. m.len - 1}
<1>1. ASSUME NEW k \in Keys PROVE k \in keys \/ m.ki[k] = None
  BY Found
<1>2. ASSUME NEW i \in Index PROVE i < m.len \/ m.iv[i] = None
  BY DEF Exact
<1> HIDE DEF keys
<1>3. [k \in Keys |-> IF k \in keys THEN None ELSE m.ki[k]] = [k \in Keys |-> None]
  BY <1>1
<1>4. [i \in Index |-> IF i < m.len THEN None ELSE m.iv[i]] = [i \in Index |-> None]
  BY <1>2
<1> QED BY <1>3, <1>4 DEF MapClear, EmptyMap, keys

(* `reset' from an empty map, with a list that fits and names no key twice. *)
LEMMA Filled ==
    ASSUME NEW list \in Seq(Value), Len(list) <= Capacity,
           \A i, j \in 1 .. Len(list) : list[i].key = list[j].key => i = j,
           NEW n, n = MapFill(EmptyMap, list)
    PROVE  /\ n \in IndexMaps /\ Exact(n)
           /\ n.len = Len(list)
           /\ \A x \in Index : x < n.len => n.iv[x] = list[x + 1]
<1> DEFINE last(k) == Max({j \in 1 .. Len(list) : list[j].key = k})
           In(k) == \E j \in 1 .. Len(list) : list[j].key = k
<1>1. Len(list) \in Nat /\ Len(list) \in 0 .. Capacity /\ \A j \in 1 .. Len(list) : list[j] \in Value
  BY CapacityIsPositive
<1>2. ASSUME NEW j \in 1 .. Len(list)
      PROVE  last(list[j].key) = j
  <2>1. {i \in 1 .. Len(list) : list[i].key = list[j].key} = {j}
    OBVIOUS
  <2>2. Max({j}) = j
    BY DEF Max
  <2> QED BY <2>1, <2>2
<1> HIDE DEF last
<1>3. /\ n.len = Len(list)
      /\ n.ki = [k \in Keys |-> IF In(k) THEN last(k) - 1 ELSE None]
      /\ n.iv = [i \in Index |-> IF i < Len(list) THEN list[i + 1] ELSE None]
      /\ n = [len |-> n.len, ki |-> n.ki, iv |-> n.iv]
  BY DEF MapFill, EmptyMap, last
<1>4. ASSUME NEW k \in Keys, In(k)
      PROVE  /\ n.ki[k] \in Index /\ n.ki[k] < Len(list)
             /\ list[n.ki[k] + 1].key = k
  <2>1. PICK j \in 1 .. Len(list) : list[j].key = k
    BY <1>4
  <2>2. n.ki[k] = j - 1
    BY <1>2, <1>3, <1>4, <2>1
  <2> QED BY <1>1, <2>1, <2>2, CapacityIsPositive DEF Index
<1>5. ASSUME NEW k \in Keys, ~In(k)
      PROVE  n.ki[k] = None
  BY <1>3, <1>5
<1>6. ASSUME NEW i \in Index, i < Len(list)
      PROVE  /\ i + 1 \in 1 .. Len(list)
             /\ n.iv[i] = list[i + 1] /\ n.iv[i] \in Value
             /\ n.ki[n.iv[i].key] = i
  <2>1. i + 1 \in 1 .. Len(list) /\ n.iv[i] = list[i + 1] /\ n.iv[i] \in Value
    BY <1>1, <1>3, <1>6, IndexIsNotNone
  <2>2. In(n.iv[i].key) /\ n.iv[i].key \in Keys
    BY <2>1, ValuesAreKeyed
  <2>3. n.ki[n.iv[i].key] = (i + 1) - 1
    BY <1>2, <1>3, <2>1, <2>2
  <2> QED BY <2>1, <2>3, IndexIsNotNone
<1>7. ASSUME NEW i \in Index, ~(i < Len(list))
      PROVE  n.iv[i] = None
  BY <1>3, <1>7
<1> HIDE DEF In
<1>8. n \in IndexMaps
  <2>1. n.ki \in [Keys -> Index \cup {None}]
    BY <1>3, <1>4, <1>5
  <2>2. n.iv \in [Index -> Value \cup {None}]
    BY <1>3, <1>6, <1>7
  <2> QED BY <1>1, <1>3, <2>1, <2>2 DEF IndexMaps
<1>9. Exact(n)
  <2>1. ASSUME NEW i \in Index
        PROVE  IF i < n.len THEN n.iv[i] # None /\ n.ki[n.iv[i].key] = i
               ELSE n.iv[i] = None
    BY <1>3, <1>6, <1>7, NoneIsNothing
  <2>2. ASSUME NEW k \in Keys, n.ki[k] # None
        PROVE  n.iv[n.ki[k]] # None /\ n.iv[n.ki[k]].key = k
    <3>1. In(k) BY <1>5, <2>2
    <3>2. n.ki[k] \in Index /\ n.ki[k] < Len(list) /\ list[n.ki[k] + 1].key = k
      BY <1>4, <3>1
    <3> QED BY <1>6, <3>2, NoneIsNothing
  <2> QED BY <2>1, <2>2 DEF Exact
<1> QED BY <1>3, <1>6, <1>8, <1>9

-----------------------------------------------------------------------------
(* What each turn of a loop, and each operation, does to the order.        *)

(* Stored values have a place in the order.                                *)
LEMMA RankOfStored ==
    ASSUME NEW m \in IndexMaps, Exact(m), NEW i \in 0 .. m.len - 1
    PROVE  Rank[m.iv[i]] \in Nat
    BY Stored, RankIsNat

(* Below the first index, a parent is an index of the array again.         *)
LEMMA ParentStored ==
    ASSUME NEW m \in IndexMaps, NEW i \in 1 .. m.len - 1
    PROVE  Parent(i) \in 0 .. m.len - 1 /\ Parent(i) < i /\ i \in 0 .. m.len - 1
    BY ParentOfIndex DEF IndexMaps

(* A turn of `up_heapify' that swaps.                                      *)
LEMMA SwappedUp ==
    ASSUME NEW m \in IndexMaps, Exact(m), NEW i \in 0 .. m.len - 1, i # 0,
           MovingUp(m, i), Before(m.iv[i], m.iv[Parent(i)]),
           NEW n, n = Swap(m, i, At(m, i), Parent(i), At(m, Parent(i)))
    PROVE  MovingUp(n, Parent(i))
<1> DEFINE p == Parent(i)
<1>1. p \in 0 .. m.len - 1 /\ p < i /\ i \in 1 .. m.len - 1
  BY ParentStored DEF IndexMaps
<1>2. /\ n.len = m.len
      /\ \A x \in 0 .. m.len - 1 :
            n.iv[x] = IF x = i THEN m.iv[p] ELSE IF x = p THEN m.iv[i] ELSE m.iv[x]
  BY <1>1, Swapped, Stored
<1>3. \A x \in 0 .. m.len - 1 : Rank[m.iv[x]] \in Nat
  BY RankOfStored
<1>4. ASSUME NEW x \in 1 .. n.len - 1, x # p
      PROVE  InOrder(n, x)
  <2>1. Parent(x) \in 0 .. m.len - 1 /\ x \in 0 .. m.len - 1
    BY <1>2, ParentStored
  <2>2. x # i => InOrder(m, x)
    BY <1>2 DEF MovingUp
  <2>3. CASE x = i
    BY <1>1, <1>2, <1>3, <2>3 DEF InOrder, Before
  <2>4. CASE x # i /\ Parent(x) = i
    <3>1. ~Before(m.iv[x], m.iv[p])
      BY <1>2, <2>4 DEF MovingUp, Bridged
    <3> QED BY <1>1, <1>2, <2>1, <2>4, <3>1, <1>4 DEF InOrder
  <2>5. CASE x # i /\ Parent(x) = p
    BY <1>1, <1>2, <1>3, <2>1, <2>2, <2>5, <1>4 DEF InOrder, Before
  <2>6. CASE x # i /\ Parent(x) # i /\ Parent(x) # p
    BY <1>1, <1>2, <2>1, <2>2, <2>6, <1>4 DEF InOrder
  <2> QED BY <2>3, <2>4, <2>5, <2>6
<1>5. ASSUME NEW x \in 1 .. n.len - 1, Parent(x) = p, p # 0
      PROVE  ~Before(n.iv[x], n.iv[Parent(p)])
  <2>1. p \in 1 .. m.len - 1 /\ Parent(p) \in 0 .. m.len - 1 /\ Parent(p) < p
    BY <1>1, <1>5, ParentStored DEF IndexMaps
  <2>2. ~Before(m.iv[p], m.iv[Parent(p)]) /\ n.iv[Parent(p)] = m.iv[Parent(p)]
    BY <1>1, <1>2, <2>1 DEF MovingUp, InOrder
  <2>3. x \in 0 .. m.len - 1 /\ p < x
    BY <1>2, <1>5, ParentStored
  <2>4. CASE x = i
    BY <1>1, <1>2, <2>2, <2>4
  <2>5. CASE x # i
    <3>1. ~Before(m.iv[x], m.iv[p]) /\ n.iv[x] = m.iv[x]
      BY <1>1, <1>2, <1>5, <2>3, <2>5 DEF MovingUp, InOrder
    <3> QED BY <1>1, <1>3, <2>1, <2>2, <2>3, <3>1 DEF Before
  <2> QED BY <2>4, <2>5
<1> QED BY <1>1, <1>2, <1>4, <1>5 DEF MovingUp, Bridged

(* The last turn of `up_heapify'.                                          *)
LEMMA SettledUp ==
    ASSUME NEW m \in IndexMaps, NEW i, MovingUp(m, i),
           i = 0 \/ ~Before(m.iv[i], m.iv[Parent(i)])
    PROVE  AllInOrder(m)
    BY DEF MovingUp, AllInOrder, InOrder, IndexMaps

(* `down_heapify' takes a least child, if one is before its parent.        *)
LEMMA HeadIsLeast ==
    ASSUME NEW m \in IndexMaps, Exact(m), NEW i \in 0 .. m.len - 1,
           NEW h, h = HeadOf(m, i)
    PROVE  /\ h \in 0 .. m.len - 1
           /\ h # i => /\ h \in 1 .. m.len - 1 /\ Parent(h) = i
                       /\ Before(m.iv[h], m.iv[i])
           /\ \A x \in 1 .. m.len - 1 : Parent(x) = i => ~Before(m.iv[x], m.iv[h])
<1> DEFINE c == Left(i)
           d == Right(i)
           l == IF c < m.len /\ Before(At(m, c), At(m, i)) THEN c ELSE i
<1>1. m.len \in Nat /\ i \in Nat /\ c \in Nat /\ d \in Nat /\ i < c /\ i < d
        /\ Parent(c) = i /\ Parent(d) = i
  BY ParentOfChildren DEF IndexMaps, Left, Right
<1>2. \A x \in 0 .. m.len - 1 : Rank[m.iv[x]] \in Nat /\ At(m, x) = m.iv[x]
  BY RankOfStored, Stored
<1>3. /\ l \in 0 .. m.len - 1
      /\ l = i \/ (l = c /\ Before(m.iv[l], m.iv[i]))
      /\ ~Before(m.iv[i], m.iv[l])
      /\ c < m.len => ~Before(m.iv[c], m.iv[l])
  BY <1>1, <1>2 DEF Before
<1>4. h = IF d < m.len /\ Before(At(m, d), At(m, l)) THEN d ELSE l
  BY DEF HeadOf
<1> HIDE DEF l
<1>5. /\ h \in 0 .. m.len - 1
      /\ h = i \/ ((h = c \/ h = d) /\ Before(m.iv[h], m.iv[i]))
      /\ c < m.len => ~Before(m.iv[c], m.iv[h])
      /\ d < m.len => ~Before(m.iv[d], m.iv[h])
  BY <1>1, <1>2, <1>3, <1>4 DEF Before
<1>6. ASSUME NEW x \in 1 .. m.len - 1, Parent(x) = i
      PROVE  ~Before(m.iv[x], m.iv[h])
  <2>1. x \in Nat /\ x # 0 /\ x < m.len BY <1>1
  <2>2. x = c \/ x = d BY <1>6, <2>1, ParentOfIndex
  <2> QED BY <1>5, <2>1, <2>2
<1> QED BY <1>1, <1>5, <1>6

(* A turn of `down_heapify' that swaps.                                    *)
LEMMA SwappedDown ==
    ASSUME NEW m \in IndexMaps, Exact(m), NEW i \in 0 .. m.len - 1, MovingDown(m, i),
           NEW h, h = HeadOf(m, i), h # i,
           NEW n, n = Swap(m, i, At(m, i), h, At(m, h))
    PROVE  MovingDown(n, h)
<1>1. /\ h \in 1 .. m.len - 1 /\ h \in 0 .. m.len - 1 /\ Parent(h) = i
      /\ Before(m.iv[h], m.iv[i])
      /\ \A x \in 1 .. m.len - 1 : Parent(x) = i => ~Before(m.iv[x], m.iv[h])
  BY HeadIsLeast
<1>2. /\ n.len = m.len
      /\ \A x \in 0 .. m.len - 1 :
            n.iv[x] = IF x = i THEN m.iv[h] ELSE IF x = h THEN m.iv[i] ELSE m.iv[x]
  BY <1>1, Swapped, Stored
<1>3. \A x \in 0 .. m.len - 1 : Rank[m.iv[x]] \in Nat
  BY RankOfStored
<1>4. ASSUME NEW x \in 1 .. n.len - 1, Parent(x) # h
      PROVE  InOrder(n, x)
  <2>1. Parent(x) \in 0 .. m.len - 1 /\ x \in 0 .. m.len - 1
    BY <1>2, ParentStored
  <2>2. CASE x = h
    BY <1>1, <1>2, <1>3, <2>2 DEF InOrder, Before
  <2>3. CASE x # h /\ Parent(x) = i
    <3>1. x # i BY <1>2, <2>3, ParentStored DEF IndexMaps
    <3> QED BY <1>1, <1>2, <2>1, <2>3, <3>1 DEF InOrder
  <2>4. CASE x = i
    <3>1. ~Before(m.iv[h], m.iv[Parent(i)])
      BY <1>1, <1>2, <2>4 DEF MovingDown, Bridged
    <3>2. Parent(x) # i
      BY <1>2, <2>4, ParentStored DEF IndexMaps
    <3> QED BY <1>1, <1>2, <2>1, <2>4, <1>4, <3>1, <3>2 DEF InOrder
  <2>5. CASE x # h /\ x # i /\ Parent(x) # i
    <3>1. InOrder(m, x) BY <1>2, <2>5 DEF MovingDown
    <3> QED BY <1>1, <1>2, <2>1, <2>5, <1>4, <3>1 DEF InOrder
  <2> QED BY <2>2, <2>3, <2>4, <2>5
<1>5. ASSUME NEW x \in 1 .. n.len - 1, Parent(x) = h
      PROVE  ~Before(n.iv[x], n.iv[Parent(h)])
  <2>1. x \in 0 .. m.len - 1 /\ h < x /\ i < h
    BY <1>1, <1>2, <1>5, ParentStored
  <2>2. InOrder(m, x)
    BY <1>1, <1>2, <1>5, <2>1 DEF MovingDown
  <2> QED BY <1>1, <1>2, <1>5, <2>1, <2>2 DEF InOrder
<1> QED BY <1>1, <1>2, <1>4, <1>5 DEF MovingDown, Bridged

(* The last turn of `down_heapify'.                                        *)
LEMMA SettledDown ==
    ASSUME NEW m \in IndexMaps, Exact(m), NEW i \in 0 .. m.len - 1, MovingDown(m, i),
           HeadOf(m, i) = i
    PROVE  AllInOrder(m)
    BY HeadIsLeast DEF MovingDown, AllInOrder, InOrder

(* A value inserted last has only its parent to be compared with.          *)
LEMMA AppendedMovesUp ==
    ASSUME NEW m \in IndexMaps, Exact(m), AllInOrder(m), NEW v \in Value,
           m.len < Capacity, m.ki[v.key] = None,
           NEW n, n = WithLength(MapSet(m, m.len, v), m.len + 1)
    PROVE  MovingUp(n, m.len)
<1>1. /\ m.len \in Nat /\ m.len \in Index /\ n.len = m.len + 1
      /\ \A x \in Index : n.iv[x] = IF x = m.len THEN v ELSE m.iv[x]
      /\ n \in IndexMaps
  BY Appended, CapacityIsPositive DEF IndexMaps, Index
<1>2. ASSUME NEW x \in 1 .. n.len - 1
      PROVE  /\ x # m.len => InOrder(n, x)
             /\ Parent(x) # m.len
  <2>1. x \in Nat /\ x <= m.len /\ Parent(x) \in Nat /\ Parent(x) < x
    BY <1>1, ParentStored
  <2>2. x # m.len => x \in 1 .. m.len - 1 /\ x \in Index /\ Parent(x) \in Index
    BY <1>1, <2>1, CapacityIsPositive DEF Index
  <2> QED BY <1>1, <2>1, <2>2 DEF AllInOrder, InOrder
<1> QED BY <1>1, <1>2 DEF MovingUp, Bridged

(* A value that grew goes down, one that got smaller goes up.              *)
LEMMA OverwrittenMoves ==
    ASSUME NEW m \in IndexMaps, Exact(m), AllInOrder(m), NEW v \in Value,
           m.ki[v.key] # None,
           NEW i, i = m.ki[v.key],
           NEW n, n = MapSet(m, i, v)
    PROVE  /\ Before(m.iv[i], v) => MovingDown(n, i)
           /\ Before(v, m.iv[i]) => MovingUp(n, i)
<1>1. i \in 0 .. m.len - 1 /\ v.key \in Keys
  BY Found, ValuesAreKeyed
<1>2. n.len = m.len /\ \A x \in 0 .. m.len - 1 : n.iv[x] = IF x = i THEN v ELSE m.iv[x]
  BY Overwritten, Stored
<1>3. Rank[v] \in Nat /\ \A x \in 0 .. m.len - 1 : Rank[m.iv[x]] \in Nat
  BY RankOfStored, RankIsNat
<1>4. ASSUME NEW x \in 1 .. m.len - 1
      PROVE  /\ Parent(x) \in 0 .. m.len - 1 /\ Parent(x) # x /\ x \in 0 .. m.len - 1
             /\ Rank[m.iv[Parent(x)]] <= Rank[m.iv[x]]
  <2>1. Parent(x) \in 0 .. m.len - 1 /\ Parent(x) < x /\ x \in 0 .. m.len - 1
    BY ParentStored
  <2> QED BY <1>3, <2>1 DEF AllInOrder, InOrder, Before, IndexMaps
<1>5. i # 0 => /\ i \in 1 .. m.len - 1
               /\ Parent(i) \in 0 .. m.len - 1 /\ Parent(i) # i
               /\ Rank[m.iv[Parent(i)]] <= Rank[m.iv[i]]
  BY <1>1, <1>4 DEF IndexMaps
<1>6. Bridged(n, i)
  <2> SUFFICES ASSUME NEW x \in 1 .. m.len - 1, Parent(x) = i, i # 0
               PROVE  ~Before(n.iv[x], n.iv[Parent(i)])
    BY <1>2 DEF Bridged
  <2>1. Rank[m.iv[i]] <= Rank[m.iv[x]] /\ x # i /\ x \in 0 .. m.len - 1
    BY <1>4
  <2>2. n.iv[x] = m.iv[x] /\ n.iv[Parent(i)] = m.iv[Parent(i)]
    BY <1>2, <1>5, <2>1
  <2> QED BY <1>1, <1>3, <1>5, <2>1, <2>2 DEF Before
<1>7. ASSUME NEW x \in 1 .. m.len - 1
      PROVE  /\ x # i /\ Parent(x) # i => InOrder(n, x)
             /\ x = i /\ Before(m.iv[i], v) => InOrder(n, x)
             /\ Parent(x) = i /\ Before(v, m.iv[i]) => InOrder(n, x)
  <2>1. x # i /\ Parent(x) # i => InOrder(n, x)
    BY <1>2, <1>3, <1>4 DEF InOrder, Before
  <2>2. x = i /\ Before(m.iv[i], v) => InOrder(n, x)
    BY <1>1, <1>2, <1>3, <1>4 DEF InOrder, Before
  <2>3. Parent(x) = i /\ Before(v, m.iv[i]) => InOrder(n, x)
    BY <1>1, <1>2, <1>3, <1>4 DEF InOrder, Before
  <2> QED BY <2>1, <2>2, <2>3
<1>8. Before(m.iv[i], v) => MovingDown(n, i)
  BY <1>1, <1>2, <1>6, <1>7 DEF MovingDown
<1>9. Before(v, m.iv[i]) => MovingUp(n, i)
  BY <1>1, <1>2, <1>6, <1>7 DEF MovingUp
<1> QED BY <1>8, <1>9

(* The last value in the place of another goes down if it is the greater,  *)
(* up if it is the lesser, and stays if it is neither; in the first place  *)
(* it can only go down.                                                    *)
LEMMA ReplacedMoves ==
    ASSUME NEW m \in IndexMaps, Exact(m), AllInOrder(m),
           NEW i \in 0 .. m.len - 1, i # m.len - 1,
           NEW n, n = WithLength(Replace(m, i, At(m, i), m.len - 1, At(m, m.len - 1)),
                                 m.len - 1)
    PROVE  LET w == m.iv[m.len - 1]
           IN  /\ Before(m.iv[i], w) \/ i = 0 => MovingDown(n, i)
               /\ Before(w, m.iv[i]) => MovingUp(n, i)
               /\ ~Before(m.iv[i], w) /\ ~Before(w, m.iv[i]) => AllInOrder(n)
<1> DEFINE e == m.len - 1
           w == m.iv[e]
<1>1. m.len \in Nat /\ e \in 0 .. m.len - 1 /\ i \in Nat /\ i < e
  BY DEF IndexMaps
<1>2. /\ n.len = e
      /\ \A x \in 0 .. e - 1 : n.iv[x] = IF x = i THEN w ELSE m.iv[x]
  <2>1. \A x \in 0 .. e - 1 : x \in Index /\ x < e BY <1>1, Stored
  <2> QED BY <2>1, Replaced
<1>3. Rank[w] \in Nat /\ \A x \in 0 .. m.len - 1 : Rank[m.iv[x]] \in Nat
  BY <1>1, RankOfStored
<1>4. ASSUME NEW x \in 1 .. e - 1
      PROVE  /\ Parent(x) \in 0 .. e - 1 /\ Parent(x) # x /\ x \in 0 .. e - 1
             /\ Rank[m.iv[Parent(x)]] <= Rank[m.iv[x]]
  <2>1. x \in 1 .. m.len - 1 /\ x \in 0 .. e - 1
    BY <1>1
  <2>2. Parent(x) \in 0 .. m.len - 1 /\ Parent(x) < x
    BY <2>1, ParentStored
  <2>3. Parent(x) \in 0 .. e - 1 /\ Parent(x) # x
    BY <1>1, <2>1, <2>2
  <2> QED BY <1>1, <1>3, <2>1, <2>2, <2>3 DEF AllInOrder, InOrder, Before
<1> HIDE DEF w, e
<1>5. i # 0 => /\ i \in 1 .. e - 1
               /\ Parent(i) \in 0 .. e - 1 /\ Parent(i) # i
               /\ Rank[m.iv[Parent(i)]] <= Rank[m.iv[i]]
  BY <1>1, <1>4 DEF e
<1>r. \A x \in 0 .. e - 1 : x \in 0 .. m.len - 1 BY <1>1
<1>6. Bridged(n, i)
  <2> SUFFICES ASSUME NEW x \in 1 .. e - 1, Parent(x) = i, i # 0
               PROVE  ~Before(n.iv[x], n.iv[Parent(i)])
    BY <1>2 DEF Bridged
  <2>1. Rank[m.iv[i]] <= Rank[m.iv[x]] /\ x # i /\ x \in 0 .. e - 1
    BY <1>4
  <2>2. n.iv[x] = m.iv[x] /\ n.iv[Parent(i)] = m.iv[Parent(i)]
    BY <1>2, <1>5, <2>1
  <2> QED BY <1>1, <1>3, <1>5, <1>r, <2>1, <2>2 DEF Before
<1>7. ASSUME NEW x \in 1 .. e - 1
      PROVE  /\ x # i /\ Parent(x) # i => InOrder(n, x)
             /\ x = i /\ ~Before(w, m.iv[i]) => InOrder(n, x)
             /\ Parent(x) = i /\ ~Before(m.iv[i], w) => InOrder(n, x)
  <2>1. x # i /\ Parent(x) # i => InOrder(n, x)
    BY <1>2, <1>3, <1>4, <1>r DEF InOrder, Before
  <2>2. x = i /\ ~Before(w, m.iv[i]) => InOrder(n, x)
    BY <1>1, <1>2, <1>3, <1>4, <1>r DEF InOrder, Before
  <2>3. Parent(x) = i /\ ~Before(m.iv[i], w) => InOrder(n, x)
    BY <1>1, <1>2, <1>3, <1>4, <1>r DEF InOrder, Before
  <2> QED BY <2>1, <2>2, <2>3
<1>i. i \in 0 .. n.len - 1 /\ i \in 0 .. m.len - 1
  BY <1>1, <1>2 DEF e
<1>8. Before(m.iv[i], w) \/ i = 0 => MovingDown(n, i)
  <2>1. Before(m.iv[i], w) => ~Before(w, m.iv[i])
    BY <1>3, <1>i DEF Before
  <2>2. i = 0 => \A x \in 1 .. e - 1 : x # i
    BY <1>1
  <2> QED BY <1>2, <1>6, <1>7, <1>i, <2>1, <2>2 DEF MovingDown
<1>9. Before(w, m.iv[i]) => MovingUp(n, i)
  <2>1. Before(w, m.iv[i]) => ~Before(m.iv[i], w)
    BY <1>3, <1>i DEF Before
  <2> QED BY <1>2, <1>6, <1>7, <1>i, <2>1 DEF MovingUp
<1>10. ~Before(m.iv[i], w) /\ ~Before(w, m.iv[i]) => AllInOrder(n)
  BY <1>2, <1>7 DEF AllInOrder
<1> QED BY <1>8, <1>9, <1>10 DEF w, e

(* In a heap in order the first value is a least one: of the indices with  *)
(* a lesser value the smallest would have a parent that is another.        *)
LessThan == {p \in Nat \X Nat : p[1] < p[2]}

(* A set of indices has a smallest one.                                    *)
LEMMA SmallestIndex ==
    ASSUME NEW S, S \subseteq Nat, S # {}
    PROVE  \E i \in S : \A j \in S : ~(j < i)
<1>1. IsWellFoundedOn(LessThan, Nat)
  BY NatLessThanWellFounded DEF OpToRel, LessThan
<1>2. \E i \in S : \A j \in S : <<j, i>> \notin LessThan
  BY <1>1, WFMin
<1> QED BY <1>2 DEF LessThan

(* No stored value is before the first.                                    *)
LEMMA FirstOfHeap ==
    ASSUME NEW m \in IndexMaps, Exact(m), AllInOrder(m)
    PROVE  \A i \in 0 .. m.len - 1 : ~Before(m.iv[i], m.iv[0])
<1> DEFINE S == {i \in 0 .. m.len - 1 : Before(m.iv[i], m.iv[0])}
<1> SUFFICES ASSUME S # {} PROVE FALSE
  OBVIOUS
<1>0. S \subseteq Nat
  OBVIOUS
<1> HIDE DEF S
<1>1. PICK i \in S : \A j \in S : ~(j < i)
  BY <1>0, SmallestIndex
<1> USE DEF S
<1>2. \A x \in 0 .. m.len - 1 : Rank[m.iv[x]] \in Nat
  BY RankOfStored
<1>3. 0 \in 0 .. m.len - 1 /\ i \in 0 .. m.len - 1 /\ Before(m.iv[i], m.iv[0])
  BY <1>1 DEF IndexMaps
<1>4. i \in 1 .. m.len - 1
  BY <1>2, <1>3 DEF Before, IndexMaps
<1>5. Parent(i) \in 0 .. m.len - 1 /\ Parent(i) < i /\ ~Before(m.iv[i], m.iv[Parent(i)])
  BY <1>4, ParentStored DEF AllInOrder, InOrder
<1>6. Parent(i) \in S
  BY <1>2, <1>3, <1>5 DEF Before
<1> QED BY <1>1, <1>5, <1>6

-----------------------------------------------------------------------------
(* The invariant is established and preserved, action by action.           *)

(* An empty heap satisfies the invariant.                                  *)
LEMMA InitEstablishes == Init => IInv
<1> SUFFICES ASSUME Init PROVE IInv
  OBVIOUS
<1>1. heap = EmptyMap /\ sift = Idle /\ pending = None /\ out = None
  BY DEF Init
<1>2. EmptyMap \in IndexMaps /\ EmptyMap.len = 0 /\ Exact(EmptyMap)
  BY CapacityIsPositive DEF EmptyMap, IndexMaps, Exact, Index
<1>3. AllInOrder(EmptyMap)
  BY <1>2 DEF AllInOrder
<1>4. TypeOK
  BY <1>1, <1>2, CapacityIsPositive DEF TypeOK, Idle, Index
<1> QED BY <1>1, <1>2, <1>3, <1>4 DEF IInv, LoopOK, PendingOK

(* What holds of the heap when a caller may operate on it.                 *)
LEMMA WhenReady ==
    ASSUME IInv, Ready
    PROVE  /\ heap \in IndexMaps /\ Exact(heap) /\ AllInOrder(heap)
           /\ heap.len \in Nat /\ heap.len <= Capacity
           /\ sift = Idle /\ pending = None /\ 0 \in Index
           /\ sift \in [way : {"none", "down", "up"}, at : Index]
           /\ out \in Value \cup {None, Failed}
<1>1. TypeOK /\ Exact(heap) /\ sift = Idle /\ pending = None
  BY DEF IInv, Ready
<1>2. AllInOrder(heap)
  BY <1>1 DEF IInv, LoopOK, Idle, Up, Down
<1>3. heap \in IndexMaps /\ heap.len \in Nat /\ heap.len <= Capacity /\ 0 \in Index
  BY <1>1, CapacityIsPositive DEF TypeOK, IndexMaps, Index
<1> QED BY <1>1, <1>2, <1>3 DEF TypeOK

(* The invariant from its parts in the next state.                         *)
Moves(m, s) ==
    \/ s = Idle /\ AllInOrder(m)
    \/ \E i \in Index : s = Up(i) /\ MovingUp(m, i)
    \/ \E i \in Index : s = Down(i) /\ MovingDown(m, i)

(* Nothing pending: the parts are enough for the invariant. *)
LEMMA InvFromParts ==
    ASSUME heap' \in IndexMaps, Exact(heap'), Moves(heap', sift'),
           pending' = None, out' \in Value \cup {None, Failed}
    PROVE  IInv'
<1>1. sift' \in [way : {"none", "down", "up"}, at : Index]
  BY CapacityIsPositive DEF Moves, Idle, Up, Down, Index
<1>2. LoopOK'
  BY DEF Moves, LoopOK
<1> QED BY <1>1, <1>2 DEF IInv, TypeOK, PendingOK

(* The extraction of `extract', `insert_extract' and `remove_item'.        *)
LEMMA ExtractFirstStep ==
    ASSUME IInv, Ready, heap.len # 0, ExtractFirst
    PROVE  /\ heap' \in IndexMaps /\ Exact(heap')
           /\ heap'.len = heap.len - 1
           /\ \A k \in Keys : heap.ki[k] = None => heap'.ki[k] = None
           /\ \/ sift' = Idle /\ AllInOrder(heap')
              \/ sift' = Down(0) /\ MovingDown(heap', 0)
<1>1. /\ heap \in IndexMaps /\ Exact(heap) /\ AllInOrder(heap)
      /\ heap.len \in Nat /\ heap.len # 0 /\ 0 \in 0 .. heap.len - 1
  BY WhenReady
<1>2. CASE heap.len = 1
  <2>1. heap' = WithLength(MapDelete(heap, heap.len - 1, heap.iv[heap.len - 1].key),
                           heap.len - 1)
    BY <1>1, <1>2, Stored DEF ExtractFirst, WithLength, MapDelete
  <2>2. sift' = Idle
    BY <1>2 DEF ExtractFirst
  <2>3. heap' \in IndexMaps /\ Exact(heap') /\ heap'.len = heap.len - 1
          /\ \A k \in Keys : heap.ki[k] = None => heap'.ki[k] = None
    BY <1>1, <2>1, Shortened
  <2> QED BY <1>2, <2>2, <2>3 DEF AllInOrder
<1>3. CASE heap.len # 1
  <2>1. /\ heap' = WithLength(Replace(heap, 0, At(heap, 0), heap.len - 1,
                                      At(heap, heap.len - 1)), heap.len - 1)
        /\ sift' = Down(0)
    BY <1>3 DEF ExtractFirst
  <2>2. 0 # heap.len - 1
    BY <1>1, <1>3
  <2>3. heap' \in IndexMaps /\ Exact(heap') /\ heap'.len = heap.len - 1
          /\ \A k \in Keys : heap.ki[k] = None => heap'.ki[k] = None
    BY <1>1, <2>1, <2>2, Replaced
  <2>4. MovingDown(heap', 0)
    BY <1>1, <2>1, <2>2, ReplacedMoves
  <2> QED BY <2>1, <2>3, <2>4
<1> QED BY <1>2, <1>3

(* The insertion of `insert' and `insert_extract', up to the loop.         *)
LEMMA InsertLastStep ==
    ASSUME heap \in IndexMaps, Exact(heap), AllInOrder(heap), NEW v \in Value,
           heap.len # Capacity, heap.ki[v.key] = None, InsertLast(v)
    PROVE  heap' \in IndexMaps /\ Exact(heap') /\ Moves(heap', sift')
<1>1. heap.len < Capacity /\ heap.len \in Index
  BY CapacityIsPositive DEF IndexMaps, Index
<1>2. heap' = WithLength(MapSet(heap, heap.len, v), heap.len + 1) /\ sift' = Up(heap.len)
  BY DEF InsertLast
<1>3. heap' \in IndexMaps /\ Exact(heap')
  BY <1>1, <1>2, Appended
<1>4. MovingUp(heap', heap.len)
  BY <1>1, <1>2, AppendedMovesUp
<1> QED BY <1>1, <1>2, <1>3, <1>4 DEF Moves

(* `extract'.                                                              *)
LEMMA ExtractStep ==
    ASSUME IInv, Extract PROVE IInv'
<1>1. Ready /\ pending' = None
  BY WhenReady DEF Extract
<1>2. CASE heap.len = 0
  <2>1. heap' = heap /\ sift' = sift /\ out' = None
    BY <1>2 DEF Extract
  <2>2. Moves(heap, sift)
    BY <1>1, WhenReady DEF Moves
  <2>3. heap' \in IndexMaps /\ Exact(heap') /\ Moves(heap', sift')
    BY <1>1, <2>1, <2>2, WhenReady
  <2> QED BY <1>1, <2>1, <2>3, InvFromParts
<1>3. CASE heap.len # 0
  <2>1. out' = At(heap, 0) /\ ExtractFirst
    BY <1>3 DEF Extract
  <2>2. heap' \in IndexMaps /\ Exact(heap') /\ Moves(heap', sift')
    BY <1>1, <1>3, <2>1, ExtractFirstStep, WhenReady DEF Moves
  <2>3. 0 \in 0 .. heap.len - 1
    BY <1>1, <1>3, WhenReady
  <2>4. out' \in Value
    BY <1>1, <2>1, <2>3, WhenReady, Stored
  <2> QED BY <1>1, <2>2, <2>4, InvFromParts
<1> QED BY <1>2, <1>3

(* `insert'.                                                               *)
LEMMA InsertStep ==
    ASSUME IInv, NEW v \in Value, Insert(v) PROVE IInv'
<1>1. Ready /\ pending' = None /\ heap.ki[v.key] = None
  BY WhenReady DEF Insert, InsertUnchecked, Has
<1>2. CASE heap.len = Capacity
  <2>1. heap' = heap /\ sift' = sift /\ out' = Failed
    BY <1>2 DEF Insert, InsertUnchecked
  <2>2. Moves(heap, sift)
    BY <1>1, WhenReady DEF Moves
  <2>3. heap' \in IndexMaps /\ Exact(heap') /\ Moves(heap', sift')
    BY <1>1, <2>1, <2>2, WhenReady
  <2> QED BY <1>1, <2>1, <2>3, InvFromParts
<1>3. CASE heap.len # Capacity
  <2>1. InsertLast(v) /\ out' = None
    BY <1>3 DEF Insert, InsertUnchecked
  <2>2. heap' \in IndexMaps /\ Exact(heap') /\ Moves(heap', sift')
    BY <1>1, <1>3, <2>1, InsertLastStep, WhenReady
  <2> QED BY <1>1, <2>1, <2>2, InvFromParts
<1> QED BY <1>2, <1>3

(* `insert_extract', up to its second half.                                *)
LEMMA InsertExtractStep ==
    ASSUME IInv, NEW v \in Value, InsertExtract(v) PROVE IInv'
<1>1. Ready /\ heap.ki[v.key] = None /\ v.key \in Keys
  BY ValuesAreKeyed DEF InsertExtract, InsertExtractUnchecked, Has
<1>2. CASE heap.len < Capacity /\ out' = None /\ InsertLast(v) /\ UNCHANGED pending
  <2>1. heap.len # Capacity
    BY <1>2, CapacityIsPositive
  <2>2. heap' \in IndexMaps /\ Exact(heap') /\ Moves(heap', sift')
    BY <1>1, <1>2, <2>1, InsertLastStep, WhenReady
  <2> QED BY <1>1, <1>2, <2>2, InvFromParts, WhenReady
<1>3. CASE out' = Failed /\ UNCHANGED <<heap, sift, pending>>
  <2>1. Moves(heap, sift)
    BY <1>1, WhenReady DEF Moves
  <2>2. heap' \in IndexMaps /\ Exact(heap') /\ Moves(heap', sift') /\ pending' = None
    BY <1>1, <1>3, <2>1, WhenReady
  <2> QED BY <1>3, <2>2, InvFromParts
<1>4. CASE heap.len = Capacity /\ out' = At(heap, 0) /\ ExtractFirst /\ pending' = v
  <2>1. heap.len # 0 /\ 0 \in 0 .. heap.len - 1
    BY <1>4, CapacityIsPositive
  <2>2. /\ heap' \in IndexMaps /\ Exact(heap') /\ heap'.len = heap.len - 1
        /\ \A k \in Keys : heap.ki[k] = None => heap'.ki[k] = None
        /\ \/ sift' = Idle /\ AllInOrder(heap')
           \/ sift' = Down(0) /\ MovingDown(heap', 0)
    BY <1>1, <1>4, <2>1, ExtractFirstStep
  <2>3. out' \in Value
    BY <1>1, <1>4, <2>1, WhenReady, Stored
  <2>4. LoopOK' /\ sift' \in [way : {"none", "down", "up"}, at : Index]
    BY <1>1, <2>2, WhenReady DEF LoopOK, Idle, Down
  <2>5. PendingOK'
    <3>1. heap'.len < Capacity
      BY <1>4, <2>2, CapacityIsPositive
    <3>2. heap'.ki[v.key] = None
      BY <1>1, <2>2
    <3> QED BY <1>4, <3>1, <3>2 DEF PendingOK
  <2>6. TypeOK'
    BY <1>4, <2>2, <2>3, <2>4 DEF TypeOK
  <2> QED BY <2>2, <2>4, <2>5, <2>6 DEF IInv
<1> QED BY <1>2, <1>3, <1>4 DEF InsertExtract, InsertExtractUnchecked

(* `change_key'.                                                           *)
LEMMA ChangeKeyStep ==
    ASSUME IInv, NEW v \in Value, ChangeKey(v) PROVE IInv'
<1> DEFINE i == heap.ki[v.key]
<1>1. Ready /\ pending' = None /\ out' = None /\ v.key \in Keys
  BY WhenReady, ValuesAreKeyed DEF ChangeKey
<1>2. CASE UNCHANGED <<heap, sift>>
  <2>1. Moves(heap, sift)
    BY <1>1, WhenReady DEF Moves
  <2>2. heap' \in IndexMaps /\ Exact(heap') /\ Moves(heap', sift')
    BY <1>1, <1>2, <2>1, WhenReady
  <2> QED BY <1>1, <2>2, InvFromParts
<1>3. CASE /\ i # None
           /\ heap' = MapSet(heap, i, v)
           /\ \/ Before(At(heap, i), v) /\ sift' = Down(i)
              \/ Before(v, At(heap, i)) /\ sift' = Up(i)
  <2>1. heap' \in IndexMaps /\ Exact(heap')
    BY <1>1, <1>3, Overwritten, WhenReady
  <2>2. i \in 0 .. heap.len - 1
    BY <1>1, <1>3, Found, WhenReady
  <2>3. At(heap, i) = heap.iv[i] /\ i \in Index
    BY <1>1, <2>2, Stored, WhenReady
  <2>4. /\ Before(heap.iv[i], v) => MovingDown(heap', i)
        /\ Before(v, heap.iv[i]) => MovingUp(heap', i)
    BY <1>1, <1>3, OverwrittenMoves, WhenReady
  <2>5. Moves(heap', sift')
    BY <1>3, <2>3, <2>4 DEF Moves
  <2> QED BY <1>1, <2>1, <2>5, InvFromParts
<1> QED BY <1>2, <1>3 DEF ChangeKey

(* `remove_item'.                                                          *)
LEMMA RemoveItemStep ==
    ASSUME IInv, NEW k \in Keys, RemoveItem(k) PROVE IInv'
<1> DEFINE i == heap.ki[k]
           this == At(heap, i)
           last == At(heap, heap.len - 1)
<1>1. Ready /\ pending' = None /\ out' = None
  BY WhenReady DEF RemoveItem
<1>2. CASE UNCHANGED <<heap, sift>>
  <2>1. Moves(heap, sift)
    BY <1>1, WhenReady DEF Moves
  <2>2. heap' \in IndexMaps /\ Exact(heap') /\ Moves(heap', sift')
    BY <1>1, <1>2, <2>1, WhenReady
  <2> QED BY <1>1, <2>2, InvFromParts
<1>3. ASSUME i # None
      PROVE  /\ i \in 0 .. heap.len - 1 /\ heap.iv[i].key = k /\ i \in Index
             /\ heap.len # 0 /\ heap.len - 1 \in 0 .. heap.len - 1
             /\ this = heap.iv[i] /\ last = heap.iv[heap.len - 1]
  <2>1. i \in 0 .. heap.len - 1 /\ heap.iv[i].key = k
    BY <1>1, <1>3, Found, WhenReady
  <2>2. heap.len # 0 /\ heap.len - 1 \in 0 .. heap.len - 1
    BY <1>1, <2>1, WhenReady
  <2> QED BY <1>1, <2>1, <2>2, Stored, WhenReady
<1>4. CASE i # None /\ i = 0 /\ ExtractFirst
  <2>1. heap' \in IndexMaps /\ Exact(heap') /\ Moves(heap', sift')
    BY <1>1, <1>3, <1>4, ExtractFirstStep, WhenReady DEF Moves
  <2> QED BY <1>1, <2>1, InvFromParts
<1>5. CASE /\ i # None /\ i # 0 /\ i = heap.len - 1
           /\ heap' = WithLength(MapDelete(heap, i, k), heap.len - 1)
           /\ UNCHANGED sift
  <2>1. /\ heap' \in IndexMaps /\ Exact(heap') /\ heap'.len = heap.len - 1
        /\ \A x \in Index : x < heap'.len => heap'.iv[x] = heap.iv[x]
    BY <1>1, <1>3, <1>5, Shortened, WhenReady
  <2>2. AllInOrder(heap')
    <3> SUFFICES ASSUME NEW x \in 1 .. heap'.len - 1 PROVE InOrder(heap', x)
      BY DEF AllInOrder
    <3>1. x \in 1 .. heap.len - 1 /\ x < heap'.len /\ heap.len \in Nat
      BY <1>1, <2>1, WhenReady
    <3>2. Parent(x) \in 0 .. heap.len - 1 /\ Parent(x) < x /\ x \in 0 .. heap.len - 1
      BY <1>1, <3>1, ParentStored, WhenReady
    <3>3. Parent(x) \in Index /\ x \in Index /\ Parent(x) < heap'.len
      BY <1>1, <3>1, <3>2, Stored, WhenReady, <2>1
    <3> QED BY <1>1, <2>1, <3>1, <3>3, WhenReady DEF AllInOrder, InOrder
  <2>3. Moves(heap', sift')
    BY <1>1, <1>5, <2>2, WhenReady DEF Moves
  <2> QED BY <1>1, <2>1, <2>3, InvFromParts
<1>6. CASE /\ i # None /\ i # 0 /\ i # heap.len - 1
           /\ heap' = WithLength(Replace(heap, i, this, heap.len - 1, last), heap.len - 1)
           /\ sift' = IF Before(this, last) THEN Down(i)
                      ELSE IF Before(last, this) THEN Up(i) ELSE Idle
  <2>1. heap' \in IndexMaps /\ Exact(heap')
    BY <1>1, <1>3, <1>6, Replaced, WhenReady
  <2>2. /\ Before(this, last) => MovingDown(heap', i)
        /\ Before(last, this) => MovingUp(heap', i)
        /\ ~Before(this, last) /\ ~Before(last, this) => AllInOrder(heap')
    BY <1>1, <1>3, <1>6, ReplacedMoves, WhenReady
  <2>3. Moves(heap', sift')
    BY <1>3, <1>6, <2>2 DEF Moves
  <2> QED BY <1>1, <2>1, <2>3, InvFromParts
<1> QED BY <1>2, <1>4, <1>5, <1>6 DEF RemoveItem

(* The empty map is exact and in order.                                    *)
LEMMA EmptyIsFine ==
    EmptyMap \in IndexMaps /\ Exact(EmptyMap) /\ AllInOrder(EmptyMap) /\ EmptyMap.len = 0
<1>1. EmptyMap \in IndexMaps /\ EmptyMap.len = 0 /\ Exact(EmptyMap)
  BY CapacityIsPositive DEF EmptyMap, IndexMaps, Exact, Index
<1> QED BY <1>1 DEF AllInOrder

(* `clear'.                                                                *)
LEMMA ClearStep ==
    ASSUME IInv, Clear PROVE IInv'
<1>1. Ready /\ pending' = None /\ out' = None /\ sift' = Idle
  BY WhenReady DEF Clear
<1>2. heap' = EmptyMap
  BY <1>1, Cleared, WhenReady DEF Clear
<1>3. heap' \in IndexMaps /\ Exact(heap') /\ Moves(heap', sift')
  BY <1>1, <1>2, EmptyIsFine DEF Moves
<1> QED BY <1>1, <1>3, InvFromParts

(* The parent of a list's position, counted from 1, is the position of the *)
(* parent, counted from 0.                                                 *)
LEMMA ParentInList ==
    ASSUME NEW i \in Nat, i # 0
    PROVE  (i + 1) \div 2 = Parent(i) + 1
    BY DEF Parent

(* `reset' with a list in heap order.                                      *)
LEMMA ResetStep ==
    ASSUME IInv, NEW list \in HeapLists, Reset(list) PROVE IInv'
<1>1. Ready /\ pending' = None /\ sift' = Idle
  BY WhenReady DEF Reset
<1>2. CASE Len(list) > Capacity
  <2>1. heap' = heap /\ out' = Failed
    BY <1>2 DEF Reset
  <2>2. heap' \in IndexMaps /\ Exact(heap') /\ Moves(heap', sift')
    BY <1>1, <2>1, WhenReady DEF Moves
  <2> QED BY <1>1, <2>1, <2>2, InvFromParts
<1>3. CASE ~(Len(list) > Capacity)
  <2>1. /\ list \in Seq(Value)
        /\ \A i, j \in 1 .. Len(list) : list[i].key = list[j].key => i = j
        /\ \A j \in 2 .. Len(list) : Rank[list[j \div 2]] <= Rank[list[j]]
    BY DEF HeapLists, InHeapOrder
  <2>2. heap' = MapFill(EmptyMap, list) /\ out' = None
    BY <1>1, <1>3, Cleared, WhenReady DEF Reset
  <2>3. Len(list) <= Capacity /\ Len(list) \in Nat
    BY <1>3, <2>1, CapacityIsPositive
  <2>4. /\ heap' \in IndexMaps /\ Exact(heap') /\ heap'.len = Len(list)
        /\ \A x \in Index : x < heap'.len => heap'.iv[x] = list[x + 1]
    BY <2>1, <2>2, <2>3, Filled
  <2>5. AllInOrder(heap')
    <3> SUFFICES ASSUME NEW x \in 1 .. heap'.len - 1 PROVE InOrder(heap', x)
      BY DEF AllInOrder
    <3>1. x \in Nat /\ x # 0 /\ x < heap'.len /\ x \in Index
            /\ Parent(x) \in Nat /\ Parent(x) < x /\ Parent(x) \in Index
      BY <2>3, <2>4, ParentOfIndex, CapacityIsPositive DEF Index
    <3>2. heap'.iv[x] = list[x + 1] /\ heap'.iv[Parent(x)] = list[Parent(x) + 1]
      BY <2>4, <3>1
    <3>3. x + 1 \in 2 .. Len(list) /\ (x + 1) \div 2 = Parent(x) + 1
      BY <2>3, <2>4, <3>1, ParentInList
    <3>4. Rank[list[Parent(x) + 1]] <= Rank[list[x + 1]]
      BY <2>1, <3>3
    <3>5. list[x + 1] \in Value /\ list[Parent(x) + 1] \in Value
      BY <2>1, <2>3, <2>4, <3>1
    <3> QED BY <3>2, <3>4, <3>5, RankIsNat DEF InOrder, Before
  <2> QED BY <1>1, <2>2, <2>4, <2>5, InvFromParts DEF Moves
<1> QED BY <1>2, <1>3

(* A turn of the downward loop.                                            *)
LEMMA DownHeapifyStep ==
    ASSUME IInv, DownHeapify PROVE IInv'
<1> DEFINE i == sift.at
           h == HeadOf(heap, i)
<1>1. /\ i \in Index /\ sift = Down(i) /\ MovingDown(heap, i)
      /\ heap \in IndexMaps /\ Exact(heap)
  BY DEF DownHeapify, IInv, TypeOK, LoopOK, Idle, Up, Down
<1>2. i \in 0 .. heap.len - 1 /\ pending' = pending /\ out' = out
  BY <1>1 DEF MovingDown, DownHeapify
<1>3. CASE h = i
  <2>1. sift' = Idle /\ heap' = heap
    BY <1>3 DEF DownHeapify
  <2>2. AllInOrder(heap)
    BY <1>1, <1>2, <1>3, SettledDown
  <2>3. LoopOK' /\ sift' \in [way : {"none", "down", "up"}, at : Index]
    BY <2>1, <2>2, CapacityIsPositive DEF LoopOK, Idle, Index
  <2> QED BY <1>1, <1>2, <2>1, <2>3 DEF IInv, TypeOK, PendingOK
<1>4. CASE h # i
  <2>1. heap' = Swap(heap, i, At(heap, i), h, At(heap, h)) /\ sift' = Down(h)
    BY <1>4 DEF DownHeapify
  <2>2. h \in 0 .. heap.len - 1 /\ h \in Index
    BY <1>1, <1>2, HeadIsLeast, Stored
  <2>3. /\ heap' \in IndexMaps /\ Exact(heap') /\ heap'.len = heap.len
        /\ \A k \in Keys : heap.ki[k] = None => heap'.ki[k] = None
    BY <1>1, <1>2, <1>4, <2>1, <2>2, Swapped
  <2>4. MovingDown(heap', h)
    BY <1>1, <1>2, <1>4, <2>1, SwappedDown
  <2>5. LoopOK' /\ sift' \in [way : {"none", "down", "up"}, at : Index]
    BY <2>1, <2>2, <2>4 DEF LoopOK, Down
  <2> HIDE DEF h
  <2>6. PendingOK'
    BY <1>1, <1>2, <2>3, ValuesAreKeyed DEF PendingOK, IInv, TypeOK
  <2> QED BY <1>1, <1>2, <2>3, <2>5, <2>6 DEF IInv, TypeOK
<1> QED BY <1>3, <1>4

(* A turn of the upward loop.                                              *)
LEMMA UpHeapifyStep ==
    ASSUME IInv, UpHeapify PROVE IInv'
<1> DEFINE i == sift.at
           p == Parent(i)
<1>1. /\ i \in Index /\ sift = Up(i) /\ MovingUp(heap, i) /\ pending = None
      /\ heap \in IndexMaps /\ Exact(heap) /\ out \in Value \cup {None, Failed}
  BY DEF UpHeapify, IInv, TypeOK, LoopOK, Idle, Up, Down
<1>2. i \in 0 .. heap.len - 1 /\ pending' = None /\ out' = out
  BY <1>1 DEF MovingUp, UpHeapify
<1>3. i # 0 => p \in 0 .. heap.len - 1 /\ p # i /\ p \in Index
  BY <1>1, <1>2, ParentStored, Stored DEF IndexMaps
<1>4. At(heap, i) = heap.iv[i] /\ (i # 0 => At(heap, p) = heap.iv[p])
  BY <1>1, <1>2, <1>3, Stored
<1>5. CASE i # 0 /\ Before(At(heap, i), At(heap, p))
  <2>1. heap' = Swap(heap, i, At(heap, i), p, At(heap, p)) /\ sift' = Up(p)
    BY <1>5 DEF UpHeapify
  <2>2. heap' \in IndexMaps /\ Exact(heap')
    BY <1>1, <1>2, <1>3, <1>5, <2>1, Swapped
  <2>3. MovingUp(heap', p)
    BY <1>1, <1>2, <1>4, <1>5, <2>1, SwappedUp
  <2>4. Moves(heap', sift')
    BY <1>3, <1>5, <2>1, <2>3 DEF Moves
  <2> QED BY <1>1, <1>2, <2>2, <2>4, InvFromParts
<1>6. CASE ~(i # 0 /\ Before(At(heap, i), At(heap, p)))
  <2>1. sift' = Idle /\ heap' = heap
    BY <1>6 DEF UpHeapify
  <2>2. AllInOrder(heap)
    BY <1>1, <1>4, <1>6, SettledUp
  <2>3. Moves(heap', sift')
    BY <2>1, <2>2 DEF Moves
  <2> QED BY <1>1, <1>2, <2>1, <2>3, InvFromParts
<1> QED BY <1>5, <1>6

(* The second half of `insert_extract'.                                    *)
LEMMA InsertPendingStep ==
    ASSUME IInv, InsertPending PROVE IInv'
<1>1. /\ heap \in IndexMaps /\ Exact(heap) /\ AllInOrder(heap) /\ pending \in Value
      /\ heap.ki[pending.key] = None /\ heap.len # Capacity
      /\ out \in Value \cup {None, Failed}
  <2>1. sift = Idle /\ pending # None
    BY DEF InsertPending
  <2>2. AllInOrder(heap)
    BY <2>1 DEF IInv, LoopOK, Idle, Up, Down
  <2>3. heap.len # Capacity /\ heap.ki[pending.key] = None
    BY <2>1, CapacityIsPositive DEF IInv, PendingOK
  <2> QED BY <2>1, <2>2, <2>3 DEF IInv, TypeOK
<1>2. InsertLast(pending) /\ pending' = None /\ out' = out
  BY DEF InsertPending
<1>3. heap' \in IndexMaps /\ Exact(heap') /\ Moves(heap', sift')
  BY <1>1, <1>2, InsertLastStep
<1> QED BY <1>1, <1>2, <1>3, InvFromParts

(* One step of any kind.                                                   *)
LEMMA NextPreserves == IInv /\ [Next]_vars => IInv'
<1> SUFFICES ASSUME IInv, [Next]_vars PROVE IInv'
  OBVIOUS
<1>1. CASE Extract BY <1>1, ExtractStep
<1>2. CASE \E v \in Value : Insert(v) BY <1>2, InsertStep
<1>3. CASE \E v \in Value : InsertExtract(v) BY <1>3, InsertExtractStep
<1>4. CASE \E v \in Value : ChangeKey(v) BY <1>4, ChangeKeyStep
<1>5. CASE \E k \in Keys : RemoveItem(k) BY <1>5, RemoveItemStep
<1>6. CASE Clear BY <1>6, ClearStep
<1>7. CASE \E list \in HeapLists : Reset(list) BY <1>7, ResetStep
<1>8. CASE DownHeapify BY <1>8, DownHeapifyStep
<1>9. CASE UpHeapify BY <1>9, UpHeapifyStep
<1>10. CASE InsertPending BY <1>10, InsertPendingStep
<1>11. CASE UNCHANGED vars
  BY <1>11 DEF vars, IInv, TypeOK, LoopOK, PendingOK
<1> QED BY <1>1, <1>2, <1>3, <1>4, <1>5, <1>6, <1>7, <1>8, <1>9, <1>10, <1>11
        DEF Next, Operation, Loop

-----------------------------------------------------------------------------
(* The inductive invariant holds of every behaviour of index_heap.rs.      *)
THEOREM Invariant == Spec => []IInv
  BY InitEstablishes, NextPreserves, PTL DEF Spec

(* The index heap keeps its types: no index or length leaves the capacity. *)
THEOREM TypeCorrect == Spec => []TypeOK
<1>1. IInv => TypeOK BY DEF IInv
<1> QED BY <1>1, Invariant, PTL

(* The key index and the array of an IndexHeap correspond one to one in    *)
(* every state, so that no `get(..).unwrap()' of index_heap.rs fails.      *)
THEOREM AlwaysExact == Spec => []IndexExact
<1>1. IInv => IndexExact BY DEF IInv, IndexExact
<1> QED BY <1>1, Invariant, PTL

(* Whenever an operation may begin the array is a heap: up_heapify and     *)
(* down_heapify are called in the right direction and stop late enough.    *)
THEOREM AlwaysInOrder == Spec => []HeapOrder
<1>1. IInv => HeapOrder
  BY WhenReady DEF HeapOrder, AllInOrder, InOrder
<1> QED BY <1>1, Invariant, PTL

(* The value that `extract' takes is a least one.                          *)
THEOREM ExtractsLeast == Spec => []FirstIsLeast
<1>1. IInv => FirstIsLeast
  BY WhenReady, FirstOfHeap DEF FirstIsLeast
<1> QED BY <1>1, Invariant, PTL
=============================================================================
