-------------------------- MODULE IndexSoundProofs --------------------------
(***************************************************************************)
(* The index heap in the hands of any caller, who inserts keys twice and   *)
(* uses the methods of the map, for every capacity, set of keys and order: *)
(* the array has no gap and the key index never misleads.                  *)
(***************************************************************************)
EXTENDS IndexHeapProofs

(* IndexSound, of any map. *)
Sound(m) ==
    /\ \A i \in Index : m.iv[i] # None <=> i < m.len
    /\ \A k \in Keys : m.ki[k] # None => m.ki[k] < m.len /\ m.iv[m.ki[k]].key = k

(* The inductive invariant: the loops stay below the length, and there is  *)
(* room for the value insert_extract has still to insert.                  *)
LoopInside == sift = Idle \/ (sift.way \in {"up", "down"} /\ sift.at < heap.len)
PendingFits == pending # None => heap.len < Capacity
SInv == TypeOK /\ Sound(heap) /\ LoopInside /\ PendingFits

-----------------------------------------------------------------------------
(* Below the length of a sound map there are values. *)
LEMMA SoundStored ==
    ASSUME NEW m \in IndexMaps, Sound(m), NEW i \in 0 .. m.len - 1
    PROVE  /\ i \in Index /\ i < m.len
           /\ m.iv[i] \in Value /\ m.iv[i].key \in Keys
           /\ At(m, i) = m.iv[i]
<1>1. m.len \in Nat /\ m.len <= Capacity /\ i \in Index /\ i < m.len
  BY CapacityIsPositive DEF IndexMaps, Index
<1>2. m.iv[i] \in Value \cup {None} /\ m.iv[i] # None
  BY <1>1 DEF IndexMaps, Sound
<1> QED BY <1>1, <1>2, ValuesAreKeyed, CapacityIsPositive DEF At, Index

(* A key that has an index in a sound map has a value there.               *)
LEMMA SoundFound ==
    ASSUME NEW m \in IndexMaps, Sound(m), NEW k \in Keys, m.ki[k] # None
    PROVE  /\ m.ki[k] \in 0 .. m.len - 1 /\ m.ki[k] \in Index
           /\ m.iv[m.ki[k]].key = k
<1>1. m.ki[k] \in Index /\ m.len \in Nat
  BY CapacityIsPositive DEF IndexMaps
<1>2. m.ki[k] < m.len /\ m.iv[m.ki[k]].key = k
  BY DEF Sound
<1> QED BY <1>1, <1>2, IndexIsNotNone

(* A value behind the last one (`insert', `push'): whatever the key led to *)
(* before, it leads to the new value.                                      *)
LEMMA SoundAppended ==
    ASSUME NEW m \in IndexMaps, Sound(m), NEW v \in Value, m.len < Capacity,
           NEW n, n = WithLength(MapSet(m, m.len, v), m.len + 1)
    PROVE  n \in IndexMaps /\ Sound(n) /\ n.len = m.len + 1
<1>1. v.key \in Keys /\ m.len \in Index /\ m.len \in Nat /\ m.len + 1 \in 0 .. Capacity
  BY CapacityIsPositive, ValuesAreKeyed DEF IndexMaps, Index
<1>2. /\ n.len = m.len + 1 /\ n.ki = [m.ki EXCEPT ![v.key] = m.len]
      /\ n.iv = [m.iv EXCEPT ![m.len] = v]
      /\ n = [len |-> n.len, ki |-> n.ki, iv |-> n.iv]
  BY DEF WithLength, MapSet
<1>3. n \in IndexMaps
  BY <1>1, <1>2 DEF IndexMaps
<1>4. \A i \in Index : n.iv[i] = IF i = m.len THEN v ELSE m.iv[i]
  BY <1>1, <1>2 DEF IndexMaps
<1>5. \A k \in Keys : n.ki[k] = IF k = v.key THEN m.len ELSE m.ki[k]
  BY <1>1, <1>2 DEF IndexMaps
<1>6. ASSUME NEW i \in Index PROVE n.iv[i] # None <=> i < n.len
  <2>1. m.iv[i] # None <=> i < m.len BY DEF Sound
  <2> QED BY <1>1, <1>2, <1>4, <2>1, NoneIsNothing, IndexIsNotNone
<1>7. ASSUME NEW k \in Keys, n.ki[k] # None
      PROVE  n.ki[k] < n.len /\ n.iv[n.ki[k]].key = k
  <2>1. CASE k = v.key
    BY <1>1, <1>2, <1>4, <1>5, <2>1
  <2>2. CASE k # v.key
    <3>1. m.ki[k] = n.ki[k] BY <1>5, <2>2
    <3>2. m.ki[k] \in 0 .. m.len - 1 /\ m.ki[k] \in Index /\ m.iv[m.ki[k]].key = k
      BY <1>7, <3>1, SoundFound
    <3> QED BY <1>1, <1>2, <1>4, <3>1, <3>2
  <2> QED BY <2>1, <2>2
<1> QED BY <1>2, <1>3, <1>6, <1>7 DEF Sound

(* The value a key leads to, replaced by one of that key (`change_key').   *)
LEMMA SoundOverwritten ==
    ASSUME NEW m \in IndexMaps, Sound(m), NEW v \in Value, m.ki[v.key] # None,
           NEW n, n = MapSet(m, m.ki[v.key], v)
    PROVE  n \in IndexMaps /\ Sound(n) /\ n.len = m.len
<1> DEFINE e == m.ki[v.key]
<1>1. v.key \in Keys BY ValuesAreKeyed
<1>2. e \in 0 .. m.len - 1 /\ e \in Index
  BY <1>1, SoundFound
<1>3. /\ n.len = m.len /\ n.ki = m.ki /\ n.iv = [m.iv EXCEPT ![e] = v]
      /\ n = [len |-> n.len, ki |-> n.ki, iv |-> n.iv]
  BY <1>1, <1>2 DEF MapSet, IndexMaps
<1>e. m.iv[e].key = v.key /\ m.len \in Nat
  BY <1>1, SoundFound, CapacityIsPositive DEF IndexMaps
<1> HIDE DEF e
<1>4. n \in IndexMaps
  BY <1>2, <1>3 DEF IndexMaps
<1>5. \A i \in Index : n.iv[i] = IF i = e THEN v ELSE m.iv[i]
  BY <1>2, <1>3 DEF IndexMaps
<1>6. ASSUME NEW i \in Index PROVE n.iv[i] # None <=> i < n.len
  <2>1. m.iv[i] # None <=> i < m.len BY DEF Sound
  <2> QED BY <1>2, <1>e, <1>3, <1>5, <2>1, NoneIsNothing, IndexIsNotNone
<1>7. ASSUME NEW k \in Keys, n.ki[k] # None
      PROVE  n.ki[k] < n.len /\ n.iv[n.ki[k]].key = k
  <2>1. m.ki[k] \in 0 .. m.len - 1 /\ m.ki[k] \in Index /\ m.iv[m.ki[k]].key = k
    BY <1>3, <1>7, SoundFound
  <2> QED BY <1>e, <1>3, <1>5, <2>1
<1> QED BY <1>3, <1>4, <1>6, <1>7 DEF Sound

(* Two values exchanged (`swap'), with the same key or not.                *)
LEMMA SoundSwapped ==
    ASSUME NEW m \in IndexMaps, Sound(m),
           NEW i \in 0 .. m.len - 1, NEW j \in 0 .. m.len - 1, i # j,
           NEW n, n = Swap(m, i, At(m, i), j, At(m, j))
    PROVE  n \in IndexMaps /\ Sound(n) /\ n.len = m.len
<1> DEFINE v == m.iv[i]
           w == m.iv[j]
<1>1. /\ i \in Index /\ i < m.len /\ v \in Value /\ v.key \in Keys /\ At(m, i) = v
      /\ j \in Index /\ j < m.len /\ w \in Value /\ w.key \in Keys /\ At(m, j) = w
  BY SoundStored
<1>v. v = m.iv[i] /\ w = m.iv[j] OBVIOUS
<1>2. n = Swap(m, i, v, j, w) BY <1>1
<1> HIDE DEF v, w
<1>3. /\ n.len = m.len /\ n.ki = [[m.ki EXCEPT ![w.key] = i] EXCEPT ![v.key] = j]
      /\ n.iv = [[m.iv EXCEPT ![i] = w] EXCEPT ![j] = v]
      /\ n = [len |-> n.len, ki |-> n.ki, iv |-> n.iv]
  BY <1>2 DEF Swap, MapSet
<1>4. /\ n.ki \in [Keys -> Index \cup {None}]
      /\ \A k \in Keys : n.ki[k] = IF k = v.key THEN j ELSE IF k = w.key THEN i ELSE m.ki[k]
  BY <1>1, <1>3 DEF IndexMaps
<1>5. /\ n.iv \in [Index -> Value \cup {None}]
      /\ \A x \in Index : n.iv[x] = IF x = i THEN w ELSE IF x = j THEN v ELSE m.iv[x]
  BY <1>1, <1>3 DEF IndexMaps
<1>6. n \in IndexMaps
  BY <1>3, <1>4, <1>5 DEF IndexMaps
<1>7. ASSUME NEW x \in Index PROVE n.iv[x] # None <=> x < n.len
  <2>1. m.iv[x] # None <=> x < m.len BY DEF Sound
  <2> QED BY <1>1, <1>3, <1>5, <2>1, NoneIsNothing
<1>8. ASSUME NEW k \in Keys, n.ki[k] # None
      PROVE  n.ki[k] < n.len /\ n.iv[n.ki[k]].key = k
  <2>1. CASE k = v.key
    BY <1>1, <1>3, <1>4, <1>5, <2>1
  <2>2. CASE k # v.key /\ k = w.key
    BY <1>1, <1>3, <1>4, <1>5, <2>2
  <2>3. CASE k # v.key /\ k # w.key
    <3>1. n.ki[k] = m.ki[k] BY <1>4, <2>3
    <3>2. m.ki[k] \in 0 .. m.len - 1 /\ m.ki[k] \in Index /\ m.iv[m.ki[k]].key = k
      BY <1>8, <3>1, SoundFound
    <3>3. m.ki[k] # i /\ m.ki[k] # j
      BY <1>v, <2>3, <3>2
    <3>4. n.iv[n.ki[k]] = m.iv[m.ki[k]]
      BY <1>5, <3>1, <3>2, <3>3
    <3>5. m.len \in Nat BY CapacityIsPositive DEF IndexMaps
    <3> QED BY <1>3, <3>1, <3>2, <3>4, <3>5
  <2> QED BY <2>1, <2>2, <2>3
<1> QED BY <1>3, <1>6, <1>7, <1>8 DEF Sound

(* The last value deleted (`remove_item', and `extract' of the only one).  *)
LEMMA SoundShortened ==
    ASSUME NEW m \in IndexMaps, Sound(m), m.len # 0,
           NEW n, n = WithLength(MapDelete(m, m.len - 1, m.iv[m.len - 1].key), m.len - 1)
    PROVE  n \in IndexMaps /\ Sound(n) /\ n.len = m.len - 1
<1> DEFINE e == m.len - 1
           w == m.iv[e]
<1>1. m.len \in Nat /\ e \in 0 .. m.len - 1 /\ e \in 0 .. Capacity
  BY CapacityIsPositive DEF IndexMaps
<1>2. e \in Index /\ e \in Nat /\ w \in Value /\ w.key \in Keys
  BY <1>1, SoundStored
<1>3. /\ n.len = e /\ n.ki = [m.ki EXCEPT ![w.key] = None] /\ n.iv = [m.iv EXCEPT ![e] = None]
      /\ n = [len |-> n.len, ki |-> n.ki, iv |-> n.iv]
  BY DEF WithLength, MapDelete
<1>e. e = m.len - 1 /\ w = m.iv[e] BY <1>1
<1> HIDE DEF e, w
<1>4. /\ n.ki \in [Keys -> Index \cup {None}]
      /\ \A k \in Keys : n.ki[k] = IF k = w.key THEN None ELSE m.ki[k]
  BY <1>2, <1>3 DEF IndexMaps
<1>5. /\ n.iv \in [Index -> Value \cup {None}]
      /\ \A x \in Index : n.iv[x] = IF x = e THEN None ELSE m.iv[x]
  BY <1>2, <1>3 DEF IndexMaps
<1>6. n \in IndexMaps
  BY <1>1, <1>3, <1>4, <1>5 DEF IndexMaps
<1>7. ASSUME NEW x \in Index PROVE n.iv[x] # None <=> x < n.len
  <2>1. m.iv[x] # None <=> x < m.len BY DEF Sound
  <2> QED BY <1>1, <1>2, <1>e, <1>3, <1>5, <2>1, IndexIsNotNone
<1>8. ASSUME NEW k \in Keys, n.ki[k] # None
      PROVE  n.ki[k] < n.len /\ n.iv[n.ki[k]].key = k
  <2>1. k # w.key /\ n.ki[k] = m.ki[k] BY <1>4, <1>8
  <2>2. m.ki[k] \in 0 .. m.len - 1 /\ m.ki[k] \in Index /\ m.iv[m.ki[k]].key = k
    BY <1>8, <2>1, SoundFound
  <2>3. m.ki[k] # e BY <1>e, <2>1, <2>2
  <2>4. n.ki[k] < n.len BY <1>1, <1>2, <1>e, <1>3, <2>1, <2>2, <2>3
  <2> QED BY <1>5, <2>1, <2>2, <2>3, <2>4
<1> QED BY <1>3, <1>6, <1>7, <1>8, <1>e DEF Sound

(* A value that is not the last gives way to the last one.                 *)
LEMMA SoundReplaced ==
    ASSUME NEW m \in IndexMaps, Sound(m), NEW i \in 0 .. m.len - 1, i # m.len - 1,
           NEW n, n = WithLength(Replace(m, i, At(m, i), m.len - 1, At(m, m.len - 1)),
                                 m.len - 1)
    PROVE  n \in IndexMaps /\ Sound(n) /\ n.len = m.len - 1
<1> DEFINE e == m.len - 1
           v == m.iv[i]
           w == m.iv[e]
<1>1. m.len \in Nat /\ e \in 0 .. m.len - 1 /\ i < e /\ e \in 0 .. Capacity
  BY CapacityIsPositive DEF IndexMaps
<1>2. /\ i \in Index /\ v \in Value /\ v.key \in Keys /\ At(m, i) = v
      /\ e \in Index /\ w \in Value /\ w.key \in Keys /\ At(m, e) = w
  BY <1>1, SoundStored
<1>e. e = m.len - 1 /\ v = m.iv[i] /\ w = m.iv[e] BY <1>1
<1>3. n = WithLength(Replace(m, i, v, e, w), e)
  BY <1>2
<1> HIDE DEF e, v, w
<1>4. /\ n.len = e /\ n.ki = [[m.ki EXCEPT ![v.key] = None] EXCEPT ![w.key] = i]
      /\ n.iv = [[m.iv EXCEPT ![e] = None] EXCEPT ![i] = w]
      /\ n = [len |-> n.len, ki |-> n.ki, iv |-> n.iv]
  BY <1>3 DEF WithLength, Replace, MapSet
<1>5. /\ n.ki \in [Keys -> Index \cup {None}]
      /\ \A k \in Keys : n.ki[k] = IF k = w.key THEN i
                                   ELSE IF k = v.key THEN None ELSE m.ki[k]
  BY <1>2, <1>4 DEF IndexMaps
<1>6. /\ n.iv \in [Index -> Value \cup {None}]
      /\ \A x \in Index : n.iv[x] = IF x = i THEN w ELSE IF x = e THEN None ELSE m.iv[x]
  BY <1>2, <1>4 DEF IndexMaps
<1>7. n \in IndexMaps
  BY <1>1, <1>4, <1>5, <1>6 DEF IndexMaps
<1>8. ASSUME NEW x \in Index PROVE n.iv[x] # None <=> x < n.len
  <2>1. m.iv[x] # None <=> x < m.len BY DEF Sound
  <2> QED BY <1>1, <1>2, <1>e, <1>4, <1>6, <2>1, NoneIsNothing, IndexIsNotNone
<1>9. ASSUME NEW k \in Keys, n.ki[k] # None
      PROVE  n.ki[k] < n.len /\ n.iv[n.ki[k]].key = k
  <2>1. CASE k = w.key
    BY <1>1, <1>2, <1>4, <1>5, <1>6, <2>1
  <2>2. CASE k # w.key
    <3>1. k # v.key /\ n.ki[k] = m.ki[k] BY <1>5, <1>9, <2>2
    <3>2. m.ki[k] \in 0 .. m.len - 1 /\ m.ki[k] \in Index /\ m.iv[m.ki[k]].key = k
      BY <1>9, <3>1, SoundFound
    <3>3. m.ki[k] # e /\ m.ki[k] # i BY <1>e, <2>2, <3>1, <3>2
    <3>4. n.ki[k] < n.len BY <1>1, <1>2, <1>e, <1>4, <3>1, <3>2, <3>3
    <3> QED BY <1>6, <3>1, <3>2, <3>3, <3>4
  <2> QED BY <2>1, <2>2
<1> QED BY <1>4, <1>7, <1>8, <1>9, <1>e DEF Sound

(* `clear' leaves nothing, although a value whose key leads elsewhere has  *)
(* no index of its own.                                                    *)
LEMMA SoundCleared ==
    ASSUME NEW m \in IndexMaps, Sound(m)
    PROVE  MapClear(m) = EmptyMap
<1> DEFINE keys == {m.iv[i].key : i \in 0 .. m.len - 1}
<1>1. ASSUME NEW k \in Keys PROVE k \in keys \/ m.ki[k] = None
  BY SoundFound
<1>2. ASSUME NEW i \in Index PROVE i < m.len \/ m.iv[i] = None
  BY DEF Sound
<1> HIDE DEF keys
<1>3. [k \in Keys |-> IF k \in keys THEN None ELSE m.ki[k]] = [k \in Keys |-> None]
  BY <1>1
<1>4. [i \in Index |-> IF i < m.len THEN None ELSE m.iv[i]] = [i \in Index |-> None]
  BY <1>2
<1> QED BY <1>3, <1>4 DEF MapClear, EmptyMap, keys

(* A set of places in a list has a last one. *)
LEMMA LastPlace ==
    ASSUME NEW n \in Nat, NEW S, S \subseteq 1 .. n, S # {}
    PROVE  Max(S) \in S
<1> DEFINE T == {n - j : j \in S}
<1>1. T \subseteq Nat /\ T # {}
  <2>1. ASSUME NEW j \in S PROVE n - j \in Nat
    <3>1. j \in 1 .. n OBVIOUS
    <3> QED BY <3>1
  <2> QED BY <2>1
<1> HIDE DEF T
<1>2. PICK t \in T : \A u \in T : ~(u < t)
  BY <1>1, SmallestIndex
<1>3. PICK x \in S : t = n - x
  BY <1>2 DEF T
<1>4. ASSUME NEW y \in S PROVE x >= y
  <2>1. n - y \in T BY DEF T
  <2>2. ~(n - y < n - x) BY <1>2, <1>3, <2>1
  <2> QED BY <2>2
<1>5. \E z \in S : \A y \in S : z >= y
  BY <1>4
<1> QED BY <1>5 DEF Max

(* `reset' from an empty map, with any list that fits. *)
LEMMA SoundFilled ==
    ASSUME NEW list \in Seq(Value), Len(list) <= Capacity,
           NEW n, n = MapFill(EmptyMap, list)
    PROVE  n \in IndexMaps /\ Sound(n)
<1> DEFINE places(k) == {j \in 1 .. Len(list) : list[j].key = k}
           last(k) == Max(places(k))
           In(k) == \E j \in 1 .. Len(list) : list[j].key = k
<1>1. Len(list) \in Nat /\ Len(list) \in 0 .. Capacity /\ \A j \in 1 .. Len(list) : list[j] \in Value
  BY CapacityIsPositive
<1>2. ASSUME NEW k, In(k)
      PROVE  last(k) \in 1 .. Len(list) /\ list[last(k)].key = k
  <2>1. places(k) \subseteq 1 .. Len(list) /\ places(k) # {}
    BY <1>2
  <2>2. last(k) \in places(k)
    <3> HIDE DEF places
    <3> QED BY <1>1, <2>1, LastPlace
  <2> HIDE DEF last
  <2> QED BY <2>2
<1>3. /\ n.len = Len(list)
      /\ n.ki = [k \in Keys |-> IF In(k) THEN last(k) - 1 ELSE None]
      /\ n.iv = [i \in Index |-> IF i < Len(list) THEN list[i + 1] ELSE None]
      /\ n = [len |-> n.len, ki |-> n.ki, iv |-> n.iv]
  BY DEF MapFill, EmptyMap
<1> HIDE DEF last
<1>4. ASSUME NEW k \in Keys, In(k)
      PROVE  n.ki[k] \in Index /\ n.ki[k] < Len(list) /\ list[n.ki[k] + 1].key = k
  <2>1. n.ki[k] = last(k) - 1 BY <1>3, <1>4
  <2>2. last(k) \in 1 .. Len(list) /\ list[last(k)].key = k BY <1>2, <1>4
  <2>3. n.ki[k] \in Index /\ n.ki[k] < Len(list) /\ n.ki[k] + 1 = last(k)
    BY <1>1, <2>1, <2>2, CapacityIsPositive DEF Index
  <2> QED BY <2>2, <2>3
<1>5. ASSUME NEW k \in Keys, ~In(k) PROVE n.ki[k] = None
  BY <1>3, <1>5
<1>6. ASSUME NEW i \in Index, i < Len(list)
      PROVE  n.iv[i] = list[i + 1] /\ n.iv[i] \in Value
  BY <1>1, <1>3, <1>6, IndexIsNotNone
<1>7. ASSUME NEW i \in Index, ~(i < Len(list)) PROVE n.iv[i] = None
  BY <1>3, <1>7
<1> HIDE DEF In
<1>8. n \in IndexMaps
  <2>1. n.ki \in [Keys -> Index \cup {None}]
    BY <1>3, <1>4, <1>5
  <2>2. n.iv \in [Index -> Value \cup {None}]
    BY <1>3, <1>6, <1>7
  <2> QED BY <1>1, <1>3, <2>1, <2>2 DEF IndexMaps
<1>9. ASSUME NEW i \in Index PROVE n.iv[i] # None <=> i < n.len
  BY <1>3, <1>6, <1>7, NoneIsNothing
<1>10. ASSUME NEW k \in Keys, n.ki[k] # None
       PROVE  n.ki[k] < n.len /\ n.iv[n.ki[k]].key = k
  <2>1. In(k) BY <1>5, <1>10
  <2> QED BY <1>3, <1>4, <1>6, <2>1
<1> QED BY <1>8, <1>9, <1>10 DEF Sound
-----------------------------------------------------------------------------
(* The invariant is established and preserved, action by action. *)

(* The parts a step has to bring about. *)
LEMMA SInvFromParts ==
    ASSUME heap' \in IndexMaps, Sound(heap'), pending' \in Value \cup {None},
           out' \in Value \cup {None, Failed},
           \/ sift' = Idle
           \/ \E i \in 0 .. heap'.len - 1 : sift' = Up(i) \/ sift' = Down(i),
           pending' # None => heap'.len < Capacity
    PROVE  SInv'
<1>1. 0 \in Index /\ \A i \in 0 .. heap'.len - 1 : i \in Index /\ i < heap'.len
  BY CapacityIsPositive DEF IndexMaps, Index
<1>2. sift' \in [way : {"none", "down", "up"}, at : Index] /\ LoopInside'
  BY <1>1 DEF Idle, Up, Down, LoopInside
<1> QED BY <1>2 DEF SInv, TypeOK, PendingFits

(* What holds when a caller may operate on the heap. *)
LEMMA SoundWhenReady ==
    ASSUME SInv, Ready
    PROVE  /\ heap \in IndexMaps /\ Sound(heap) /\ sift = Idle /\ pending = None
           /\ out \in Value \cup {None, Failed} /\ heap.len \in Nat /\ heap.len <= Capacity
  BY CapacityIsPositive DEF SInv, TypeOK, Ready, IndexMaps

(* What the extraction of the first value leaves. *)
LEMMA SoundExtractFirst ==
    ASSUME heap \in IndexMaps, Sound(heap), heap.len # 0, ExtractFirst
    PROVE  /\ heap' \in IndexMaps /\ Sound(heap') /\ heap'.len < Capacity
           /\ sift' = Idle \/ \E i \in 0 .. heap'.len - 1 : sift' = Down(i)
           /\ At(heap, 0) \in Value
<1>1. heap.len \in Nat /\ heap.len <= Capacity /\ 0 \in 0 .. heap.len - 1
  BY CapacityIsPositive DEF IndexMaps
<1>2. At(heap, 0) = heap.iv[0] /\ At(heap, 0) \in Value
  BY <1>1, SoundStored
<1>3. CASE heap.len = 1
  <2>1. heap' = MapDelete(WithLength(heap, 0), 0, heap.iv[0].key) /\ sift' = Idle
    BY <1>2, <1>3 DEF ExtractFirst
  <2>2. heap' = WithLength(MapDelete(heap, heap.len - 1, heap.iv[heap.len - 1].key), heap.len - 1)
    BY <1>3, <2>1 DEF MapDelete, WithLength
  <2>3. heap' \in IndexMaps /\ Sound(heap') /\ heap'.len = heap.len - 1
    BY <2>2, SoundShortened
  <2>4. heap'.len < Capacity BY <1>1, <2>3, CapacityIsPositive
  <2> QED BY <1>2, <2>1, <2>3, <2>4
<1>4. CASE heap.len # 1
  <2>1. /\ heap' = WithLength(Replace(heap, 0, At(heap, 0), heap.len - 1, At(heap, heap.len - 1)),
                              heap.len - 1)
        /\ sift' = Down(0)
    BY <1>4 DEF ExtractFirst
  <2>2. 0 # heap.len - 1
    BY <1>1, <1>4
  <2>3. heap' \in IndexMaps /\ Sound(heap') /\ heap'.len = heap.len - 1
    BY <1>1, <2>1, <2>2, SoundReplaced
  <2>4. 0 \in 0 .. heap'.len - 1
    BY <1>1, <1>4, <2>3
  <2>5. heap'.len < Capacity BY <1>1, <2>3, CapacityIsPositive
  <2> QED BY <1>2, <2>1, <2>3, <2>4, <2>5
<1> QED BY <1>3, <1>4

(* What the insertion behind the last value leaves. *)
LEMMA SoundInsertLast ==
    ASSUME heap \in IndexMaps, Sound(heap), heap.len < Capacity,
           NEW v \in Value, InsertLast(v)
    PROVE  /\ heap' \in IndexMaps /\ Sound(heap')
           /\ \E i \in 0 .. heap'.len - 1 : sift' = Up(i)
<1>1. heap' \in IndexMaps /\ Sound(heap') /\ heap'.len = heap.len + 1
  BY SoundAppended DEF InsertLast
<1>2. heap.len \in Nat BY CapacityIsPositive DEF IndexMaps
<1>3. heap.len \in 0 .. heap'.len - 1 /\ sift' = Up(heap.len)
  BY <1>1, <1>2 DEF InsertLast
<1> QED BY <1>1, <1>3

(* `extract'. *)
LEMMA SoundExtract ==
    ASSUME SInv, Extract PROVE SInv'
<1>1. Ready /\ pending' = pending BY DEF Extract
<1>2. CASE heap.len = 0
  BY <1>1, <1>2, SoundWhenReady, SInvFromParts DEF Extract
<1>3. CASE heap.len # 0
  <2>1. ExtractFirst /\ out' = At(heap, 0) BY <1>3 DEF Extract
  <2> QED BY <1>1, <1>3, <2>1, SoundWhenReady, SoundExtractFirst, SInvFromParts
<1> QED BY <1>2, <1>3

(* `insert', of a key that is there or not. *)
LEMMA SoundInsert ==
    ASSUME SInv, NEW v \in Value, InsertUnchecked(v) PROVE SInv'
<1>1. Ready /\ pending' = pending BY DEF InsertUnchecked
<1>2. CASE heap.len = Capacity
  BY <1>1, <1>2, SoundWhenReady, SInvFromParts DEF InsertUnchecked
<1>3. CASE heap.len # Capacity
  <2>1. InsertLast(v) /\ out' = None BY <1>3 DEF InsertUnchecked
  <2>2. heap.len < Capacity BY <1>1, <1>3, SoundWhenReady, CapacityIsPositive
  <2> QED BY <1>1, <2>1, <2>2, SoundWhenReady, SoundInsertLast, SInvFromParts
<1> QED BY <1>2, <1>3

(* `insert_extract', up to the loop of its extraction. *)
LEMMA SoundInsertExtract ==
    ASSUME SInv, NEW v \in Value, InsertExtractUnchecked(v) PROVE SInv'
<1>1. Ready BY DEF InsertExtractUnchecked
<1>2. CASE heap.len < Capacity /\ out' = None /\ InsertLast(v) /\ UNCHANGED pending
  BY <1>1, <1>2, SoundWhenReady, SoundInsertLast, SInvFromParts
<1>3. CASE out' = Failed /\ UNCHANGED <<heap, sift, pending>>
  BY <1>1, <1>3, SoundWhenReady, SInvFromParts
<1>4. CASE heap.len = Capacity /\ out' = At(heap, 0) /\ ExtractFirst /\ pending' = v
  <2>1. heap.len # 0 BY <1>4, CapacityIsPositive
  <2> QED BY <1>1, <1>4, <2>1, SoundWhenReady, SoundExtractFirst, SInvFromParts
<1> QED BY <1>2, <1>3, <1>4 DEF InsertExtractUnchecked

(* The second half of `insert_extract'. *)
LEMMA SoundInsertPending ==
    ASSUME SInv, InsertPending PROVE SInv'
<1>1. /\ heap \in IndexMaps /\ Sound(heap) /\ pending \in Value /\ heap.len < Capacity
      /\ out' \in Value \cup {None, Failed} /\ pending' = None /\ InsertLast(pending)
  BY DEF InsertPending, SInv, TypeOK, PendingFits
<1> QED BY <1>1, SoundInsertLast, SInvFromParts

(* `change_key': the index it finds is that of the key. *)
LEMMA SoundChangeKey ==
    ASSUME SInv, NEW v \in Value, ChangeKey(v) PROVE SInv'
<1> DEFINE i == heap.ki[v.key]
<1>1. Ready /\ pending' = pending /\ out' = None BY DEF ChangeKey
<1>2. CASE heap' = heap /\ sift' = sift
  BY <1>1, <1>2, SoundWhenReady, SInvFromParts
<1>3. CASE i # None /\ heap' = MapSet(heap, i, v) /\ (sift' = Down(i) \/ sift' = Up(i))
  <2>1. v.key \in Keys BY ValuesAreKeyed
  <2>2. heap' \in IndexMaps /\ Sound(heap') /\ heap'.len = heap.len
    BY <1>1, <1>3, SoundWhenReady, SoundOverwritten
  <2>3. i \in 0 .. heap.len - 1
    BY <1>1, <1>3, <2>1, SoundWhenReady, SoundFound
  <2>4. \E x \in 0 .. heap'.len - 1 : sift' = Up(x) \/ sift' = Down(x)
    BY <1>3, <2>2, <2>3
  <2> QED BY <1>1, <2>2, <2>4, SoundWhenReady, SInvFromParts
<1> QED BY <1>2, <1>3 DEF ChangeKey

(* `remove_item': the index it finds is that of the key. *)
LEMMA SoundRemoveItem ==
    ASSUME SInv, NEW k \in Keys, RemoveItem(k) PROVE SInv'
<1> DEFINE i == heap.ki[k]
           this == At(heap, i)
           last == At(heap, heap.len - 1)
<1>1. Ready /\ pending' = pending /\ out' = None BY DEF RemoveItem
<1>2. CASE heap' = heap /\ sift' = sift
  BY <1>1, <1>2, SoundWhenReady, SInvFromParts
<1>3. CASE i # None /\ ~(heap' = heap /\ sift' = sift)
  <2>1. i \in 0 .. heap.len - 1 /\ heap.iv[i].key = k /\ heap.len \in Nat /\ heap.len # 0
    BY <1>1, <1>3, SoundWhenReady, SoundFound
  <2>2. CASE i = 0 /\ ExtractFirst
    BY <1>1, <2>1, <2>2, SoundWhenReady, SoundExtractFirst, SInvFromParts
  <2>3. CASE /\ i # 0 /\ i = heap.len - 1 /\ sift' = sift
             /\ heap' = WithLength(MapDelete(heap, i, k), heap.len - 1)
    <3>1. heap' = WithLength(MapDelete(heap, heap.len - 1, heap.iv[heap.len - 1].key), heap.len - 1)
      BY <2>1, <2>3
    <3>2. heap' \in IndexMaps /\ Sound(heap')
      BY <1>1, <2>1, <3>1, SoundWhenReady, SoundShortened
    <3> QED BY <1>1, <2>3, <3>2, SoundWhenReady, SInvFromParts
  <2>4. CASE /\ i # 0 /\ i # heap.len - 1
             /\ heap' = WithLength(Replace(heap, i, this, heap.len - 1, last), heap.len - 1)
             /\ sift' = Down(i) \/ sift' = Up(i) \/ sift' = Idle
    <3>1. heap' \in IndexMaps /\ Sound(heap') /\ heap'.len = heap.len - 1
      BY <1>1, <2>1, <2>4, SoundWhenReady, SoundReplaced
    <3>2. i \in 0 .. heap'.len - 1
      BY <2>1, <2>4, <3>1
    <3>3. \/ sift' = Idle
          \/ \E x \in 0 .. heap'.len - 1 : sift' = Up(x) \/ sift' = Down(x)
      BY <2>4, <3>2
    <3> QED BY <1>1, <3>1, <3>3, SoundWhenReady, SInvFromParts
  <2> QED BY <1>3, <2>2, <2>3, <2>4 DEF RemoveItem
<1> QED BY <1>2, <1>3 DEF RemoveItem

(* An empty map is sound. *)
LEMMA EmptyIsSound == EmptyMap \in IndexMaps /\ Sound(EmptyMap) /\ EmptyMap.len = 0
  BY CapacityIsPositive DEF EmptyMap, IndexMaps, Sound, Index

(* `clear', and the two methods of the map. *)
LEMMA SoundClear ==
    ASSUME SInv, Clear PROVE SInv'
<1>1. Ready /\ heap' = MapClear(heap) /\ out' = None /\ sift' = sift /\ pending' = pending
  BY DEF Clear
<1>2. heap' = EmptyMap BY <1>1, SoundWhenReady, SoundCleared
<1> QED BY <1>1, <1>2, EmptyIsSound, SoundWhenReady, SInvFromParts

(* `push' appends, where there is room. *)
LEMMA SoundPush ==
    ASSUME SInv, NEW v \in Value, Push(v) PROVE SInv'
<1>1. Ready /\ sift' = sift /\ pending' = pending BY DEF Push
<1>2. CASE heap.len >= Capacity
  BY <1>1, <1>2, SoundWhenReady, SInvFromParts DEF Push
<1>3. CASE ~(heap.len >= Capacity)
  <2>1. heap' = WithLength(MapSet(heap, heap.len, v), heap.len + 1) /\ out' = None
    BY <1>3 DEF Push, MapPush
  <2>2. heap.len < Capacity BY <1>1, <1>3, SoundWhenReady, CapacityIsPositive
  <2>3. heap' \in IndexMaps /\ Sound(heap')
    BY <1>1, <2>1, <2>2, SoundWhenReady, SoundAppended
  <2> QED BY <1>1, <2>1, <2>3, SoundWhenReady, SInvFromParts
<1> QED BY <1>2, <1>3

(* `reset' writes a list of any values. *)
LEMMA SoundReset ==
    ASSUME SInv, NEW list \in Lists, Reset(list) PROVE SInv'
<1>1. Ready /\ sift' = sift /\ pending' = pending BY DEF Reset
<1>2. CASE Len(list) > Capacity
  BY <1>1, <1>2, SoundWhenReady, SInvFromParts DEF Reset
<1>3. CASE ~(Len(list) > Capacity)
  <2>1. list \in Seq(Value) /\ Len(list) <= Capacity
    BY <1>3, ListsAreSequences, CapacityIsPositive
  <2>2. heap' = MapFill(EmptyMap, list) /\ out' = None
    BY <1>1, <1>3, SoundWhenReady, SoundCleared DEF Reset
  <2>3. heap' \in IndexMaps /\ Sound(heap')
    BY <2>1, <2>2, SoundFilled
  <2> QED BY <1>1, <2>2, <2>3, SoundWhenReady, SInvFromParts
<1> QED BY <1>2, <1>3

(* A turn of either loop. *)
LEMMA SoundDownHeapify ==
    ASSUME SInv, DownHeapify PROVE SInv'
<1> DEFINE i == sift.at
           h == HeadOf(heap, i)
<1>1. /\ heap \in IndexMaps /\ Sound(heap) /\ heap.len \in Nat
      /\ i \in Nat /\ i < heap.len /\ i \in 0 .. heap.len - 1
      /\ pending' = pending /\ out' = out
      /\ pending \in Value \cup {None} /\ out \in Value \cup {None, Failed}
      /\ pending # None => heap.len < Capacity
  BY IndexIsNotNone, CapacityIsPositive
     DEF SInv, TypeOK, LoopInside, PendingFits, DownHeapify, Idle, IndexMaps
<1>2. CASE h = i
  BY <1>1, <1>2, SInvFromParts DEF DownHeapify
<1>3. CASE h # i
  <2>1. heap' = Swap(heap, i, At(heap, i), h, At(heap, h)) /\ sift' = Down(h)
    BY <1>3 DEF DownHeapify
  <2>2. h \in 0 .. heap.len - 1
    BY <1>1 DEF HeadOf, Left, Right
  <2> HIDE DEF h, i
  <2>3. heap' \in IndexMaps /\ Sound(heap') /\ heap'.len = heap.len
    BY <1>1, <1>3, <2>1, <2>2, SoundSwapped
  <2>4. \E x \in 0 .. heap'.len - 1 : sift' = Up(x) \/ sift' = Down(x)
    BY <2>1, <2>2, <2>3
  <2> QED BY <1>1, <2>3, <2>4, SInvFromParts
<1> QED BY <1>2, <1>3

(* A turn of the upward loop swaps or stops. *)
LEMMA SoundUpHeapify ==
    ASSUME SInv, UpHeapify PROVE SInv'
<1> DEFINE i == sift.at
           p == Parent(i)
<1>1. /\ heap \in IndexMaps /\ Sound(heap) /\ heap.len \in Nat
      /\ i \in Nat /\ i < heap.len /\ i \in 0 .. heap.len - 1
      /\ pending' = pending /\ out' = out
      /\ pending \in Value \cup {None} /\ out \in Value \cup {None, Failed}
      /\ pending # None => heap.len < Capacity
  BY IndexIsNotNone, CapacityIsPositive
     DEF SInv, TypeOK, LoopInside, PendingFits, UpHeapify, Idle, IndexMaps
<1>2. CASE i # 0 /\ Before(At(heap, i), At(heap, p))
  <2>1. heap' = Swap(heap, i, At(heap, i), p, At(heap, p)) /\ sift' = Up(p)
    BY <1>2 DEF UpHeapify
  <2>2. p \in 0 .. heap.len - 1 /\ i # p
    BY <1>1, <1>2, ParentOfIndex
  <2> HIDE DEF p, i
  <2>3. heap' \in IndexMaps /\ Sound(heap') /\ heap'.len = heap.len
    BY <1>1, <2>1, <2>2, SoundSwapped
  <2>4. \E x \in 0 .. heap'.len - 1 : sift' = Up(x) \/ sift' = Down(x)
    BY <2>1, <2>2, <2>3
  <2> QED BY <1>1, <2>3, <2>4, SInvFromParts
<1>3. CASE ~(i # 0 /\ Before(At(heap, i), At(heap, p)))
  BY <1>1, <1>3, SInvFromParts DEF UpHeapify
<1> QED BY <1>2, <1>3

(* The heap is empty at first. *)
LEMMA SoundInit == Init => SInv
<1> SUFFICES ASSUME Init PROVE SInv
  OBVIOUS
<1>1. heap = EmptyMap /\ sift = Idle /\ pending = None /\ out = None
  BY DEF Init
<1>2. TypeOK
  BY <1>1, EmptyIsSound, CapacityIsPositive DEF TypeOK, Idle, Index
<1> QED BY <1>1, <1>2, EmptyIsSound DEF SInv, LoopInside, PendingFits

(* Every step of every caller preserves the invariant. *)
LEMMA AnyNextPreserves == SInv /\ [AnyNext]_vars => SInv'
<1> SUFFICES ASSUME SInv, [AnyNext]_vars PROVE SInv'
  OBVIOUS
<1>1. CASE Extract BY <1>1, SoundExtract
<1>2. CASE \E v \in Value : Insert(v) \/ InsertUnchecked(v)
  BY <1>2, SoundInsert DEF Insert
<1>3. CASE \E v \in Value : InsertExtract(v) \/ InsertExtractUnchecked(v)
  BY <1>3, SoundInsertExtract DEF InsertExtract
<1>4. CASE \E v \in Value : ChangeKey(v) BY <1>4, SoundChangeKey
<1>5. CASE \E k \in Keys : RemoveItem(k) BY <1>5, SoundRemoveItem
<1>6. CASE Clear BY <1>6, SoundClear
<1>7. CASE \E v \in Value : Push(v) BY <1>7, SoundPush
<1>8. CASE \E list \in Lists : Reset(list) BY <1>8, SoundReset
<1>9. CASE \E list \in HeapLists : Reset(list) BY <1>9, SoundReset DEF HeapLists
<1>10. CASE DownHeapify BY <1>10, SoundDownHeapify
<1>11. CASE UpHeapify BY <1>11, SoundUpHeapify
<1>12. CASE InsertPending BY <1>12, SoundInsertPending
<1>13. CASE UNCHANGED vars
  BY <1>13 DEF vars, SInv, TypeOK, LoopInside, PendingFits
<1> QED BY <1>1, <1>2, <1>3, <1>4, <1>5, <1>6, <1>7, <1>8, <1>9, <1>10, <1>11, <1>12, <1>13
        DEF AnyNext, Next, Operation, Loop

-----------------------------------------------------------------------------
(* Whatever a caller does with an index_heap.rs, keys inserted twice and   *)
(* the map's push and reset among it, the loops stay below the length and  *)
(* a pending insertion has its place.                                      *)
THEOREM AnyInvariant == AnySpec => []SInv
  BY SoundInit, AnyNextPreserves, PTL DEF AnySpec

(* No `get(..).unwrap()' of index_heap.rs fails and index_of_key never     *)
(* leads to a value of another key, whatever a caller does.                *)
THEOREM AlwaysSound == AnySpec => []IndexSound
<1>1. SInv => IndexSound BY DEF SInv, Sound, IndexSound, Has
<1> QED BY <1>1, AnyInvariant, PTL
=============================================================================
