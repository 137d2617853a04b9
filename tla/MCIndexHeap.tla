---------------------------- MODULE MCIndexHeap ----------------------------
(* Small heaps.  In the first the order is that of stakes, by power only,  *)
(* so that keys are interchangeable; in the second that of pools.          *)
EXTENDS IndexHeap, TLC, SequencesExt

CONSTANT Powers

Stakes == [key : Keys, power : Powers]

StakeRank == [v \in Stakes |-> v.power]

(* Keys are numbers here: the power decides, then the operator. *)
PoolRank == [v \in Stakes |-> v.power * 100 + v.key]

KeySymmetry == Permutations(Keys)

(* A list that does not fit: what is in it makes no difference. *)
TooLong ==
    LET keys == SetToSeq(Keys)
    IN  [j \in 1 .. Capacity + 1 |-> [key |-> keys[((j - 1) % Len(keys)) + 1], power |-> 0]]

DistinctKeys(list) == \A i, j \in 1 .. Len(list) : list[i].key = list[j].key => i = j
AnyLists == SeqOf(Stakes, 2) \cup {TooLong}
ShortLists == {list \in AnyLists : DistinctKeys(list)}
=============================================================================
