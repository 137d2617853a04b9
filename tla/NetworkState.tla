---------------------------- MODULE NetworkState ----------------------------
(***************************************************************************)
(* What the network account promises, without rows: an epoch, deposits,    *)
(* the pools by operator, two validator sets that hold copies of pools,    *)
(* and the pools that are next.  A change to one is no change to another.  *)
(***************************************************************************)
EXTENDS Naturals, Sequences, FiniteSets

CONSTANTS Operators, Owners,
          PoolField, PoolValue,         \* the fields of a pool, their values
          PoolRecord,                   \* all four fields of a pool
          DepositField, DepositValue,
          Epochs, ValidatorSets,
          Stake, PoolKey,               \* records with a field `key'
          N, M,                         \* capacity of the sets, and of a pool
          None, Failed, Lists

VARIABLES epoch,      \* the current epoch, 0 at first
          deposits,   \* by operator and owner
          pools,      \* by operator
          sets,       \* the validator sets: a list, and pools by operator
          next,       \* a set of PoolKey
          out         \* what the last call returned, where it returns a result

vars == <<epoch, deposits, pools, sets, next, out>>

Blank == [fields |-> [f \in PoolField |-> None], stakes |-> {}]
NoDeposit == [f \in DepositField |-> None]

OnePerKey(S) == \A v, w \in S : v.key = w.key => v = w
HeapValues(S, values, capacity) ==
    S \in SUBSET values /\ OnePerKey(S) /\ Cardinality(S) <= capacity

Init == /\ epoch = 0
        /\ deposits = [d \in Operators \X Owners |-> NoDeposit]
        /\ pools = [p \in Operators |-> Blank]
        /\ sets = [v \in ValidatorSets |->
                      [list |-> <<>>, known |-> {}, pools |-> [p \in Operators |-> Blank]]]
        /\ next = {}
        /\ out = None

(* Changes that return no result. *)
SetEpoch == epoch' \in Epochs /\ UNCHANGED <<deposits, pools, sets, next>>

ChangeDeposit(d) ==
    /\ \/ \E f \in DepositField : \E x \in DepositValue[f] :
              deposits' = [deposits EXCEPT ![d][f] = x]
       \/ deposits' = [deposits EXCEPT ![d] = NoDeposit]
    /\ UNCHANGED <<epoch, pools, sets, next>>

(* A field is set, the stakes change, or the pool is deleted. *)
PoolStep(p, q) ==
    \/ \E f \in PoolField : /\ q = [p EXCEPT !.fields[f] = q.fields[f]]
                            /\ q.fields[f] \in PoolValue[f]
    \/ q.fields = p.fields /\ HeapValues(q.stakes, Stake, M)
    \/ q = Blank

ChangePool(p) == /\ PoolStep(pools[p], pools'[p])
                 /\ pools' = [pools EXCEPT ![p] = pools'[p]]
                 /\ UNCHANGED <<epoch, deposits, sets, next>>

(* The copy in a validator set; `known' are the operators ever pushed. *)
ChangeCopy(v, p) ==
    /\ p \in sets[v].known
    /\ PoolStep(sets[v].pools[p], sets'[v].pools[p])
    /\ sets' = [sets EXCEPT ![v].pools[p] = sets'[v].pools[p]]
    /\ UNCHANGED <<epoch, deposits, pools, next>>

Clear(v) ==
    LET listed == {sets[v].list[j] : j \in 1 .. Len(sets[v].list)}
    IN  /\ sets' = [sets EXCEPT
              ![v].list = <<>>,
              ![v].pools = [p \in Operators |-> IF p \in listed THEN Blank ELSE @[p]]]
        /\ UNCHANGED <<epoch, deposits, pools, next>>

ChangeNext == HeapValues(next', PoolKey, N) /\ UNCHANGED <<epoch, deposits, pools, sets>>

(* Too many stakes are ignored, and the stakes stay what they were. *)
Push(v, fields, list) ==
    LET p == fields[0]
        given == {list[j] : j \in 1 .. Len(list)}
        copy == [fields |-> fields,
                 stakes |-> IF Len(list) > M THEN sets[v].pools[p].stakes ELSE given]
    IN  /\ \/ /\ out' = Failed
              /\ Len(sets[v].list) >= N
              /\ UNCHANGED sets
           \/ /\ out' = [set |-> v, operator |-> p, stakes |-> given]
              /\ Len(sets[v].list) < N
              /\ sets' = [sets EXCEPT
                    ![v] = [list  |-> Append(@.list, p),
                            known |-> @.known \cup {p},
                            pools |-> [@.pools EXCEPT ![p] = copy]]]
        /\ UNCHANGED <<epoch, deposits, pools, next>>

Next == \/ /\ out' = None
           /\ \/ SetEpoch
              \/ \E d \in Operators \X Owners : ChangeDeposit(d)
              \/ \E p \in Operators : ChangePool(p)
              \/ \E v \in ValidatorSets, p \in Operators : ChangeCopy(v, p)
              \/ \E v \in ValidatorSets : Clear(v)
              \/ ChangeNext
        \/ \E v \in ValidatorSets, fields \in PoolRecord, list \in Lists :
               Push(v, fields, list)

Spec == Init /\ [][Next]_vars
=============================================================================
