--------------------------- MODULE NetworkAccount ---------------------------
(***************************************************************************)
(* The storage of the network account (network_account_storage): an epoch, *)
(* deposits, pools, the previous, current and next validator pools, all of *)
(* them rows of one key-value store, told apart by their keys.  The store  *)
(* is the storage trie of NETWORK_ADDRESS, in the hands of the caller.     *)
(*                                                                         *)
(* A key is a sequence of symbols: an address is one symbol here, and may  *)
(* be equal to a tag or an index.  Methods borrow the store mutably, so    *)
(* one call is one step.                                                   *)
(***************************************************************************)
EXTENDS Integers, Sequences, FiniteSets, SequencesExt

CONSTANTS Operators, Owners, Powers, Rates, Balances, Epochs,
          OwnStakes,   \* what is stored as the operator's own stake
          N,           \* MAX_VALIDATOR_SET_SIZE
          M,           \* MAX_STAKES_PER_POOL
          Lists,       \* the vectors of stakes a pool is pushed with
          None, Failed

ASSUME SizesArePositive == N \in Nat \ {0} /\ M \in Nat \ {0}
ASSUME NoneIsNoIndex == None \notin 0 .. N /\ None \notin [key : Operators]
ASSUME ListsOfStakes == Lists \subseteq Seq([key : Owners, power : Powers])

VARIABLES store,   \* the rows: a partial function from keys
          out      \* what the last call returned, where it returns a result

vars == <<store, out>>

(* Values with their `KeySpaced::key'. *)
Stake == [key : Owners, power : Powers]
PoolKey == [key : Operators, power : Powers]
PoolAddress == [key : Operators]

(* network_account_data. *)
PrevValidatorPools == 0
ValidatorPools     == 1
NextValidatorPools == 2
Pools              == 3
Deposits           == 4
CurrentEpoch       == 5
ValidatorSets == {PrevValidatorPools, ValidatorPools}

(* pool_data and deposit_data. *)
Operator       == 0
Power          == 1
CommissionRate == 2
OperatorStake  == 3
PoolField == {Operator, Power, CommissionRate, OperatorStake}
DelegatedStakes == 4
Balance          == 0
AutoStakeRewards == 1
DepositField == {Balance, AutoStakeRewards}

PoolValue == [f \in PoolField |->
    CASE f = Operator -> Operators [] f = Power -> Powers
      [] f = CommissionRate -> Rates [] OTHER -> OwnStakes]
DepositValue == [f \in DepositField |-> IF f = Balance THEN Balances ELSE BOOLEAN]

(* A Pool: its four fields. *)
PoolRecord ==
    {[f \in PoolField |-> CASE f = Operator -> p [] f = Power -> w
                            [] f = CommissionRate -> r [] OTHER -> s] :
        p \in Operators, w \in Powers, r \in Rates, s \in OwnStakes}

-----------------------------------------------------------------------------
(* Rows. *)

EmptyStore == [r \in {} |-> None]
Read(s, r) == IF r \in DOMAIN s THEN s[r] ELSE None
Written(s, rows) ==
    [r \in DOMAIN s \cup DOMAIN rows |-> IF r \in DOMAIN rows THEN rows[r] ELSE s[r]]
Deleted(s, rows) == [r \in DOMAIN s \ rows |-> s[r]]

(* An IndexMap in the store: its length, KI and IV below its domain.       *)
LengthRow(domain) == Append(domain, 0)
KeyIndexRow(domain, k) == domain \o <<1, k>>
IndexValueRow(domain, i) == domain \o <<2, i>>

Loaded(s, domain, keys, capacity) ==
    [len |-> IF LengthRow(domain) \in DOMAIN s THEN s[LengthRow(domain)] ELSE 0,
     ki  |-> [k \in keys |-> Read(s, KeyIndexRow(domain, k))],
     iv  |-> [i \in 0 .. capacity - 1 |-> Read(s, IndexValueRow(domain, i))]]

Saved(s, domain, m) ==
    LET kiRows == {KeyIndexRow(domain, k) : k \in DOMAIN m.ki}
        ivRows == {IndexValueRow(domain, i) : i \in DOMAIN m.iv}
        content(r) == IF r = LengthRow(domain) THEN m.len
                      ELSE IF r \in kiRows THEN m.ki[Last(r)] ELSE m.iv[Last(r)]
        rows == {LengthRow(domain)} \cup {r \in kiRows : m.ki[Last(r)] # None}
                                    \cup {r \in ivRows : m.iv[Last(r)] # None}
    IN  Written(Deleted(s, kiRows \cup ivRows), [r \in rows |-> content(r)])

(* The maps of one kind: addresses of pools, stakes, keys of pools. *)
AddressMap == INSTANCE IndexMap WITH Keys <- Operators, Value <- PoolAddress, Capacity <- N
StakeMap   == INSTANCE IndexMap WITH Keys <- Owners, Value <- Stake, Capacity <- M
NextMap    == INSTANCE IndexMap WITH Keys <- Operators, Value <- PoolKey, Capacity <- N

(* `pools', `PREFIX_NESTED_MAP' and `deposits': where a PoolDict and a     *)
(* DepositDict are; `delegated_stakes' of a PoolDict.                      *)
PoolAt(p) == <<Pools, p>>
NestedMap == 3
CopyAt(v, p) == <<v, NestedMap, p>>
DepositAt(p, owner) == <<Deposits, p, owner>>

(* Variant: the stakes have no tag of their own. *)
StakesAtPrefix(prefix) == prefix

StakesAt(prefix) == Append(prefix, DelegatedStakes)

AddressesOf(s, v) == Loaded(s, <<v>>, Operators, N)
StakesOf(s, prefix) == Loaded(s, StakesAt(prefix), Owners, M)
NextPools(s) == Loaded(s, <<NextValidatorPools>>, Operators, N)

Init == store = EmptyStore /\ out = None

-----------------------------------------------------------------------------
SetCurrentEpoch(e) == /\ store' = Written(store, [r \in {<<CurrentEpoch>>} |-> e])
                      /\ out' = None

(* DepositDict: the two setters, `delete'. *)
SetDeposit(p, owner, f, x) ==
    /\ store' = Written(store, [r \in {Append(DepositAt(p, owner), f)} |-> x])
    /\ out' = None

DeleteDeposit(p, owner) ==
    /\ store' = Deleted(store, {Append(DepositAt(p, owner), f) : f \in DepositField})
    /\ out' = None

(* `ValidatorPool::pool': a PoolDict if the operator is found. *)
Pool(s, v, p) == AddressMap!ByKey(AddressesOf(s, v), p)

(* The PoolDicts there may be, and those a caller can get. *)
Handles == {PoolAt(p) : p \in Operators}
             \cup {CopyAt(v, p) : v \in ValidatorSets, p \in Operators}
CanGet(prefix) == Len(prefix) = 3 => Pool(store, prefix[1], prefix[3]) # None

(* PoolDict: the four setters, `delete', and `delegated_stakes'. *)
SetPoolField(prefix, f, x) ==
    /\ CanGet(prefix)
    /\ store' = Written(store, [r \in {Append(prefix, f)} |-> x])
    /\ out' = None

(* Variant: the stakes are left behind. *)
WithoutPoolFields(s, prefix) == Deleted(s, {Append(prefix, f) : f \in PoolField})

WithoutPool(s, prefix) ==
    Saved(Deleted(s, {Append(prefix, f) : f \in PoolField}),
          StakesAt(prefix), StakeMap!MapClear(StakesOf(s, prefix)))

DeletePool(prefix) == /\ CanGet(prefix)
                      /\ store' = WithoutPool(store, prefix)
                      /\ out' = None

(* What the operations of a heap do to it is the subject of IndexHeap.     *)
(* Here they leave any heap there may be, with one value per key.          *)
HeapLists(values, capacity) ==
    {list \in SeqOf(values, capacity) :
        /\ \A i, j \in 1 .. Len(list) : list[i].key = list[j].key => i = j
        /\ \A j \in 2 .. Len(list) : list[j \div 2].power <= list[j].power}

ChangeStakes(prefix) ==
    /\ CanGet(prefix)
    /\ \E list \in HeapLists(Stake, M) :
           store' = Saved(store, StakesAt(prefix), StakeMap!MapFill(StakeMap!EmptyMap, list))
    /\ out' = None

ChangeNextPools ==
    /\ \E list \in HeapLists(PoolKey, N) :
           store' = Saved(store, <<NextValidatorPools>>, NextMap!MapFill(NextMap!EmptyMap, list))
    /\ out' = None

(* `ValidatorPool::push': the address, the fields, then the stakes, whose  *)
(* `reset' fails without a word if they are too many.                      *)
StakesReset(s, prefix, list) ==
    IF Len(list) > M THEN s
    ELSE Saved(s, StakesAt(prefix),
               StakeMap!MapFill(StakeMap!MapClear(StakesOf(s, prefix)), list))

Push(v, pool, list) ==
    LET addresses == AddressesOf(store, v)
        p == pool[Operator]
        prefix == CopyAt(v, p)
        pushed == Saved(store, <<v>>, AddressMap!MapPush(addresses, [key |-> p]))
        fields == [r \in {Append(prefix, f) : f \in PoolField} |-> pool[Last(r)]]
    IN  \/ /\ addresses.len >= N
           /\ out' = Failed
           /\ UNCHANGED store
        \/ /\ addresses.len < N
           /\ store' = StakesReset(Written(pushed, fields), prefix, list)
           /\ out' = [set |-> v, operator |-> p, stakes |-> ToSet(list)]

(* `ValidatorPool::clear': every pool that is listed is deleted, and the   *)
(* length set to 0; KI and IV stay as they are.                            *)
ListedAt(s, v) == [j \in 1 .. AddressesOf(s, v).len |-> AddressesOf(s, v).iv[j - 1].key]

(* Variant: the length is set first, and no pool is found to delete. *)
ClearLengthFirst(v) == /\ store' = Written(store, [r \in {LengthRow(<<v>>)} |-> 0])
                       /\ out' = None

(* The loop, after n pools. *)
Emptying(s, v) ==
    LET listed == ListedAt(s, v)
        emptied[n \in 0 .. Len(listed)] ==
            IF n = 0 THEN s ELSE WithoutPool(emptied[n - 1], CopyAt(v, listed[n]))
    IN  emptied

Clear(v) ==
    LET emptied == Emptying(store, v)[Len(ListedAt(store, v))]
    IN  /\ store' = Written(emptied, [r \in {LengthRow(<<v>>)} |-> 0])
        /\ out' = None

Next ==
    \/ \E e \in Epochs : SetCurrentEpoch(e)
    \/ \E p \in Operators, owner \in Owners, f \in DepositField :
           \E x \in DepositValue[f] : SetDeposit(p, owner, f, x)
    \/ \E p \in Operators, owner \in Owners : DeleteDeposit(p, owner)
    \/ \E prefix \in Handles, f \in PoolField : \E x \in PoolValue[f] : SetPoolField(prefix, f, x)
    \/ \E prefix \in Handles : DeletePool(prefix) \/ ChangeStakes(prefix)
    \/ ChangeNextPools
    \/ \E v \in ValidatorSets, pool \in PoolRecord, list \in Lists : Push(v, pool, list)
    \/ \E v \in ValidatorSets : Clear(v)

Spec == Init /\ [][Next]_vars
-----------------------------------------------------------------------------
(* What the getters of each part answer. *)
EpochIn(s) == IF <<CurrentEpoch>> \in DOMAIN s THEN s[<<CurrentEpoch>>] ELSE 0
DepositIn(s, d) == [f \in DepositField |-> Read(s, Append(DepositAt(d[1], d[2]), f))]
PoolIn(s, prefix) ==
    [fields |-> [f \in PoolField |-> Read(s, Append(prefix, f))],
     stakes |-> StakeMap!ValuesIn(StakesOf(s, prefix))]
NextIn(s) == NextMap!ValuesIn(NextPools(s))
SetIn(s, v) ==
    [list  |-> ListedAt(s, v),
     known |-> {p \in Operators : Pool(s, v, p) # None},
     pools |-> [p \in Operators |-> PoolIn(s, CopyAt(v, p))]]

DepositsIn(s) == [d \in Operators \X Owners |-> DepositIn(s, d)]
PoolsIn(s) == [p \in Operators |-> PoolIn(s, PoolAt(p))]
SetsIn(s) == [v \in ValidatorSets |-> SetIn(s, v)]

MapRows(domain, keys, capacity) ==
    {LengthRow(domain)} \cup {KeyIndexRow(domain, k) : k \in keys}
        \cup {IndexValueRow(domain, i) : i \in 0 .. capacity - 1}
PoolRows(prefix) ==
    {Append(prefix, f) : f \in PoolField} \cup MapRows(StakesAt(prefix), Owners, M)

DepositRows(d) == {Append(DepositAt(d[1], d[2]), f) : f \in DepositField}
KnownRows ==
    {<<CurrentEpoch>>}
      \cup (UNION {DepositRows(d) : d \in Operators \X Owners})
      \cup (UNION {PoolRows(prefix) : prefix \in Handles})
      \cup (UNION {MapRows(<<s>>, Operators, N) : s \in ValidatorSets \cup {NextValidatorPools}})

(* Type invariant: every row is one of a part of the account, and holds    *)
(* what belongs there.                                                     *)
TypeOK ==
    /\ DOMAIN store \subseteq KnownRows
    /\ Read(store, <<CurrentEpoch>>) \in Epochs \cup {None}
    /\ \A p \in Operators, o \in Owners, f \in DepositField :
           Read(store, Append(DepositAt(p, o), f)) \in DepositValue[f] \cup {None}
    /\ \A prefix \in Handles :
           /\ \A f \in PoolField : Read(store, Append(prefix, f)) \in PoolValue[f] \cup {None}
           /\ StakesOf(store, prefix) \in StakeMap!IndexMaps
    /\ \A v \in ValidatorSets : AddressesOf(store, v) \in AddressMap!IndexMaps
    /\ NextPools(store) \in NextMap!IndexMaps

(* Every pool a validator set lists is found by its operator, although     *)
(* KI and IV are full of what earlier clears left there, and although an   *)
(* operator may be pushed twice: `pool_at' and the unwrap in `clear' and   *)
(* `push' do not fail.                                                     *)
ListedAreFound ==
    \A v \in ValidatorSets : \A p \in ToSet(ListedAt(store, v)) :
        Pool(store, v, p) = [key |-> p]

(* Only pools that are listed are found ("Clear pool and its delegated     *)
(* stakes").                                                               *)
PoolsFoundAreListed ==
    \A v \in ValidatorSets, p \in Operators :
        Pool(store, v, p) # None => p \in ToSet(ListedAt(store, v))

(* A push that returns Ok has set the stakes it was given ("Push pool      *)
(* value to Index Map with reset of delegated stakes").                    *)
PushedStakesAreSet ==
    out \notin {None, Failed} =>
        PoolIn(store, CopyAt(out.set, out.operator)).stakes = out.stakes

(* The refinement: what the getters of each part answer. *)
Promise == INSTANCE NetworkState WITH
    epoch <- EpochIn(store), deposits <- DepositsIn(store), pools <- PoolsIn(store),
    sets <- SetsIn(store), next <- NextIn(store)

(* The rows of one store are an epoch, deposits, pools and three sets of   *)
(* pools that do not know of each other: no key of one part is a key of    *)
(* another, nested as they are, and what a cleared set leaves behind in    *)
(* KI and IV is never seen in its list.                                    *)
ImplementsNetwork == Promise!Spec
=============================================================================
