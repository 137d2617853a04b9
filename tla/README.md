# pchain-world-state in TLA+

Specifications, TLC runs and TLAPS proofs for `pchain-world-state`, the crate
that keeps the world state of ParallelChain: accounts and contract storages in
Merkle Patricia tries on a key-value database, and the network account's heaps
and maps inside one such storage. Paths below are those of the crate.

## 1. The system

| Component | Source | State | Operations |
|---|---|---|---|
| Write buffer `KeyInstrumentedDB` | `src/db.rs` | rows to insert, rows to delete, key prefix, version | `new`, `get`, `put`, `delete`, `close`, `upgrade` |
| `Mpt` | `src/mpt.rs` | root hash, write buffer | `new`, `open`, `get`, `get_with_proof`, `contains`, `iterate_all`, `set`, `batch_set`, `remove`, `batch_remove`, `close`, `deinit_and_upgrade` |
| `AccountsTrie` | `src/accounts_trie.rs` | an `Mpt` without prefix | getters and setters of five account fields, `all`, `upgrade`, `close` |
| `StorageTrie` | `src/storage_trie.rs` | an `Mpt` prefixed with the account's address | `get`, `set`, `batch_set`, `remove`, `remove_trie`, `upgrade`, `close` |
| `WorldState` | `src/world_state.rs` | version, the accounts trie, a map of open storage tries | `new`, `open`, `storage_trie(_mut)`, `close`, `upgrade` |
| `IndexMap` | `src/network_account_storage/index_map.rs` | length, KI (key to index), IV (index to value), in a contract's storage | `get`, `set`, `push`, `delete`, `clear`, `reset` |
| `IndexHeap` | `src/network_account_storage/index_heap.rs` | an `IndexMap` kept in heap order | `extract`, `insert`, `insert_extract`, `change_key`, `remove_item`, `clear` |
| Validator pools | `pool.rs`, `stake.rs` | the previous and the current validator set: an `IndexMap` of addresses, and under it a copy of each pool with a heap of delegated stakes | `push`, `clear`, `pool`, `pool_at`, `get`, `length`; `PoolDict`: four setters and getters, `delegated_stakes`, `delete` |
| Network account | `network_account.rs`, `deposit.rs`, `constants.rs` | the epoch, deposits by operator and owner, pools by operator, the heap of next pools, in one key space | `set_current_epoch`, accessors; `DepositDict`: two setters, `delete` |

How they interact. A `WorldState` is a *session*: it is opened on a state hash,
reads the database, and never writes it. Every trie writes the rows of its
nodes to a buffer of its own. `close` writes the root of every open storage into
the accounts trie (`set_storage_hash`), merges all buffers and returns
`WorldStateChanges` (rows to insert, rows to delete, the new state hash); the
caller puts them into its database. The tests insert first and delete second
(`tests/tests.rs`), the crate's README deletes first. `upgrade` turns a V1 session
into a V2 session: both tries change their key schemes, all rows are rewritten. The heaps and
maps are reached only through `NetworkAccountStorage`, that is, `get`, `set` and
`delete` of keys in the storage of the network account.

Nothing in the crate is concurrent. The hard part is the order of things:

- two buffers, to insert and to delete, that must stay disjoint through rewrites,
  upgrades and a merge of tries that do not know of each other;
- the storage hash, stale from the first write to a storage until `close`;
- nodes shared between states and deleted without reference counts;
- an upgrade with changes not yet closed, storages opened lazily or not at all;
- a session that goes on after `close`: the accounts trie's buffer is empty, those of
  the storages in the map are not (they are closed as clones);
- a process that stops between `close` and the database;
- KI, IV and the length, three unrelated key spaces that have to agree in the
  middle of every heap loop;
- heaps inside pools inside a validator set, all of them keys of one store that are told
  apart by a prefix of tags and addresses;
- a validator set that is cleared by its length alone, and filled again over what
  is left in KI and IV.

What makes each component correct: a read in the buffer equals the read after
commit (write buffer); every node of a root can be found and no dead one is left
(tries); the durable state is always that of some closed session, as a whole
(world state); index and array in bijection (map); a bounded priority queue
with unique keys (heap); parts that do not know of each other, and every listed pool
found (network account).

## 2. The modules

| Module | Models | Kind |
|---|---|---|
| `KeyInstrumentedDB` | `db.rs` | operators on one buffer |
| `DBSession` | the buffers of one session, and the rows `close` hands out | state machine |
| `TransactionalStore` | what the buffers promise | abstract specification |
| `DBSessionProofs` | | proofs about `DBSession` |
| `Mpt` | `mpt.rs` | operators on one trie |
| `AccountsTrie`, `StorageTrie` | `accounts_trie.rs`, `storage_trie.rs` | operators, EXTENDS `Mpt` |
| `WorldState` | `world_state.rs`, over the three above | state machine |
| `WorldStateRecovery` | the same with a caller that applies in two halves and may stop between them | state machine, EXTENDS `WorldState` |
| `LedgerState` | what a world state promises | abstract specification |
| `MptProofs` | | lemmas about `Mpt`: what each operation on a trie does to its rows |
| `WorldStateProofs` | | proofs about `WorldState`: its invariants |
| `WorldLedgerProofs` | | proof that `WorldState` implements `LedgerState` |
| `IndexMap` | `index_map.rs` | operators on one map |
| `IndexHeap` | `index_heap.rs`, over `IndexMap` | state machine |
| `KeyedPriorityQueue` | what a heap promises | abstract specification |
| `IndexHeapProofs`, `IndexSoundProofs`, `IndexQueueProofs` | | proofs about `IndexHeap` |
| `NetworkAccount` | `network_account.rs`, `pool.rs`, `stake.rs`, `deposit.rs`, over `IndexMap` | state machine on the rows of one store |
| `NetworkState` | what the network account promises, without rows | abstract specification |
| `NetworkAccountProofs` | | proofs about `NetworkAccount` |
| `MCDBSession`, `MCWorldState`, `MCWorldStateRecovery`, `MCIndexHeap`, `MCNetworkAccount` | small instances | TLC |

Definitions marked *Variant* in the modules are plausible mistakes in a definition
of the code (a guard dropped, an order swapped). Each property of a run is
violated when one variant takes the place of the original; they show that the
properties can fail.

### DBSession

The state is the database, one overlay per trie, and the rows the caller has not
applied. `PutRow`, `DeleteRow` and `Upgrade` are the methods of `db.rs`, `Close` the
merge in `WorldState::close`, `Apply` the caller in either order, `Reopen` a
dropped session or a crash. A key is a sequence of symbols, so that the key schemes
of V1 and V2 can be written as they are: concatenation, with a tag under V2.

`WorldState::close` closes *clones* of the storage tries, so `Close` empties the buffer of the accounts trie (`Accounts`)
only: those of the storages stay, and the next `Close` hands them out again. Here one change set waits at a
time, which is the caller's duty and not checked by the library; `WorldState` has them wait in a queue. `Upgrade` moves
the tries of a session all at once, and a session is opened in either version (`Reopen`).

What is read while changes wait is part of `ReadsBecomeDurable`: a session that goes on after `Close` reads its
storages as it has set them, because their rows are still buffered, and its accounts as the database has them,
because theirs are not (`Hidden`, the rows of the accounts trie that wait and are not written again). Every other read is
what the database holds once the waiting rows and then the buffered ones are applied.

`TransactionalStore` has three copies of the rows: durable, handed over, and as the session has set them. To hand
over takes all of the last as they stand. That an overlay hands out again what it handed out before is thus shown
to make no difference, and so is that a close hands out only what was touched.

### Mpt, AccountsTrie, StorageTrie, WorldState

A trie is determined by its *content*, a partial function from keys to values. A
node is known by the content below its position, and that content stands for
its hash: SHA-256 is taken to have no collisions, and nothing else of it
matters. A row is the position followed by the hash. The content of a root
thus tells which rows there must be: `NodeRows`. What `trie_db` does with the nodes on a commit is
modelled from its use (it is an external crate): the rows of new
nodes are put, those of replaced nodes deleted. The row of the empty root is in neither (`TrieNodes`): `remove` refuses to
delete it, and `trie_db` puts no node for a trie that has become empty. It is put where `mpt.rs` does so by hand, by
`new` and by `deinit_and_upgrade`, and so there is one for each trie, empty or not (`TrieRows`).
`trie_db` keeps nodes shorter than a hash inside their parents; here every node has a
row of its own, which is the harder case: more rows to keep and to delete.

Reads and writes fail in the code if a node is missing. `CanRead`, `CanChange` and
`CanIterate` say which nodes an operation visits, and are guards of the actions;
so a step that returns `Err` changes nothing. That is true of the code as long as the
*root* is what is missing: `batch_set` that finds a node missing later on leaves
its rows in the overlay and the old root hash behind. `NeverHalfReadable` states that
this does not happen, so that the guard is no loss. It holds while at most one change set waits
to be applied (`MaxWaiting = 1`), for any other constants: theorem `AllOrNothing`. With two it does not: the first set
may go back to an empty trie whose root row an earlier state left, the second to the state of the database,
and a root written above that one is found when the nodes it shares are gone. `ws_fields` has
two sets waiting and does not check it; what an operation that fails half-way leaves in the overlay of such
a session is not modelled.

`WorldState` has an action for each method that changes state: `Genesis` and `Open`
(`new`, `open`), `SetAccountField`, `OpenStorage` and `CreateStorage` (the two
outcomes of `storage_trie` and `storage_trie_mut`), `WriteStorage`,
`RemoveStorageKey`, `RemoveStorageTrie`, `Close`, `Upgrade`; the caller's steps are `Apply`,
`Drop` and `Crash`. A caller opens a session only on the state it applied last. It may close a
session again before it has applied the changes of the first `close`: change sets wait in a queue, up to
`MaxWaiting` of them, and are applied in the order in which they were handed out. A session may live on
across `Apply`, as it can where the DB type is a handle on a shared database; where it owns the rows (the
tests), the caller ends the session first, which `Drop` allows. `Upgrade` by value
consumes a session, and an `Err` leaves nothing of it: the same as `Drop`.

`Apply` is one step: the caller's write batch is atomic. `WorldStateRecovery` takes that away: `BeginApply`
inserts, as the tests do first, and the process may stop before the deletions. It starts
again from the last state hash it has recorded, on a database with the rows of a session that is lost. The refinement of
`LedgerState` still holds. With the deletions first, the order of the crate's README, it does not:
a stop between the halves destroys the last state (variant `DeletionsOf`). So a caller who deletes first needs an atomic batch.

An empty value is no value to `trie_db`: inserting one removes the key. Only a code and
a storage value can be empty (`OnlyCodeIsEmpty`: the other fields encode to at least
four bytes). `WithAll` says so for every write, and the abstract ledger erases in the same way.

`TypeOK` asks that each trie is on the prefix of its own address and has keys in the layout of the session's version only, so
that an upgrade that left keys as they were, or a storage opened without its address, would be seen. `DatabaseExact` is
an equality: the database is the nodes of the last state, one row of the empty root for each of its tries, and nothing else.

`AllAccounts` is `AccountsTrie::all`, which reads the keys of all rows back, under each
version's layout, and fills in defaults; `AllMatchesGetters` compares it with the getters.

Addresses, fields and storage keys are single symbols, positions go by symbol and
not by nibble. What a trie's shape does with common prefixes is there: keys share
them, branches appear and merge.

### IndexHeap

An operation is one step up to its loop; each turn of `down_heapify` and
`up_heapify` is a step. `sift` says which loop runs and where it has got to,
`pending` is the value `insert_extract` has still to insert after it extracted, `out`
what the last operation returned. The heap is borrowed mutably, so no operation
starts before the loop ends (`Ready`). `swap` is atomic: two
calls of `set`.

The order of the code is `Ord` of the values: for stakes the power only, so that
different stakes are equal; for pools the power, then the operator. Both are a
function `Rank` to naturals. Two kinds of caller are told apart.

- `Spec`: the caller inserts no key that is there already (`Insert`, `InsertExtract` guard the methods
  with `~Has(v.key)`), and resets a heap only with the values of another one, in the order in which
  `unordered_values` returns them.
- `AnySpec`: the caller inserts any key (the methods themselves, `InsertUnchecked` and `InsertExtractUnchecked`,
  look for no earlier value), and uses what `DerefMut` hands through: `Push` at the end of the array, `Reset` with any list.

With a key in the heap twice, one of its values loses its index: `remove_item` and `change_key` no longer reach it. What
remains true is `IndexSound`: no gap below the length, nothing above it, and an index of a key, if there is one,
leads to a value of that key.

### NetworkAccount

The state is one store, a partial function from keys to contents, and the result of the last call. A key is a
sequence of symbols as the code concatenates it: the tag of a part, then tags and addresses, then the index or the key
in a map. An address is one symbol (in the code 32 bytes), a tag one (a byte), and the runs choose addresses
that are tags too, so that keys are kept apart by their structure only. The lengths
of keys are what the code fixes: every address has the same length, a tag has one byte.

A call is one step: every accessor borrows the store mutably, so nothing runs in the middle. `SetCurrentEpoch`, `SetDeposit`,
`DeleteDeposit`, `SetPoolField`, `DeletePool`, `Push`, `Clear` are the methods. A `PoolDict` of a validator
set is only to be had through `pool` (`CanGet`), which finds an operator by KI; one of the network account's pools always.
`ChangeStakes` and `ChangeNextPools` stand for the operations of the heaps: what they do inside is the subject of
`IndexHeap`, here they leave *any* heap with one value per key; more than any operation can do, so what is shown
holds for each.

A row of an `IndexMap`'s length that is absent is read as 0, one of a field as `None`. `Push` with too
many stakes sets none and still returns `Ok`. `Clear` deletes the fields and the stakes of each pool it lists, one after the other (`Emptying`), and then
sets the length, leaving KI and IV as they are.

`NetworkState` knows no rows: an epoch, deposits, pools, two sets with a list and copies of pools, next pools. Each of its steps
changes one of them. `ImplementsNetwork` says that the rows implement it, so that nothing written under one prefix
shows up under another. `known` in it is the set of operators ever pushed: what the code finds in a cleared set.

## 3. The runs

| Run | Asks | Instance | Distinct states |
|---|---|---|---|
| `db_session` | no row both ways, reads become durable, refinement of `TransactionalStore` | two tries, one trie key, two values, which are symmetric | 278,696 |
| `ws_fields` | a field and a storage through sessions, second closes, upgrade, crash: refinement of `LedgerState`, every storage of the map on record | one address, a nonce of 0 or 1, one storage key, two change sets waiting | 33,610 |
| `ws_nodes` | exactly the live nodes and the empty roots in the database; a trie readable or not at all; `all` agrees with the getters | one address, two storage keys: the trie branches and merges; a code and storage values that may be empty | 128,826 |
| `ws_accounts` | the merge over tries, and the refinement with several storages; empty values are removals | two addresses, one storage key each, whose value may be empty | 14,420 |
| `ws_recovery` | refinement of `LedgerState` with a stop between the insertions and the deletions | one address, one storage key, two values | 58,691 |
| `heap_order` | index exact inside loops, heap order after them, the least first; refinement of `KeyedPriorityQueue` | up to six stakes of seven keys, two powers, symmetric keys | 555 |
| `heap_any` | index sound and every loop ends, whatever a caller does | capacity 4, three keys, two powers, pools in a total order | 61,220 |
| `heap_reset` | `extract` returns the least value, after any `reset` | capacity 2, three keys | violated |
| `net_parts` | refinement of `NetworkState`, all parts | one operator, whose address is a tag; any two parts at a time | 20,397 |
| `net_sets` | every listed pool found; refinement | one validator set, two operators | 8,108 |
| `net_clear` | only listed pools are found | as `net_sets`, one epoch | violated |
| `net_push` | a push that returns `Ok` has set the stakes | as `net_sets`, two owners | violated |

Why the bounds are enough.

- `db_session`: the overlays treat rows independently of each other, so one trie
  key is enough; two tries and two versions give the four rows whose merge and
  upgrade could collide. Two values tell an old row from a new one; nothing looks at a value, so they are symmetric.
- `ws_*`: no bound on sessions, closes, upgrades or crashes, nor on the database. `ShortSession` stops
  a session after it has buffered nine rows of its own version (`MaxRows`; seven in `ws_nodes`). Within
  it TLC reaches what matters: V2 states with non-empty storages, V2 sessions that empty
  them again, sessions that go on after `close`, and accounts tries that cannot be read
  until their changes are applied. Two storage keys are the least with which a trie has
  a branch; two addresses the least with which storages are closed in an order and upgraded
  both from the map and from the records. Two change sets (`MaxWaiting`) are the least with which one waits for another.
- `ws_recovery`: a lost session leaves rows behind that nobody deletes, so the database
  needs a bound: four rows that no state needs (`MaxRest`), and seven buffered (`MaxRows`). That is room for two lost sessions, and
  for a node that a later session puts again or deletes.
- `heap_order`: three levels and six values are the least with which
  `remove_item` moves the last value *up* from a different subtree. Two powers
  give ties and strict order. Keys are symmetric because the order there does not look at them. One key more than the
  capacity, so that `insert_extract` finds a full heap with each relation between the new value and the first. A list of
  capacity + 1 values reaches the error of `reset`.
- `heap_any`: with fewer keys than places a full heap has several values of a key, on three levels.
- `net_parts`: with one symbol for the operator, the owner and the tag 3 (of `Pools` and `PREFIX_NESTED_MAP` alike) keys could
  coincide if their structure let them. A mix-up is one of two parts, so states with rows in at most two parts are explored (`MaxParts`). A pool's
  fields may be set in any order, of which states with one field or with at most two (`MaxGap`) missing are kept.
- `net_sets`: two operators in a set for two are the least with which a set is full, an operator is pushed twice,
  and an index left by an earlier clear points to another operator's place.

Deadlock is checked in every run; none may stop.

Fairness. Only `heap_any` uses it: `FairAnySpec` adds weak fairness of `Loop`, the turns of the two
loops and the insertion between them. A loop of a sequential program goes on until it
breaks, so that is no more than the code gives. That loops end is checked for the caller with the least discipline. The other specifications need no liveness: nothing obliges a
caller to close or to apply.

### What the runs found

`net_clear` is violated. `ValidatorPool::clear` ("Clear pool and its delegated stakes") sets the length of the map and
leaves KI and IV, where `IndexMap::clear` deletes both. `pool(operator)` then still finds a pool that was cleared, with no
fields; and after later pushes the index that is left may lead to another operator's address. `net_sets` shows
what this does not harm: a listed pool is always found, so that the `unwrap`s in `push` and `clear` do not fail, and what is
left never shows up in the list.

`net_push` is violated. `ValidatorPool::push` ("Push pool value to Index Map with reset of delegated stakes") discards the
result of the reset. With more stakes than `MAX_STAKES_PER_POOL` it returns `Ok`, with the pool pushed and the
stakes as they were before.

`heap_reset` is violated. `ValidatorPool::push` (`pool.rs`) resets the heap of delegated stakes
with a vector from its argument, in any order. `reset` belongs to the
map and writes the values as they come; nothing restores the heap order. `extract` then
returns a value that is not the least, while its comment says "extract the least
value". All other operations keep the order they find, so a caller who sorts the stakes beforehand, or
hands on the values of another heap, is safe: that is `Spec`.

## 4. The proofs

TLAPS proves the following for every value of the constants, from the named ASSUMEs
in the modules only.

**`DBSessionProofs`**, for any number of tries, keys and values, and any prefixes such that two tries
share no row (`TriesShareNoRow`, see the assumptions below):

- `TypeCorrect`: a buffer holds rows of its own trie only, after an upgrade too, and what is handed out is typed;
- `RowsOneWay`: no row is inserted and deleted (`NoRowBothWays`);
- `ReadsDurable`: what is read through a buffer is what the database holds once the rows that wait, and then those
  buffered, are applied, each in either order; the rows of the accounts trie that wait and are not written
  again are read as the database still has them;
- `Refinement`: `DBSession` implements `TransactionalStore`, storages handing out the same rows again among its steps.

The inductive invariant `IInv` says that *each* overlay keeps to its own
rows and has disjoint buffers, that the handed-out rows are disjoint, and that what a storage has
handed out it still buffers (`StoragesKeep`): this is why its reads do not go back when it is closed. `NoRowBothWays` speaks of
the merge and does not suffice alone: that merged buffers are disjoint follows from the disjointness of each
together with the separation of rows. The main lemmas describe the merge: which row it takes from which
overlay, and that it is as good as one overlay.

**`IndexHeapProofs`**, for any capacity, keys, values and order:

- `TypeCorrect`; `AlwaysExact` (KI and IV in bijection in the middle of every loop too);
- `AlwaysInOrder`: heap order whenever an operation has returned;
- `ExtractsLeast`: the first value is a least one.

Inside a loop the heap order is broken at one place. The inductive invariant says how: while a value
moves down, every value but its children is in order with its parent (`MovingDown`), while it moves
up every value but itself (`MovingUp`), and in both cases the moving value's children are in order with its
*parent* (`Bridged`): without the last, the order could not be restored
one level further. Exactness belongs to the invariant too: `remove_item` and `change_key` find
their value by KI. That the first value is the least follows from the order by looking at the
smallest index whose value is before the first: its parent is a smaller one.

**`IndexSoundProofs`**, for any capacity, keys, values, order and lists of values, under `AnySpec`:

- `AlwaysSound`: `IndexSound`, whatever a caller does.

The inductive invariant `SInv` adds to it that a loop stays below the length and that the value `insert_extract` has
still to insert finds room. The lemmas are those of `IndexHeapProofs` without the assumption that a key is
there once: a swap of two values of one key, an append that takes an index away, a list that names a key twice. In the last
the key leads to its last place, which exists because a set of indices has a smallest element counted from the end.

**`IndexQueueProofs`**, for any capacity, keys, values and order:

- `Refinement`: `IndexHeap` implements `KeyedPriorityQueue` (`ImplementsQueue`).

The queue's items are the values below the length, and with them the value `insert_extract` has taken but not yet
inserted: this is why its first step is the whole step of the queue, and the loop and the second half stutter. Under
`IInv` the map from indices to values is a bijection, so the heap is full exactly where the queue is
(`CountOfValues`), and a key has an index exactly where the queue has a value of the key (`KeyOfValue`). One lemma for each way
the map is written says what it does to the set of values; `FirstOfHeap` makes the first value a least one of the queue.

**`MptProofs`** holds the lemmas on tries that the next modules rest on, for any keys and values. A set of rows is an *exact*
image of a content if it has a row for each node of the content (`NodeRows`), the row of the empty root, and no other. A row names the position of its node and what is below it, so two nodes have two rows (`RowsApart`). Two contents
may share nodes all the same, and what a change deletes must not be a node of the new content: `CommitKeepsNodes`.
From this: `batch_set`, `remove`, `deinit`, `close` and `upgrade` lead from an exact image to an exact image
(`BatchSetKeepsExact`, `RemoveKeepsExact`, `DeinitKeepsExact`, `ClosedIsExact`, `UpgradeKeepsExact`), and on an exact image every
operation finds the nodes it visits (`CanRead`, `CanChange`, `CanIterate`).

**`WorldStateProofs`**, for any addresses, fields, keys, values (empty ones too) and any number of sessions and change sets that wait:

- `TypeCorrect` (prefixes and key layouts), `RecordsAreComplete` (`StoragesOnRecord`), `MergeIsOneWay` (`ChangesOneWay`);
- `DatabaseIsExact`: the database is the nodes of the last state and of the storages on record, and a row of the
  empty root for each of these tries;
- `SessionIsReadable`: a session that has handed out nothing that still waits finds every node;
- `AllIsWhatGettersSay` (`AllMatchesGetters`);
- `AllOrNothing` (`NeverHalfReadable`), where `MaxWaiting = 1`.

The invariants are not inductive, because they speak of the database as it is, and a session works on the database as it will be once the
waiting change sets are applied. The inductive invariant `IInv` speaks of a chain of sets of rows: the database, and the
database after each waiting change set. Every member is an exact image of a state (an accounts trie, and a storage
trie for each hash on record in it), and every trie of the session is exact over the last member. What the overlays of the session's storages have not touched is in the last
member as it is in every member before it (`Settled`, `Agree`); this is why a storage that is opened lazily, while change sets still
wait, finds the same in the database as it would after they are applied. The
merge in `close` takes the rows of each trie from its own buffer, because prefixes keep them apart (`OwnRows`). That every
storage of the map has its hash on record (`AllOnRecord`) is a claim about the result of a loop over the map, `Recorded`; it is
proved by its smallest counterexample, since induction over data is not to be had.
An upgrade needs a second invariant, `RInv`, which is proved together with `IInv`. `deinit_and_upgrade` looks whether the row of
the empty root is there, in the database as it is, which may be behind the one the session works on; were it not
seen, it would not be deleted, and a V1 row would outlive the upgrade. It is seen because an accounts trie
that was written to sees it (`RootKept`), and that is kept while changes are applied because versions only
grow from the database over what waits to the session (`VersionsGrow`): an applied state of the session's version
has a row of the empty root again.
`AllOrNothing` needs a third, `WInv`: an accounts trie of a closed session finds its root only if it is the root of the
database itself.

**`WorldLedgerProofs`**, for the same constants:

- `Refinement`: `WorldState` implements `LedgerState` (`ImplementsLedger`).

`InvariantMaps` shows that under `IInv` the ledgers of the refinement mapping, which read the rows back, are those the contents
say. Then one lemma for each action (`SetAccountFieldRefines`, ..., `CloseRefines`, `UpgradeRefines`, `ApplyRefines`) shows its step of the ledger.

**`NetworkAccountProofs`**, for any operators, owners, powers, capacities and lists of stakes; an address may be equal to a tag or an index:

- `TypeCorrect`: every row belongs to a part and holds what belongs there;
- `AlwaysFound` (`ListedAreFound`): a listed pool is found by its operator;
- `Refinement`: `NetworkAccount` implements `NetworkState` (`ImplementsNetwork`).

The store is cut into *parts*: the epoch, each deposit, the fields and the stakes of each pool, and the map of each set. `PartsApart` is
the lemma on keys: no row belongs to two parts, because of the lengths of keys and the tags at their places. The
inductive invariant `IInv` says that every row is one of a part, and that each part by itself is right; so a call has to be looked at
for the parts it writes only (`Differ`, `StoreChanges`). For the map of a validator set, right means `Traced`: the
address at each place below the length has an index, the index is below the length too, and an equal address is there. Neither is KI one
to one (an operator is pushed twice) nor is it empty above the length (after `clear`), so nothing stronger is
true. One lemma `...Does` for each call says what it does to its parts, and one `...Refines` that this is a step
of `NetworkState`. The loop of `clear` is a recursive function; that the pools below n are blank after n turns is again proved
by the smallest n where they would not be.

What the proofs assume beyond the types of the constants, each a named ASSUME that TLC evaluates in the runs:

- what stands for nothing is none of the things it is told apart from: `NoneIsNoValue`, `NoneIsNoNode`, `NoneIsNoStorage`, `NoneIsNoIndex`,
  `NoneIsNothing`, `NothingIsNoChange`, `NothingIsNoVersion`, `EmptyIsNoStorage`;
- two tries share no row (`TriesShareNoRow`, for `DBSession`), and an address is not a tag (`SymbolsApart`, for the
  world state); the network account needs no such assumption. Within one version the code gives this: under V2 by the tag
  and the fixed length of an address, under V1 by the visibility byte inside the hashed node. *Across* the versions
  it does not, and a session that upgrades has rows of both: a V1 row has no tag, so a V1 row of the
  address `01 ++ Q` below the visibility byte `00` and a V2 row of the address `Q ++ 00` are the same bytes where the two
  storages have equal nodes there. An example is the address 1, 0, ..., 0 and `NETWORK_ADDRESS`, which is all zeroes. Addresses are hashes or public keys, so this
  is improbable, but the code accepts any 32 bytes; the assumption excludes it, and no run or theorem speaks of it;
- the heap's values are ranked by numbers and have their key as a field (`RankIsNat`, `ValuesAreKeyed`), its lists are sequences
  (`ListsAreSequences`), and its capacity is positive (`CapacityIsPositive`);
- a caller sets every field of an account but the storage hash (`FieldsAreCallers`); there are finitely many addresses (`AddressesAreFinite`), and of the fields only a code can be empty (`OnlyCodeIsEmpty`);
- a pool is pushed with sequences of stakes (`ListsOfStakes`), and capacities are positive (`SizesArePositive`).

Model-checked only:

- `WorldStateRecovery`: the refinement of `LedgerState` when the caller stops between the halves of an apply.
- `OperationsReturn`: liveness under fairness is out of the prover's reach.

## 5. Not modelled

- `get_with_proof` of `mpt.rs` and the getters with proofs: they read as `get` does and change
  nothing; what is in a proof, and its verification, is `trie_db`'s.
- Encoding of values, hashing, nibble arithmetic, `codec` of nodes: data without
  control.
- Capacity 0, with which `insert_extract` would unwrap an error: the capacities in `constants.rs` are positive.
- A pool whose heap holds a key twice, or is not in order: such heaps are `IndexHeap`'s (`heap_any`); in `NetworkAccount` only
  `Push` fills the stakes with a list as it is.
- The network account inside a `WorldState` session: its store is a storage trie, whose reads and writes
  `WorldState` models for any keys. A failed read there is an error the trait `NetworkAccountStorage` has no room for.
- A caller that deletes before it inserts and stops in between (`WorldStateRecovery`).
- Applying change sets out of order, or to another state than the one they were made on: the caller's duty.
- Tests, benchmarks, build files.

## 6. The plan

In the order of importance; what is done is marked.

1. Write buffer and its refinement, with proofs — done.
2. Tries and world state: ledger refinement, exactness of the database, with proofs — done.
3. Index map and index heap, queue refinement, with proofs — done.
4. Validator sets, pools, stakes, with the hazards of `clear` and `push`, with proofs — done.
5. Deposits, epoch and the key layout of the network account, with proofs — done.
6. Callers that do less than their duty: second closes, a stop in the middle of applying, keys inserted twice, heaps used as maps — done (TLC;
   what remains true of a heap, and second closes, with proofs).
7. Next: the refinement of `LedgerState` by `WorldStateRecovery`, where the chain of `IInv` gets a half-applied member and the
   rows of lost sessions; what an operation that fails half-way leaves behind when two change sets wait.
