----------------------------- MODULE WorldState -----------------------------
(***************************************************************************)
(* The world state of src/world_state.rs over a physical database: one     *)
(* session at a time that opens the accounts trie at a state hash, opens   *)
(* or creates storage tries on demand, writes through their overlays, and  *)
(* is closed; the caller applies what close returned, or loses it.         *)
(*                                                                         *)
(* An operation that finds a node missing returns Err and changes nothing; *)
(* its action has the nodes it needs as a guard.                           *)
(***************************************************************************)
EXTENDS StorageTrie

CONSTANTS
    Address,        \* account addresses, one symbol each
    Field,          \* the account fields a caller sets
    FieldValue,     \* their values, by field
    StorageKeys,    \* keys of a contract's storage
    StorageValue,
    MaxWaiting,     \* change sets that wait at a time
    Nothing,        \* the version of a state or a session that is not there
    Corrupt         \* what reads through missing nodes return

ASSUME FieldsAreCallers == Field \subseteq AccountField \ {StorageHash}
ASSUME OnlyCodeIsEmpty == \A f \in Field : Empty \in FieldValue[f] => f = ContractCode
(* No address is a tag of the V2 rows or a visibility byte.  The code does *)
(* not ask for it: that it keeps the rows of two tries apart is assumed.   *)
ASSUME SymbolsApart == Address \cap {0, 1} = {}
ASSUME AddressesAreFinite == IsFiniteSet(Address)

(* What tries hold: the storages with their keys under a version, the      *)
(* values, and the nodes.                                                  *)
StorageContents(version) ==
    UNION {[S -> StorageValue \ {Empty}] :
              S \in SUBSET {StorageKey(version, k) : k \in StorageKeys}}

Values(version) ==
    (UNION {FieldValue[f] : f \in Field}) \cup StorageValue \cup StorageContents(version)

AccountKeys(version) ==
    {AccountKey(version, a, f) : a \in Address, f \in Field \cup {StorageHash}}

TrieKeys(version) ==
    AccountKeys(version) \cup {StorageKey(version, k) : k \in StorageKeys}

NodeKeys(version) == UNION {Suffixes(k) : k \in TrieKeys(version)}

ASSUME NothingIsNoVersion == Nothing \notin Version
ASSUME NoneIsNoValue == \A v \in Version : None \notin Values(v)
ASSUME NoneIsNoNode ==
    \A v \in Version : \A S \in SUBSET NodeKeys(v) : None \notin [S -> Values(v)]
ASSUME EmptyIsNoStorage == \A v \in Version : Empty \notin StorageContents(v)
ASSUME NoneIsNoStorage == \A K \in SUBSET StorageKeys : None \notin [K -> StorageValue]

VARIABLES
    storage,    \* the database: rows and what they hold
    head,       \* version and state hash of the last changes applied
    ws,         \* the session: version, accounts trie, storage_trie_map
    changes     \* the WorldStateChanges not applied yet, and their versions

vars == <<storage, head, ws, changes>>

NoTries == [a \in {} |-> None]
NoState == [version |-> Nothing, root |-> Nothing]
NoSession == [version |-> Nothing, accounts |-> Nothing, map |-> NoTries]
Alive == ws # NoSession
With(map, a, trie) == Extend(map, [x \in {a} |-> trie])

Init == /\ storage = EmptyRows
        /\ head = NoState
        /\ ws = NoSession
        /\ changes = <<>>

(* `WorldState::new': only at the genesis, before anything was applied. *)
Genesis(version) ==
    /\ head = NoState /\ ws = NoSession /\ changes = <<>>
    /\ ws' = [version |-> version, accounts |-> AccountsNew(version), map |-> NoTries]
    /\ UNCHANGED <<storage, head, changes>>

(* `WorldState::open' at the last state hash; the caller does not open a   *)
(* session on a database it is about to change.                            *)
Open ==
    /\ head # NoState /\ ws = NoSession /\ changes = <<>>
    /\ ws' = [version |-> head.version,
              accounts |-> AccountsOpen(head.version, head.root),
              map |-> NoTries]
    /\ UNCHANGED <<storage, head, changes>>

(* `account_trie_mut' and a setter. *)
SetAccountField(a, f, x) ==
    /\ Alive
    /\ CanSetField(ws.accounts, storage, a, f, x)
    /\ ws' = [ws EXCEPT !.accounts = SetField(@, a, f, x)]
    /\ UNCHANGED <<storage, head, changes>>

(* `storage_trie_mut' and `storage_trie' of an address that is not in the  *)
(* map, with a hash on record: open the storage there.                     *)
OpenStorage(a) ==
    /\ Alive /\ a \notin DOMAIN ws.map
    /\ CanReadField(ws.accounts, storage, a, StorageHash)
    /\ LET hash == GetField(ws.accounts, a, StorageHash)
       IN  /\ hash # None
           /\ ws' = [ws EXCEPT !.map = With(@, a, StorageOpen(ws.version, a, hash))]
    /\ UNCHANGED <<storage, head, changes>>

(* Variant: the new storage is not put on record. *)
CreateStorageOffRecord(a) ==
    /\ Alive /\ a \notin DOMAIN ws.map
    /\ CanReadField(ws.accounts, storage, a, StorageHash)
    /\ GetField(ws.accounts, a, StorageHash) = None
    /\ ws' = [ws EXCEPT !.map = With(@, a, StorageNew(ws.version, a))]
    /\ UNCHANGED <<storage, head, changes>>

(* The same without a hash on record: create the storage and record the    *)
(* hash of the empty trie.                                                 *)
CreateStorage(a) ==
    /\ Alive /\ a \notin DOMAIN ws.map
    /\ CanReadField(ws.accounts, storage, a, StorageHash)
    /\ GetField(ws.accounts, a, StorageHash) = None
    /\ LET new == StorageNew(ws.version, a)
       IN  /\ CanSetField(ws.accounts, storage, a, StorageHash, new.root)
           /\ ws' = [ws EXCEPT !.accounts = SetField(@, a, StorageHash, new.root),
                               !.map = With(@, a, new)]
    /\ UNCHANGED <<storage, head, changes>>

(* An operation on a storage trie of the map. *)
ChangeStorage(a, keys, trie) ==
    /\ CanChange(ws.map[a], storage, keys, trie.root)
    /\ ws' = [ws EXCEPT !.map[a] = trie]
    /\ UNCHANGED <<storage, head, changes>>

(* `StorageTrie::batch_set', with `set' as the case of one key. *)
WriteStorage(a, data) ==
    /\ Alive /\ a \in DOMAIN ws.map
    /\ LET trie == StorageBatchSet(ws.map[a], data)
       IN  ChangeStorage(a, DOMAIN TrieData(ws.version, data), trie)

(* `StorageTrie::remove'. *)
RemoveStorageKey(a, k) ==
    /\ Alive /\ a \in DOMAIN ws.map
    /\ LET trie == StorageRemove(ws.map[a], k)
       IN  ChangeStorage(a, {StorageKey(ws.version, k)}, trie)

(* `StorageTrie::remove_trie'. *)
RemoveStorageTrie(a) ==
    /\ Alive /\ a \in DOMAIN ws.map
    /\ CanIterate(ws.map[a], storage)
    /\ ChangeStorage(a, DOMAIN ws.map[a].root, RemoveTrie(ws.map[a]))

(* Variants: the roots are not recorded; the deletions are not merged. *)
NothingRecorded(order) == ws.accounts

MergedInsertsOnly(dbs) ==
    LET owner(r) == CHOOSE o \in dbs : r \in DOMAIN o.inserts
    IN  [inserts |-> [r \in UNION {DOMAIN o.inserts : o \in dbs} |-> owner(r).inserts[r]],
         deletes |-> {}]

(* `close': record the root of every storage of the map, in any order (a   *)
(* HashMap is iterated), and hand out the buffers of all tries merged.  The *)
(* storages closed are clones: the buffers of those in the map stay, those *)
(* of the accounts trie empty.  What an earlier close returned may still   *)
(* be waiting.                                                             *)
Recorded(order) ==
    LET recorded[n \in 0 .. Len(order)] ==
            IF n = 0 THEN ws.accounts
            ELSE SetField(recorded[n - 1], order[n], StorageHash, ws.map[order[n]].root)
    IN  recorded[Len(order)]

Merged(dbs) ==
    LET owner(r) == CHOOSE o \in dbs : r \in DOMAIN o.inserts
    IN  [inserts |-> [r \in UNION {DOMAIN o.inserts : o \in dbs} |-> owner(r).inserts[r]],
         deletes |-> UNION {o.deletes : o \in dbs}]

Close ==
    /\ Alive /\ Len(changes) < MaxWaiting
    /\ \A a \in DOMAIN ws.map :
           CanSetField(ws.accounts, storage, a, StorageHash, ws.map[a].root)
    /\ \E order \in SetToSeqs(DOMAIN ws.map) :
           LET accounts == Recorded(order)
               rows == Merged({accounts.db} \cup {ws.map[a].db : a \in DOMAIN ws.map})
           IN  /\ changes' = Append(changes,
                      [inserts |-> rows.inserts, deletes |-> rows.deletes,
                       version |-> ws.version, root |-> accounts.root])
               /\ ws' = [ws EXCEPT !.accounts = MptClosed(accounts)]
    /\ UNCHANGED <<storage, head>>

(* Variant: the storages are opened anew, whatever the map holds. *)
UpgradeOfRecords ==
    /\ Alive /\ ws.version = V1
    /\ CanIterate(ws.accounts, storage)
    /\ LET info == StorageInfo(ws.accounts.root)
           trie(a) == StorageOpen(V1, a, info[a])
       IN  /\ \A a \in DOMAIN info : CanUpgradeStorage(trie(a), storage)
           /\ ws' = [version  |-> V2,
                     accounts |-> AccountsUpgrade(ws.accounts, storage),
                     map      |-> [a \in DOMAIN info |-> StorageUpgrade(trie(a), storage)]]
    /\ UNCHANGED <<storage, head, changes>>

(* `upgrade': the accounts trie, then every storage on record, from the    *)
(* map where the session has it there.  If a node is missing the session   *)
(* is consumed and nothing is left of it, as by Drop.                      *)
Upgrade ==
    /\ Alive /\ ws.version = V1
    /\ CanIterate(ws.accounts, storage)
    /\ LET info == StorageInfo(ws.accounts.root)
           trie(a) == IF a \in DOMAIN ws.map THEN ws.map[a]
                      ELSE StorageOpen(V1, a, info[a])
       IN  /\ \A a \in DOMAIN info : CanUpgradeStorage(trie(a), storage)
           /\ ws' = [version  |-> V2,
                     accounts |-> AccountsUpgrade(ws.accounts, storage),
                     map      |-> [a \in DOMAIN info |-> StorageUpgrade(trie(a), storage)]]
    /\ UNCHANGED <<storage, head, changes>>

(* The caller applies the first changes that wait, in one of two orders.   *)
(* The session may still be there: the DB type is often a handle on the    *)
(* database.  (A caller that owns the database must end the session first, *)
(* which Drop allows here.)                                                *)
Apply ==
    /\ changes # <<>>
    /\ storage' \in Applied(storage, Head(changes).inserts, Head(changes).deletes)
    /\ head' = [version |-> Head(changes).version, root |-> Head(changes).root]
    /\ changes' = Tail(changes)
    /\ UNCHANGED ws

(* The session ends; changes it handed out are still to be applied. *)
Drop == /\ Alive
        /\ ws' = NoSession
        /\ UNCHANGED <<storage, head, changes>>

(* The process stops before the changes are in the database. *)
Crash == /\ ws' = NoSession
         /\ changes' = <<>>
         /\ UNCHANGED <<storage, head>>

PartialData == UNION {[K -> StorageValue] : K \in (SUBSET StorageKeys) \ {{}}}

Next == \/ \E v \in Version : Genesis(v)
        \/ Open
        \/ \E a \in Address, f \in Field :
               \E x \in FieldValue[f] : SetAccountField(a, f, x)
        \/ \E a \in Address : OpenStorage(a)
        \/ \E a \in Address : CreateStorage(a)
        \/ \E a \in Address, data \in PartialData : WriteStorage(a, data)
        \/ \E a \in Address, k \in StorageKeys : RemoveStorageKey(a, k)
        \/ \E a \in Address : RemoveStorageTrie(a)
        \/ Close
        \/ Upgrade
        \/ Apply
        \/ Drop
        \/ Crash

Spec == Init /\ [][Next]_vars
-----------------------------------------------------------------------------
(* Every trie of the session. *)
Tries == {ws.accounts} \cup {ws.map[a] : a \in DOMAIN ws.map}

(* Type invariant: each trie is on the prefix of its own address and holds *)
(* keys in the layout of the session's version.                            *)
TypeOK ==
    /\ head # NoState => head.version \in Version
    /\ \A j \in 1 .. Len(changes) : changes[j].version \in Version
    /\ Alive => /\ ws.version \in Version
                /\ ws.accounts.db.prefix = <<>>
                /\ DOMAIN ws.accounts.root \subseteq AccountKeys(ws.version)
                /\ DOMAIN ws.map \subseteq Address
                /\ \A a \in DOMAIN ws.map :
                       /\ ws.map[a].db.prefix = <<a>>
                       /\ ws.map[a].root \in StorageContents(ws.version)

(* The rows of the last state: of the accounts trie and of the storages it *)
(* has on record.                                                          *)
HeadRows ==
    LET hash(a) == GetField(AccountsOpen(head.version, head.root), a, StorageHash)
        stored == {a \in Address : hash(a) # None}
    IN  TrieRows(head.version, <<>>, head.root)
            \cup UNION {TrieRows(head.version, <<a>>, hash(a)) : a \in stored}

(* The database holds the nodes of the last state hash and of the storages *)
(* it records, a row of the empty root for each of these tries, and        *)
(* nothing else: over any number of sessions, creations, removals, an      *)
(* upgrade and crashes, no node is left dangling, none is left behind, no  *)
(* empty root is missing when a trie is emptied, and no V1 row outlives    *)
(* the upgrade.                                                            *)
DatabaseExact ==
    IF head = NoState THEN storage = EmptyRows
    ELSE storage = [r \in HeadRows |-> Last(r)]

(* A session whose changes are all its own (none handed out and waiting)   *)
(* finds every node of every trie: no operation returns an MptError.       *)
SessionReadable ==
    Alive /\ changes = <<>> => \A t \in Tries : CanIterate(t, storage)

(* Whenever a node of a trie is missing (the accounts trie after close and *)
(* before its changes are applied), its root is.  An operation then fails  *)
(* before it changes anything: the half-done batch_set of mpt.rs, which    *)
(* leaves its rows in the overlay and the old root hash, is not reached.   *)
(* This is so while at most one change set waits.  With two, the first may *)
(* go back to the empty trie whose root an earlier state left behind, the  *)
(* second to a state of the database, and a root written above it is read  *)
(* with nodes that are gone by then.                                       *)
NeverHalfReadable ==
    Alive => \A t \in Tries :
        \/ CanIterate(t, storage)
        \/ ~Holds(t, storage, {NodeRow(t.root, <<>>)})

(* No row is both inserted and deleted in what close returns, although     *)
(* close merges the buffers of tries that do not know of each other: the   *)
(* order in which the caller applies the two makes no difference.          *)
ChangesOneWay ==
    \A j \in 1 .. Len(changes) : DOMAIN changes[j].inserts \cap changes[j].deletes = {}

(* A V1 session has a hash on record for every storage of its map.         *)
(* `upgrade' takes its list of storages from the records, so a storage     *)
(* without one would be lost.                                              *)
StoragesOnRecord ==
    Alive /\ ws.version = V1 =>
        DOMAIN ws.map \subseteq DOMAIN StorageInfo(ws.accounts.root)

(* `all' lists exactly the accounts some getter knows of, and answers what *)
(* the getters answer, in either version of the keys.                      *)
AllMatchesGetters ==
    Alive =>
        LET all == AllAccounts(ws.version, ws.accounts.root)
            got(a, f) == GetField(ws.accounts, a, f)
        IN  /\ DOMAIN all = {a \in Address : \E f \in AccountField : got(a, f) # None}
            /\ \A a \in DOMAIN all, f \in AccountField :
                   all[a][f] = IF got(a, f) = None THEN DefaultAccount[f] ELSE got(a, f)

-----------------------------------------------------------------------------
(* The refinement of LedgerState: what a reader of the database, of the    *)
(* database with the changes applied, and of the session sees.             *)
Ledger(version, accounts, contentOf(_)) ==
    [version |-> version,
     accounts |-> [a \in Address |->
        [fields |-> [f \in Field |-> Lookup(accounts, AccountKey(version, a, f))],
         storage |-> contentOf(a)]]]

StorageContent(version, D) ==
    [k \in {x \in StorageKeys : StorageKey(version, x) \in DOMAIN D}
        |-> D[StorageKey(version, k)]]

(* What a new session on database db at the given state hash reads. *)
ReadLedger(db, version, root) ==
    LET accounts == AccountsOpen(version, root)
        hash(a) == GetField(accounts, a, StorageHash)
        whole == /\ CanIterate(accounts, db)
                 /\ \A a \in Address :
                       hash(a) # None => CanIterate(StorageOpen(version, a, hash(a)), db)
        content(a) == IF hash(a) = None THEN None ELSE StorageContent(version, hash(a))
    IN  IF whole THEN Ledger(version, root, content) ELSE Corrupt

NoLedger == [version |-> Nothing, accounts |-> Nothing]

DurableLedger ==
    IF head = NoState THEN NoLedger ELSE ReadLedger(storage, head.version, head.root)

(* The database once the first j of the changes are applied, by j. *)
StoragesAfter ==
    LET after[j \in 0 .. Len(changes)] ==
            IF j = 0 THEN storage
            ELSE InsertThenDelete(after[j - 1], changes[j].inserts, changes[j].deletes)
    IN  after

HandedLedgers ==
    [j \in 1 .. Len(changes) |->
        ReadLedger(StoragesAfter[j], changes[j].version, changes[j].root)]

WorkingLedger ==
    IF ~Alive THEN NoLedger
    ELSE LET hash(a) == GetField(ws.accounts, a, StorageHash)
             content(a) == IF a \in DOMAIN ws.map
                           THEN StorageContent(ws.version, ws.map[a].root)
                           ELSE IF hash(a) = None THEN None
                           ELSE StorageContent(ws.version, hash(a))
         IN  Ledger(ws.version, ws.accounts.root, content)

Promise == INSTANCE LedgerState WITH
               durable <- DurableLedger, working <- WorkingLedger,
               handed <- HandedLedgers

(* The world state keeps its promise: what a later session reads from the  *)
(* database is exactly what the session that was closed had set, in        *)
(* accounts and in storages, through lazily opened tries, storage hashes   *)
(* recorded only at close, an upgrade of both, crashes, and sessions that  *)
(* go on after they were closed and are closed again, before the first of  *)
(* their changes are applied or after.                                     *)
ImplementsLedger == Promise!Spec
=============================================================================
