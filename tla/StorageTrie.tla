---------------------------- MODULE StorageTrie ----------------------------
(***************************************************************************)
(* The trie of src/storage_trie.rs: the storage of one contract account,   *)
(* its overlay prefixed with the account's address.                        *)
(***************************************************************************)
EXTENDS AccountsTrie

(* `storage_key', and `drop_visibility_type' that takes it apart. *)
StorageKey(version, key) == IF version = V1 THEN <<Public, key>> ELSE <<key>>
DropVisibility(trieKey) == trieKey[2]

StorageNew(version, address) == MptNew(version, <<address>>)

(* Variant: the trie is opened without the prefix of the address. *)
StorageOpenUnprefixed(version, address, root) == MptOpen(version, <<>>, root)

StorageOpen(version, address, root) == MptOpen(version, <<address>>, root)

(* `batch_set' of storage keys; `set' is the case of one key. *)
TrieData(version, data) ==
    [t \in {StorageKey(version, k) : k \in DOMAIN data} |->
        data[CHOOSE k \in DOMAIN data : StorageKey(version, k) = t]]

StorageBatchSet(t, data) == MptBatchSet(t, TrieData(t.db.version, data))

StorageRemove(t, key) == MptRemove(t, StorageKey(t.db.version, key))

(* `remove_trie': every key is iterated and removed; the trie stays. *)
RemoveTrie(t) == MptBatchRemove(t, DOMAIN t.root)

(* Variant: the keys keep their visibility byte. *)
UpgradedDataSameKeys(D) == D

(* `upgrade': an empty trie moves to V2 as it is; any other is emptied,    *)
(* moved, and filled again under the V2 keys.                              *)
UpgradedData(D) ==
    [n \in {StorageKey(V2, DropVisibility(k)) : k \in DOMAIN D} |->
        D[CHOOSE k \in DOMAIN D : StorageKey(V2, DropVisibility(k)) = n]]

StorageUpgrade(t, storage) ==
    IF t.root = NoContent THEN DeinitAndUpgrade(t, storage)
    ELSE MptBatchSet(DeinitAndUpgrade(RemoveTrie(t), storage), UpgradedData(t.root))

CanUpgradeStorage(t, storage) == t.root = NoContent \/ CanIterate(t, storage)
=============================================================================
