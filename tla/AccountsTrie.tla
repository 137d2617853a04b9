---------------------------- MODULE AccountsTrie ----------------------------
(***************************************************************************)
(* The trie of src/accounts_trie.rs: one key per account field, its        *)
(* overlay without a prefix.                                               *)
(***************************************************************************)
EXTENDS Mpt

(* KeyVisibility of mpt.rs. *)
Public    == 0
Protected == 1

(* AccountField. *)
Nonce        == 0
Balance      == 1
ContractCode == 2
CbiVersion   == 3
StorageHash  == 4
AccountField == {Nonce, Balance, ContractCode, CbiVersion, StorageHash}

(* A nonce or a balance of zero: eight bytes, as any other. *)
Zero == 0

(* `account_key', and `account_address' and `account_field' that take it   *)
(* apart.  An address is one symbol here.                                  *)
AccountKey(version, address, field) ==
    IF version = V1 THEN <<address, Protected, field>> ELSE <<address, field>>
AccountAddress(key) == key[1]

(* Variant: the visibility of a V1 key is taken for the field. *)
FieldOfV2(version, key) == key[2]

FieldOf(version, key) == IF version = V1 THEN key[3] ELSE key[2]

AccountsNew(version) == MptNew(version, <<>>)
AccountsOpen(version, root) == MptOpen(version, <<>>, root)

(* The getters: None for a field that was never set (nonce and balance     *)
(* then read 0).                                                           *)
GetField(t, address, field) == MptGet(t, AccountKey(t.db.version, address, field))

CanReadField(t, storage, address, field) ==
    CanRead(t, storage, AccountKey(t.db.version, address, field))

(* `all': an Account of defaults for every address, overwritten by the     *)
(* fields of the trie.                                                     *)
DefaultAccount == [f \in AccountField |->
    IF f \in {Nonce, Balance} THEN Zero ELSE IF f = ContractCode THEN Empty ELSE None]

AllAccounts(version, D) ==
    LET rows(a, f) == {k \in DOMAIN D : AccountAddress(k) = a /\ FieldOf(version, k) = f}
    IN  [a \in {AccountAddress(k) : k \in DOMAIN D} |->
            [f \in AccountField |-> IF rows(a, f) = {} THEN DefaultAccount[f]
                                    ELSE D[CHOOSE k \in rows(a, f) : TRUE]]]

(* The setters, `set_storage_hash' among them. *)
SetField(t, address, field, value) ==
    MptSet(t, AccountKey(t.db.version, address, field), value)

CanSetField(t, storage, address, field, value) ==
    LET key == AccountKey(t.db.version, address, field)
    IN  CanChange(t, storage, {key}, WithAll(t.root, [k \in {key} |-> value]))

(* `upgrade': read every field, remove them all, move to V2 and write back *)
(* the fields that say something.  A zero nonce or balance is not written  *)
(* back, and neither is a storage hash: the V2 trie gets it when the       *)
(* WorldState is closed.                                                   *)
IsKept(field, value) ==
    /\ field # StorageHash
    /\ field \in {Nonce, Balance} => value # Zero
    /\ field = ContractCode => value # Empty

UpgradedFields(D) ==
    LET kept == {k \in DOMAIN D : IsKept(FieldOf(V1, k), D[k])}
        new(k) == AccountKey(V2, AccountAddress(k), FieldOf(V1, k))
    IN  [n \in {new(k) : k \in kept} |-> D[CHOOSE k \in kept : new(k) = n]]

(* The storages to upgrade, by address: `storage_info_map'. *)
StorageInfo(D) ==
    LET hashes == {k \in DOMAIN D : FieldOf(V1, k) = StorageHash}
    IN  [a \in {AccountAddress(k) : k \in hashes} |-> D[AccountKey(V1, a, StorageHash)]]

AccountsUpgrade(t, storage) ==
    LET emptied == MptBatchRemove(t, DOMAIN t.root)
    IN  MptBatchSet(DeinitAndUpgrade(emptied, storage), UpgradedFields(t.root))
=============================================================================
