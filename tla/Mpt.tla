-------------------------------- MODULE Mpt --------------------------------
(***************************************************************************)
(* The Merkle Patricia trie of src/mpt.rs on an overlay of db.rs.          *)
(*                                                                         *)
(* The content of a trie is a partial function from keys (sequences of     *)
(* symbols) to values.  A node is identified by the content below its      *)
(* position, which stands for its hash: two nodes have one hash exactly    *)
(* when they hold the same suffixes and values.  The row of a node is its  *)
(* position followed by its hash, and the row's value is the node, so the  *)
(* value repeats the last element of the key.                              *)
(*                                                                         *)
(* What trie_db does between a read or a write of Mpt and the calls of the *)
(* HashDB methods of mpt.rs is external; it is modelled by the rows those  *)
(* methods are called with.  Every node has a row of its own here (trie_db *)
(* inlines nodes shorter than a hash into their parent's row).             *)
(***************************************************************************)
EXTENDS KeyInstrumentedDB, SequencesExt

CONSTANT Empty                \* the value of no bytes

NoContent == EmptyRows        \* the content of an empty trie

-----------------------------------------------------------------------------
(* The nodes of a content. *)

Below(D, p) == {k \in DOMAIN D : IsPrefix(p, k)}

(* A node sits at the root and wherever the keys divide. *)
Positions(D) ==
    {<<>>} \cup {p \in (UNION {Prefixes(k) : k \in DOMAIN D}) \ {<<>>} :
                    Below(D, p) # Below(D, Front(p))}

(* A node: the suffixes below a position, with their values. *)
Node(D, p) ==
    [s \in {SubSeq(k, Len(p) + 1, Len(k)) : k \in Below(D, p)} |-> D[p \o s]]

(* `prefixed_trie_node_key': the position, then the hash. *)
NodeRow(D, p) == Append(p, Node(D, p))
NodeRows(D) == {NodeRow(D, p) : p \in Positions(D)}

(* The row that `new' puts by hand; its hash is that of the empty trie.    *)
EmptyRootRow == <<NoContent>>
TrieNodes(D) == NodeRows(D) \ {EmptyRootRow}

Entries(rows) == [r \in rows |-> Last(r)]

(* The rows of a trie in the database: its nodes, and the row of the empty *)
(* root, which is put when the trie is created and stays.                  *)
TrieRows(version, prefix, D) ==
    {Row(version, prefix, r) : r \in NodeRows(D) \cup {EmptyRootRow}}

-----------------------------------------------------------------------------
(* A trie is a root hash and an overlay; storage is what lies under it. *)

Holds(t, storage, rows) == \A r \in rows : Get(t.db, storage, r) # None

(* The nodes trie_db visits on the way to a key. *)
PathRows(D, key) == {NodeRow(D, p) : p \in {q \in Positions(D) : IsPrefix(q, key)}}

(* Reading or writing returns Err when a node on the way is missing.       *)
CanRead(t, storage, key) == Holds(t, storage, PathRows(t.root, key))
CanIterate(t, storage) == Holds(t, storage, NodeRows(t.root))
CanChange(t, storage, keys, new) ==
    Holds(t, storage, UNION {PathRows(t.root, k) : k \in keys}
                        \cup (NodeRows(t.root) \ NodeRows(new)))

(* `get' and `contains', where CanRead. *)
MptGet(t, key) == Lookup(t.root, key)

(* `new': the overlay gets the row of the empty root. *)
MptNew(version, prefix) ==
    [root |-> NoContent,
     db   |-> Put(NewDB(version, prefix), EmptyRootRow, NoContent)]

(* `open': nothing is read until it is needed. *)
MptOpen(version, prefix, root) ==
    [root |-> root, db |-> NewDB(version, prefix)]

(* Variants: dead nodes stay; nodes that are still in use are deleted too. *)
CommitKeepingDead(t, new) ==
    [root |-> new,
     db   |-> PutAll(t.db, Entries(TrieNodes(new) \ TrieNodes(t.root)))]

CommitDeletingShared(t, new) ==
    LET dead  == TrieNodes(t.root)
        fresh == TrieNodes(new) \ TrieNodes(t.root)
    IN  [root |-> new,
         db   |-> PutAll(DeleteAll(t.db, dead), Entries(fresh))]

(* TrieDBMut::commit through the HashDB methods of mpt.rs: the rows that   *)
(* are no longer nodes are deleted, then the new nodes are put.  The row   *)
(* of the empty root stays as it is: `remove' refuses to delete it, and    *)
(* trie_db does not put it for a trie that has become empty.               *)
Commit(t, new) ==
    LET dead  == TrieNodes(t.root) \ TrieNodes(new)
        fresh == TrieNodes(new) \ TrieNodes(t.root)
    IN  [root |-> new,
         db   |-> PutAll(DeleteAll(t.db, dead), Entries(fresh))]

(* Variant: a value of no bytes is kept like any other. *)
WithAllKept(D, data) == Extend(D, data)

(* The content after `batch_set' and after `batch_remove': trie_db takes   *)
(* the insertion of a value of no bytes for a removal of its key.          *)
WithAll(D, data) ==
    Without(Extend(D, data), {k \in DOMAIN data : data[k] = Empty})
WithoutAll(D, keys) == Without(D, keys)

(* `batch_set' of every pair of data, `set' of one. *)
MptBatchSet(t, data) == Commit(t, WithAll(t.root, data))
MptSet(t, key, value) == MptBatchSet(t, [k \in {key} |-> value])

(* `batch_remove' of every key, `remove' of one: a key that is not there   *)
(* changes nothing.                                                        *)
MptBatchRemove(t, keys) == Commit(t, WithoutAll(t.root, keys))
MptRemove(t, key) ==
    IF key \in DOMAIN t.root THEN MptBatchRemove(t, {key}) ELSE t

(* `close': the overlay empties, the root stays. *)
MptClosed(t) == [t EXCEPT !.db = Closed(@)]

(* Variant: the V2 trie does not get its empty root. *)
DeinitWithoutNewRoot(t, storage) ==
    LET deinit == IF Holds(t, storage, {EmptyRootRow})
                  THEN Delete(t.db, EmptyRootRow) ELSE t.db
    IN  [root |-> NoContent, db |-> Upgraded(deinit)]

(* `deinit_and_upgrade' of a V1 trie whose root is the empty root: the     *)
(* row of the V1 empty root is deleted for good if it is there, and the V2 *)
(* one is put.                                                             *)
DeinitAndUpgrade(t, storage) ==
    LET deinit == IF Holds(t, storage, {EmptyRootRow})
                  THEN Delete(t.db, EmptyRootRow) ELSE t.db
    IN  [root |-> NoContent,
         db   |-> Put(Upgraded(deinit), EmptyRootRow, NoContent)]
=============================================================================
