------------------------- MODULE KeyInstrumentedDB -------------------------
(***************************************************************************)
(* The write buffer of src/db.rs: an overlay on a read-only physical       *)
(* database that collects the rows to insert and the rows to delete until  *)
(* it is closed.  Pure operators on one overlay; DBSession and Mpt use     *)
(* them.  A key is a sequence of symbols (bytes in the code), a database   *)
(* is a partial function from keys to values.                              *)
(***************************************************************************)
EXTENDS Naturals, Sequences

CONSTANT None     \* the answer for a key without a value (Option::None)

V1 == 1           \* the type parameter V of the code, a value here
V2 == 2
Version == {V1, V2}

EmptyRows == [k \in {} |-> None]

(* `new': nothing buffered. *)
NewDB(version, prefix) ==
    [inserts |-> EmptyRows, deletes |-> {}, prefix |-> prefix, version |-> version]

(* `build_key': V1 keys are prefix ++ key; V2 keys carry a tag that tells  *)
(* the accounts trie (empty prefix) from the storage tries.                *)
Row(version, prefix, key) ==
    IF version = V1 THEN prefix \o key
    ELSE (IF prefix = <<>> THEN <<0>> ELSE <<1>>) \o prefix \o key

BuildKey(o, key) == Row(o.version, o.prefix, key)

(* Variant: a deletion is forgotten by `get'. *)
GetPastDeletes(o, storage, key) ==
    LET row == BuildKey(o, key)
    IN  IF row \in DOMAIN o.inserts THEN o.inserts[row]
        ELSE IF row \in DOMAIN storage THEN storage[row] ELSE None

(* `get': the buffered insertion, else nothing for a buffered deletion,    *)
(* else whatever the database holds.                                       *)
Get(o, storage, key) ==
    LET row == BuildKey(o, key)
    IN  CASE row \in DOMAIN o.inserts -> o.inserts[row]
          [] row \notin DOMAIN o.inserts /\ row \in o.deletes -> None
          [] OTHER -> IF row \in DOMAIN storage THEN storage[row] ELSE None

(* g where it is defined, f elsewhere: HashMap::extend and ::insert. *)
Extend(f, g) ==
    [k \in DOMAIN f \cup DOMAIN g |-> IF k \in DOMAIN g THEN g[k] ELSE f[k]]

Without(f, S) == [k \in DOMAIN f \ S |-> f[k]]

(* Variants: `put' leaves the row among the deletions. *)
PutAllKeepingDeletes(o, entries) ==
    LET rows == {BuildKey(o, k) : k \in DOMAIN entries}
        new  == [r \in rows |-> entries[CHOOSE k \in DOMAIN entries : BuildKey(o, k) = r]]
    IN  [o EXCEPT !.inserts = Extend(@, new)]

PutKeepingDeletes(o, key, value) ==
    [o EXCEPT !.inserts = Extend(@, [r \in {BuildKey(o, key)} |-> value])]

(* `put' of every entry of a partial function: each key leaves the         *)
(* deletions and enters the insertions.                                    *)
PutAll(o, entries) ==
    LET rows == {BuildKey(o, k) : k \in DOMAIN entries}
        new  == [r \in rows |-> entries[CHOOSE k \in DOMAIN entries : BuildKey(o, k) = r]]
    IN  [o EXCEPT !.deletes = @ \ rows, !.inserts = Extend(@, new)]

Put(o, key, value) ==
    [o EXCEPT !.deletes = @ \ {BuildKey(o, key)},
              !.inserts = Extend(@, [r \in {BuildKey(o, key)} |-> value])]

(* `delete' of every key of a set: each key leaves the insertions and      *)
(* enters the deletions.                                                   *)
DeleteAll(o, keys) ==
    LET rows == {BuildKey(o, k) : k \in keys}
    IN  [o EXCEPT !.inserts = Without(@, rows), !.deletes = @ \cup rows]

Delete(o, key) == DeleteAll(o, {key})

(* `close' leaves the buffer empty; what it returns are the two buffers.   *)
Closed(o) == [o EXCEPT !.inserts = EmptyRows, !.deletes = {}]

(* Variant: the overlay of the new version gets no prefix. *)
UpgradedUnprefixed(o) == [o EXCEPT !.version = V2, !.prefix = <<>>]

(* `upgrade': the same buffers under the V2 key scheme. *)
Upgraded(o) == [o EXCEPT !.version = V2]

(***************************************************************************)
(* What the caller does with the rows it is handed: the tests insert and   *)
(* then remove, the README removes and then inserts.                       *)
(***************************************************************************)
InsertThenDelete(storage, ins, del) == Without(Extend(storage, ins), del)
DeleteThenInsert(storage, ins, del) == Extend(Without(storage, del), ins)
Applied(storage, ins, del) ==
    {InsertThenDelete(storage, ins, del), DeleteThenInsert(storage, ins, del)}

Lookup(storage, row) == IF row \in DOMAIN storage THEN storage[row] ELSE None
=============================================================================
