----------------------------- MODULE DBSession -----------------------------
(***************************************************************************)
(* The overlays of one WorldState session on one database: one overlay per *)
(* trie, told apart by its prefix (the empty prefix is the accounts trie). *)
(* Tries write and delete rows, an upgrade moves all overlays to the V2    *)
(* key scheme, closing merges the buffers of every overlay as              *)
(* WorldState::close does, and the caller applies the merged rows.         *)
(*                                                                         *)
(* The two orders in which the repository's examples apply the rows give   *)
(* the same database only because no row is both inserted and deleted;     *)
(* that, and that a session reads what the database will hold once its     *)
(* rows are applied, is what this module is about.                         *)
(***************************************************************************)
EXTENDS KeyInstrumentedDB

CONSTANTS Keys,       \* trie row keys (node path ++ hash)
          Values,     \* encoded trie nodes
          Prefixes,   \* one prefix per trie
          Nothing     \* no rows handed out

ASSUME NoneIsNoValue == None \notin Values

Rows == {Row(v, p, k) : v \in Version, p \in Prefixes, k \in Keys}
RowsOf(p) == {Row(v, p, k) : v \in Version, k \in Keys}
Accounts == <<>>     \* the prefix of the accounts trie

(* Nothing cannot be mistaken for rows that were handed out.               *)
ASSUME NothingIsNoChange ==
    /\ Nothing \notin [inserts : UNION {[S -> Values] : S \in SUBSET Rows},
                       deletes : SUBSET Rows]
    /\ Nothing \notin [Rows -> Values \cup {None}]

(* Two tries never build the same row, whatever their versions.  The code  *)
(* relies on it.  Under V2 the tag and the fixed length of an address give *)
(* it, under V1 the visibility byte inside the hashed node does.  Across   *)
(* the versions, both of them in use in the session that upgrades, nothing *)
(* in the code gives it: V1 rows have no tag.  It is an assumption on the  *)
(* addresses in use: that there are not two, 1 Q and Q 0, where the V1     *)
(* storage of the first, below its visibility byte 0, is the V2 storage of *)
(* the second.                                                             *)
ASSUME TriesShareNoRow ==
    \A v, w \in Version, p, q \in Prefixes, k, l \in Keys :
        Row(v, p, k) = Row(w, q, l) => p = q

VARIABLES storage,    \* the physical database
          overlays,   \* [Prefixes -> overlay]
          changes     \* what close returned and the caller has not applied

vars == <<storage, overlays, changes>>

(* The merge of WorldState::close: HashMap::extend over all tries.  Tries  *)
(* share no row, so the order of the merge leaves no trace.                *)
Owner(ovs, r) == CHOOSE p \in Prefixes : r \in DOMAIN ovs[p].inserts
MergedInserts(ovs) == [r \in UNION {DOMAIN ovs[p].inserts : p \in Prefixes}
                         |-> ovs[Owner(ovs, r)].inserts[r]]

(* Variant: the deletions of the storage tries are not merged. *)
DeletesOfAccounts(ovs) == ovs[Accounts].deletes

MergedDeletes(ovs) == UNION {ovs[p].deletes : p \in Prefixes}

Init == /\ storage = EmptyRows
        /\ overlays = [p \in Prefixes |-> NewDB(V1, p)]
        /\ changes = Nothing

PutRow(p, k, v) == /\ overlays' = [overlays EXCEPT ![p] = Put(@, k, v)]
                   /\ UNCHANGED <<storage, changes>>

DeleteRow(p, k) == /\ overlays' = [overlays EXCEPT ![p] = Delete(@, k)]
                   /\ UNCHANGED <<storage, changes>>

(* The tries of a session are of one version. *)
Upgrade == /\ \A p \in Prefixes : overlays[p].version = V1
           /\ overlays' = [p \in Prefixes |-> Upgraded(overlays[p])]
           /\ UNCHANGED <<storage, changes>>

(* Variant: the storage tries are closed in place, not their clones.       *)
CloseInPlace ==
    /\ changes = Nothing
    /\ changes' = [inserts |-> MergedInserts(overlays),
                   deletes |-> MergedDeletes(overlays)]
    /\ overlays' = [p \in Prefixes |-> Closed(overlays[p])]
    /\ UNCHANGED storage

(* `close' closes clones of the storage tries: their rows are handed out   *)
(* and stay buffered, and the next close hands them out again.  Only the   *)
(* buffer of the accounts trie empties.  The caller does not close again   *)
(* before it has applied or dropped what the previous close returned.      *)
Close ==
    /\ changes = Nothing
    /\ changes' = [inserts |-> MergedInserts(overlays),
                   deletes |-> MergedDeletes(overlays)]
    /\ overlays' = [p \in Prefixes |->
                       IF p = Accounts THEN Closed(overlays[p]) ELSE overlays[p]]
    /\ UNCHANGED storage

Apply == /\ changes # Nothing
         /\ storage' \in Applied(storage, changes.inserts, changes.deletes)
         /\ changes' = Nothing
         /\ UNCHANGED overlays

(* The session is dropped, or the process stops, and another is opened, in *)
(* the version its caller chooses.                                         *)
Reopen(version) == /\ overlays' = [p \in Prefixes |-> NewDB(version, p)]
                   /\ changes' = Nothing
                   /\ UNCHANGED storage

Next == \/ \E p \in Prefixes, k \in Keys, v \in Values : PutRow(p, k, v)
        \/ \E p \in Prefixes, k \in Keys : DeleteRow(p, k)
        \/ Upgrade
        \/ Close
        \/ Apply
        \/ \E v \in Version : Reopen(v)

Spec == Init /\ [][Next]_vars
-----------------------------------------------------------------------------
PartialOn(R) == UNION {[S -> Values] : S \in SUBSET R}
Overlay(p) == [inserts : PartialOn(RowsOf(p)), deletes : SUBSET RowsOf(p),
               prefix : {p}, version : Version]

(* Type invariant: each overlay (the struct of db.rs) buffers only rows of *)
(* its own trie.                                                           *)
TypeOK == /\ storage \in PartialOn(Rows)
          /\ \A p \in Prefixes : overlays[p] \in Overlay(p)
          /\ DOMAIN overlays = Prefixes
          /\ \/ changes = Nothing
             \/ changes \in [inserts : PartialOn(Rows), deletes : SUBSET Rows]

(* No row is buffered, or handed out by close, as both inserted and        *)
(* deleted, across all tries: put and delete of db.rs keep their two       *)
(* buffers disjoint through any sequence of rewrites and upgrades, and the *)
(* merge of close keeps them so.                                           *)
NoRowBothWays ==
    /\ DOMAIN MergedInserts(overlays) \cap MergedDeletes(overlays) = {}
    /\ changes # Nothing => DOMAIN changes.inserts \cap changes.deletes = {}

(* The database once all is applied: what waits, and then what another     *)
(* close would hand out.                                                   *)
AfterWaiting == IF changes = Nothing THEN {storage}
                ELSE Applied(storage, changes.inserts, changes.deletes)
Committed == UNION {Applied(s, MergedInserts(overlays), MergedDeletes(overlays)) :
                       s \in AfterWaiting}

Touched(o) == DOMAIN o.inserts \cup o.deletes
Waiting == IF changes = Nothing THEN {}
           ELSE DOMAIN changes.inserts \cup changes.deletes

(* Rows of the accounts trie that close has handed out and emptied from    *)
(* the buffer, that are not applied yet, and not written again since.      *)
Hidden(p) == IF p = Accounts THEN Waiting \ Touched(overlays[p]) ELSE {}

(* What a trie reads through its overlay (KeyInstrumentedDB::get) is what  *)
(* the database holds once the rows that wait, and then those buffered,    *)
(* are applied, each in either order.  Only the hidden rows of the         *)
(* accounts trie are read as they were: a session that goes on after close *)
(* reads its storages as it has set them, and accounts as the database     *)
(* still has them, until the caller applies what it was handed.            *)
ReadsBecomeDurable ==
    \A s \in Committed : \A p \in Prefixes, k \in Keys :
        LET r == BuildKey(overlays[p], k)
        IN  Get(overlays[p], storage, k) = Lookup(IF r \in Hidden(p) THEN storage ELSE s, r)

-----------------------------------------------------------------------------
(* The refinement: the rows of the database, those it would have with the  *)
(* changes that wait, and on top of them what each trie has buffered.      *)
Stored(r) == Lookup(storage, r)

Handed(r) == IF changes = Nothing THEN Stored(r)
             ELSE IF r \in DOMAIN changes.inserts THEN changes.inserts[r]
             ELSE IF r \in changes.deletes THEN None ELSE Stored(r)

Written(ovs, r, x) ==
    IF \E p \in Prefixes : r \in Touched(ovs[p])
    THEN LET o == ovs[CHOOSE p \in Prefixes : r \in Touched(ovs[p])]
         IN  IF r \in DOMAIN o.inserts THEN o.inserts[r] ELSE None
    ELSE x

Store == INSTANCE TransactionalStore WITH
            durable <- [r \in Rows |-> Stored(r)],
            working <- [r \in Rows |-> Written(overlays, r, Handed(r))],
            handed  <- IF changes = Nothing THEN Nothing ELSE [r \in Rows |-> Handed(r)]

(* The overlays implement a transactional store: what close hands out      *)
(* brings the database to where the session stands, to the last row, also  *)
(* where rows are handed out again that were applied before; applying it   *)
(* is one step whatever order the caller uses; an upgrade of the overlays  *)
(* writes no row; and a dropped session leaves no trace.                   *)
ImplementsStore == Store!Spec
=============================================================================
