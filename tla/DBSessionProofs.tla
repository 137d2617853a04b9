-------------------------- MODULE DBSessionProofs --------------------------
(***************************************************************************)
(* Proofs about DBSession, for every set of keys, values and tries that    *)
(* meets the assumptions of that module.                                   *)
(***************************************************************************)
EXTENDS DBSession, TLAPS

(* The overlays of a session are well formed, and no overlay holds a row   *)
(* in both of its buffers.                                                 *)
OverlaysOK(ovs) ==
    /\ DOMAIN ovs = Prefixes
    /\ \A p \in Prefixes : /\ ovs[p] \in Overlay(p)
                           /\ DOMAIN ovs[p].inserts \cap ovs[p].deletes = {}

ChangesOK ==
    \/ changes = Nothing
    \/ /\ changes \in [inserts : PartialOn(Rows), deletes : SUBSET Rows]
       /\ DOMAIN changes.inserts \cap changes.deletes = {}

(* What a storage trie has handed out it still buffers: its clone was      *)
(* closed.                                                                 *)
StoragesKeep ==
    \A p \in Prefixes \ {Accounts} : Waiting \cap RowsOf(p) \subseteq Touched(overlays[p])

(* The inductive invariant.  That the merged buffers are disjoint is not   *)
(* inductive by itself: it follows from each overlay being disjoint and    *)
(* from each holding rows of its own trie only.                            *)
IInv == /\ storage \in PartialOn(Rows)
        /\ OverlaysOK(overlays)
        /\ ChangesOK
        /\ StoragesKeep
-----------------------------------------------------------------------------
(* Partial functions: how the HashMap operations of db.rs keep them. *)
LEMMA PartialElim ==
    ASSUME NEW R, NEW f \in PartialOn(R)
    PROVE  /\ DOMAIN f \in SUBSET R
           /\ f \in [DOMAIN f -> Values]
           /\ f = [r \in DOMAIN f |-> f[r]]
BY DEF PartialOn

(* A function on a subset of R with values in Values is partial on R. *)
LEMMA PartialIntro ==
    ASSUME NEW R, NEW S \in SUBSET R, NEW f \in [S -> Values]
    PROVE  f \in PartialOn(R)
BY DEF PartialOn

(* HashMap::insert and ::extend (Extend) stay partial functions. *)
LEMMA ExtendPartial ==
    ASSUME NEW R, NEW f \in PartialOn(R), NEW g \in PartialOn(R)
    PROVE  /\ Extend(f, g) \in PartialOn(R)
           /\ DOMAIN Extend(f, g) = DOMAIN f \cup DOMAIN g
           /\ \A r \in DOMAIN g : Extend(f, g)[r] = g[r]
           /\ \A r \in DOMAIN f \ DOMAIN g : Extend(f, g)[r] = f[r]
<1>1. /\ DOMAIN f \in SUBSET R /\ DOMAIN g \in SUBSET R
      /\ f \in [DOMAIN f -> Values] /\ g \in [DOMAIN g -> Values]
  BY PartialElim
<1>2. Extend(f, g) \in [DOMAIN f \cup DOMAIN g -> Values]
  BY <1>1 DEF Extend
<1>3. DOMAIN f \cup DOMAIN g \in SUBSET R
  BY <1>1
<1>4. Extend(f, g) \in PartialOn(R)
  BY <1>2, <1>3, PartialIntro
<1> QED
  BY <1>4 DEF Extend

(* HashMap::remove (Without) stays a partial function. *)
LEMMA WithoutPartial ==
    ASSUME NEW R, NEW f \in PartialOn(R), NEW S
    PROVE  /\ Without(f, S) \in PartialOn(R)
           /\ DOMAIN Without(f, S) = DOMAIN f \ S
           /\ \A r \in DOMAIN f \ S : Without(f, S)[r] = f[r]
<1>1. DOMAIN f \in SUBSET R /\ f \in [DOMAIN f -> Values]
  BY PartialElim
<1>2. Without(f, S) \in [DOMAIN f \ S -> Values] /\ DOMAIN f \ S \in SUBSET R
  BY <1>1 DEF Without
<1>3. Without(f, S) \in PartialOn(R)
  BY <1>2, PartialIntro
<1> QED
  BY <1>3 DEF Without

(* A single row is a partial function. *)
LEMMA SinglePartial ==
    ASSUME NEW R, NEW r \in R, NEW v \in Values
    PROVE  [s \in {r} |-> v] \in PartialOn(R)
<1>1. [s \in {r} |-> v] \in [{r} -> Values] /\ {r} \in SUBSET R
  OBVIOUS
<1> QED
  BY <1>1, PartialIntro

(* The empty buffer is a partial function. *)
LEMMA EmptyPartial ==
    ASSUME NEW R
    PROVE  EmptyRows \in PartialOn(R) /\ DOMAIN EmptyRows = {}
<1>1. EmptyRows \in [{} -> Values] /\ {} \in SUBSET R
  BY DEF EmptyRows
<1> QED
  BY <1>1, PartialIntro DEF EmptyRows

(* A row partial on one trie is partial on all of them. *)
LEMMA PartialWider ==
    ASSUME NEW p \in Prefixes
    PROVE  RowsOf(p) \subseteq Rows
BY DEF RowsOf, Rows

(* Rows of two tries are different: the assumption in terms of RowsOf. *)
LEMMA RowsApart ==
    ASSUME NEW p \in Prefixes, NEW q \in Prefixes,
           NEW r, r \in RowsOf(p), r \in RowsOf(q)
    PROVE  p = q
BY TriesShareNoRow DEF RowsOf

(* Every row belongs to a trie. *)
LEMMA RowHasTrie ==
    ASSUME NEW r \in Rows
    PROVE  \E p \in Prefixes : r \in RowsOf(p)
BY DEF RowsOf, Rows
-----------------------------------------------------------------------------
(* put keeps an overlay well formed and disjoint, and changes one row. *)
LEMMA PutKeeps ==
    ASSUME NEW p \in Prefixes, NEW o \in Overlay(p), NEW k \in Keys, NEW v \in Values,
           DOMAIN o.inserts \cap o.deletes = {}
    PROVE  LET r == BuildKey(o, k)
               n == Put(o, k, v)
           IN  /\ r \in RowsOf(p)
               /\ n \in Overlay(p)
               /\ DOMAIN n.inserts \cap n.deletes = {}
               /\ DOMAIN n.inserts = DOMAIN o.inserts \cup {r}
               /\ n.deletes = o.deletes \ {r}
               /\ n.inserts[r] = v
               /\ \A s \in DOMAIN o.inserts \ {r} : n.inserts[s] = o.inserts[s]
<1> DEFINE r == BuildKey(o, k)
           n == Put(o, k, v)
           g == [s \in {r} |-> v]
<1>1. r \in RowsOf(p)
  BY DEF BuildKey, RowsOf, Overlay
<1>2. g \in PartialOn(RowsOf(p)) /\ DOMAIN g = {r} /\ g[r] = v
  BY <1>1, SinglePartial
<1>3. o.inserts \in PartialOn(RowsOf(p)) /\ o.deletes \in SUBSET RowsOf(p)
  BY DEF Overlay
<1>r. n = [o EXCEPT !.deletes = @ \ {r}, !.inserts = Extend(@, g)]
  BY Zenon DEF Put
<1> HIDE DEF r, g, n
<1>4. n = [inserts |-> Extend(o.inserts, g), deletes |-> o.deletes \ {r},
           prefix |-> o.prefix, version |-> o.version]
  BY <1>r DEF Overlay
<1>5. /\ Extend(o.inserts, g) \in PartialOn(RowsOf(p))
      /\ DOMAIN Extend(o.inserts, g) = DOMAIN o.inserts \cup {r}
      /\ Extend(o.inserts, g)[r] = v
      /\ \A s \in DOMAIN o.inserts \ {r} : Extend(o.inserts, g)[s] = o.inserts[s]
  BY <1>2, <1>3, ExtendPartial
<1>6. n \in Overlay(p)
  BY <1>3, <1>4, <1>5 DEF Overlay
<1> QED
  BY <1>1, <1>4, <1>5, <1>6 DEF r, n

(* delete keeps an overlay well formed and disjoint, and changes one row. *)
LEMMA DeleteKeeps ==
    ASSUME NEW p \in Prefixes, NEW o \in Overlay(p), NEW k \in Keys,
           DOMAIN o.inserts \cap o.deletes = {}
    PROVE  LET r == BuildKey(o, k)
               n == Delete(o, k)
           IN  /\ r \in RowsOf(p)
               /\ n \in Overlay(p)
               /\ DOMAIN n.inserts \cap n.deletes = {}
               /\ DOMAIN n.inserts = DOMAIN o.inserts \ {r}
               /\ n.deletes = o.deletes \cup {r}
               /\ \A s \in DOMAIN o.inserts \ {r} : n.inserts[s] = o.inserts[s]
<1> DEFINE r == BuildKey(o, k)
           n == Delete(o, k)
<1>1. r \in RowsOf(p)
  BY DEF BuildKey, RowsOf, Overlay
<1>2. o.inserts \in PartialOn(RowsOf(p)) /\ o.deletes \in SUBSET RowsOf(p)
  BY DEF Overlay
<1>3. {BuildKey(o, j) : j \in {k}} = {r}
  OBVIOUS
<1>r. n = [o EXCEPT !.inserts = Without(@, {r}), !.deletes = @ \cup {r}]
  BY <1>3, Zenon DEF Delete, DeleteAll
<1> HIDE DEF r, n
<1>4. n = [inserts |-> Without(o.inserts, {r}), deletes |-> o.deletes \cup {r},
           prefix |-> o.prefix, version |-> o.version]
  BY <1>r DEF Overlay
<1>5. /\ Without(o.inserts, {r}) \in PartialOn(RowsOf(p))
      /\ DOMAIN Without(o.inserts, {r}) = DOMAIN o.inserts \ {r}
      /\ \A s \in DOMAIN o.inserts \ {r} : Without(o.inserts, {r})[s] = o.inserts[s]
  <2>1. Without(o.inserts, {r}) \in PartialOn(RowsOf(p))
    BY <1>2, WithoutPartial
  <2> QED
    BY <2>1 DEF Without
<1>6. n \in Overlay(p)
  BY <1>1, <1>2, <1>4, <1>5 DEF Overlay
<1> QED
  BY <1>1, <1>4, <1>5, <1>6 DEF r, n

(* A new or a closed overlay is well formed and empty. *)
LEMMA EmptyKeeps ==
    ASSUME NEW p \in Prefixes, NEW v \in Version
    PROVE  LET n == NewDB(v, p)
           IN  /\ n \in Overlay(p)
               /\ DOMAIN n.inserts = {} /\ n.deletes = {}
<1>1. EmptyRows \in PartialOn(RowsOf(p)) /\ DOMAIN EmptyRows = {}
  BY EmptyPartial
<1> QED
  BY <1>1 DEF NewDB, Overlay

(* close leaves an overlay well formed and empty. *)
LEMMA ClosedKeeps ==
    ASSUME NEW p \in Prefixes, NEW o \in Overlay(p)
    PROVE  /\ Closed(o) \in Overlay(p)
           /\ DOMAIN Closed(o).inserts = {} /\ Closed(o).deletes = {}
<1>1. EmptyRows \in PartialOn(RowsOf(p)) /\ DOMAIN EmptyRows = {}
  BY EmptyPartial
<1> DEFINE n == Closed(o)
<1>r. n = [o EXCEPT !.inserts = EmptyRows, !.deletes = {}]
  BY Zenon DEF Closed
<1> HIDE DEF n
<1>2. n = [inserts |-> EmptyRows, deletes |-> {},
           prefix |-> o.prefix, version |-> o.version]
  BY <1>r DEF Overlay
<1> QED
  BY <1>1, <1>2 DEF Overlay, n

(* upgrade changes the version of an overlay and neither buffer. *)
LEMMA UpgradedKeeps ==
    ASSUME NEW p \in Prefixes, NEW o \in Overlay(p)
    PROVE  /\ Upgraded(o) \in Overlay(p)
           /\ Upgraded(o).inserts = o.inserts
           /\ Upgraded(o).deletes = o.deletes
<1>1. Upgraded(o) = [inserts |-> o.inserts, deletes |-> o.deletes,
                     prefix |-> o.prefix, version |-> V2]
  BY DEF Upgraded, Overlay
<1> QED
  BY <1>1 DEF Overlay, Version
-----------------------------------------------------------------------------
(* The merge of WorldState::close, seen from one trie: on the rows of that *)
(* trie the merged buffers are the buffers of its overlay.                 *)
LEMMA MergedAt ==
    ASSUME NEW ovs, OverlaysOK(ovs), NEW p \in Prefixes, NEW r \in RowsOf(p)
    PROVE  /\ r \in DOMAIN MergedInserts(ovs) <=> r \in DOMAIN ovs[p].inserts
           /\ r \in DOMAIN ovs[p].inserts => MergedInserts(ovs)[r] = ovs[p].inserts[r]
           /\ r \in MergedDeletes(ovs) <=> r \in ovs[p].deletes
<1>1. \A q \in Prefixes : ovs[q] \in Overlay(q)
  BY DEF OverlaysOK
<1>2. \A q \in Prefixes : DOMAIN ovs[q].inserts \subseteq RowsOf(q) /\ ovs[q].deletes \subseteq RowsOf(q)
  <2> TAKE q \in Prefixes
  <2>1. ovs[q].inserts \in PartialOn(RowsOf(q)) /\ ovs[q].deletes \in SUBSET RowsOf(q)
    BY <1>1 DEF Overlay
  <2> QED
    BY <2>1, PartialElim
<1>3. \A q \in Prefixes : r \in DOMAIN ovs[q].inserts \/ r \in ovs[q].deletes => q = p
  BY <1>2, RowsApart
<1>4. DOMAIN MergedInserts(ovs) = UNION {DOMAIN ovs[q].inserts : q \in Prefixes}
  BY DEF MergedInserts
<1>5. r \in DOMAIN MergedInserts(ovs) <=> r \in DOMAIN ovs[p].inserts
  BY <1>3, <1>4
<1>6. ASSUME r \in DOMAIN ovs[p].inserts
      PROVE  MergedInserts(ovs)[r] = ovs[p].inserts[r]
  <2>1. Owner(ovs, r) = p
    BY <1>3, <1>6 DEF Owner
  <2> QED
    BY <2>1, <1>4, <1>5, <1>6 DEF MergedInserts
<1>7. r \in MergedDeletes(ovs) <=> r \in ovs[p].deletes
  BY <1>3 DEF MergedDeletes
<1> QED
  BY <1>5, <1>6, <1>7

(* What close returns is well formed, and holds no row in both parts. *)
LEMMA MergedOK ==
    ASSUME NEW ovs, OverlaysOK(ovs)
    PROVE  /\ MergedInserts(ovs) \in PartialOn(Rows)
           /\ MergedDeletes(ovs) \in SUBSET Rows
           /\ DOMAIN MergedInserts(ovs) \cap MergedDeletes(ovs) = {}
<1>1. \A q \in Prefixes : /\ ovs[q].inserts \in PartialOn(RowsOf(q))
                          /\ ovs[q].deletes \in SUBSET RowsOf(q)
                          /\ DOMAIN ovs[q].inserts \cap ovs[q].deletes = {}
  BY DEF OverlaysOK, Overlay
<1>2. \A q \in Prefixes : /\ DOMAIN ovs[q].inserts \subseteq RowsOf(q)
                          /\ ovs[q].inserts \in [DOMAIN ovs[q].inserts -> Values]
                          /\ RowsOf(q) \subseteq Rows
  BY <1>1, PartialElim, PartialWider
<1>3. DOMAIN MergedInserts(ovs) = UNION {DOMAIN ovs[q].inserts : q \in Prefixes}
  BY DEF MergedInserts
<1>4. MergedDeletes(ovs) \in SUBSET Rows
  BY <1>1, <1>2 DEF MergedDeletes
<1>5. \A r \in DOMAIN MergedInserts(ovs) :
          \E q \in Prefixes : r \in RowsOf(q) /\ r \in DOMAIN ovs[q].inserts
  BY <1>2, <1>3
<1>6. \A r \in DOMAIN MergedInserts(ovs) :
          /\ r \in Rows
          /\ MergedInserts(ovs)[r] \in Values
          /\ r \notin MergedDeletes(ovs)
  <2> TAKE r \in DOMAIN MergedInserts(ovs)
  <2>1. PICK q \in Prefixes : r \in RowsOf(q) /\ r \in DOMAIN ovs[q].inserts
    BY <1>5
  <2>2. MergedInserts(ovs)[r] = ovs[q].inserts[r]
    BY <2>1, MergedAt
  <2>3. r \in MergedDeletes(ovs) <=> r \in ovs[q].deletes
    BY <2>1, MergedAt
  <2> QED
    BY <1>1, <1>2, <2>1, <2>2, <2>3
<1>7. MergedInserts(ovs) \in [DOMAIN MergedInserts(ovs) -> Values]
  BY <1>6 DEF MergedInserts
<1>8. MergedInserts(ovs) \in PartialOn(Rows)
  BY <1>6, <1>7, PartialIntro
<1> QED
  BY <1>4, <1>6, <1>8
-----------------------------------------------------------------------------
(* The initial overlays (KeyInstrumentedDB::new) satisfy the invariant. *)
LEMMA InitIInv == Init => IInv
<1> SUFFICES ASSUME Init PROVE IInv
  OBVIOUS
<1>1. storage \in PartialOn(Rows)
  BY EmptyPartial DEF Init
<1>2. \A p \in Prefixes : /\ overlays[p] \in Overlay(p)
                          /\ DOMAIN overlays[p].inserts \cap overlays[p].deletes = {}
  BY EmptyKeeps, V1 \in Version DEF Init, Version
<1> QED
  BY <1>1, <1>2 DEF Init, IInv, OverlaysOK, ChangesOK, StoragesKeep, Waiting

(* One overlay replaced by a well-formed, disjoint one. *)
LEMMA ReplaceOK ==
    ASSUME NEW ovs, OverlaysOK(ovs), NEW p \in Prefixes, NEW o \in Overlay(p),
           DOMAIN o.inserts \cap o.deletes = {}
    PROVE  OverlaysOK([ovs EXCEPT ![p] = o])
BY DEF OverlaysOK

(* A session that writes forgets no row.                                   *)
LEMMA StillKept ==
    ASSUME OverlaysOK(overlays), StoragesKeep, NEW p \in Prefixes, NEW o,
           Touched(overlays[p]) \subseteq Touched(o),
           overlays' = [overlays EXCEPT ![p] = o], UNCHANGED changes
    PROVE  StoragesKeep'
<1>1. \A q \in Prefixes : Touched(overlays[q]) \subseteq Touched(overlays'[q])
  BY DEF OverlaysOK
<1>2. Waiting' = Waiting
  BY DEF Waiting
<1> QED
  BY <1>1, <1>2 DEF StoragesKeep

(* Either order of the caller's updates leaves a database of rows. *)
LEMMA AppliedOK ==
    ASSUME NEW st \in PartialOn(Rows), NEW ins \in PartialOn(Rows), NEW del,
           NEW s \in Applied(st, ins, del)
    PROVE  s \in PartialOn(Rows)
<1>1. Without(Extend(st, ins), del) \in PartialOn(Rows)
  BY ExtendPartial, WithoutPartial
<1>2. Extend(Without(st, del), ins) \in PartialOn(Rows)
  BY ExtendPartial, WithoutPartial
<1> QED
  BY <1>1, <1>2 DEF Applied, InsertThenDelete, DeleteThenInsert

(* Every step of the session keeps the inductive invariant. *)
LEMMA NextIInv == IInv /\ [Next]_vars => IInv'
<1> SUFFICES ASSUME IInv, [Next]_vars PROVE IInv'
  OBVIOUS
<1>0. \A p \in Prefixes : /\ overlays[p] \in Overlay(p)
                          /\ DOMAIN overlays[p].inserts \cap overlays[p].deletes = {}
  BY DEF IInv, OverlaysOK
<1>1. ASSUME NEW p \in Prefixes, NEW k \in Keys, NEW v \in Values, PutRow(p, k, v)
      PROVE  IInv'
  <2> DEFINE o == Put(overlays[p], k, v)
  <2>1. /\ o \in Overlay(p)
        /\ DOMAIN o.inserts \cap o.deletes = {}
        /\ Touched(overlays[p]) \subseteq Touched(o)
    BY <1>0, PutKeeps DEF Touched
  <2>2. overlays' = [overlays EXCEPT ![p] = o] /\ storage' = storage /\ changes' = changes
    BY <1>1 DEF PutRow
  <2> HIDE DEF o
  <2>3. OverlaysOK(overlays')
    BY <2>1, <2>2, ReplaceOK DEF IInv
  <2>4. StoragesKeep'
    BY <2>1, <2>2, StillKept DEF IInv
  <2> QED
    BY <2>2, <2>3, <2>4 DEF IInv, ChangesOK
<1>2. ASSUME NEW p \in Prefixes, NEW k \in Keys, DeleteRow(p, k)
      PROVE  IInv'
  <2> DEFINE o == Delete(overlays[p], k)
  <2>1. /\ o \in Overlay(p)
        /\ DOMAIN o.inserts \cap o.deletes = {}
        /\ Touched(overlays[p]) \subseteq Touched(o)
    BY <1>0, DeleteKeeps DEF Touched
  <2>2. overlays' = [overlays EXCEPT ![p] = o] /\ storage' = storage /\ changes' = changes
    BY <1>2 DEF DeleteRow
  <2> HIDE DEF o
  <2>3. OverlaysOK(overlays')
    BY <2>1, <2>2, ReplaceOK DEF IInv
  <2>4. StoragesKeep'
    BY <2>1, <2>2, StillKept DEF IInv
  <2> QED
    BY <2>2, <2>3, <2>4 DEF IInv, ChangesOK
<1>3. ASSUME Upgrade PROVE IInv'
  <2>1. DOMAIN overlays' = Prefixes /\ \A p \in Prefixes : overlays'[p] = Upgraded(overlays[p])
    BY <1>3 DEF Upgrade
  <2>2. \A p \in Prefixes : /\ overlays'[p] \in Overlay(p)
                            /\ overlays'[p].inserts = overlays[p].inserts
                            /\ overlays'[p].deletes = overlays[p].deletes
    BY <1>0, <2>1, UpgradedKeeps
  <2>3. OverlaysOK(overlays')
    BY <1>0, <2>1, <2>2 DEF OverlaysOK
  <2>4. StoragesKeep'
    BY <1>3, <2>2 DEF IInv, Upgrade, StoragesKeep, Waiting, Touched
  <2> QED
    BY <1>3, <2>3, <2>4 DEF IInv, Upgrade, ChangesOK
<1>4. ASSUME Close PROVE IInv'
  <2>1. \A p \in Prefixes : /\ Closed(overlays[p]) \in Overlay(p)
                            /\ DOMAIN Closed(overlays[p]).inserts = {}
    BY <1>0, ClosedKeeps
  <2>2. OverlaysOK(overlays')
    BY <1>0, <1>4, <2>1 DEF Close, OverlaysOK
  <2>3. /\ MergedInserts(overlays) \in PartialOn(Rows)
        /\ MergedDeletes(overlays) \in SUBSET Rows
        /\ DOMAIN MergedInserts(overlays) \cap MergedDeletes(overlays) = {}
    BY MergedOK DEF IInv
  <2>4. ChangesOK'
    BY <1>4, <2>3 DEF Close, ChangesOK
  <2>5. StoragesKeep'
    <3> SUFFICES ASSUME NEW p \in Prefixes \ {Accounts}, NEW r \in RowsOf(p), r \in Waiting'
                 PROVE  r \in Touched(overlays'[p])
      BY DEF StoragesKeep
    <3>1. r \in DOMAIN MergedInserts(overlays) \cup MergedDeletes(overlays)
      BY <1>4, <2>3, NothingIsNoChange DEF Close, Waiting, PartialOn
    <3>2. r \in Touched(overlays[p])
      BY <3>1, MergedAt DEF IInv, Touched
    <3> QED
      BY <1>4, <3>2 DEF Close
  <2> QED
    BY <1>4, <2>2, <2>4, <2>5 DEF Close, IInv
<1>5. ASSUME Apply PROVE IInv'
  <2>1. changes.inserts \in PartialOn(Rows)
    BY <1>5 DEF Apply, IInv, ChangesOK
  <2>2. storage' \in PartialOn(Rows)
    BY <1>5, <2>1, AppliedOK DEF Apply, IInv
  <2> QED
    BY <1>5, <2>2 DEF Apply, IInv, ChangesOK, StoragesKeep, Waiting
<1>6. ASSUME NEW w \in Version, Reopen(w) PROVE IInv'
  <2>1. \A p \in Prefixes : /\ NewDB(w, p) \in Overlay(p)
                            /\ DOMAIN NewDB(w, p).inserts = {}
    BY EmptyKeeps
  <2>2. OverlaysOK(overlays')
    BY <1>6, <2>1 DEF Reopen, OverlaysOK
  <2> QED
    BY <1>6, <2>2 DEF Reopen, IInv, ChangesOK, StoragesKeep, Waiting
<1>7. CASE UNCHANGED vars
  BY <1>7 DEF vars, IInv, OverlaysOK, ChangesOK, StoragesKeep, Waiting
<1> QED
  BY <1>1, <1>2, <1>3, <1>4, <1>5, <1>6, <1>7 DEF Next

(* The inductive invariant holds in every state of every session. *)
THEOREM Invariant == Spec => []IInv
BY InitIInv, NextIInv, PTL DEF Spec

(* Each overlay buffers rows of its own trie only, and what close hands    *)
(* out are rows (TypeOK), for any keys, values and tries.                  *)
THEOREM TypeCorrect == Spec => []TypeOK
<1>1. IInv => TypeOK
  BY DEF IInv, OverlaysOK, ChangesOK, TypeOK
<1> QED
  BY <1>1, Invariant, PTL

(* The buffers of db.rs, merged by close, never hold one row both as       *)
(* inserted and as deleted (NoRowBothWays).                                *)
THEOREM RowsOneWay == Spec => []NoRowBothWays
<1>1. IInv => NoRowBothWays
  <2> SUFFICES ASSUME IInv PROVE NoRowBothWays
    OBVIOUS
  <2>1. DOMAIN MergedInserts(overlays) \cap MergedDeletes(overlays) = {}
    BY MergedOK DEF IInv
  <2> QED
    BY <2>1 DEF IInv, ChangesOK, NoRowBothWays
<1> QED
  BY <1>1, Invariant, PTL
-----------------------------------------------------------------------------
(* The database after the caller applied rows that are disjoint: the same  *)
(* in both orders, row by row.                                             *)
LEMMA AppliedAt ==
    ASSUME NEW st \in PartialOn(Rows), NEW ins \in PartialOn(Rows), NEW del,
           DOMAIN ins \cap del = {},
           NEW s \in Applied(st, ins, del), NEW r
    PROVE  Lookup(s, r) = IF r \in DOMAIN ins THEN ins[r]
                          ELSE IF r \in del THEN None
                          ELSE Lookup(st, r)
<1>1. CASE s = Without(Extend(st, ins), del)
  <2>1. Extend(st, ins) \in PartialOn(Rows)
    BY ExtendPartial
  <2>2. DOMAIN s = (DOMAIN st \cup DOMAIN ins) \ del
    BY <1>1 DEF Without, Extend
  <2>3. r \in DOMAIN s => s[r] = IF r \in DOMAIN ins THEN ins[r] ELSE st[r]
    BY <1>1 DEF Without, Extend
  <2> QED
    BY <2>2, <2>3 DEF Lookup
<1>2. CASE s = Extend(Without(st, del), ins)
  <2>1. DOMAIN s = (DOMAIN st \ del) \cup DOMAIN ins
    BY <1>2 DEF Without, Extend
  <2>2. r \in DOMAIN s => s[r] = IF r \in DOMAIN ins THEN ins[r] ELSE st[r]
    BY <1>2 DEF Without, Extend
  <2> QED
    BY <2>1, <2>2 DEF Lookup
<1> QED
  BY <1>1, <1>2 DEF Applied, InsertThenDelete, DeleteThenInsert

(* The value of a row once the changes that wait are applied. *)
LEMMA WaitingAt ==
    ASSUME IInv, NEW s \in AfterWaiting, NEW r
    PROVE  s \in PartialOn(Rows) /\ Lookup(s, r) = Handed(r)
<1>1. CASE changes = Nothing
  BY <1>1 DEF AfterWaiting, Handed, Stored, IInv
<1>2. CASE changes # Nothing
  <2>1. /\ changes.inserts \in PartialOn(Rows)
        /\ DOMAIN changes.inserts \cap changes.deletes = {}
        /\ s \in Applied(storage, changes.inserts, changes.deletes)
        /\ storage \in PartialOn(Rows)
    BY <1>2 DEF IInv, ChangesOK, AfterWaiting
  <2> QED
    BY <1>2, <2>1, AppliedOK, AppliedAt DEF Handed, Stored
<1> QED
  BY <1>1, <1>2

(* What a row of a trie is committed to: the buffer of the trie, and what  *)
(* waits where that says nothing.                                          *)
Buffered(o, r, x) == IF r \in DOMAIN o.inserts THEN o.inserts[r]
                     ELSE IF r \in o.deletes THEN None ELSE x

(* The value of a row of a trie once all is applied. *)
LEMMA CommittedAt ==
    ASSUME IInv, NEW s \in Committed, NEW p \in Prefixes, NEW r \in RowsOf(p)
    PROVE  Lookup(s, r) = Buffered(overlays[p], r, Handed(r))
<1>1. PICK t \in AfterWaiting :
          s \in Applied(t, MergedInserts(overlays), MergedDeletes(overlays))
  BY DEF Committed
<1>2. t \in PartialOn(Rows) /\ Lookup(t, r) = Handed(r)
  BY WaitingAt
<1>3. /\ MergedInserts(overlays) \in PartialOn(Rows)
      /\ DOMAIN MergedInserts(overlays) \cap MergedDeletes(overlays) = {}
  BY MergedOK DEF IInv
<1>4. Lookup(s, r) = IF r \in DOMAIN MergedInserts(overlays) THEN MergedInserts(overlays)[r]
                     ELSE IF r \in MergedDeletes(overlays) THEN None
                     ELSE Lookup(t, r)
  BY <1>1, <1>2, <1>3, AppliedAt
<1>5. /\ r \in DOMAIN MergedInserts(overlays) <=> r \in DOMAIN overlays[p].inserts
      /\ r \in DOMAIN overlays[p].inserts =>
             MergedInserts(overlays)[r] = overlays[p].inserts[r]
      /\ r \in MergedDeletes(overlays) <=> r \in overlays[p].deletes
  BY MergedAt DEF IInv
<1> QED
  BY <1>2, <1>4, <1>5 DEF Buffered

(* What get answers from the buffers and the database is what the database *)
(* answers once all that close has handed out or would hand out is         *)
(* applied, but for the rows of the accounts trie that wait                *)
(* (ReadsBecomeDurable).                                                   *)
THEOREM ReadsDurable == Spec => []ReadsBecomeDurable
<1>1. IInv => ReadsBecomeDurable
  <2> SUFFICES ASSUME IInv, NEW s \in Committed, NEW p \in Prefixes, NEW k \in Keys
               PROVE  LET r == BuildKey(overlays[p], k)
                      IN  Get(overlays[p], storage, k) =
                              Lookup(IF r \in Hidden(p) THEN storage ELSE s, r)
    BY DEF ReadsBecomeDurable
  <2> DEFINE r == BuildKey(overlays[p], k)
  <2>1. r \in RowsOf(p)
    <3>1. overlays[p].version \in Version /\ overlays[p].prefix = p
      BY DEF IInv, OverlaysOK, Overlay
    <3> QED
      BY <3>1 DEF BuildKey, RowsOf
  <2>2. Get(overlays[p], storage, k) = Buffered(overlays[p], r, Lookup(storage, r))
    BY DEF Get, Lookup, Buffered
  <2> HIDE DEF r
  <2>3. Lookup(s, r) = Buffered(overlays[p], r, Handed(r))
    BY <2>1, CommittedAt
  <2>4. CASE r \in Touched(overlays[p])
    <3>1. Buffered(overlays[p], r, Handed(r)) = Buffered(overlays[p], r, Lookup(storage, r))
      BY <2>4 DEF Buffered, Touched
    <3>2. r \notin Hidden(p)
      BY <2>4 DEF Hidden
    <3> QED
      BY <2>2, <2>3, <3>1, <3>2 DEF r
  <2>5. CASE r \notin Touched(overlays[p]) /\ r \in Waiting
    <3>1. p = Accounts
      BY <2>1, <2>5 DEF IInv, StoragesKeep
    <3>2. r \in Hidden(p)
      BY <2>5, <3>1 DEF Hidden
    <3>3. Buffered(overlays[p], r, Lookup(storage, r)) = Lookup(storage, r)
      BY <2>5 DEF Buffered, Touched
    <3> QED
      BY <2>2, <3>2, <3>3 DEF r
  <2>6. CASE r \notin Waiting
    <3>1. Handed(r) = Lookup(storage, r)
      BY <2>6 DEF Handed, Stored, Waiting
    <3>2. r \notin Hidden(p)
      BY <2>6 DEF Hidden
    <3> QED
      BY <2>2, <2>3, <3>1, <3>2 DEF r
  <2> QED
    BY <2>4, <2>5, <2>6
<1> QED
  BY <1>1, Invariant, PTL
-----------------------------------------------------------------------------
(* The refinement mapping under names of its own. *)
Durable == [r \in Rows |-> Stored(r)]
Working == [r \in Rows |-> Written(overlays, r, Handed(r))]
HandedOver == IF changes = Nothing THEN Nothing ELSE [r \in Rows |-> Handed(r)]

(* A row as the overlays have it, seen from the trie it belongs to. *)
LEMMA WrittenAt ==
    ASSUME NEW ovs, OverlaysOK(ovs), NEW p \in Prefixes, NEW r \in RowsOf(p), NEW x
    PROVE  Written(ovs, r, x) = Buffered(ovs[p], r, x)
<1>1. \A q \in Prefixes : /\ ovs[q].inserts \in PartialOn(RowsOf(q))
                          /\ ovs[q].deletes \in SUBSET RowsOf(q)
  BY DEF OverlaysOK, Overlay
<1>2. \A q \in Prefixes : Touched(ovs[q]) \subseteq RowsOf(q)
  BY <1>1, PartialElim DEF Touched
<1>3. \A q \in Prefixes : r \in Touched(ovs[q]) => q = p
  BY <1>2, RowsApart
<1>4. CASE r \in Touched(ovs[p])
  <2>1. (CHOOSE q \in Prefixes : r \in Touched(ovs[q])) = p
    BY <1>3, <1>4
  <2> QED
    BY <1>4, <2>1 DEF Written, Buffered, Touched
<1>5. CASE r \notin Touched(ovs[p])
  <2>1. ~\E q \in Prefixes : r \in Touched(ovs[q])
    BY <1>3, <1>5
  <2> QED
    BY <1>5, <2>1 DEF Written, Buffered, Touched
<1> QED
  BY <1>4, <1>5

(* Overlays with empty buffers have written nothing. *)
LEMMA NothingWritten ==
    ASSUME NEW ovs, \A p \in Prefixes : DOMAIN ovs[p].inserts = {} /\ ovs[p].deletes = {},
           NEW r, NEW x
    PROVE  Written(ovs, r, x) = x
BY DEF Written, Touched

(* Overlay n says of every row what overlay o says, and x of row r.        *)
OneRowChanged(o, n, r, x) ==
    \A s, y : Buffered(n, s, y) = IF s = r THEN x ELSE Buffered(o, s, y)

(* A change of one row of one overlay sets this row. *)
LEMMA WriteRefines ==
    ASSUME IInv, IInv', NEW p \in Prefixes, NEW r \in RowsOf(p), NEW x, NEW o,
           OneRowChanged(overlays[p], o, r, x),
           overlays' = [overlays EXCEPT ![p] = o], UNCHANGED <<storage, changes>>
    PROVE  Store!Write(r, x)
<1>1. UNCHANGED <<Durable, HandedOver>> /\ \A s : Handed(s)' = Handed(s)
  BY DEF Durable, HandedOver, Handed, Stored
<1>2. ASSUME NEW s \in Rows
      PROVE  Written(overlays', s, Handed(s)) =
                 IF s = r THEN x ELSE Written(overlays, s, Handed(s))
  <2>1. PICK q \in Prefixes : s \in RowsOf(q)
    BY RowHasTrie
  <2>2. OverlaysOK(overlays) /\ OverlaysOK(overlays')
    BY DEF IInv
  <2>3. /\ Written(overlays', s, Handed(s)) = Buffered(overlays'[q], s, Handed(s))
        /\ Written(overlays, s, Handed(s)) = Buffered(overlays[q], s, Handed(s))
    BY <2>1, <2>2, WrittenAt
  <2>4. CASE q = p
    <3>1. overlays'[q] = o
      BY <2>2, <2>4 DEF OverlaysOK
    <3> QED
      BY <2>3, <2>4, <3>1 DEF OneRowChanged
  <2>5. CASE q # p
    <3>1. s # r
      BY <2>1, <2>5, RowsApart
    <3>2. overlays'[q] = overlays[q]
      BY <2>2, <2>5 DEF OverlaysOK
    <3> QED
      BY <2>3, <3>1, <3>2
  <2> QED
    BY <2>4, <2>5
<1>3. Working' = [s \in Rows |-> Written(overlays', s, Handed(s))]
  BY <1>1 DEF Working
<1>4. Working' = [s \in Rows |-> IF s = r THEN x ELSE Written(overlays, s, Handed(s))]
  BY <1>2, <1>3
<1>5. Working' = [Working EXCEPT ![r] = x]
  BY <1>4 DEF Working
<1> QED
  BY <1>1, <1>5 DEF Store!Write, Durable, Working, HandedOver

(* Put and delete change one row. *)
LEMMA PutRefines ==
    ASSUME IInv, IInv', NEW p \in Prefixes, NEW k \in Keys, NEW v \in Values, PutRow(p, k, v)
    PROVE  \E r \in Rows, x \in Values \cup {None} : Store!Write(r, x)
<1> DEFINE r == BuildKey(overlays[p], k)
           o == Put(overlays[p], k, v)
<1>1. overlays[p] \in Overlay(p) /\ DOMAIN overlays[p].inserts \cap overlays[p].deletes = {}
  BY DEF IInv, OverlaysOK
<1>2. /\ r \in RowsOf(p)
      /\ DOMAIN o.inserts = DOMAIN overlays[p].inserts \cup {r}
      /\ o.deletes = overlays[p].deletes \ {r}
      /\ o.inserts[r] = v
      /\ \A s \in DOMAIN overlays[p].inserts \ {r} : o.inserts[s] = overlays[p].inserts[s]
  BY <1>1, PutKeeps
<1>3. overlays' = [overlays EXCEPT ![p] = o] /\ UNCHANGED <<storage, changes>>
  BY DEF PutRow
<1> HIDE DEF r, o
<1>4. OneRowChanged(overlays[p], o, r, v)
  BY <1>2 DEF OneRowChanged, Buffered
<1>5. Store!Write(r, v)
  BY <1>2, <1>3, <1>4, WriteRefines
<1>6. r \in Rows
  BY <1>2, PartialWider
<1> QED
  BY <1>5, <1>6, Zenon

(* The same for delete. *)
LEMMA DeleteRefines ==
    ASSUME IInv, IInv', NEW p \in Prefixes, NEW k \in Keys, DeleteRow(p, k)
    PROVE  \E r \in Rows, x \in Values \cup {None} : Store!Write(r, x)
<1> DEFINE r == BuildKey(overlays[p], k)
           o == Delete(overlays[p], k)
<1>1. overlays[p] \in Overlay(p) /\ DOMAIN overlays[p].inserts \cap overlays[p].deletes = {}
  BY DEF IInv, OverlaysOK
<1>2. /\ r \in RowsOf(p)
      /\ DOMAIN o.inserts = DOMAIN overlays[p].inserts \ {r}
      /\ o.deletes = overlays[p].deletes \cup {r}
      /\ \A s \in DOMAIN overlays[p].inserts \ {r} : o.inserts[s] = overlays[p].inserts[s]
  BY <1>1, DeleteKeeps
<1>3. overlays' = [overlays EXCEPT ![p] = o] /\ UNCHANGED <<storage, changes>>
  BY DEF DeleteRow
<1> HIDE DEF r, o
<1>4. OneRowChanged(overlays[p], o, r, None)
  BY <1>2 DEF OneRowChanged, Buffered
<1>5. Store!Write(r, None)
  BY <1>2, <1>3, <1>4, WriteRefines
<1>6. r \in Rows
  BY <1>2, PartialWider
<1> QED
  BY <1>5, <1>6, Zenon

(* An upgrade sets no row. *)
LEMMA UpgradeRefines ==
    ASSUME IInv, Upgrade
    PROVE  UNCHANGED Store!vars
<1>1. \A p \in Prefixes : /\ overlays'[p].inserts = overlays[p].inserts
                          /\ overlays'[p].deletes = overlays[p].deletes
  BY UpgradedKeeps DEF IInv, OverlaysOK, Upgrade
<1>2. \A p \in Prefixes : Touched(overlays'[p]) = Touched(overlays[p])
  BY <1>1 DEF Touched
<1>3. ASSUME NEW r, NEW x PROVE Written(overlays', r, x) = Written(overlays, r, x)
  <2> DEFINE owner(ovs) == CHOOSE p \in Prefixes : r \in Touched(ovs[p])
  <2>1. owner(overlays') = owner(overlays)
    BY <1>2
  <2>2. (\E p \in Prefixes : r \in Touched(overlays[p])) => owner(overlays) \in Prefixes
    OBVIOUS
  <2> QED
    BY <1>1, <1>2, <2>1, <2>2 DEF Written
<1>4. UNCHANGED <<Durable, HandedOver>> /\ \A r : Handed(r)' = Handed(r)
  BY DEF Upgrade, Durable, HandedOver, Handed, Stored
<1>5. Working' = Working
  <2>1. \A r \in Rows : Written(overlays', r, Handed(r)') = Written(overlays, r, Handed(r))
    BY <1>3, <1>4
  <2> QED
    BY <2>1 DEF Working
<1> QED
  BY <1>4, <1>5 DEF Store!vars, Durable, Working, HandedOver

(* What close hands out is what the session has set, row by row; what the  *)
(* session has set is the same after it.                                   *)
LEMMA CloseRefines ==
    ASSUME IInv, IInv', Close
    PROVE  Store!HandOver
<1>1. OverlaysOK(overlays) /\ OverlaysOK(overlays')
  BY DEF IInv
<1>2. /\ MergedInserts(overlays) \in PartialOn(Rows)
      /\ MergedDeletes(overlays) \in SUBSET Rows
      /\ DOMAIN MergedInserts(overlays) \cap MergedDeletes(overlays) = {}
  BY <1>1, MergedOK
<1>3. /\ changes = Nothing
      /\ changes' = [inserts |-> MergedInserts(overlays), deletes |-> MergedDeletes(overlays)]
      /\ storage' = storage
  BY DEF Close
<1>4. changes' # Nothing
  BY <1>2, <1>3, NothingIsNoChange DEF PartialOn
<1>5. ASSUME NEW r \in Rows
      PROVE  /\ Handed(r)' = Written(overlays, r, Handed(r))
             /\ Written(overlays', r, Handed(r)') = Written(overlays, r, Handed(r))
  <2>1. PICK p \in Prefixes : r \in RowsOf(p)
    BY RowHasTrie
  <2>2. /\ r \in DOMAIN MergedInserts(overlays) <=> r \in DOMAIN overlays[p].inserts
        /\ r \in DOMAIN overlays[p].inserts =>
               MergedInserts(overlays)[r] = overlays[p].inserts[r]
        /\ r \in MergedDeletes(overlays) <=> r \in overlays[p].deletes
    BY <1>1, <2>1, MergedAt
  <2>3. Handed(r)' = IF r \in DOMAIN MergedInserts(overlays) THEN MergedInserts(overlays)[r]
                     ELSE IF r \in MergedDeletes(overlays) THEN None ELSE Stored(r)
    BY <1>3, <1>4 DEF Handed, Stored
  <2>4. Handed(r) = Stored(r)
    BY <1>3 DEF Handed
  <2>5. Handed(r)' = Buffered(overlays[p], r, Handed(r))
    BY <2>2, <2>3, <2>4 DEF Buffered
  <2>6. Written(overlays, r, Handed(r)) = Buffered(overlays[p], r, Handed(r))
    BY <1>1, <2>1, WrittenAt
  <2>7. Written(overlays', r, Handed(r)') = Buffered(overlays'[p], r, Handed(r)')
    BY <1>1, <2>1, WrittenAt
  <2>8. Buffered(overlays'[p], r, Handed(r)') = Handed(r)'
    <3>1. CASE p = Accounts
      <4>1. DOMAIN overlays'[p].inserts = {} /\ overlays'[p].deletes = {}
        BY <1>1, <3>1, ClosedKeeps DEF Close, OverlaysOK
      <4> QED
        BY <4>1 DEF Buffered
    <3>2. CASE p # Accounts
      <4>1. overlays'[p] = overlays[p]
        BY <3>2 DEF Close
      <4> QED
        BY <2>5, <4>1 DEF Buffered
    <3> QED
      BY <3>1, <3>2
  <2> QED
    BY <2>5, <2>6, <2>7, <2>8
<1>6. HandedOver' = Working
  <2>1. HandedOver' = [r \in Rows |-> Handed(r)']
    BY <1>4 DEF HandedOver
  <2> QED
    BY <1>5, <2>1 DEF Working
<1>7. Working' = Working
  <2>1. Working' = [r \in Rows |-> Written(overlays', r, Handed(r)')]
    BY DEF Working
  <2> QED
    BY <1>5, <2>1 DEF Working
<1>8. Durable' = Durable /\ HandedOver = Nothing
  BY <1>3 DEF Durable, HandedOver, Stored
<1> QED
  BY <1>6, <1>7, <1>8 DEF Store!HandOver, Durable, Working, HandedOver

(* Applying makes durable exactly what was handed over, in either order.   *)
LEMMA ApplyRefines ==
    ASSUME IInv, Apply
    PROVE  Store!MakeDurable
<1>1. /\ changes # Nothing
      /\ storage' \in AfterWaiting
      /\ changes' = Nothing
      /\ overlays' = overlays
  BY DEF Apply, AfterWaiting
<1>2. ASSUME NEW r PROVE Stored(r)' = Handed(r) /\ Handed(r)' = Handed(r)
  <2>1. Lookup(storage', r) = Handed(r)
    BY <1>1, WaitingAt
  <2> QED
    BY <1>1, <2>1 DEF Stored, Handed
<1>3. HandedOver = [r \in Rows |-> Handed(r)] /\ HandedOver' = Nothing
  BY <1>1 DEF HandedOver
<1>4. Durable' = HandedOver
  <2>1. Durable' = [r \in Rows |-> Stored(r)']
    BY DEF Durable
  <2> QED
    BY <1>2, <1>3, <2>1
<1>5. Working' = Working
  <2>1. Working' = [r \in Rows |-> Written(overlays, r, Handed(r)')]
    BY <1>1 DEF Working
  <2> QED
    BY <1>2, <2>1 DEF Working
<1>6. HandedOver # Nothing
  <2>1. /\ changes.inserts \in PartialOn(Rows)
        /\ storage \in PartialOn(Rows)
    BY <1>1 DEF IInv, ChangesOK
  <2>2. /\ changes.inserts \in [DOMAIN changes.inserts -> Values]
        /\ storage \in [DOMAIN storage -> Values]
    BY <2>1, PartialElim
  <2>3. \A r \in Rows : Handed(r) \in Values \cup {None}
    BY <2>2 DEF Handed, Stored, Lookup
  <2>4. HandedOver \in [Rows -> Values \cup {None}]
    BY <1>3, <2>3
  <2> QED
    BY <2>4, NothingIsNoChange
<1> QED
  BY <1>3, <1>4, <1>5, <1>6 DEF Store!MakeDurable, Durable, Working, HandedOver

(* Another session starts from what the database holds. *)
LEMMA ReopenRefines ==
    ASSUME IInv, NEW w \in Version, Reopen(w)
    PROVE  Store!Lose
<1>1. \A p \in Prefixes : DOMAIN overlays'[p].inserts = {} /\ overlays'[p].deletes = {}
  BY EmptyKeeps DEF Reopen
<1>2. storage' = storage /\ changes' = Nothing
  BY DEF Reopen
<1>3. \A r : Handed(r)' = Stored(r)
  BY <1>2 DEF Handed, Stored
<1>4. \A r : Written(overlays', r, Handed(r)') = Stored(r)
  BY <1>1, <1>3, NothingWritten
<1>5. Working' = Durable
  <2>1. Working' = [r \in Rows |-> Written(overlays', r, Handed(r)')]
    BY DEF Working
  <2> QED
    BY <1>4, <2>1 DEF Durable
<1>6. Durable' = Durable /\ HandedOver' = Nothing
  BY <1>2 DEF Durable, HandedOver, Stored
<1> QED
  BY <1>5, <1>6 DEF Store!Lose, Durable, Working, HandedOver

(* The initial session maps to the initial store. *)
LEMMA InitRefines == Init => Store!Init
<1> SUFFICES ASSUME Init PROVE Store!Init
  OBVIOUS
<1>1. \A r : Stored(r) = None /\ Handed(r) = None
  BY DEF Init, Stored, Handed, Lookup, EmptyRows
<1>2. \A p \in Prefixes : DOMAIN overlays[p].inserts = {} /\ overlays[p].deletes = {}
  BY EmptyKeeps DEF Init, Version
<1>3. \A r : Written(overlays, r, Handed(r)) = None
  BY <1>1, <1>2, NothingWritten
<1>4. Durable = [r \in Rows |-> None] /\ Working = [r \in Rows |-> None]
  BY <1>1, <1>3 DEF Durable, Working
<1> QED
  BY <1>4 DEF Store!Init, Init, Durable, Working

(* Every step of the session is a step of the store, or changes nothing    *)
(* the store sees.                                                         *)
LEMMA NextRefines == IInv /\ IInv' /\ [Next]_vars => [Store!Next]_(Store!vars)
<1> SUFFICES ASSUME IInv, IInv', [Next]_vars PROVE [Store!Next]_(Store!vars)
  OBVIOUS
<1>1. ASSUME NEW p \in Prefixes, NEW k \in Keys, NEW v \in Values, PutRow(p, k, v)
      PROVE  Store!Next
  BY <1>1, PutRefines DEF Store!Next
<1>2. ASSUME NEW p \in Prefixes, NEW k \in Keys, DeleteRow(p, k)
      PROVE  Store!Next
  BY <1>2, DeleteRefines DEF Store!Next
<1>3. ASSUME Upgrade PROVE UNCHANGED Store!vars
  BY <1>3, UpgradeRefines
<1>4. ASSUME Close PROVE Store!Next
  BY <1>4, CloseRefines DEF Store!Next
<1>5. ASSUME Apply PROVE Store!Next
  BY <1>5, ApplyRefines DEF Store!Next
<1>6. ASSUME NEW w \in Version, Reopen(w) PROVE Store!Next
  BY <1>6, ReopenRefines DEF Store!Next
<1>7. CASE UNCHANGED vars
  BY <1>7 DEF vars, Store!vars, Written, Handed, Stored
<1> QED
  BY <1>1, <1>2, <1>3, <1>4, <1>5, <1>6, <1>7 DEF Next

(* The overlays of a session implement the transactional store             *)
(* (ImplementsStore): close hands out the state the session stands at,     *)
(* rows of clones that were handed out before among it.                    *)
THEOREM Refinement == Spec => ImplementsStore
BY InitIInv, NextIInv, InitRefines, NextRefines, PTL
   DEF Spec, ImplementsStore, Store!Spec
=============================================================================
