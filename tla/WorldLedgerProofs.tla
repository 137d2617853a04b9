-------------------------- MODULE WorldLedgerProofs --------------------------
(***************************************************************************)
(* The world state implements LedgerState.  While the invariant of         *)
(* WorldStateProofs holds, what is read through nodes, rows and change     *)
(* sets is a function of the state hashes alone; every step of a session   *)
(* then is a step of the ledgers.                                          *)
(***************************************************************************)
EXTENDS WorldStateProofs

-----------------------------------------------------------------------------
(* The ledger of contents: of the accounts D and of the storages of map m. *)

FieldsAt(v, D, a) == [f \in Field |-> Lookup(D, AccountKey(v, a, f))]

ContentOrNone(v, C) == IF C = None THEN None ELSE StorageContent(v, C)

StorageAt(v, D, m, a) ==
    IF a \in DOMAIN m THEN StorageContent(v, m[a].root) ELSE ContentOrNone(v, HashAt(v, D, a))

AccountAt(v, D, m, a) == [fields |-> FieldsAt(v, D, a), storage |-> StorageAt(v, D, m, a)]

LedgerOf(v, D, m) ==
    [version |-> v, accounts |-> [a \in Address |-> AccountAt(v, D, m, a)]]

HeadLedger(h) == IF h = NoState THEN NoLedger ELSE LedgerOf(h.version, h.root, NoTries)
LedgersOf(ch) == [j \in 1 .. Len(ch) |-> LedgerOf(ch[j].version, ch[j].root, NoTries)]
SessionLedger(s) ==
    IF s = NoSession THEN NoLedger ELSE LedgerOf(s.version, s.accounts.root, s.map)

Mapped == /\ DurableLedger = HeadLedger(head)
          /\ HandedLedgers = LedgersOf(changes)
          /\ WorkingLedger = SessionLedger(ws)

-----------------------------------------------------------------------------
(* What is read is the ledger of the contents. *)

(* A new session on an exact database reads the whole of its state.        *)
LEMMA StateIsRead ==
    ASSUME NEW v, NEW D, NEW db, \A r \in DOMAIN db : db[r] = Last(r), IsState(DOMAIN db, v, D)
    PROVE  ReadLedger(db, v, D) = LedgerOf(v, D, NoTries)
<1> DEFINE B == DOMAIN db
           accounts == AccountsOpen(v, D)
<1>1. /\ v \in Version /\ AccountContent(v, D)
      /\ Exactly(PartOf(B, <<>>), v, <<>>, D)
      /\ \A a \in Address : ExactOrNone(B, v, <<a>>, HashAt(v, D, a))
  BY DEF IsState
<1>2. CanIterate(accounts, db)
  <2>1. TrieOn(accounts, B, v, <<>>, D)
    BY <1>1, OpenIsExact DEF AccountsOpen
  <2>2. Fits(Symbol, v, <<>>, D) /\ <<>> \in Seq(Symbol)
    BY <1>1, AccountsFit
  <2> HIDE DEF accounts
  <2> QED BY <1>1, <2>1, <2>2, ExactIsReadable
<1>3. \A a : GetField(accounts, a, StorageHash) = HashAt(v, D, a)
  BY DEF AccountsOpen, MptOpen, NewDB, GetField, MptGet, HashAt
<1>4. ASSUME NEW a \in Address, HashAt(v, D, a) # None
      PROVE  CanIterate(StorageOpen(v, a, HashAt(v, D, a)), db)
  <2> DEFINE C == HashAt(v, D, a)
             t == StorageOpen(v, a, C)
  <2>1. C \in StorageContents(v)
    BY <1>1, <1>4, HashIsContent
  <2>2. Exactly(PartOf(B, <<a>>), v, <<a>>, C)
    BY <1>1, <1>4 DEF ExactOrNone
  <2> HIDE DEF C
  <2>3. TrieOn(t, B, v, <<a>>, C)
    BY <2>2, OpenIsExact DEF StorageOpen
  <2>4. Fits(Symbol, v, <<a>>, C) /\ <<a>> \in Seq(Symbol)
    BY <1>1, <2>1, StoragesFit, SymbolFacts
  <2> HIDE DEF t
  <2>5. CanIterate(t, db)
    BY <1>1, <2>1, <2>3, <2>4, ExactIsReadable
  <2> QED BY <2>5 DEF t, C
<1> DEFINE content(a) == IF GetField(accounts, a, StorageHash) = None THEN None
                         ELSE StorageContent(v, GetField(accounts, a, StorageHash))
<1>5. ReadLedger(db, v, D) =
          [version |-> v,
           accounts |-> [a \in Address |->
              [fields |-> [f \in Field |-> Lookup(D, AccountKey(v, a, f))],
               storage |-> content(a)]]]
  BY <1>2, <1>3, <1>4 DEF ReadLedger, Ledger
<1>6. ASSUME NEW a \in Address
      PROVE  [fields |-> [f \in Field |-> Lookup(D, AccountKey(v, a, f))],
              storage |-> content(a)] = AccountAt(v, D, NoTries, a)
  <2>1. content(a) = StorageAt(v, D, NoTries, a)
    BY <1>3 DEF StorageAt, ContentOrNone, NoTries
  <2> QED BY <2>1 DEF AccountAt, FieldsAt
<1> QED BY <1>5, <1>6 DEF LedgerOf

(* The database of the rows B: every row holds its last element.           *)
RowsOf(B) == [r \in B |-> Last(r)]

(* A change that is applied makes the rows that were foreseen.             *)
LEMMA RowsAfterChange ==
    ASSUME NEW B, NEW ins, NEW del, ChangeOK(ins, del)
    PROVE  InsertThenDelete(RowsOf(B), ins, del) = RowsOf(After(B, ins, del))
<1> DEFINE db == RowsOf(B)
           new == InsertThenDelete(db, ins, del)
<1>1. DOMAIN db = B /\ db = [r \in DOMAIN db |-> Last(r)]
  BY DEF RowsOf
<1>2. new \in Applied(db, ins, del)
  BY DEF Applied
<1> HIDE DEF db, new
<1>3. DOMAIN new = After(DOMAIN db, ins, del) /\ new = [r \in DOMAIN new |-> Last(r)]
  BY <1>1, <1>2, AppliedRows
<1>4. new = RowsOf(After(B, ins, del))
  BY <1>1, <1>3 DEF RowsOf
<1> QED BY <1>4 DEF new, db

(* The databases after each of the changes are those of the chain.         *)
Replays(f, db, ch) ==
    f = [j \in 0 .. Len(ch) |-> IF j = 0 THEN db
                                ELSE InsertThenDelete(f[j - 1], ch[j].inserts, ch[j].deletes)]

(* The databases of the chain are a replay of the changes.                 *)
LEMMA ReplayExists ==
    ASSUME NEW c, NEW db, NEW h, NEW ch, World(c, db, h, ch)
    PROVE  Replays([j \in 0 .. Len(ch) |-> RowsOf(c[j])], db, ch)
<1> DEFINE f == [j \in 0 .. Len(ch) |-> RowsOf(c[j])]
<1>1. /\ db = [r \in DOMAIN db |-> Last(r)]
      /\ Chain(c, db, ch) /\ ChangesOK(c, ch) /\ Len(ch) \in Nat
  BY RowsAreParted DEF World
<1>2. ASSUME NEW j \in 0 .. Len(ch)
      PROVE  f[j] = IF j = 0 THEN db
                    ELSE InsertThenDelete(f[j - 1], ch[j].inserts, ch[j].deletes)
  <2>1. CASE j = 0
    <3>1. RowsOf(c[0]) = db
      BY <1>1 DEF RowsOf, Chain
    <3> QED BY <1>1, <2>1, <3>1
  <2>2. CASE j # 0
    <3> DEFINE ins == ch[j].inserts
               del == ch[j].deletes
    <3>1. j \in 1 .. Len(ch) /\ j - 1 \in 0 .. Len(ch)
      BY <1>1, <2>2
    <3>2. c[j] = After(c[j - 1], ins, del) /\ ChangeOK(ins, del)
      BY <1>1, <3>1 DEF Chain, ChangesOK
    <3>3. f[j] = RowsOf(c[j]) /\ f[j - 1] = RowsOf(c[j - 1])
      BY <3>1
    <3> HIDE DEF ins, del, f
    <3>4. f[j] = InsertThenDelete(f[j - 1], ins, del)
      BY <3>2, <3>3, RowsAfterChange
    <3> QED BY <2>2, <3>4 DEF ins, del
  <2> QED BY <2>1, <2>2
<1>3. f = [j \in 0 .. Len(ch) |-> f[j]]
  OBVIOUS
<1> HIDE DEF f
<1>4. Replays(f, db, ch)
  BY <1>2, <1>3 DEF Replays
<1> QED BY <1>4 DEF f

(* There is one replay.                                                    *)
LEMMA ReplayIsUnique ==
    ASSUME NEW db, NEW ch, Len(ch) \in Nat,
           NEW f, Replays(f, db, ch), NEW g, Replays(g, db, ch)
    PROVE  \A j \in 0 .. Len(ch) : f[j] = g[j]
<1> DEFINE S == {j \in 0 .. Len(ch) : f[j] # g[j]}
<1> SUFFICES ASSUME S # {} PROVE FALSE
  OBVIOUS
<1>0. S \subseteq Nat
  OBVIOUS
<1> HIDE DEF S
<1>1. PICK i \in S : \A j \in S : ~(j < i)
  BY <1>0, SmallestNumber
<1>2. i \in 0 .. Len(ch) /\ f[i] # g[i]
  BY <1>1 DEF S
<1>3. /\ \A j \in 0 .. Len(ch) : f[j] = IF j = 0 THEN db
             ELSE InsertThenDelete(f[j - 1], ch[j].inserts, ch[j].deletes)
      /\ \A j \in 0 .. Len(ch) : g[j] = IF j = 0 THEN db
             ELSE InsertThenDelete(g[j - 1], ch[j].inserts, ch[j].deletes)
  BY DEF Replays
<1>4. i # 0
  BY <1>2, <1>3
<1>5. i - 1 \in 0 .. Len(ch) /\ i - 1 < i
  BY <1>2, <1>4
<1>6. f[i - 1] = g[i - 1]
  BY <1>1, <1>5 DEF S
<1> QED BY <1>2, <1>3, <1>4, <1>6

(* The model's replay is the chain.                                        *)
LEMMA StoragesAfterAreChain ==
    ASSUME NEW c, World(c, storage, head, changes)
    PROVE  \A j \in 0 .. Len(changes) : StoragesAfter[j] = RowsOf(c[j])
<1> DEFINE f == [j \in 0 .. Len(changes) |-> RowsOf(c[j])]
           s == CHOOSE g : Replays(g, storage, changes)
<1>1. Replays(f, storage, changes)
  BY ReplayExists
<1>2. Replays(s, storage, changes)
  <2> HIDE DEF f
  <2> QED BY <1>1
<1>3. StoragesAfter = s
  BY DEF StoragesAfter, Replays
<1>4. Len(changes) \in Nat
  BY RowsAreParted
<1>5. \A j \in 0 .. Len(changes) : f[j] = RowsOf(c[j])
  OBVIOUS
<1> HIDE DEF f, s
<1>6. \A j \in 0 .. Len(changes) : f[j] = s[j]
  BY ONLY <1>1, <1>2, <1>4, ReplayIsUnique
<1> QED BY <1>3, <1>5, <1>6

-----------------------------------------------------------------------------
(* The ledgers of a state of the invariant. *)

(* The durable, the handed and the working ledger.                         *)
LEMMA InvariantMaps == IInv => Mapped
<1> SUFFICES ASSUME IInv PROVE Mapped
  OBVIOUS
<1>1. PICK c : World(c, storage, head, changes) /\ SessionOK(ws, c, Len(changes))
  BY DEF IInv
<1>2. /\ storage = [r \in DOMAIN storage |-> Last(r)]
      /\ Chain(c, storage, changes) /\ ChangesOK(c, changes) /\ HeadOK(c[0], head)
      /\ Len(changes) \in Nat
  BY <1>1, RowsAreParted DEF World
<1>3. DurableLedger = HeadLedger(head)
  <2>1. CASE head = NoState
    BY <2>1 DEF DurableLedger, HeadLedger
  <2>2. CASE head # NoState
    <3> DEFINE v == head.version
               D == head.root
    <3>1. IsState(DOMAIN storage, v, D)
      BY <1>2, <2>2 DEF Chain, HeadOK
    <3>2. \A r \in DOMAIN storage : storage[r] = Last(r)
      <4>1. \A r \in DOMAIN storage : [q \in DOMAIN storage |-> Last(q)][r] = Last(r)
        OBVIOUS
      <4> QED BY <1>2, <4>1
    <3> HIDE DEF v, D
    <3>3. ReadLedger(storage, v, D) = LedgerOf(v, D, NoTries)
      BY <3>1, <3>2, StateIsRead
    <3> QED BY <2>2, <3>3 DEF DurableLedger, HeadLedger, v, D
  <2> QED BY <2>1, <2>2
<1>4. HandedLedgers = LedgersOf(changes)
  <2>1. ASSUME NEW j \in 1 .. Len(changes)
        PROVE  ReadLedger(StoragesAfter[j], changes[j].version, changes[j].root)
                   = LedgerOf(changes[j].version, changes[j].root, NoTries)
    <3> DEFINE v == changes[j].version
               D == changes[j].root
               db == RowsOf(c[j])
    <3>1. j \in 0 .. Len(changes)
      BY <1>2
    <3>2. StoragesAfter[j] = db
      BY <1>1, <3>1, StoragesAfterAreChain
    <3>3. DOMAIN db = c[j] /\ \A r \in DOMAIN db : db[r] = Last(r)
      BY DEF RowsOf
    <3>4. IsState(c[j], v, D)
      BY <1>2 DEF ChangesOK
    <3> HIDE DEF v, D, db
    <3>5. ReadLedger(db, v, D) = LedgerOf(v, D, NoTries)
      BY <3>3, <3>4, StateIsRead
    <3> QED BY <3>2, <3>5 DEF v, D
  <2> QED BY <2>1 DEF HandedLedgers, LedgersOf
<1>5. WorkingLedger = SessionLedger(ws)
  <2>1. CASE ws = NoSession
    BY <2>1 DEF WorkingLedger, SessionLedger, Alive
  <2>2. CASE ws # NoSession
    <3>1. PICK v, t, D, m : /\ ws = [version |-> v, accounts |-> t, map |-> m]
                            /\ Session(v, t, D, m, c[Len(changes)])
      BY <1>1, <2>2 DEF SessionOK
    <3>2. ws.version = v /\ ws.accounts = t /\ ws.map = m
      BY <3>1
    <3>3. t.root = D /\ \A a : GetField(t, a, StorageHash) = HashAt(v, D, a)
      <4>1. t.root = D /\ t.db.version = v
        BY <3>1, TrieParts DEF Session
      <4> QED BY <4>1 DEF GetField, MptGet, HashAt
    <3> DEFINE hash(a) == GetField(t, a, StorageHash)
               content(a) == IF a \in DOMAIN m THEN StorageContent(v, m[a].root)
                             ELSE IF hash(a) = None THEN None ELSE StorageContent(v, hash(a))
    <3>4. WorkingLedger =
              [version |-> v,
               accounts |-> [a \in Address |->
                  [fields |-> [f \in Field |-> Lookup(D, AccountKey(v, a, f))],
                   storage |-> content(a)]]]
      BY <2>2, <3>2, <3>3 DEF WorkingLedger, Ledger, Alive
    <3>5. ASSUME NEW a \in Address
          PROVE  [fields |-> [f \in Field |-> Lookup(D, AccountKey(v, a, f))],
                  storage |-> content(a)] = AccountAt(v, D, m, a)
      <4>1. content(a) = StorageAt(v, D, m, a)
        BY <3>3 DEF StorageAt, ContentOrNone
      <4> QED BY <4>1 DEF AccountAt, FieldsAt
    <3>6. WorkingLedger = LedgerOf(v, D, m)
      BY <3>4, <3>5 DEF LedgerOf
    <3> QED BY <2>2, <3>2, <3>3, <3>6 DEF SessionLedger
  <2> QED BY <2>1, <2>2
<1> QED BY <1>3, <1>4, <1>5 DEF Mapped

-----------------------------------------------------------------------------
(* What an operation leaves of a trie's content, as a caller sees it. *)

(* The root after each operation of a trie.                                *)
LEMMA RootsAfter ==
    ASSUME NEW t
    PROVE  /\ \A new : Commit(t, new).root = new
           /\ \A data : MptBatchSet(t, data).root = WithAll(t.root, data)
           /\ \A keys : MptBatchRemove(t, keys).root = WithoutAll(t.root, keys)
           /\ \A db : DeinitAndUpgrade(t, db).root = NoContent
<1>1. \A new : Commit(t, new).root = new
  BY DEF Commit
<1>2. \A data : MptBatchSet(t, data).root = WithAll(t.root, data)
  BY <1>1 DEF MptBatchSet
<1>3. \A keys : MptBatchRemove(t, keys).root = WithoutAll(t.root, keys)
  BY <1>1 DEF MptBatchRemove
<1>4. \A db : DeinitAndUpgrade(t, db).root = NoContent
  BY DEF DeinitAndUpgrade
<1> QED BY <1>1, <1>2, <1>3, <1>4

(* What a caller sees of the content of a storage.                         *)
LEMMA ContentSeen ==
    ASSUME NEW v \in Version, NEW C
    PROVE  /\ DOMAIN StorageContent(v, C) = {k \in StorageKeys : StorageKey(v, k) \in DOMAIN C}
           /\ \A k \in DOMAIN StorageContent(v, C) :
                  StorageContent(v, C)[k] = C[StorageKey(v, k)]
           /\ StorageContent(v, C) = [k \in DOMAIN StorageContent(v, C) |-> StorageContent(v, C)[k]]
BY DEF StorageContent

(* It is not None.                                                         *)
LEMMA ContentIsSomething ==
    ASSUME NEW v \in Version, NEW C \in StorageContents(v)
    PROVE  StorageContent(v, C) # None
<1> DEFINE x == StorageContent(v, C)
<1>1. \A k \in DOMAIN C : C[k] \in StorageValue \ {Empty}
  BY StorageContentsShape
<1>2. /\ DOMAIN x \subseteq StorageKeys
      /\ \A k \in DOMAIN x : x[k] \in StorageValue
      /\ x = [k \in DOMAIN x |-> x[k]]
  BY <1>1 DEF StorageContent
<1> HIDE DEF x
<1>3. DOMAIN x \in SUBSET StorageKeys /\ x \in [DOMAIN x -> StorageValue]
  BY <1>2
<1> QED BY <1>3, NoneIsNoStorage DEF x

(* An empty storage.                                                       *)
LEMMA NothingSeen ==
    ASSUME NEW v \in Version
    PROVE  StorageContent(v, NoContent) = [k \in {} |-> None]
<1> DEFINE x == StorageContent(v, NoContent)
<1>1. DOMAIN x = {} /\ x = [k \in DOMAIN x |-> x[k]]
  BY DEF StorageContent, NoContent, EmptyRows
<1> HIDE DEF x
<1> QED BY <1>1 DEF x

(* `batch_set'.                                                            *)
SeenAfterWrite(old, data) ==
    LET erased == {k \in DOMAIN data : data[k] = Empty}
    IN  [k \in (DOMAIN old \cup DOMAIN data) \ erased |->
            IF k \in DOMAIN data THEN data[k] ELSE old[k]]

(* The keys of the storage change as the data says.                        *)
LEMMA ContentSeenAfterWrite ==
    ASSUME NEW v \in Version, NEW C, NEW data, DOMAIN data \subseteq StorageKeys
    PROVE  StorageContent(v, WithAll(C, TrieData(v, data)))
               = SeenAfterWrite(StorageContent(v, C), data)
<1> DEFINE T == TrieData(v, data)
           W == WithAll(C, T)
           old == StorageContent(v, C)
           new == StorageContent(v, W)
           want == SeenAfterWrite(old, data)
<1>1. \A x, y : StorageKey(v, x) = StorageKey(v, y) => x = y
  BY StorageKeyParts
<1>2. /\ \A k : StorageKey(v, k) \in DOMAIN T <=> k \in DOMAIN data
      /\ \A k \in DOMAIN data : T[StorageKey(v, k)] = data[k]
  <2>1. DOMAIN T = {StorageKey(v, k) : k \in DOMAIN data}
    BY DEF TrieData
  <2>2. ASSUME NEW k \in DOMAIN data PROVE T[StorageKey(v, k)] = data[k]
    <3> DEFINE j == CHOOSE j \in DOMAIN data : StorageKey(v, j) = StorageKey(v, k)
    <3>1. j = k
      BY <1>1
    <3>2. T[StorageKey(v, k)] = data[j]
      BY DEF TrieData
    <3> QED BY <3>1, <3>2
  <2> QED BY <1>1, <2>1, <2>2
<1> HIDE DEF T
<1>3. /\ \A x : x \in DOMAIN W <=> (x \in DOMAIN C \/ x \in DOMAIN T)
                                    /\ ~(x \in DOMAIN T /\ T[x] = Empty)
      /\ \A x \in DOMAIN W : W[x] = IF x \in DOMAIN T THEN T[x] ELSE C[x]
  BY DEF WithAll, Extend, Without
<1>4. /\ \A k : k \in DOMAIN old <=> k \in StorageKeys /\ StorageKey(v, k) \in DOMAIN C
      /\ \A k \in DOMAIN old : old[k] = C[StorageKey(v, k)]
      /\ \A k : k \in DOMAIN new <=> k \in StorageKeys /\ StorageKey(v, k) \in DOMAIN W
      /\ \A k \in DOMAIN new : new[k] = W[StorageKey(v, k)]
      /\ new = [k \in DOMAIN new |-> new[k]]
  <2> HIDE DEF W
  <2>1. /\ DOMAIN old = {k \in StorageKeys : StorageKey(v, k) \in DOMAIN C}
        /\ \A k \in DOMAIN old : old[k] = C[StorageKey(v, k)]
    BY ContentSeen
  <2>2. /\ DOMAIN new = {k \in StorageKeys : StorageKey(v, k) \in DOMAIN W}
        /\ \A k \in DOMAIN new : new[k] = W[StorageKey(v, k)]
        /\ new = [k \in DOMAIN new |-> new[k]]
    BY ContentSeen
  <2> HIDE DEF old, new
  <2> QED BY <2>1, <2>2
<1>5. /\ \A k : k \in DOMAIN want <=> (k \in DOMAIN old \/ k \in DOMAIN data)
                                       /\ ~(k \in DOMAIN data /\ data[k] = Empty)
      /\ \A k \in DOMAIN want : want[k] = IF k \in DOMAIN data THEN data[k] ELSE old[k]
      /\ want = [k \in DOMAIN want |-> want[k]]
  <2> HIDE DEF old
  <2> QED BY DEF SeenAfterWrite
<1> HIDE DEF W, old, new, want
<1>6. \A k : k \in DOMAIN new <=> k \in DOMAIN want
  BY <1>2, <1>3, <1>4, <1>5
<1>7. \A k \in DOMAIN new : new[k] = want[k]
  BY <1>2, <1>3, <1>4, <1>5, <1>6
<1>8. new = want
  BY <1>4, <1>5, <1>6, <1>7
<1> QED BY <1>8 DEF new, want, old, W, T

(* `remove' and `remove_trie'.                                             *)
SeenAfterErase(old, keys) == [k \in DOMAIN old \ keys |-> old[k]]

(* The keys erased are gone, the others stay.                              *)
LEMMA ContentSeenAfterErase ==
    ASSUME NEW v \in Version, NEW C, NEW keys, NEW S,
           \A k \in StorageKeys : StorageKey(v, k) \in S <=> k \in keys
    PROVE  StorageContent(v, WithoutAll(C, S)) = SeenAfterErase(StorageContent(v, C), keys)
<1> DEFINE W == WithoutAll(C, S)
           old == StorageContent(v, C)
           new == StorageContent(v, W)
           want == SeenAfterErase(old, keys)
<1>1. DOMAIN W = DOMAIN C \ S /\ \A x \in DOMAIN W : W[x] = C[x]
  BY DEF WithoutAll, Without
<1>2. /\ \A k : k \in DOMAIN old <=> k \in StorageKeys /\ StorageKey(v, k) \in DOMAIN C
      /\ \A k \in DOMAIN old : old[k] = C[StorageKey(v, k)]
      /\ \A k : k \in DOMAIN new <=> k \in StorageKeys /\ StorageKey(v, k) \in DOMAIN W
      /\ \A k \in DOMAIN new : new[k] = W[StorageKey(v, k)]
      /\ new = [k \in DOMAIN new |-> new[k]]
  <2> HIDE DEF W
  <2> QED BY ContentSeen
<1>3. /\ DOMAIN want = DOMAIN old \ keys /\ \A k \in DOMAIN want : want[k] = old[k]
      /\ want = [k \in DOMAIN want |-> want[k]]
  <2> HIDE DEF old
  <2> QED BY DEF SeenAfterErase
<1> HIDE DEF W, old, new, want
<1>4. \A k : k \in DOMAIN new <=> k \in DOMAIN want
  BY <1>1, <1>2, <1>3
<1>5. \A k \in DOMAIN new : new[k] = want[k]
  BY <1>1, <1>2, <1>3, <1>4
<1>6. new = want
  BY <1>2, <1>3, <1>4, <1>5
<1> QED BY <1>6 DEF new, want, old, W

(* `upgrade' of a storage keeps what a caller sees.                        *)
LEMMA ContentSeenAfterUpgrade ==
    ASSUME NEW C \in StorageContents(V1)
    PROVE  StorageContent(V2, WithAll(NoContent, UpgradedData(C))) = StorageContent(V1, C)
<1> DEFINE new(k) == StorageKey(V2, DropVisibility(k))
           data == UpgradedData(C)
           after == WithAll(NoContent, data)
           old == StorageContent(V1, C)
           seen == StorageContent(V2, after)
<1>0. V1 \in Version /\ V2 \in Version
  BY DEF Version
<1>1. /\ DOMAIN C \subseteq {StorageKey(V1, k) : k \in StorageKeys}
      /\ \A x \in DOMAIN C : C[x] \in StorageValue \ {Empty}
  BY StorageContentsShape
<1>2. /\ \A x : DropVisibility(StorageKey(V1, x)) = x
      /\ \A x, y : StorageKey(V2, x) = StorageKey(V2, y) => x = y
  BY <1>0, StorageKeyParts
<1>3. /\ DOMAIN data = {new(k) : k \in DOMAIN C}
      /\ \A n \in DOMAIN data : data[n] = C[CHOOSE k \in DOMAIN C : new(k) = n]
  BY DEF UpgradedData
<1>4. ASSUME NEW k \in StorageKeys
      PROVE  /\ StorageKey(V2, k) \in DOMAIN data <=> StorageKey(V1, k) \in DOMAIN C
             /\ StorageKey(V2, k) \in DOMAIN data =>
                    data[StorageKey(V2, k)] = C[StorageKey(V1, k)]
  <2>1. \A x \in DOMAIN C : new(x) = StorageKey(V2, k) <=> x = StorageKey(V1, k)
    BY <1>1, <1>2
  <2>2. StorageKey(V2, k) \in DOMAIN data <=> StorageKey(V1, k) \in DOMAIN C
    BY <1>3, <2>1
  <2>3. ASSUME StorageKey(V2, k) \in DOMAIN data
        PROVE  data[StorageKey(V2, k)] = C[StorageKey(V1, k)]
    <3> DEFINE x == CHOOSE x \in DOMAIN C : new(x) = StorageKey(V2, k)
    <3>1. x \in DOMAIN C /\ new(x) = StorageKey(V2, k)
      BY <2>1, <2>2, <2>3
    <3>2. x = StorageKey(V1, k)
      BY <2>1, <3>1
    <3>3. data[StorageKey(V2, k)] = C[x]
      BY <1>3, <2>3
    <3> QED BY <3>2, <3>3
  <2> QED BY <2>2, <2>3
<1>5. \A n \in DOMAIN data : data[n] # Empty
  <2>1. \A n \in DOMAIN data : \E x \in DOMAIN C : data[n] = C[x]
    BY <1>3
  <2> QED BY <1>1, <2>1
<1> HIDE DEF data
<1>6. DOMAIN after = DOMAIN data /\ \A n \in DOMAIN data : after[n] = data[n]
  BY <1>5 DEF WithAll, Extend, Without, NoContent, EmptyRows
<1> HIDE DEF after
<1>7. /\ \A k : k \in DOMAIN old <=> k \in StorageKeys /\ StorageKey(V1, k) \in DOMAIN C
      /\ \A k \in DOMAIN old : old[k] = C[StorageKey(V1, k)]
      /\ old = [k \in DOMAIN old |-> old[k]]
      /\ \A k : k \in DOMAIN seen <=> k \in StorageKeys /\ StorageKey(V2, k) \in DOMAIN after
      /\ \A k \in DOMAIN seen : seen[k] = after[StorageKey(V2, k)]
      /\ seen = [k \in DOMAIN seen |-> seen[k]]
  <2>1. /\ DOMAIN old = {k \in StorageKeys : StorageKey(V1, k) \in DOMAIN C}
        /\ \A k \in DOMAIN old : old[k] = C[StorageKey(V1, k)]
        /\ old = [k \in DOMAIN old |-> old[k]]
    BY <1>0, ContentSeen
  <2>2. /\ DOMAIN seen = {k \in StorageKeys : StorageKey(V2, k) \in DOMAIN after}
        /\ \A k \in DOMAIN seen : seen[k] = after[StorageKey(V2, k)]
        /\ seen = [k \in DOMAIN seen |-> seen[k]]
    BY <1>0, ContentSeen
  <2> HIDE DEF old, seen
  <2> QED BY <2>1, <2>2
<1> HIDE DEF old, seen
<1>8. \A k : k \in DOMAIN seen <=> k \in DOMAIN old
  BY <1>4, <1>6, <1>7
<1>9. \A k \in DOMAIN seen : seen[k] = old[k]
  BY <1>4, <1>6, <1>7, <1>8
<1>10. seen = old
  BY <1>7, <1>8, <1>9
<1> QED BY <1>10 DEF seen, old, after, data

(* The same of the trie that is upgraded, empty or not.                    *)
LEMMA StorageSeenAfterUpgrade ==
    ASSUME NEW t, NEW C \in StorageContents(V1), t.root = C, NEW db
    PROVE  StorageContent(V2, StorageUpgrade(t, db).root) = StorageContent(V1, C)
<1>0. V1 \in Version /\ V2 \in Version
  BY DEF Version
<1>1. CASE C = NoContent
  <2>1. StorageUpgrade(t, db).root = NoContent
    BY <1>1, RootsAfter DEF StorageUpgrade
  <2> QED BY <1>0, <1>1, <2>1, NothingSeen
<1>2. CASE C # NoContent
  <2> DEFINE moved == DeinitAndUpgrade(RemoveTrie(t), db)
             data == UpgradedData(C)
  <2>1. StorageUpgrade(t, db) = MptBatchSet(moved, data)
    BY <1>2 DEF StorageUpgrade
  <2>2. moved.root = NoContent
    BY RootsAfter
  <2> HIDE DEF moved, data
  <2>3. MptBatchSet(moved, data).root = WithAll(NoContent, data)
    BY <2>2, RootsAfter
  <2> QED BY <2>1, <2>3, ContentSeenAfterUpgrade DEF data
<1> QED BY <1>1, <1>2

(* `upgrade' of the accounts carries over the fields that say something.   *)
LEMMA FieldsAfterUpgrade ==
    ASSUME NEW D, AccountContent(V1, D), NEW a \in Address, NEW f \in Field
    PROVE  LET after == WithAll(NoContent, UpgradedFields(D))
               old == Lookup(D, AccountKey(V1, a, f))
           IN  Lookup(after, AccountKey(V2, a, f))
                   = IF old # None /\ IsKept(f, old) THEN old ELSE None
<1> DEFINE kept == {k \in DOMAIN D : IsKept(FieldOf(V1, k), D[k])}
           new(k) == AccountKey(V2, AccountAddress(k), FieldOf(V1, k))
           data == UpgradedFields(D)
           after == WithAll(NoContent, data)
           key1 == AccountKey(V1, a, f)
           key2 == AccountKey(V2, a, f)
<1>0. V1 \in Version /\ V2 \in Version
  BY DEF Version
<1>1. /\ DOMAIN data = {new(k) : k \in kept}
      /\ \A n \in DOMAIN data : data[n] = D[CHOOSE k \in kept : new(k) = n]
  BY DEF UpgradedFields
<1>2. \A k \in DOMAIN D : \E b \in Address, g \in Fields :
          k = AccountKey(V1, b, g) /\ AccountAddress(k) = b /\ FieldOf(V1, k) = g
             /\ D[k] \in FieldContents(V1, g)
  BY AccountKeyParts DEF AccountContent, AccountKeys, Fields, Version
<1>3. \A k \in DOMAIN D : D[k] # Empty /\ D[k] # None
  BY <1>0, <1>2, NoneIsNoContent
<1>4. \A k \in DOMAIN D : new(k) = key2 <=> k = key1
  <2>1. ASSUME NEW k \in DOMAIN D, new(k) = key2 PROVE k = key1
    <3>1. PICK b \in Address, g \in Fields :
              k = AccountKey(V1, b, g) /\ AccountAddress(k) = b /\ FieldOf(V1, k) = g
      BY <1>2
    <3>2. AccountKey(V2, b, g) = AccountKey(V2, a, f)
      BY <2>1, <3>1
    <3>3. b = a /\ g = f
      BY <1>0, <3>2, AccountKeyParts
    <3> QED BY <3>1, <3>3
  <2>2. new(key1) = key2
    <3>1. AccountAddress(key1) = a /\ FieldOf(V1, key1) = f
      BY <1>0, AccountKeyParts
    <3> HIDE DEF key1
    <3> QED BY <3>1
  <2> QED BY <2>1, <2>2
<1>5. FieldOf(V1, key1) = f
  BY <1>0, AccountKeyParts
<1>6. \A n \in DOMAIN data : data[n] # Empty
  <2> HIDE DEF new
  <2>1. \A n \in DOMAIN data : \E k \in kept : data[n] = D[k]
    BY <1>1
  <2> QED BY <1>3, <2>1
<1> HIDE DEF new, data, key1, key2
<1>7. DOMAIN after = DOMAIN data /\ \A n \in DOMAIN data : after[n] = data[n]
  BY <1>6 DEF WithAll, Extend, Without, NoContent, EmptyRows
<1>8. key2 \in DOMAIN data <=> key1 \in kept
  <2> HIDE DEF kept
  <2>1. \A k \in kept : k \in DOMAIN D
    BY DEF kept
  <2> QED BY <1>1, <1>4, <2>1
<1>9. ASSUME key2 \in DOMAIN data PROVE data[key2] = D[key1]
  <2> DEFINE k == CHOOSE k \in kept : new(k) = key2
  <2>1. k \in kept /\ new(k) = key2
    BY <1>1, <1>9
  <2>2. k = key1
    BY <1>4, <2>1
  <2> QED BY <1>1, <1>9, <2>2
<1>10. key1 \in kept <=> key1 \in DOMAIN D /\ IsKept(f, D[key1])
  BY <1>5
<1> HIDE DEF after, kept
<1>11. Lookup(after, key2)
           = IF Lookup(D, key1) # None /\ IsKept(f, Lookup(D, key1)) THEN Lookup(D, key1) ELSE None
  BY <1>3, <1>7, <1>8, <1>9, <1>10 DEF Lookup
<1> QED BY <1>11 DEF after, data, key1, key2

-----------------------------------------------------------------------------
(* Steps of a session change one account of its ledger. *)

(* A session that is there has a ledger.                                   *)
LEMMA SessionIsLedger ==
    ASSUME NEW v \in Version, NEW t, NEW D, t.root = D, NEW m,
           NEW s, s = [version |-> v, accounts |-> t, map |-> m]
    PROVE  SessionLedger(s) = LedgerOf(v, D, m)
<1>1. s # NoSession
  BY SessionIsThere
<1>2. s.version = v /\ s.accounts = t /\ s.map = m
  OBVIOUS
<1> QED BY <1>1, <1>2 DEF SessionLedger

(* Which is not the one of no session.                                     *)
LEMMA LedgerIsThere ==
    ASSUME NEW v \in Version, NEW D, NEW m
    PROVE  /\ LedgerOf(v, D, m) # NoLedger
           /\ LedgerOf(v, D, m).version = v
           /\ \A a \in Address : LedgerOf(v, D, m).accounts[a] = AccountAt(v, D, m, a)
<1>1. LedgerOf(v, D, m).version = v /\ NoLedger.version = Nothing
  BY DEF LedgerOf, NoLedger
<1>2. \A a \in Address : LedgerOf(v, D, m).accounts[a] = AccountAt(v, D, m, a)
  BY DEF LedgerOf
<1> QED BY <1>1, <1>2, NothingIsNoVersion

(* What an account reads from.                                             *)
LEMMA SameAccount ==
    ASSUME NEW v, NEW D, NEW m, NEW E, NEW n, NEW a,
           \A f \in Field : Lookup(E, AccountKey(v, a, f)) = Lookup(D, AccountKey(v, a, f)),
           StorageAt(v, E, n, a) = StorageAt(v, D, m, a)
    PROVE  AccountAt(v, E, n, a) = AccountAt(v, D, m, a)
<1>1. FieldsAt(v, E, a) = FieldsAt(v, D, a)
  BY DEF FieldsAt
<1> QED BY <1>1 DEF AccountAt

(* One account differs.                                                    *)
LEMMA LedgerChanges ==
    ASSUME NEW v, NEW D, NEW m, NEW E, NEW n, NEW a \in Address,
           \A b \in Address : b # a => AccountAt(v, E, n, b) = AccountAt(v, D, m, b)
    PROVE  LedgerOf(v, E, n) = [LedgerOf(v, D, m) EXCEPT !.accounts[a] = AccountAt(v, E, n, a)]
<1> DEFINE old == [b \in Address |-> AccountAt(v, D, m, b)]
           new == [b \in Address |-> AccountAt(v, E, n, b)]
<1>1. new = [old EXCEPT ![a] = AccountAt(v, E, n, a)]
  OBVIOUS
<1>2. LedgerOf(v, D, m) = [version |-> v, accounts |-> old]
      /\ LedgerOf(v, E, n) = [version |-> v, accounts |-> new]
  BY DEF LedgerOf
<1> HIDE DEF old, new
<1> QED BY <1>1, <1>2

(* The database and the changes that wait stay.                            *)
LEMMA OthersStay ==
    ASSUME Mapped, Mapped', UNCHANGED <<head, changes>>
    PROVE  UNCHANGED <<DurableLedger, HandedLedgers>>
BY DEF Mapped

(* A step of the session that changes one account.                         *)
LEMMA ChangeRefines ==
    ASSUME Mapped, Mapped', UNCHANGED <<head, changes>>,
           NEW v \in Version, NEW D, NEW m, NEW E, NEW n, NEW a \in Address,
           SessionLedger(ws) = LedgerOf(v, D, m), SessionLedger(ws') = LedgerOf(v, E, n),
           \A b \in Address : b # a => AccountAt(v, E, n, b) = AccountAt(v, D, m, b)
    PROVE  /\ Promise!Change(a, AccountAt(v, E, n, a))
           /\ WorkingLedger # NoLedger
           /\ WorkingLedger.accounts[a] = AccountAt(v, D, m, a)
<1>1. WorkingLedger = LedgerOf(v, D, m) /\ WorkingLedger' = LedgerOf(v, E, n)
  BY DEF Mapped
<1>2. LedgerOf(v, E, n) = [LedgerOf(v, D, m) EXCEPT !.accounts[a] = AccountAt(v, E, n, a)]
  BY LedgerChanges
<1>3. UNCHANGED <<DurableLedger, HandedLedgers>>
  BY OthersStay
<1>4. LedgerOf(v, D, m) # NoLedger /\ LedgerOf(v, D, m).accounts[a] = AccountAt(v, D, m, a)
  BY LedgerIsThere
<1>5. Promise!Change(a, AccountAt(v, E, n, a))
  BY <1>1, <1>2, <1>3, <1>4 DEF Promise!Change
<1> QED BY <1>1, <1>4, <1>5

(* A setter sets the field.                                                *)
LEMMA SetAccountFieldRefines ==
    ASSUME IInv, Mapped, Mapped', NEW a \in Address, NEW f \in Field, NEW x \in FieldValue[f],
           SetAccountField(a, f, x)
    PROVE  Promise!SetField(a, f, x)
<1>1. PICK c, v, t, D, m : InSession(c, v, t, D, m)
  BY WhenAlive DEF SetAccountField
<1> DEFINE after == SetField(t, a, f, x)
           B == c[Len(changes)]
           E == WithAll(D, Single(AccountKey(v, a, f), x))
           y == IF x = Empty THEN None ELSE x
<1>2. /\ v \in Version /\ TrieOn(t, B, v, <<>>, D) /\ AccountContent(v, D)
      /\ ws = [version |-> v, accounts |-> t, map |-> m] /\ t.root = D
  BY <1>1, PartsOfSession DEF InSession, Session
<1>3. /\ UNCHANGED <<storage, head, changes>>
      /\ ws' = [version |-> v, accounts |-> after, map |-> m]
  <2>1. ws' = [ws EXCEPT !.accounts = SetField(ws.accounts, a, f, x)]
    BY DEF SetAccountField
  <2>2. ws = [version |-> v, accounts |-> t, map |-> m] /\ ws.accounts = t
    BY <1>2
  <2> QED BY <2>1, <2>2, SessionChanged DEF SetAccountField
<1>4. f \in Fields /\ f # StorageHash /\ (x = Empty \/ x \in FieldContents(v, f))
  BY SymbolFacts DEF Fields, FieldContents
<1> HIDE DEF B, after
<1>5. after.root = E
  <2> HIDE DEF E
  <2>1. TrieOn(after, B, v, <<>>, E)
    BY <1>2, <1>4, SetFieldKeeps DEF after, E
  <2> QED BY <2>1, TrieParts
<1>6. /\ \A b \in Address, g \in Fields : b # a \/ g # f =>
             Lookup(E, AccountKey(v, b, g)) = Lookup(D, AccountKey(v, b, g))
      /\ Lookup(E, AccountKey(v, a, f)) = y
  BY <1>2, <1>4, ContentAfterSet
<1> HIDE DEF E
<1>7. \A b \in Address : StorageAt(v, E, m, b) = StorageAt(v, D, m, b)
  <2>1. \A b \in Address : HashAt(v, E, b) = HashAt(v, D, b)
    BY <1>4, <1>6 DEF HashAt, Fields
  <2> QED BY <2>1 DEF StorageAt
<1>8. \A b \in Address : b # a => AccountAt(v, E, m, b) = AccountAt(v, D, m, b)
  BY <1>6, <1>7, SameAccount DEF Fields
<1>9. SessionLedger(ws) = LedgerOf(v, D, m) /\ SessionLedger(ws') = LedgerOf(v, E, m)
  BY <1>2, <1>3, <1>5, SessionIsLedger
<1>10. /\ Promise!Change(a, AccountAt(v, E, m, a))
       /\ WorkingLedger.accounts[a] = AccountAt(v, D, m, a)
  BY <1>2, <1>3, <1>8, <1>9, ChangeRefines
<1>11. AccountAt(v, E, m, a) = [AccountAt(v, D, m, a) EXCEPT !.fields[f] = y]
  <2> DEFINE old == FieldsAt(v, D, a)
             new == FieldsAt(v, E, a)
             st == StorageAt(v, D, m, a)
  <2>1. new = [old EXCEPT ![f] = y]
    BY <1>6 DEF FieldsAt, Fields
  <2>2. AccountAt(v, D, m, a) = [fields |-> old, storage |-> st]
        /\ AccountAt(v, E, m, a) = [fields |-> new, storage |-> st]
    BY <1>7 DEF AccountAt
  <2> HIDE DEF old, new, st, y
  <2> QED BY <2>1, <2>2
<1> QED BY <1>10, <1>11 DEF Promise!SetField

(* A map with another trie for a.                                          *)
LEMMA MapWithParts ==
    ASSUME NEW v, NEW D, NEW E, NEW m, NEW a, NEW trie
    PROVE  /\ StorageAt(v, E, MapWith(m, a, trie), a) = StorageContent(v, trie.root)
           /\ \A b : b # a /\ HashAt(v, E, b) = HashAt(v, D, b) =>
                  StorageAt(v, E, MapWith(m, a, trie), b) = StorageAt(v, D, m, b)
<1> DEFINE n == MapWith(m, a, trie)
<1>1. /\ DOMAIN n = DOMAIN m \cup {a} /\ n[a] = trie
      /\ \A b \in DOMAIN m : b # a => n[b] = m[b]
  BY DEF MapWith
<1> HIDE DEF n
<1>2. StorageAt(v, E, n, a) = StorageContent(v, trie.root)
  BY <1>1 DEF StorageAt
<1>3. \A b : b # a /\ HashAt(v, E, b) = HashAt(v, D, b) =>
          StorageAt(v, E, n, b) = StorageAt(v, D, m, b)
  BY <1>1 DEF StorageAt
<1> QED BY <1>2, <1>3 DEF n

(* A storage that is opened is the one on record: nothing changes.         *)
LEMMA OpenStorageRefines ==
    ASSUME IInv, Mapped, Mapped', NEW a \in Address, OpenStorage(a)
    PROVE  UNCHANGED <<DurableLedger, WorkingLedger, HandedLedgers>>
<1>1. PICK c, v, t, D, m : InSession(c, v, t, D, m)
  BY WhenAlive DEF OpenStorage
<1> DEFINE hash == HashAt(v, D, a)
           trie == StorageOpen(v, a, hash)
           n == MapWith(m, a, trie)
<1>2. /\ ws = [version |-> v, accounts |-> t, map |-> m] /\ v \in Version
      /\ ws.version = v /\ ws.accounts = t /\ ws.map = m /\ t.root = D
      /\ m = [b \in DOMAIN m |-> m[b]]
      /\ GetField(t, a, StorageHash) = hash
  BY <1>1, PartsOfSession DEF InSession, Session
<1>3. /\ a \notin DOMAIN m /\ hash # None
      /\ UNCHANGED <<storage, head, changes>>
      /\ ws' = [ws EXCEPT !.map = With(m, a, trie)]
  BY <1>2 DEF OpenStorage
<1>4. trie.root = hash
  BY DEF StorageOpen, MptOpen
<1> HIDE DEF trie, hash
<1>5. With(m, a, trie) = n
  BY <1>2, MapChanges
<1>6. ws' = [version |-> v, accounts |-> t, map |-> n]
  BY <1>2, <1>3, <1>5, SessionChanged
<1>7. \A b : StorageAt(v, D, n, b) = StorageAt(v, D, m, b)
  <2>1. StorageAt(v, D, n, a) = StorageContent(v, hash)
    BY <1>4, MapWithParts
  <2>2. StorageAt(v, D, m, a) = StorageContent(v, hash)
    BY <1>3 DEF StorageAt, ContentOrNone, hash
  <2> QED BY <2>1, <2>2, MapWithParts
<1> HIDE DEF n
<1>8. LedgerOf(v, D, n) = LedgerOf(v, D, m)
  <2>1. \A b : AccountAt(v, D, n, b) = AccountAt(v, D, m, b)
    BY <1>7 DEF AccountAt
  <2> QED BY <2>1 DEF LedgerOf
<1>9. SessionLedger(ws) = LedgerOf(v, D, m) /\ SessionLedger(ws') = LedgerOf(v, D, n)
  BY <1>2, <1>6, SessionIsLedger
<1>10. UNCHANGED WorkingLedger
  BY <1>8, <1>9 DEF Mapped
<1> QED BY <1>3, <1>10, OthersStay

(* A storage that is created is empty.                                     *)
LEMMA CreateStorageRefines ==
    ASSUME IInv, Mapped, Mapped', NEW a \in Address, CreateStorage(a)
    PROVE  Promise!CreateStorage(a)
<1>1. PICK c, v, t, D, m : InSession(c, v, t, D, m)
  BY WhenAlive DEF CreateStorage
<1> DEFINE B == c[Len(changes)]
           trie == StorageNew(v, a)
           after == SetField(t, a, StorageHash, NoContent)
           E == WithAll(D, Single(AccountKey(v, a, StorageHash), NoContent))
           n == MapWith(m, a, trie)
<1>2. /\ ws = [version |-> v, accounts |-> t, map |-> m] /\ v \in Version
      /\ ws.version = v /\ ws.accounts = t /\ ws.map = m /\ t.root = D
      /\ m = [b \in DOMAIN m |-> m[b]]
      /\ TrieOn(t, B, v, <<>>, D) /\ AccountContent(v, D)
      /\ GetField(t, a, StorageHash) = HashAt(v, D, a)
  BY <1>1, PartsOfSession DEF InSession, Session
<1>3. trie.root = NoContent
  BY DEF StorageNew, MptNew
<1>4. /\ a \notin DOMAIN m /\ HashAt(v, D, a) = None
      /\ UNCHANGED <<storage, head, changes>>
      /\ ws' = [ws EXCEPT !.accounts = after, !.map = With(m, a, trie)]
  BY <1>2, <1>3 DEF CreateStorage
<1> HIDE DEF trie, after, B
<1>5. With(m, a, trie) = n
  BY <1>2, MapChanges
<1>6. ws' = [version |-> v, accounts |-> after, map |-> n]
  BY <1>2, <1>4, <1>5, SessionChanged
<1>7. /\ StorageHash \in Fields /\ NoContent \in FieldContents(v, StorageHash)
      /\ StorageHash \notin Field
  BY <1>2, NoneIsNoContent, SymbolFacts DEF Fields, FieldContents
<1>8. after.root = E
  <2> HIDE DEF E
  <2>1. TrieOn(after, B, v, <<>>, E)
    BY <1>2, <1>7, SetFieldKeeps DEF after, E
  <2> QED BY <2>1, TrieParts
<1>9. \A b \in Address, g \in Fields : b # a \/ g # StorageHash =>
          Lookup(E, AccountKey(v, b, g)) = Lookup(D, AccountKey(v, b, g))
  BY <1>2, <1>7, ContentAfterSet
<1> HIDE DEF E
<1>10. \A b \in Address, f \in Field :
           Lookup(E, AccountKey(v, b, f)) = Lookup(D, AccountKey(v, b, f))
  BY <1>7, <1>9 DEF Fields
<1>11. \A b \in Address : b # a => StorageAt(v, E, n, b) = StorageAt(v, D, m, b)
  <2>1. \A b \in Address : b # a => HashAt(v, E, b) = HashAt(v, D, b)
    BY <1>7, <1>9 DEF HashAt
  <2> QED BY ONLY <2>1, MapWithParts
<1>12. StorageAt(v, E, n, a) = [k \in {} |-> None] /\ StorageAt(v, D, m, a) = None
  <2>1. StorageAt(v, E, n, a) = StorageContent(v, NoContent)
    BY <1>3, MapWithParts
  <2> HIDE DEF n
  <2> QED BY <1>2, <1>4, <2>1, NothingSeen DEF StorageAt, ContentOrNone
<1> HIDE DEF n
<1>13. \A b \in Address : b # a => AccountAt(v, E, n, b) = AccountAt(v, D, m, b)
  BY <1>10, <1>11, SameAccount
<1>14. SessionLedger(ws) = LedgerOf(v, D, m) /\ SessionLedger(ws') = LedgerOf(v, E, n)
  BY <1>2, <1>6, <1>8, SessionIsLedger
<1>15. /\ Promise!Change(a, AccountAt(v, E, n, a))
       /\ WorkingLedger # NoLedger
       /\ WorkingLedger.accounts[a] = AccountAt(v, D, m, a)
  BY <1>2, <1>4, <1>13, <1>14, ChangeRefines
<1>16. AccountAt(v, E, n, a) = [AccountAt(v, D, m, a) EXCEPT !.storage = [k \in {} |-> None]]
  <2>1. FieldsAt(v, E, a) = FieldsAt(v, D, a)
    BY <1>10 DEF FieldsAt
  <2> QED BY <1>12, <2>1 DEF AccountAt
<1>17. AccountAt(v, D, m, a).storage = None
  BY <1>12 DEF AccountAt
<1> QED BY <1>15, <1>16, <1>17 DEF Promise!CreateStorage, Promise!EmptyStorage

(* A storage of the map changes.                                           *)
LEMMA ChangeStorageRefines ==
    ASSUME Mapped, Mapped', NEW c, NEW v, NEW t, NEW D, NEW m, InSession(c, v, t, D, m),
           NEW a \in DOMAIN m, NEW keys, NEW trie, ChangeStorage(a, keys, trie)
    PROVE  /\ Promise!Change(a, [WorkingLedger.accounts[a] EXCEPT
                                     !.storage = StorageContent(v, trie.root)])
           /\ WorkingLedger # NoLedger
           /\ WorkingLedger.accounts[a].storage = StorageContent(v, m[a].root)
           /\ StorageContent(v, m[a].root) # None
<1> DEFINE n == MapWith(m, a, trie)
           old == m[a]
<1>1. /\ ws = [version |-> v, accounts |-> t, map |-> m] /\ v \in Version
      /\ ws.version = v /\ ws.accounts = t /\ ws.map = m /\ t.root = D
      /\ m = [b \in DOMAIN m |-> m[b]] /\ a \in Address
  BY PartsOfSession DEF InSession, Session
<1>2. UNCHANGED <<storage, head, changes>> /\ ws' = [ws EXCEPT !.map[a] = trie]
  BY DEF ChangeStorage
<1>3. [m EXCEPT ![a] = trie] = n
  BY <1>1, MapChanges
<1>4. ws' = [version |-> v, accounts |-> t, map |-> n]
  BY <1>1, <1>2, <1>3, SessionChanged
<1>5. StorageAt(v, D, n, a) = StorageContent(v, trie.root)
      /\ \A b : b # a => StorageAt(v, D, n, b) = StorageAt(v, D, m, b)
  BY ONLY MapWithParts
<1>6. StorageAt(v, D, m, a) = StorageContent(v, old.root)
  BY DEF StorageAt
<1>7. StorageContent(v, old.root) # None
  <2>1. PICK C \in StorageContents(v) : TrieOn(old, c[Len(changes)], v, <<a>>, C)
    BY StorageOfSession
  <2> HIDE DEF old
  <2>2. old.root = C
    BY <2>1, TrieParts
  <2> QED BY <1>1, <2>2, ContentIsSomething
<1> HIDE DEF n, old
<1>8. \A b : b # a => AccountAt(v, D, n, b) = AccountAt(v, D, m, b)
  BY <1>5 DEF AccountAt
<1>9. SessionLedger(ws) = LedgerOf(v, D, m) /\ SessionLedger(ws') = LedgerOf(v, D, n)
  BY <1>1, <1>4, SessionIsLedger
<1>10. /\ Promise!Change(a, AccountAt(v, D, n, a))
       /\ WorkingLedger # NoLedger
       /\ WorkingLedger.accounts[a] = AccountAt(v, D, m, a)
  BY <1>1, <1>2, <1>8, <1>9, ChangeRefines
<1>11. AccountAt(v, D, n, a)
           = [AccountAt(v, D, m, a) EXCEPT !.storage = StorageContent(v, trie.root)]
  BY <1>5 DEF AccountAt
<1>12. AccountAt(v, D, m, a).storage = StorageContent(v, old.root)
  BY <1>6 DEF AccountAt
<1> QED BY <1>7, <1>10, <1>11, <1>12 DEF old

(* `batch_set' writes and erases keys of the storage.                      *)
LEMMA WriteStorageRefines ==
    ASSUME IInv, Mapped, Mapped', NEW a \in Address, NEW data \in PartialData,
           WriteStorage(a, data)
    PROVE  Promise!WriteStorage(a, data)
<1>1. PICK c, v, t, D, m : InSession(c, v, t, D, m)
  BY WhenAlive DEF WriteStorage
<1>2. ws.map = m /\ a \in DOMAIN m
  BY <1>1, PartsOfSession DEF WriteStorage
<1> DEFINE old == m[a]
           trie == StorageBatchSet(old, data)
           seen == StorageContent(v, old.root)
           acc == WorkingLedger.accounts[a]
<1>3. PICK keys : ChangeStorage(a, keys, trie)
  BY <1>2 DEF WriteStorage
<1>4. DOMAIN data \subseteq StorageKeys
  BY DEF PartialData
<1>5. v \in Version /\ old.db.version = v
  <2>1. v \in Version /\ \E C \in StorageContents(v) : TrieOn(old, c[Len(changes)], v, <<a>>, C)
    BY <1>1, <1>2, StorageOfSession
  <2>2. PICK C \in StorageContents(v) : TrieOn(old, c[Len(changes)], v, <<a>>, C)
    BY <2>1
  <2> HIDE DEF old
  <2> QED BY <2>1, <2>2, TrieParts
<1> HIDE DEF trie
<1>6. /\ Promise!Change(a, [acc EXCEPT !.storage = StorageContent(v, trie.root)])
      /\ WorkingLedger # NoLedger /\ acc.storage = seen /\ seen # None
  BY <1>1, <1>2, <1>3, ChangeStorageRefines
<1> HIDE DEF old
<1>7. trie.root = WithAll(old.root, TrieData(v, data))
  BY <1>5, RootsAfter DEF trie, StorageBatchSet
<1>8. StorageContent(v, trie.root) = SeenAfterWrite(seen, data)
  BY <1>4, <1>5, <1>7, ContentSeenAfterWrite
<1> HIDE DEF seen
<1>9. Promise!Change(a, [acc EXCEPT !.storage = SeenAfterWrite(acc.storage, data)])
  BY <1>6, <1>8
<1> QED BY <1>6, <1>9 DEF Promise!WriteStorage, SeenAfterWrite

(* `remove' erases one key, `remove_trie' all of them.                     *)
LEMMA EraseRefines ==
    ASSUME Mapped, Mapped', NEW c, NEW v, NEW t, NEW D, NEW m, InSession(c, v, t, D, m),
           NEW a \in DOMAIN m, NEW keys, NEW trie, ChangeStorage(a, keys, trie),
           NEW erased, StorageContent(v, trie.root)
                           = SeenAfterErase(StorageContent(v, m[a].root), erased)
    PROVE  Promise!EraseStorage(a, erased)
<1> DEFINE seen == StorageContent(v, m[a].root)
           acc == WorkingLedger.accounts[a]
<1>1. /\ Promise!Change(a, [acc EXCEPT !.storage = StorageContent(v, trie.root)])
      /\ WorkingLedger # NoLedger /\ acc.storage = seen /\ seen # None
  BY ChangeStorageRefines
<1>2. StorageContent(v, trie.root) = SeenAfterErase(seen, erased)
  OBVIOUS
<1> HIDE DEF seen
<1>3. Promise!Change(a, [acc EXCEPT !.storage = SeenAfterErase(acc.storage, erased)])
  BY <1>1, <1>2
<1> QED BY <1>1, <1>3 DEF Promise!EraseStorage, SeenAfterErase

(* `remove'.                                                               *)
LEMMA RemoveStorageKeyRefines ==
    ASSUME IInv, Mapped, Mapped', NEW a \in Address, NEW k, RemoveStorageKey(a, k)
    PROVE  Promise!EraseStorage(a, {k})
<1>1. PICK c, v, t, D, m : InSession(c, v, t, D, m)
  BY WhenAlive DEF RemoveStorageKey
<1>2. ws.map = m /\ a \in DOMAIN m
  BY <1>1, PartsOfSession DEF RemoveStorageKey
<1> DEFINE old == m[a]
           trie == StorageRemove(old, k)
           key == StorageKey(v, k)
           seen == StorageContent(v, old.root)
<1>3. PICK keys : ChangeStorage(a, keys, trie)
  BY <1>2 DEF RemoveStorageKey
<1>4. v \in Version /\ old.db.version = v /\ old.root = [x \in DOMAIN old.root |-> old.root[x]]
  <2>1. v \in Version /\ \E C \in StorageContents(v) : TrieOn(old, c[Len(changes)], v, <<a>>, C)
    BY <1>1, <1>2, StorageOfSession
  <2>2. PICK C \in StorageContents(v) : TrieOn(old, c[Len(changes)], v, <<a>>, C)
    BY <2>1
  <2> HIDE DEF old
  <2>3. old.root = C /\ C = [x \in DOMAIN C |-> C[x]]
    BY <2>2, TrieParts, StorageContentsShape
  <2> QED BY <2>1, <2>2, <2>3, TrieParts
<1> HIDE DEF old
<1>5. trie.root = WithoutAll(old.root, {key})
  <2>1. trie = MptRemove(old, key)
    BY <1>4 DEF StorageRemove
  <2>2. CASE key \in DOMAIN old.root
    BY <2>1, <2>2, RootsAfter DEF MptRemove
  <2>3. CASE key \notin DOMAIN old.root
    <3> DEFINE R == old.root
    <3>1. trie.root = R
      BY <2>1, <2>3 DEF MptRemove
    <3>2. R = [x \in DOMAIN R |-> R[x]] /\ key \notin DOMAIN R
      BY <1>4, <2>3
    <3> HIDE DEF R, key
    <3>3. WithoutAll(R, {key}) = R
      BY <3>2 DEF WithoutAll, Without
    <3> QED BY <3>1, <3>3 DEF R
  <2> QED BY <2>2, <2>3
<1>6. \A x \in StorageKeys : StorageKey(v, x) \in {key} <=> x \in {k}
  BY <1>4, StorageKeyParts
<1> HIDE DEF trie, key
<1>7. StorageContent(v, trie.root) = SeenAfterErase(seen, {k})
  <2> DEFINE S == {key}
             E == {k}
  <2>1. \A x \in StorageKeys : StorageKey(v, x) \in S <=> x \in E
    BY <1>6
  <2>2. trie.root = WithoutAll(old.root, S)
    BY <1>5
  <2> HIDE DEF S, E
  <2>3. StorageContent(v, trie.root) = SeenAfterErase(seen, E)
    BY <1>4, <2>1, <2>2, ContentSeenAfterErase
  <2> QED BY <2>3 DEF E
<1> QED BY <1>1, <1>2, <1>3, <1>7, EraseRefines DEF old

(* `remove_trie'.                                                          *)
LEMMA RemoveStorageTrieRefines ==
    ASSUME IInv, Mapped, Mapped', NEW a \in Address, RemoveStorageTrie(a)
    PROVE  Promise!EraseStorage(a, StorageKeys)
<1>1. PICK c, v, t, D, m : InSession(c, v, t, D, m)
  BY WhenAlive DEF RemoveStorageTrie
<1>2. ws.map = m /\ a \in DOMAIN m
  BY <1>1, PartsOfSession DEF RemoveStorageTrie
<1> DEFINE old == m[a]
           trie == RemoveTrie(old)
           seen == StorageContent(v, old.root)
<1>3. PICK keys : ChangeStorage(a, keys, trie)
  BY <1>2 DEF RemoveStorageTrie
<1>4. v \in Version
  BY <1>1, <1>2, StorageOfSession
<1> HIDE DEF old
<1>5. trie.root = NoContent
  BY RootsAfter, WithoutEverything DEF RemoveTrie
<1> HIDE DEF trie
<1>6. StorageContent(v, trie.root) = SeenAfterErase(seen, StorageKeys)
  <2> DEFINE want == SeenAfterErase(seen, StorageKeys)
  <2>1. DOMAIN seen \subseteq StorageKeys
    BY <1>4, ContentSeen
  <2> HIDE DEF seen
  <2>2. DOMAIN want = {} /\ want = [x \in DOMAIN want |-> want[x]]
    BY <2>1 DEF SeenAfterErase
  <2> HIDE DEF want
  <2>3. want = [k \in {} |-> None]
    BY <2>2
  <2>4. StorageContent(v, trie.root) = [k \in {} |-> None]
    BY <1>4, <1>5, NothingSeen
  <2> QED BY <2>3, <2>4 DEF want
<1> QED BY <1>1, <1>2, <1>3, <1>6, EraseRefines DEF old

-----------------------------------------------------------------------------
(* Steps of the whole session. *)

(* `upgrade' keeps the storages, and the fields that say something.        *)
LEMMA UpgradeRefines ==
    ASSUME IInv, Mapped, Mapped', Upgrade
    PROVE  Promise!Upgrade
<1>1. PICK c, v, t, D, m : InSession(c, v, t, D, m)
  BY WhenAlive DEF Upgrade
<1>2. /\ ws = [version |-> v, accounts |-> t, map |-> m]
      /\ ws.version = v /\ ws.accounts = t /\ ws.map = m /\ t.root = D
  BY <1>1, PartsOfSession DEF InSession
<1> DEFINE B == c[Len(changes)]
           info == StorageInfo(D)
           n == UpgradedMap(m, info, storage)
           after == AccountsUpgrade(t, storage)
           E == WithAll(NoContent, UpgradedFields(D))
           old == LedgerOf(V1, D, m)
           new == LedgerOf(V2, E, n)
<1>3. /\ v = V1 /\ ws' = [version |-> V2, accounts |-> after, map |-> n]
      /\ UNCHANGED <<storage, head, changes>>
  BY <1>2 DEF Upgrade, UpgradedMap, TrieAt
<1>4. /\ V1 \in Version /\ V2 \in Version /\ AccountContent(V1, D)
      /\ \A a \in DOMAIN m : HashAt(V1, D, a) # None
  BY <1>1, <1>3 DEF InSession, Session, Version
<1>5. after.root = E
  BY <1>2, RootsAfter DEF AccountsUpgrade
<1> HIDE DEF after
<1>6. SessionLedger(ws) = old /\ SessionLedger(ws') = new
  <2> HIDE DEF E, n
  <2> QED BY <1>2, <1>3, <1>4, <1>5, SessionIsLedger
<1>7. ASSUME NEW a \in Address
      PROVE  StorageAt(V2, E, n, a) = StorageAt(V1, D, m, a)
  <2> DEFINE hash == HashAt(V1, D, a)
             trie == TrieAt(m, info, a)
  <2>1. /\ a \in DOMAIN info <=> hash # None
        /\ a \in DOMAIN info => info[a] = hash
    BY <1>4, StoragesOfRecord
  <2>2. CASE a \in DOMAIN info
    <3>1. \E C \in StorageContents(V1) : trie.root = C /\ StorageAt(V1, D, m, a) = StorageContent(V1, C)
      <4>1. CASE a \in DOMAIN m
        <5>1. trie = m[a]
          BY <4>1 DEF TrieAt
        <5>2. PICK C \in StorageContents(V1) : TrieOn(m[a], B, V1, <<a>>, C)
          BY <1>1, <1>3, <4>1, StorageOfSession
        <5> HIDE DEF trie, B
        <5>3. trie.root = C
          BY <5>1, <5>2, TrieParts
        <5>4. StorageAt(V1, D, m, a) = StorageContent(V1, C)
          BY <4>1, <5>1, <5>3 DEF StorageAt
        <5> QED BY <5>3, <5>4
      <4>2. CASE a \notin DOMAIN m
        <5>1. trie.root = hash
          BY <2>1, <2>2, <4>2 DEF TrieAt, StorageOpen, MptOpen
        <5>2. hash \in StorageContents(V1)
          BY <1>4, <2>1, <2>2, HashIsContent
        <5>3. StorageAt(V1, D, m, a) = StorageContent(V1, hash)
          BY <2>1, <2>2, <4>2 DEF StorageAt, ContentOrNone
        <5> QED BY <5>1, <5>2, <5>3
      <4> QED BY <4>1, <4>2
    <3>2. PICK C \in StorageContents(V1) :
              trie.root = C /\ StorageAt(V1, D, m, a) = StorageContent(V1, C)
      BY <3>1
    <3>3. a \in DOMAIN n /\ n[a] = StorageUpgrade(trie, storage)
      BY <2>2 DEF UpgradedMap
    <3> HIDE DEF trie, n
    <3>4. StorageContent(V2, StorageUpgrade(trie, storage).root) = StorageContent(V1, C)
      BY <3>2, StorageSeenAfterUpgrade
    <3>5. StorageAt(V2, E, n, a) = StorageContent(V2, StorageUpgrade(trie, storage).root)
      BY <3>3 DEF StorageAt
    <3> QED BY <3>2, <3>4, <3>5
  <2>3. CASE a \notin DOMAIN info
    <3>1. a \notin DOMAIN m /\ hash = None
      BY <1>4, <2>1, <2>3
    <3>2. a \notin DOMAIN n
      BY <2>3 DEF UpgradedMap
    <3>3. HashAt(V2, E, a) = None
      BY <1>4, AccountsAfterUpgrade
    <3> HIDE DEF E, n
    <3> QED BY <3>1, <3>2, <3>3 DEF StorageAt, ContentOrNone
  <2> QED BY <2>2, <2>3
<1> DEFINE Kept(acc) == [f \in Field |-> IF acc[f] # None /\ IsKept(f, acc[f]) THEN acc[f] ELSE None]
<1>8. ASSUME NEW a \in Address
      PROVE  AccountAt(V2, E, n, a)
                 = [AccountAt(V1, D, m, a) EXCEPT !.fields = Kept(AccountAt(V1, D, m, a).fields)]
  <2> DEFINE fields == FieldsAt(V1, D, a)
             st == StorageAt(V1, D, m, a)
             x == AccountAt(V1, D, m, a)
  <2>1. FieldsAt(V2, E, a) = Kept(fields)
    <3> HIDE DEF E
    <3>1. ASSUME NEW f \in Field
          PROVE  Lookup(E, AccountKey(V2, a, f))
                     = IF fields[f] # None /\ IsKept(f, fields[f]) THEN fields[f] ELSE None
      <4>1. fields[f] = Lookup(D, AccountKey(V1, a, f))
        BY DEF FieldsAt
      <4> HIDE DEF fields
      <4> QED BY <1>4, <4>1, FieldsAfterUpgrade DEF E
    <3> HIDE DEF fields
    <3> QED BY <3>1 DEF FieldsAt
  <2> HIDE DEF E, n, Kept
  <2>2. AccountAt(V2, E, n, a) = [fields |-> Kept(fields), storage |-> st]
    BY <1>7, <2>1 DEF AccountAt
  <2>3. x = [fields |-> fields, storage |-> st] /\ x.fields = fields
    BY DEF AccountAt
  <2> HIDE DEF fields, st, x
  <2>4. [x EXCEPT !.fields = Kept(x.fields)] = [fields |-> Kept(fields), storage |-> st]
    BY <2>3
  <2> QED BY <2>2, <2>4 DEF x
<1> HIDE DEF E, n, Kept
<1>9. new = [version |-> 2,
             accounts |-> [a \in Address |->
                 [old.accounts[a] EXCEPT !.fields = Kept(old.accounts[a].fields)]]]
  <2>1. \A a \in Address : old.accounts[a] = AccountAt(V1, D, m, a)
    BY <1>4, LedgerIsThere
  <2> HIDE DEF old
  <2> QED BY <1>8, <2>1 DEF LedgerOf, V2
<1>10. old # NoLedger /\ old.version = 1
  BY <1>4, LedgerIsThere DEF V1
<1> HIDE DEF old, new
<1>11. WorkingLedger = old /\ WorkingLedger' = new
  BY <1>6 DEF Mapped
<1>12. UNCHANGED <<DurableLedger, HandedLedgers>>
  BY <1>3, OthersStay
<1> QED BY <1>9, <1>10, <1>11, <1>12 DEF Promise!Upgrade, Kept

(* The ledgers of one change set more, and of one fewer.                   *)
LEMMA LedgersAreSequence ==
    ASSUME NEW T, NEW ch \in Seq(T)
    PROVE  \E U : LedgersOf(ch) \in Seq(U) /\ Len(LedgersOf(ch)) = Len(ch)
<1> DEFINE n == Len(ch)
           f == LedgersOf(ch)
           U == {f[j] : j \in 1 .. n}
<1>1. n \in Nat /\ f = [j \in 1 .. n |-> f[j]]
  BY DEF LedgersOf
<1> HIDE DEF f, n
<1>2. f \in [1 .. n -> U]
  BY <1>1
<1> HIDE DEF U
<1>3. f \in Seq(U) /\ Len(f) = n
  BY <1>1, <1>2
<1> QED BY <1>3 DEF f, n

(* `close' adds a ledger at the end.                                       *)
LEMMA LedgersOfMore ==
    ASSUME NEW T, NEW ch \in Seq(T), NEW x
    PROVE  LedgersOf(Append(ch, x)) = Append(LedgersOf(ch), LedgerOf(x.version, x.root, NoTries))
<1> DEFINE n == Len(ch)
           more == Append(ch, x)
           f == LedgersOf(ch)
           e == LedgerOf(x.version, x.root, NoTries)
           g == LedgersOf(more)
           h == Append(f, e)
<1>1. /\ n \in Nat /\ Len(more) = n + 1 /\ more[n + 1] = x
      /\ \A j \in 1 .. n : more[j] = ch[j]
  OBVIOUS
<1>2. PICK U : f \in Seq(U) /\ Len(f) = n
  BY LedgersAreSequence
<1>3. /\ \A j \in 1 .. n : f[j] = LedgerOf(ch[j].version, ch[j].root, NoTries)
      /\ g = [j \in 1 .. Len(more) |-> LedgerOf(more[j].version, more[j].root, NoTries)]
  BY DEF LedgersOf
<1> HIDE DEF n, f, e, g, more
<1>4. /\ h \in Seq(U \cup {e}) /\ Len(h) = n + 1 /\ h[n + 1] = e
      /\ \A j \in 1 .. n : h[j] = f[j]
  BY <1>1, <1>2
<1> HIDE DEF h
<1>5. h = [j \in 1 .. n + 1 |-> h[j]]
  BY <1>4
<1>6. ASSUME NEW j \in 1 .. n + 1
      PROVE  LedgerOf(more[j].version, more[j].root, NoTries) = h[j]
  <2>1. CASE j = n + 1
    BY <1>1, <1>4, <2>1 DEF e
  <2>2. CASE j # n + 1
    <3>1. j \in 1 .. n
      BY <1>1, <2>2
    <3> QED BY <1>1, <1>3, <1>4, <3>1
  <2> QED BY <2>1, <2>2
<1>7. g = h
  BY <1>1, <1>3, <1>5, <1>6
<1> QED BY <1>7 DEF g, h, f, e, more

(* Applying takes the first one away.                                      *)
LEMMA LedgersOfFewer ==
    ASSUME NEW T, NEW ch \in Seq(T), ch # <<>>
    PROVE  /\ LedgersOf(ch) # <<>>
           /\ Head(LedgersOf(ch)) = LedgerOf(Head(ch).version, Head(ch).root, NoTries)
           /\ LedgersOf(Tail(ch)) = Tail(LedgersOf(ch))
<1> DEFINE n == Len(ch)
           few == Tail(ch)
           f == LedgersOf(ch)
           g == LedgersOf(few)
           h == Tail(f)
<1>1. /\ n \in Nat /\ n >= 1 /\ Len(few) = n - 1 /\ Head(ch) = ch[1]
      /\ \A j \in 1 .. n - 1 : few[j] = ch[j + 1]
  OBVIOUS
<1>2. PICK U : f \in Seq(U) /\ Len(f) = n
  BY LedgersAreSequence
<1>3. /\ \A j \in 1 .. n : f[j] = LedgerOf(ch[j].version, ch[j].root, NoTries)
      /\ g = [j \in 1 .. Len(few) |-> LedgerOf(few[j].version, few[j].root, NoTries)]
  BY DEF LedgersOf
<1> HIDE DEF n, f, g, few
<1>4. /\ f # <<>> /\ Head(f) = f[1]
      /\ h \in Seq(U) /\ Len(h) = n - 1 /\ \A j \in 1 .. n - 1 : h[j] = f[j + 1]
  BY <1>1, <1>2
<1> HIDE DEF h
<1>5. h = [j \in 1 .. n - 1 |-> h[j]]
  BY <1>4
<1>6. ASSUME NEW j \in 1 .. n - 1
      PROVE  LedgerOf(few[j].version, few[j].root, NoTries) = h[j]
  <2>1. j + 1 \in 1 .. n
    BY <1>1
  <2> QED BY <1>1, <1>3, <1>4, <2>1
<1>7. g = h
  BY <1>1, <1>3, <1>5, <1>6
<1>8. Head(f) = LedgerOf(Head(ch).version, Head(ch).root, NoTries)
  BY <1>1, <1>3, <1>4
<1> QED BY <1>4, <1>7, <1>8 DEF g, h, f, few

(* What `close' hands out is the ledger the session works on.              *)
LEMMA CloseRefines ==
    ASSUME IInv, Mapped, Mapped', Close
    PROVE  Promise!Close
<1>1. PICK c, v, t, D, m : InSession(c, v, t, D, m)
  BY WhenAlive DEF Close
<1> DEFINE B == c[Len(changes)]
<1>2. /\ ws = [version |-> v, accounts |-> t, map |-> m] /\ v \in Version /\ t.root = D
      /\ ws.version = v /\ ws.map = m /\ Session(v, t, D, m, B)
  BY <1>1, PartsOfSession DEF InSession, Session
<1>3. PICK order \in SetToSeqs(DOMAIN ws.map) :
          LET accounts == Recorded(order)
              rows == Merged({accounts.db} \cup {ws.map[a].db : a \in DOMAIN ws.map})
          IN  /\ changes' = Append(changes,
                     [inserts |-> rows.inserts, deletes |-> rows.deletes,
                      version |-> ws.version, root |-> accounts.root])
              /\ ws' = [ws EXCEPT !.accounts = MptClosed(accounts)]
  BY DEF Close
<1> DEFINE accounts == Recorded(order)
           rows == Merged({accounts.db} \cup {m[a].db : a \in DOMAIN m})
           x == [inserts |-> rows.inserts, deletes |-> rows.deletes,
                 version |-> v, root |-> accounts.root]
<1>4. PICK E : /\ TrieOn(accounts, B, v, <<>>, E) /\ AccountContent(v, E)
               /\ AllOnRecord(v, D, m, E)
  BY <1>2, <1>3, RecordedKeeps
<1> HIDE DEF accounts, B
<1>5. accounts.root = E
  BY <1>4, TrieParts
<1>6. /\ changes' = Append(changes, x) /\ UNCHANGED <<storage, head>>
      /\ ws' = [version |-> v, accounts |-> MptClosed(accounts), map |-> m]
  <2>1. ws' = [ws EXCEPT !.accounts = MptClosed(accounts)]
    BY <1>3 DEF accounts
  <2>2. changes' = Append(changes, x)
    BY <1>2, <1>3 DEF accounts
  <2>3. UNCHANGED <<storage, head>>
    BY DEF Close
  <2> HIDE DEF x
  <2> QED BY <1>2, <2>1, <2>2, <2>3, SessionChanged
<1>7. x.version = v /\ x.root = E
  BY <1>5
<1>8. MptClosed(accounts).root = E
  <2> DEFINE db == accounts.db
  <2>1. accounts = [root |-> E, db |-> db]
    BY <1>4 DEF TrieOn
  <2>2. MptClosed(accounts) = [accounts EXCEPT !.db = Closed(db)]
    BY DEF MptClosed
  <2> HIDE DEF db
  <2> QED BY <2>1, <2>2
<1> HIDE DEF x
<1>9. ASSUME NEW a \in Address
      PROVE  /\ AccountAt(v, E, m, a) = AccountAt(v, D, m, a)
             /\ AccountAt(v, E, NoTries, a) = AccountAt(v, D, m, a)
  <2>1. \A f \in Field : Lookup(E, AccountKey(v, a, f)) = Lookup(D, AccountKey(v, a, f))
    BY <1>4 DEF AllOnRecord, SameFields
  <2>2. HashAt(v, E, a) = IF a \in DOMAIN m THEN m[a].root ELSE HashAt(v, D, a)
    BY <1>4 DEF AllOnRecord
  <2>3. a \in DOMAIN m => m[a].root # None
    <3> SUFFICES ASSUME a \in DOMAIN m PROVE m[a].root # None
      OBVIOUS
    <3> DEFINE trie == m[a]
    <3>1. PICK C \in StorageContents(v) : TrieOn(trie, B, v, <<a>>, C)
      BY <1>2 DEF Session
    <3> HIDE DEF trie
    <3>2. trie.root = C /\ C # None
      BY <1>2, <3>1, TrieParts, NoneIsNoContent
    <3> QED BY <3>2 DEF trie
  <2>4. StorageAt(v, E, m, a) = StorageAt(v, D, m, a)
    BY <2>2 DEF StorageAt
  <2>5. StorageAt(v, E, NoTries, a) = StorageAt(v, D, m, a)
    <3>1. DOMAIN NoTries = {}
      BY DEF NoTries
    <3> QED BY <2>2, <2>3, <3>1 DEF StorageAt, ContentOrNone
  <2> QED BY <2>1, <2>4, <2>5, SameAccount
<1>10. LedgerOf(v, E, m) = LedgerOf(v, D, m) /\ LedgerOf(v, E, NoTries) = LedgerOf(v, D, m)
  BY <1>9 DEF LedgerOf
<1>11. SessionLedger(ws) = LedgerOf(v, D, m) /\ SessionLedger(ws') = LedgerOf(v, E, m)
  BY <1>2, <1>6, <1>8, SessionIsLedger
<1>12. LedgersOf(changes') = Append(LedgersOf(changes), LedgerOf(v, E, NoTries))
  <2>1. PICK T : changes \in Seq(T)
    BY <1>1 DEF InSession, World
  <2> QED BY <1>6, <1>7, <2>1, LedgersOfMore
<1>13. WorkingLedger # NoLedger
  BY <1>2, <1>11, LedgerIsThere DEF Mapped
<1> QED BY <1>6, <1>10, <1>11, <1>12, <1>13 DEF Mapped, Promise!Close

(* The first ledger that waits becomes that of the database.               *)
LEMMA ApplyRefines ==
    ASSUME IInv, IInv', Mapped, Mapped', Apply
    PROVE  Promise!Apply
<1>1. PICK c : World(c, storage, head, changes)
  BY DEF IInv
<1>2. PICK T : changes \in Seq(T)
  BY <1>1 DEF World
<1>3. /\ changes # <<>> /\ changes' = Tail(changes) /\ ws' = ws
      /\ head' = [version |-> Head(changes).version, root |-> Head(changes).root]
  BY DEF Apply
<1>4. /\ LedgersOf(changes) # <<>>
      /\ Head(LedgersOf(changes))
             = LedgerOf(Head(changes).version, Head(changes).root, NoTries)
      /\ LedgersOf(Tail(changes)) = Tail(LedgersOf(changes))
  BY <1>2, <1>3, LedgersOfFewer
<1>5. HeadLedger(head') = LedgerOf(Head(changes).version, Head(changes).root, NoTries)
  <2> DEFINE v == Head(changes).version
             D == Head(changes).root
  <2>1. v \in Version
    <3>1. Head(changes) = changes[1] /\ 1 \in 1 .. Len(changes)
      BY <1>2, <1>3
    <3>2. IsState(c[1], changes[1].version, changes[1].root)
      BY <1>1, <3>1 DEF World, ChangesOK
    <3> QED BY <3>1, <3>2 DEF IsState
  <2>2. head' = [version |-> v, root |-> D]
    BY <1>3
  <2> HIDE DEF v, D
  <2>3. head'.version = v /\ head'.root = D /\ NoState.version = Nothing
    BY <2>2 DEF NoState
  <2>4. head' # NoState
    BY <2>1, <2>3, NothingIsNoVersion
  <2> QED BY <2>3, <2>4 DEF HeadLedger, v, D
<1> QED BY <1>3, <1>4, <1>5 DEF Mapped, Promise!Apply

(* A session on an empty database works on an empty ledger.                *)
LEMMA GenesisRefines ==
    ASSUME Mapped, Mapped', NEW v \in Version, Genesis(v)
    PROVE  Promise!Genesis(v)
<1> DEFINE t == AccountsNew(v)
<1>1. /\ head = NoState /\ ws = NoSession /\ changes = <<>>
      /\ ws' = [version |-> v, accounts |-> t, map |-> NoTries]
      /\ UNCHANGED <<storage, head, changes>>
  BY DEF Genesis
<1>2. t.root = NoContent
  BY DEF AccountsNew, MptNew
<1> HIDE DEF t
<1>3. SessionLedger(ws') = LedgerOf(v, NoContent, NoTries)
  BY <1>1, <1>2, SessionIsLedger
<1>4. ASSUME NEW a \in Address
      PROVE  AccountAt(v, NoContent, NoTries, a)
                 = [fields |-> [f \in Field |-> None], storage |-> None]
  <2>1. FieldsAt(v, NoContent, a) = [f \in Field |-> None]
    BY DEF FieldsAt, Lookup, NoContent, EmptyRows
  <2>2. StorageAt(v, NoContent, NoTries, a) = None
    BY NoAccounts DEF StorageAt, ContentOrNone, NoTries
  <2> QED BY <2>1, <2>2 DEF AccountAt
<1>5. LedgerOf(v, NoContent, NoTries) = Promise!EmptyLedger(v)
  BY <1>4 DEF LedgerOf, Promise!EmptyLedger, Promise!NoAccount
<1>6. DurableLedger = NoLedger /\ WorkingLedger = NoLedger
  BY <1>1 DEF Mapped, HeadLedger, SessionLedger
<1>7. HandedLedgers = <<>>
  BY <1>1 DEF Mapped, LedgersOf
<1> QED BY <1>1, <1>3, <1>5, <1>6, <1>7, OthersStay DEF Mapped, Promise!Genesis

(* A session starts with the ledger the database holds.                    *)
LEMMA OpenRefines ==
    ASSUME IInv, Mapped, Mapped', Open
    PROVE  Promise!Open
<1> DEFINE v == head.version
           D == head.root
           t == AccountsOpen(v, D)
<1>1. /\ head # NoState /\ ws = NoSession /\ changes = <<>>
      /\ ws' = [version |-> v, accounts |-> t, map |-> NoTries]
      /\ UNCHANGED <<storage, head, changes>>
  BY DEF Open
<1>2. v \in Version
  <2>1. PICK c : World(c, storage, head, changes)
    BY DEF IInv
  <2> QED BY <1>1, <2>1 DEF World, HeadOK, IsState
<1>3. HeadLedger(head) = LedgerOf(v, D, NoTries)
  BY <1>1 DEF HeadLedger
<1>4. t.root = D
  BY DEF AccountsOpen, MptOpen
<1> HIDE DEF v, D, t
<1>5. SessionLedger(ws') = LedgerOf(v, D, NoTries)
  BY <1>1, <1>2, <1>4, SessionIsLedger
<1>6. LedgerOf(v, D, NoTries) # NoLedger
  BY <1>2, LedgerIsThere
<1>7. WorkingLedger = NoLedger /\ HandedLedgers = <<>>
  BY <1>1 DEF Mapped, SessionLedger, LedgersOf
<1> QED BY <1>1, <1>3, <1>5, <1>6, <1>7, OthersStay DEF Mapped, Promise!Open

(* A session that ends, or is lost with what it handed out.                *)
LEMMA EndsRefine ==
    ASSUME Mapped, Mapped', Drop \/ Crash
    PROVE  Promise!EndSession \/ Promise!Lose
<1>1. ws' = NoSession /\ UNCHANGED <<storage, head>> /\ (changes' = changes \/ changes' = <<>>)
  BY DEF Drop, Crash
<1>2. WorkingLedger' = NoLedger /\ UNCHANGED DurableLedger
  BY <1>1 DEF Mapped, SessionLedger
<1>3. CASE changes' = changes
  BY <1>1, <1>2, <1>3, OthersStay DEF Promise!EndSession
<1>4. CASE changes' = <<>>
  <2>1. LedgersOf(changes') = <<>>
    BY <1>4 DEF LedgersOf
  <2>2. HandedLedgers' = <<>>
    BY <2>1 DEF Mapped
  <2> QED BY <1>2, <2>2 DEF Promise!Lose
<1> QED BY <1>1, <1>3, <1>4

-----------------------------------------------------------------------------
(* The refinement. *)

(* There is no ledger at first.                                            *)
LEMMA InitRefines == Init => Promise!Init
<1> SUFFICES ASSUME Init PROVE Promise!Init
  OBVIOUS
<1>1. Mapped
  BY InitEstablishes, InvariantMaps
<1>2. HeadLedger(head) = NoLedger /\ SessionLedger(ws) = NoLedger
  BY DEF Init, HeadLedger, SessionLedger
<1>3. LedgersOf(changes) = <<>>
  BY DEF Init, LedgersOf
<1> QED BY <1>1, <1>2, <1>3 DEF Mapped, Promise!Init

(* Every step is a step of the ledgers, or changes none of them.           *)
LEMMA NextRefines ==
    ASSUME IInv, IInv', Mapped, Mapped', [Next]_vars
    PROVE  [Promise!Next]_(Promise!vars)
<1>1. CASE UNCHANGED vars
  <2>1. UNCHANGED <<DurableLedger, WorkingLedger, HandedLedgers>>
    BY <1>1 DEF vars, Mapped
  <2> QED BY <2>1 DEF Promise!vars
<1>2. CASE \E v \in Version : Genesis(v)
  <2>1. PICK v \in Version : Genesis(v)
    BY <1>2
  <2>2. Promise!Genesis(v) /\ v \in {1, 2}
    BY <2>1, GenesisRefines DEF Version, V1, V2
  <2> QED BY <2>2 DEF Promise!Next
<1>3. CASE Open
  BY <1>3, OpenRefines DEF Promise!Next
<1>4. CASE \E a \in Address, f \in Field : \E x \in FieldValue[f] : SetAccountField(a, f, x)
  <2>1. PICK a \in Address, f \in Field : \E x \in FieldValue[f] : SetAccountField(a, f, x)
    BY <1>4
  <2>2. PICK x \in FieldValue[f] : SetAccountField(a, f, x)
    BY <2>1
  <2>3. Promise!SetField(a, f, x)
    BY <2>2, SetAccountFieldRefines
  <2> QED BY <2>3 DEF Promise!Next
<1>5. CASE \E a \in Address : OpenStorage(a)
  <2>1. UNCHANGED <<DurableLedger, WorkingLedger, HandedLedgers>>
    BY <1>5, OpenStorageRefines
  <2> QED BY <2>1 DEF Promise!vars
<1>6. CASE \E a \in Address : CreateStorage(a)
  <2>1. PICK a \in Address : Promise!CreateStorage(a)
    BY <1>6, CreateStorageRefines
  <2> QED BY <2>1 DEF Promise!Next
<1>7. CASE \E a \in Address, data \in PartialData : WriteStorage(a, data)
  <2>1. PICK a \in Address, data \in PartialData : WriteStorage(a, data)
    BY <1>7
  <2>2. Promise!WriteStorage(a, data)
    BY <2>1, WriteStorageRefines
  <2>3. data \in Promise!PartialData
    BY <2>1 DEF PartialData, Promise!PartialData
  <2> QED BY <2>2, <2>3 DEF Promise!Next
<1>8. CASE \E a \in Address, k \in StorageKeys : RemoveStorageKey(a, k)
  <2>1. PICK a \in Address, k \in StorageKeys : RemoveStorageKey(a, k)
    BY <1>8
  <2>2. Promise!EraseStorage(a, {k}) /\ {k} \in SUBSET StorageKeys
    BY <2>1, RemoveStorageKeyRefines
  <2> QED BY <2>2 DEF Promise!Next
<1>9. CASE \E a \in Address : RemoveStorageTrie(a)
  <2>1. PICK a \in Address : RemoveStorageTrie(a)
    BY <1>9
  <2>2. Promise!EraseStorage(a, StorageKeys) /\ StorageKeys \in SUBSET StorageKeys
    BY <2>1, RemoveStorageTrieRefines
  <2> QED BY <2>2 DEF Promise!Next
<1>10. CASE Close
  BY <1>10, CloseRefines DEF Promise!Next
<1>11. CASE Upgrade
  BY <1>11, UpgradeRefines DEF Promise!Next
<1>12. CASE Apply
  BY <1>12, ApplyRefines DEF Promise!Next
<1>13. CASE Drop \/ Crash
  BY <1>13, EndsRefine DEF Promise!Next
<1> QED BY <1>1, <1>2, <1>3, <1>4, <1>5, <1>6, <1>7, <1>8, <1>9, <1>10, <1>11, <1>12, <1>13
        DEF Next

(* The world state keeps its promise: what a session is given, works on    *)
(* and hands out at close, and what a later session finds in the database  *)
(* after the changes were applied, are the ledgers of LedgerState.         *)
THEOREM Refinement == Spec => ImplementsLedger
<1>1. Init => Promise!Init
  BY InitRefines
<1>2. IInv => Mapped
  BY InvariantMaps
<1>3. IInv /\ IInv' /\ Mapped /\ Mapped' /\ [Next]_vars => [Promise!Next]_(Promise!vars)
  BY NextRefines
<1> QED BY <1>1, <1>2, <1>3, Invariance, PTL DEF Spec, ImplementsLedger, Promise!Spec
=============================================================================
