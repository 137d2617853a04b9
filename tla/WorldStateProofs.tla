-------------------------- MODULE WorldStateProofs --------------------------
(***************************************************************************)
(* The world state, for every set of addresses, keys and values and any    *)
(* number of change sets that wait: the database, each set of changes that *)
(* waits and the session stay exact images of a content, and from this     *)
(* follow the invariants of WorldState.                                    *)
(***************************************************************************)
EXTENDS WorldState, MptProofs, FiniteSetTheorems, WellFoundedInduction

-----------------------------------------------------------------------------
(* Contents. *)

Symbol == AccountField \cup Address \cup StorageKeys
Fields == Field \cup {StorageHash}

(* What the trie of accounts may hold under a field. *)
FieldContents(v, f) ==
    IF f = StorageHash THEN StorageContents(v) ELSE FieldValue[f] \ {Empty}

AccountContent(v, D) ==
    /\ D = [k \in DOMAIN D |-> D[k]]
    /\ DOMAIN D \subseteq AccountKeys(v)
    /\ \A a \in Address, f \in Fields :
           AccountKey(v, a, f) \in DOMAIN D => D[AccountKey(v, a, f)] \in FieldContents(v, f)

HashAt(v, D, a) == Lookup(D, AccountKey(v, a, StorageHash))

(* Keys are taken apart as they were put together. *)
LEMMA AccountKeyParts ==
    ASSUME NEW v \in Version, NEW a, NEW f
    PROVE  /\ AccountAddress(AccountKey(v, a, f)) = a
           /\ FieldOf(v, AccountKey(v, a, f)) = f
           /\ \A b, g : AccountKey(v, a, f) = AccountKey(v, b, g) => a = b /\ f = g
BY DEF AccountKey, AccountAddress, FieldOf, Version, V1, V2

(* The same of the keys of a storage.                                      *)
LEMMA StorageKeyParts ==
    ASSUME NEW v \in Version, NEW x
    PROVE  /\ \A y : StorageKey(v, x) = StorageKey(v, y) => x = y
           /\ DropVisibility(StorageKey(V1, x)) = x
BY DEF StorageKey, DropVisibility, Version, V1, V2

(* Addresses, fields and keys are symbols; an address is no tag. *)
LEMMA SymbolFacts ==
    /\ 0 \in Symbol /\ 1 \in Symbol
    /\ Address \subseteq Symbol /\ Fields \subseteq Symbol /\ StorageKeys \subseteq Symbol
    /\ \A a \in Address : a # 0 /\ a # 1 /\ <<a>> \in Seq(Symbol)
    /\ <<>> \in Seq(Symbol)
    /\ StorageHash \notin Field
<1>1. 0 \in Symbol /\ 1 \in Symbol
  BY DEF Symbol, AccountField, Nonce, Balance
<1>2. Fields \subseteq Symbol /\ StorageHash \notin Field
  BY FieldsAreCallers DEF Symbol, Fields, AccountField
<1>3. Address \subseteq Symbol /\ StorageKeys \subseteq Symbol
  BY DEF Symbol
<1>4. \A a \in Address : a # 0 /\ a # 1
  BY SymbolsApart
<1> HIDE DEF Symbol
<1> QED BY <1>1, <1>2, <1>3, <1>4

(* The contents of storages are the functions from their keys. *)
LEMMA StorageContentsShape ==
    ASSUME NEW v, NEW D
    PROVE  D \in StorageContents(v) <=>
               /\ D = [k \in DOMAIN D |-> D[k]]
               /\ DOMAIN D \subseteq {StorageKey(v, k) : k \in StorageKeys}
               /\ \A k \in DOMAIN D : D[k] \in StorageValue \ {Empty}
<1> DEFINE K == {StorageKey(v, k) : k \in StorageKeys}
           V == StorageValue \ {Empty}
<1>1. StorageContents(v) = UNION {[S -> V] : S \in SUBSET K}
  BY DEF StorageContents
<1> HIDE DEF K, V
<1>2. D \in UNION {[S -> V] : S \in SUBSET K} <=> \E S \in SUBSET K : D \in [S -> V]
  OBVIOUS
<1>3. (\E S \in SUBSET K : D \in [S -> V]) <=>
           /\ D = [k \in DOMAIN D |-> D[k]]
           /\ DOMAIN D \subseteq K
           /\ \A k \in DOMAIN D : D[k] \in V
  OBVIOUS
<1> QED BY <1>1, <1>2, <1>3 DEF K, V

(* Storages hold no None and none of them is None or the empty value. *)
LEMMA NoneIsNoContent ==
    ASSUME NEW v \in Version
    PROVE  /\ \A D \in StorageContents(v) : D # None /\ D # Empty
           /\ \A f \in Fields : \A x \in FieldContents(v, f) : x # None /\ x # Empty
           /\ NoContent \in StorageContents(v)
<1>1. \A D \in StorageContents(v) : D # None /\ D # Empty
  BY NoneIsNoValue, EmptyIsNoStorage DEF Values
<1>2. \A f \in Field : \A x \in FieldValue[f] : x # None
  BY NoneIsNoValue DEF Values
<1>3. NoContent \in StorageContents(v)
  <2>1. NoContent = [k \in {} |-> None] /\ DOMAIN NoContent = {}
    BY DEF NoContent, EmptyRows
  <2>2. NoContent = [k \in DOMAIN NoContent |-> NoContent[k]]
    BY <2>1
  <2> QED BY <2>1, <2>2, StorageContentsShape
<1> QED BY <1>1, <1>2, <1>3 DEF FieldContents, Fields

(* The nodes of accounts and storages have rows of their own. *)
LEMMA AccountsFit ==
    ASSUME NEW v \in Version, NEW D, AccountContent(v, D)
    PROVE  Fits(Symbol, v, <<>>, D)
<1>1. \A k \in DOMAIN D : \E a \in Address, f \in Fields : k = AccountKey(v, a, f)
  BY DEF AccountContent, AccountKeys, Fields
<1>2. /\ 0 \in Symbol /\ 1 \in Symbol /\ v \in Version
      /\ Address \in SUBSET Symbol /\ 0 \notin Address /\ 1 \notin Address
      /\ Fields \in SUBSET Symbol
  BY SymbolFacts
<1> QED BY ONLY <1>1, <1>2, AccountContentFits

(* The same of a storage.                                                  *)
LEMMA StoragesFit ==
    ASSUME NEW v \in Version, NEW a \in Address, NEW D \in StorageContents(v)
    PROVE  Fits(Symbol, v, <<a>>, D)
<1>1. \A k \in DOMAIN D : \E x \in StorageKeys : k = StorageKey(v, x)
  BY StorageContentsShape
<1>2. /\ 0 \in Symbol /\ 1 \in Symbol /\ v \in Version
      /\ a \in Symbol /\ a # 0 /\ a # 1 /\ StorageKeys \in SUBSET Symbol
  BY SymbolFacts
<1> QED BY ONLY <1>1, <1>2, StorageContentFits

(* An empty accounts trie. *)
LEMMA NoAccounts ==
    ASSUME NEW v
    PROVE  AccountContent(v, NoContent) /\ \A a : HashAt(v, NoContent, a) = None
<1>1. NoContent = [k \in {} |-> None] /\ DOMAIN NoContent = {}
  BY DEF NoContent, EmptyRows
<1> QED BY <1>1 DEF AccountContent, HashAt, Lookup

Single(key, x) == [k \in {key} |-> x]

(* Setting one field of one account. *)
LEMMA ContentAfterSet ==
    ASSUME NEW v \in Version, NEW D, AccountContent(v, D), NEW a \in Address, NEW f \in Fields,
           NEW x, x = Empty \/ x \in FieldContents(v, f)
    PROVE  LET after == WithAll(D, Single(AccountKey(v, a, f), x))
           IN  /\ AccountContent(v, after)
               /\ \A b \in Address, g \in Fields : b # a \/ g # f =>
                      Lookup(after, AccountKey(v, b, g)) = Lookup(D, AccountKey(v, b, g))
               /\ Lookup(after, AccountKey(v, a, f)) = IF x = Empty THEN None ELSE x
<1> DEFINE key == AccountKey(v, a, f)
           data == Single(key, x)
           gone == {k \in {key} : x = Empty}
           after == WithAll(D, data)
<1>1. after = [k \in (DOMAIN D \cup {key}) \ gone |-> IF k = key THEN x ELSE D[k]]
  <2>1. {k \in DOMAIN data : data[k] = Empty} = gone
    BY DEF Single
  <2>2. Extend(D, data) = [k \in DOMAIN D \cup {key} |-> IF k = key THEN x ELSE D[k]]
    BY DEF Extend, Single
  <2> HIDE DEF data, gone, key
  <2> QED BY <2>1, <2>2 DEF WithAll, Without
<1> HIDE DEF after, key, data
<1>2. DOMAIN after = (DOMAIN D \cup {key}) \ gone
  BY <1>1
<1>3. \A k \in DOMAIN after : after[k] = IF k = key THEN x ELSE D[k]
  BY <1>1
<1>4. after = [k \in DOMAIN after |-> after[k]]
  BY <1>1
<1>5. \A b \in Address, g \in Fields :
          AccountKey(v, b, g) = key => b = a /\ g = f
  BY AccountKeyParts DEF key
<1>6. AccountContent(v, after)
  <2>1. DOMAIN after \subseteq AccountKeys(v)
    BY <1>2 DEF AccountContent, AccountKeys, Fields, key
  <2>2. ASSUME NEW b \in Address, NEW g \in Fields, AccountKey(v, b, g) \in DOMAIN after
        PROVE  after[AccountKey(v, b, g)] \in FieldContents(v, g)
    <3>1. CASE AccountKey(v, b, g) = key
      BY <1>2, <1>3, <1>5, <2>2, <3>1
    <3>2. CASE AccountKey(v, b, g) # key
      BY <1>2, <1>3, <2>2, <3>2 DEF AccountContent
    <3> QED BY <3>1, <3>2
  <2> QED BY <1>4, <2>1, <2>2 DEF AccountContent
<1>7. ASSUME NEW b \in Address, NEW g \in Fields, b # a \/ g # f
      PROVE  Lookup(after, AccountKey(v, b, g)) = Lookup(D, AccountKey(v, b, g))
  <2>1. AccountKey(v, b, g) # key
    BY <1>5, <1>7
  <2> QED BY <1>2, <1>3, <2>1 DEF Lookup
<1>8. Lookup(after, key) = IF x = Empty THEN None ELSE x
  BY <1>2, <1>3 DEF Lookup
<1> QED BY <1>6, <1>7, <1>8 DEF after, key, data

(* A setter keeps the accounts trie exact.                                 *)
LEMMA SetFieldKeeps ==
    ASSUME NEW v \in Version, NEW B, NEW t, NEW D, TrieOn(t, B, v, <<>>, D),
           AccountContent(v, D),
           NEW a \in Address, NEW f \in Fields, NEW x, x = Empty \/ x \in FieldContents(v, f)
    PROVE  LET after == SetField(t, a, f, x)
           IN  /\ TrieOn(after, B, v, <<>>, WithAll(D, Single(AccountKey(v, a, f), x)))
               /\ Grows(t, after)
<1> DEFINE data == Single(AccountKey(v, a, f), x)
           new == WithAll(D, data)
           P == <<>>
<1>1. SetField(t, a, f, x) = MptBatchSet(t, data)
  BY DEF SetField, MptSet, TrieOn, OverlayOK, Single
<1>2. AccountContent(v, new)
  BY ContentAfterSet
<1>3. Fits(Symbol, v, P, D) /\ Fits(Symbol, v, P, new)
  <2> HIDE DEF new
  <2> QED BY <1>2, AccountsFit
<1>4. 0 \in Symbol /\ 1 \in Symbol /\ P \in Seq(Symbol) /\ TrieOn(t, B, v, P, D)
  BY SymbolFacts
<1> HIDE DEF data, P
<1>5. TrieOn(MptBatchSet(t, data), B, v, P, new) /\ Grows(t, MptBatchSet(t, data))
  BY ONLY <1>3, <1>4, BatchSetKeepsExact
<1> QED BY <1>1, <1>5 DEF data, P

-----------------------------------------------------------------------------
(* The contents of storages, operation by operation. *)

(* What `batch_set' leaves is the content of a storage. *)
LEMMA ContentAfterWrite ==
    ASSUME NEW v \in Version, NEW C \in StorageContents(v), NEW data,
           DOMAIN data \subseteq StorageKeys, \A k \in DOMAIN data : data[k] \in StorageValue
    PROVE  WithAll(C, TrieData(v, data)) \in StorageContents(v)
<1> DEFINE new == TrieData(v, data)
           gone == {k \in DOMAIN new : new[k] = Empty}
           after == WithAll(C, new)
           K == {StorageKey(v, k) : k \in StorageKeys}
<1>1. DOMAIN new \subseteq K /\ \A x \in DOMAIN new : new[x] \in StorageValue
  <2>1. DOMAIN new = {StorageKey(v, k) : k \in DOMAIN data}
    BY DEF TrieData
  <2>2. \A x \in DOMAIN new : new[x] = data[CHOOSE k \in DOMAIN data : StorageKey(v, k) = x]
    BY DEF TrieData
  <2> HIDE DEF new
  <2> QED BY <2>1, <2>2
<1>2. DOMAIN C \subseteq K /\ \A x \in DOMAIN C : C[x] \in StorageValue \ {Empty}
  BY StorageContentsShape
<1> HIDE DEF new, K
<1>3. /\ DOMAIN after = (DOMAIN C \cup DOMAIN new) \ gone
      /\ \A x \in DOMAIN after : after[x] = IF x \in DOMAIN new THEN new[x] ELSE C[x]
      /\ after = [x \in DOMAIN after |-> after[x]]
  BY DEF WithAll, Extend, Without
<1>4. DOMAIN after \subseteq K
  BY <1>1, <1>2, <1>3
<1>5. \A x \in DOMAIN after : after[x] \in StorageValue \ {Empty}
  BY <1>1, <1>2, <1>3
<1> HIDE DEF after
<1> QED BY <1>3, <1>4, <1>5, StorageContentsShape DEF K, after, new

(* Without some of its keys it still is one, and without all it is empty. *)
LEMMA ContentAfterRemove ==
    ASSUME NEW v \in Version, NEW C \in StorageContents(v), NEW keys
    PROVE  WithoutAll(C, keys) \in StorageContents(v)
<1> DEFINE after == WithoutAll(C, keys)
           K == {StorageKey(v, k) : k \in StorageKeys}
<1>1. DOMAIN C \subseteq K /\ \A x \in DOMAIN C : C[x] \in StorageValue \ {Empty}
  BY StorageContentsShape
<1> HIDE DEF K
<1>2. /\ DOMAIN after = DOMAIN C \ keys
      /\ \A x \in DOMAIN after : after[x] = C[x]
      /\ after = [x \in DOMAIN after |-> after[x]]
  BY DEF WithoutAll, Without
<1>3. DOMAIN after \subseteq K /\ \A x \in DOMAIN after : after[x] \in StorageValue \ {Empty}
  BY <1>1, <1>2
<1> HIDE DEF after
<1> QED BY <1>2, <1>3, StorageContentsShape DEF K, after

(* Without any of its keys a content is empty. *)
LEMMA WithoutEverything ==
    ASSUME NEW C
    PROVE  WithoutAll(C, DOMAIN C) = NoContent
BY DEF WithoutAll, Without, NoContent, EmptyRows

(* A storage takes the V2 keys and keeps its values. *)
LEMMA ContentAfterUpgrade ==
    ASSUME NEW C \in StorageContents(V1)
    PROVE  /\ UpgradedData(C) \in StorageContents(V2)
           /\ WithAll(NoContent, UpgradedData(C)) \in StorageContents(V2)
<1> DEFINE new(k) == StorageKey(V2, DropVisibility(k))
           data == UpgradedData(C)
           after == WithAll(NoContent, data)
           K == {StorageKey(V2, k) : k \in StorageKeys}
<1>1. /\ DOMAIN C \subseteq {StorageKey(V1, k) : k \in StorageKeys}
      /\ \A x \in DOMAIN C : C[x] \in StorageValue \ {Empty}
  BY StorageContentsShape
<1>2. \A k \in DOMAIN C : DropVisibility(k) \in StorageKeys
  BY <1>1, StorageKeyParts DEF Version
<1>3. /\ DOMAIN data = {new(k) : k \in DOMAIN C}
      /\ \A n \in DOMAIN data : data[n] = C[CHOOSE k \in DOMAIN C : new(k) = n]
      /\ data = [n \in DOMAIN data |-> data[n]]
  BY DEF UpgradedData
<1> HIDE DEF data
<1>4. DOMAIN data \subseteq K
  BY <1>2, <1>3
<1>5. \A n \in DOMAIN data : data[n] \in StorageValue \ {Empty}
  BY <1>1, <1>3
<1>6. data \in StorageContents(V2)
  BY <1>3, <1>4, <1>5, StorageContentsShape
<1>7. after = data
  <2>1. {k \in DOMAIN data : data[k] = Empty} = {} /\ DOMAIN NoContent = {}
    BY <1>5 DEF NoContent, EmptyRows
  <2>2. after = [k \in DOMAIN data |-> data[k]]
    BY <2>1 DEF WithAll, Extend, Without
  <2> QED BY <1>3, <2>2
<1> QED BY <1>6, <1>7 DEF data

(* The accounts take the V2 keys, without their storage hashes. *)
LEMMA AccountsAfterUpgrade ==
    ASSUME NEW D, AccountContent(V1, D)
    PROVE  LET after == WithAll(NoContent, UpgradedFields(D))
           IN  /\ AccountContent(V2, after)
               /\ \A a \in Address : HashAt(V2, after, a) = None
<1> DEFINE kept == {k \in DOMAIN D : IsKept(FieldOf(V1, k), D[k])}
           new(k) == AccountKey(V2, AccountAddress(k), FieldOf(V1, k))
           data == UpgradedFields(D)
           after == WithAll(NoContent, data)
<1>1. /\ DOMAIN data = {new(k) : k \in kept}
      /\ \A n \in DOMAIN data : data[n] = D[CHOOSE k \in kept : new(k) = n]
  BY DEF UpgradedFields
<1>2. \A k \in DOMAIN D : \E a \in Address, f \in Fields :
          k = AccountKey(V1, a, f) /\ AccountAddress(k) = a /\ FieldOf(V1, k) = f
             /\ D[k] \in FieldContents(V1, f)
  BY AccountKeyParts DEF AccountContent, AccountKeys, Fields, Version
<1>3. ASSUME NEW k \in kept
      PROVE  \E a \in Address, f \in Field :
                 new(k) = AccountKey(V2, a, f) /\ D[k] \in FieldValue[f] \ {Empty}
  <2>1. PICK a \in Address, f \in Fields :
            AccountAddress(k) = a /\ FieldOf(V1, k) = f /\ D[k] \in FieldContents(V1, f)
    BY <1>2, <1>3
  <2>2. f # StorageHash
    BY <1>3, <2>1 DEF IsKept
  <2>3. f \in Field /\ D[k] \in FieldValue[f] \ {Empty}
    BY <2>1, <2>2 DEF Fields, FieldContents
  <2> QED BY <2>1, <2>3
<1> HIDE DEF kept, new, data
<1>4. ASSUME NEW n \in DOMAIN data
      PROVE  \E a \in Address, f \in Field :
                 n = AccountKey(V2, a, f) /\ data[n] \in FieldValue[f] \ {Empty}
  <2> DEFINE k == CHOOSE k \in kept : new(k) = n
  <2>1. k \in kept /\ new(k) = n /\ data[n] = D[k]
    BY <1>1, <1>4
  <2> HIDE DEF k
  <2> QED BY <1>3, <2>1
<1>5. /\ DOMAIN after = DOMAIN data
      /\ \A n \in DOMAIN data : after[n] = data[n]
      /\ after = [n \in DOMAIN after |-> after[n]]
  <2>1. {k \in DOMAIN data : data[k] = Empty} = {} /\ DOMAIN NoContent = {}
    BY <1>4 DEF NoContent, EmptyRows
  <2>2. after = [k \in DOMAIN data |-> data[k]]
    BY <2>1 DEF WithAll, Extend, Without
  <2> QED BY <2>2
<1> HIDE DEF after
<1>6. DOMAIN after \subseteq AccountKeys(V2)
  BY <1>4, <1>5 DEF AccountKeys
<1>7. V2 \in Version
  BY DEF Version
<1>8. ASSUME NEW a \in Address, NEW f \in Fields, AccountKey(V2, a, f) \in DOMAIN after
      PROVE  f \in Field /\ after[AccountKey(V2, a, f)] \in FieldValue[f] \ {Empty}
  BY <1>4, <1>5, <1>7, <1>8, AccountKeyParts
<1>9. AccountContent(V2, after)
  <2>1. \A a \in Address, f \in Fields : AccountKey(V2, a, f) \in DOMAIN after =>
            after[AccountKey(V2, a, f)] \in FieldContents(V2, f)
    BY <1>8, SymbolFacts DEF FieldContents
  <2> QED BY <1>5, <1>6, <2>1 DEF AccountContent
<1>10. \A a \in Address : HashAt(V2, after, a) = None
  BY <1>8, SymbolFacts DEF HashAt, Lookup, Fields
<1> QED BY <1>9, <1>10 DEF after, data

(* What `storage_info_map' says. *)
LEMMA StoragesOfRecord ==
    ASSUME NEW D, AccountContent(V1, D)
    PROVE  LET info == StorageInfo(D)
           IN  /\ DOMAIN info = {a \in Address : HashAt(V1, D, a) # None}
               /\ \A a \in DOMAIN info : info[a] = HashAt(V1, D, a)
               /\ \A a \in DOMAIN info : info[a] \in StorageContents(V1)
<1> DEFINE hashes == {k \in DOMAIN D : FieldOf(V1, k) = StorageHash}
           info == StorageInfo(D)
<1>1. /\ DOMAIN info = {AccountAddress(k) : k \in hashes}
      /\ \A a \in DOMAIN info : info[a] = D[AccountKey(V1, a, StorageHash)]
  BY DEF StorageInfo
<1>2. V1 \in Version
  BY DEF Version
<1>3. \A k \in DOMAIN D : \E a \in Address, f \in Fields :
          k = AccountKey(V1, a, f) /\ AccountAddress(k) = a /\ FieldOf(V1, k) = f
  BY <1>2, AccountKeyParts DEF AccountContent, AccountKeys, Fields
<1> HIDE DEF info
<1>4. \A a : a \in DOMAIN info <=> a \in Address /\ AccountKey(V1, a, StorageHash) \in DOMAIN D
  BY <1>1, <1>2, <1>3, AccountKeyParts
<1>5. \A a \in Address : AccountKey(V1, a, StorageHash) \in DOMAIN D =>
          D[AccountKey(V1, a, StorageHash)] \in StorageContents(V1)
  BY DEF AccountContent, FieldContents, Fields
<1>6. \A a \in Address : HashAt(V1, D, a) # None <=> AccountKey(V1, a, StorageHash) \in DOMAIN D
  BY <1>2, <1>5, NoneIsNoContent DEF HashAt, Lookup
<1> QED BY <1>1, <1>4, <1>5, <1>6 DEF info, HashAt, Lookup

(* A storage hash on record is the content of a storage. *)
LEMMA HashIsContent ==
    ASSUME NEW v \in Version, NEW D, AccountContent(v, D), NEW a \in Address,
           HashAt(v, D, a) # None
    PROVE  HashAt(v, D, a) \in StorageContents(v)
<1>1. AccountKey(v, a, StorageHash) \in DOMAIN D
  BY DEF HashAt, Lookup
<1> QED BY <1>1 DEF AccountContent, FieldContents, Fields, HashAt, Lookup

-----------------------------------------------------------------------------
(* A session. *)

(* The rows of a storage that is on record are its nodes; there are none   *)
(* of one that is not.                                                     *)
ExactOrNone(B, v, P, C) ==
    IF C = None THEN PartOf(B, P) = {} ELSE Exactly(PartOf(B, P), v, P, C)

(* A session of version v over the rows B of a database: accounts trie t   *)
(* with content D, and the storages of map m.  Storages it did not open    *)
(* are in the database as they are on record.                              *)
Session(v, t, D, m, B) ==
    /\ v \in Version
    /\ TrieOn(t, B, v, <<>>, D) /\ AccountContent(v, D)
    /\ m = [a \in DOMAIN m |-> m[a]] /\ DOMAIN m \subseteq Address
    /\ \A a \in DOMAIN m : \E C \in StorageContents(v) : TrieOn(m[a], B, v, <<a>>, C)
    /\ \A a \in Address \ DOMAIN m : ExactOrNone(B, v, <<a>>, HashAt(v, D, a))
    /\ v = V1 => \A a \in DOMAIN m : HashAt(v, D, a) # None

(* A map with a trie for a. *)
MapWith(m, a, trie) == [b \in DOMAIN m \cup {a} |-> IF b = a THEN trie ELSE m[b]]

TouchedBy(m, a) == IF a \in DOMAIN m THEN Touched(m[a].db) ELSE {}

(* A caller sets a field: storage hashes stay. *)
LEMMA SessionAfterSet ==
    ASSUME NEW v, NEW t, NEW D, NEW m, NEW B, Session(v, t, D, m, B),
           NEW a \in Address, NEW f \in Field, NEW x \in FieldValue[f]
    PROVE  \E E : Session(v, SetField(t, a, f, x), E, m, B)
<1> DEFINE E == WithAll(D, Single(AccountKey(v, a, f), x))
<1>1. v \in Version /\ TrieOn(t, B, v, <<>>, D) /\ AccountContent(v, D)
  BY DEF Session
<1>2. f \in Fields /\ f # StorageHash /\ (x = Empty \/ x \in FieldContents(v, f))
  BY SymbolFacts DEF Fields, FieldContents
<1>3. TrieOn(SetField(t, a, f, x), B, v, <<>>, E)
  BY <1>1, <1>2, SetFieldKeeps
<1>4. /\ AccountContent(v, E)
      /\ \A b \in Address, g \in Fields : b # a \/ g # f =>
             Lookup(E, AccountKey(v, b, g)) = Lookup(D, AccountKey(v, b, g))
  BY <1>1, <1>2, ContentAfterSet
<1> HIDE DEF E
<1>5. \A b \in Address : HashAt(v, E, b) = HashAt(v, D, b)
  BY <1>2, <1>4 DEF HashAt, Fields
<1>6. Session(v, SetField(t, a, f, x), E, m, B)
  BY <1>1, <1>3, <1>4, <1>5 DEF Session
<1> QED BY <1>6

(* A storage trie enters the map or changes there. *)
LEMMA SessionWithTrie ==
    ASSUME NEW v, NEW t, NEW D, NEW m, NEW B, Session(v, t, D, m, B),
           NEW a \in Address, NEW C \in StorageContents(v), NEW trie,
           TrieOn(trie, B, v, <<a>>, C),
           v = V1 => HashAt(v, D, a) # None
    PROVE  Session(v, t, D, MapWith(m, a, trie), B)
<1> DEFINE n == MapWith(m, a, trie)
<1>1. DOMAIN n = DOMAIN m \cup {a} /\ n = [b \in DOMAIN n |-> n[b]]
  BY DEF MapWith
<1>2. \A b \in DOMAIN n : n[b] = IF b = a THEN trie ELSE m[b]
  BY DEF MapWith
<1> HIDE DEF n
<1>3. Session(v, t, D, n, B)
  BY <1>1, <1>2 DEF Session
<1> QED BY <1>3 DEF n

(* The two ways the map changes. *)
LEMMA MapChanges ==
    ASSUME NEW m, m = [b \in DOMAIN m |-> m[b]], NEW a, NEW trie
    PROVE  /\ With(m, a, trie) = MapWith(m, a, trie)
           /\ a \in DOMAIN m => [m EXCEPT ![a] = trie] = MapWith(m, a, trie)
<1>1. With(m, a, trie) = MapWith(m, a, trie)
  BY DEF With, Extend, MapWith
<1>2. a \in DOMAIN m => [m EXCEPT ![a] = trie] = MapWith(m, a, trie)
  <2> SUFFICES ASSUME a \in DOMAIN m
               PROVE  [m EXCEPT ![a] = trie] = MapWith(m, a, trie)
    OBVIOUS
  <2>1. DOMAIN m \cup {a} = DOMAIN m
    OBVIOUS
  <2>2. [m EXCEPT ![a] = trie] = [b \in DOMAIN m |-> IF b = a THEN trie ELSE m[b]]
    OBVIOUS
  <2> QED BY <2>1, <2>2 DEF MapWith
<1> QED BY <1>1, <1>2

(* A storage on record is opened. *)
LEMMA SessionAfterOpenStorage ==
    ASSUME NEW v, NEW t, NEW D, NEW m, NEW B, Session(v, t, D, m, B),
           NEW a \in Address, a \notin DOMAIN m, HashAt(v, D, a) # None
    PROVE  Session(v, t, D, With(m, a, StorageOpen(v, a, HashAt(v, D, a))), B)
<1> DEFINE C == HashAt(v, D, a)
           trie == StorageOpen(v, a, C)
<1>1. C \in StorageContents(v)
  BY HashIsContent DEF Session
<1>2. C # None
  OBVIOUS
<1> HIDE DEF C
<1>3. Exactly(PartOf(B, <<a>>), v, <<a>>, C)
  BY <1>2 DEF Session, ExactOrNone, C
<1>4. TrieOn(trie, B, v, <<a>>, C)
  BY <1>3, OpenIsExact DEF StorageOpen
<1>5. m = [b \in DOMAIN m |-> m[b]]
  BY DEF Session
<1> HIDE DEF trie
<1>6. With(m, a, trie) = MapWith(m, a, trie)
  BY <1>5, MapChanges
<1>7. v = V1 => HashAt(v, D, a) # None
  OBVIOUS
<1>8. Session(v, t, D, With(m, a, trie), B)
  BY <1>1, <1>4, <1>6, <1>7, SessionWithTrie
<1> QED BY <1>8 DEF trie, C

(* A storage that is not on record has no rows: it is created and put on   *)
(* record.                                                                 *)
LEMMA SessionAfterCreateStorage ==
    ASSUME NEW v, NEW t, NEW D, NEW m, NEW B, Session(v, t, D, m, B),
           NEW a \in Address, a \notin DOMAIN m, HashAt(v, D, a) = None
    PROVE  \E E : Session(v, SetField(t, a, StorageHash, NoContent), E,
                          With(m, a, StorageNew(v, a)), B)
<1> DEFINE f == StorageHash
           E == WithAll(D, Single(AccountKey(v, a, f), NoContent))
           trie == StorageNew(v, a)
           after == SetField(t, a, f, NoContent)
<1>1. v \in Version /\ TrieOn(t, B, v, <<>>, D) /\ AccountContent(v, D)
  BY DEF Session
<1>2. f \in Fields /\ NoContent \in FieldContents(v, f) /\ NoContent # Empty /\ NoContent # None
  BY <1>1, NoneIsNoContent DEF Fields, FieldContents
<1>3. TrieOn(after, B, v, <<>>, E)
  BY <1>1, <1>2, SetFieldKeeps
<1>4. /\ AccountContent(v, E)
      /\ \A b \in Address, g \in Fields : b # a \/ g # f =>
             Lookup(E, AccountKey(v, b, g)) = Lookup(D, AccountKey(v, b, g))
      /\ Lookup(E, AccountKey(v, a, f)) = NoContent
  BY <1>1, <1>2, ContentAfterSet
<1> HIDE DEF E
<1>5. /\ \A b \in Address \ {a} : HashAt(v, E, b) = HashAt(v, D, b)
      /\ HashAt(v, E, a) # None
  BY <1>2, <1>4 DEF HashAt
<1>6. TrieOn(trie, B, v, <<a>>, NoContent) /\ NoContent \in StorageContents(v)
  <2>1. PartOf(B, <<a>>) = {}
    BY DEF Session, ExactOrNone
  <2>2. NoContent \in StorageContents(v)
    BY <1>1, NoneIsNoContent
  <2>3. Fits(Symbol, v, <<a>>, NoContent)
    BY <1>1, <2>2, StoragesFit
  <2>4. 0 \in Symbol /\ 1 \in Symbol /\ <<a>> \in Seq(Symbol)
    BY SymbolFacts
  <2>5. Owned(<<a>>, Row(v, <<a>>, EmptyRootRow))
    BY <2>3 DEF Fits
  <2> QED BY <2>1, <2>2, <2>4, <2>5, NewIsExact DEF StorageNew
<1> HIDE DEF after, trie
<1>7. m = [b \in DOMAIN m |-> m[b]]
  BY DEF Session
<1>8. With(m, a, trie) = MapWith(m, a, trie)
  BY <1>7, MapChanges
<1> DEFINE n == With(m, a, trie)
<1>9. /\ DOMAIN n = DOMAIN m \cup {a} /\ n = [b \in DOMAIN n |-> n[b]]
      /\ \A b \in DOMAIN n : n[b] = IF b = a THEN trie ELSE m[b]
  <2> HIDE DEF n
  <2> QED BY <1>8 DEF n, MapWith
<1> HIDE DEF n
<1>10. Session(v, after, E, n, B)
  BY <1>1, <1>3, <1>4, <1>5, <1>6, <1>9 DEF Session
<1> QED BY <1>10 DEF n, after, trie

(* An operation on a storage of the map. *)
LEMMA SessionAfterChangeStorage ==
    ASSUME NEW v, NEW t, NEW D, NEW m, NEW B, Session(v, t, D, m, B),
           NEW a \in DOMAIN m, NEW C \in StorageContents(v), NEW trie,
           TrieOn(trie, B, v, <<a>>, C)
    PROVE  Session(v, t, D, [m EXCEPT ![a] = trie], B)
<1>1. m = [b \in DOMAIN m |-> m[b]] /\ a \in Address /\ (v = V1 => HashAt(v, D, a) # None)
  BY DEF Session
<1>2. [m EXCEPT ![a] = trie] = MapWith(m, a, trie)
  BY <1>1, MapChanges
<1>3. Session(v, t, D, MapWith(m, a, trie), B)
  BY <1>1, SessionWithTrie
<1> QED BY <1>2, <1>3

-----------------------------------------------------------------------------
(* Operations on a storage trie. *)

(* What is needed to use the lemmas on tries for the storage of a.         *)
LEMMA StoragePlace ==
    ASSUME NEW v \in Version, NEW a \in Address
    PROVE  /\ 0 \in Symbol /\ 1 \in Symbol /\ <<a>> \in Seq(Symbol)
           /\ Owned(<<a>>, Row(v, <<a>>, EmptyRootRow))
           /\ Fits(Symbol, v, <<a>>, NoContent)
<1>1. NoContent \in StorageContents(v)
  BY NoneIsNoContent
<1>2. Fits(Symbol, v, <<a>>, NoContent)
  BY <1>1, StoragesFit
<1> QED BY <1>2, SymbolFacts DEF Fits

(* The root and the version of a trie. *)
LEMMA TrieParts ==
    ASSUME NEW v, NEW P, NEW B, NEW t, NEW D, TrieOn(t, B, v, P, D)
    PROVE  t.root = D /\ t.db.version = v
BY DEF TrieOn, OverlayOK

(* `batch_set'. *)
LEMMA StorageBatchSetKeeps ==
    ASSUME NEW v \in Version, NEW a \in Address, NEW C \in StorageContents(v), NEW B,
           NEW t, TrieOn(t, B, v, <<a>>, C), NEW data,
           DOMAIN data \subseteq StorageKeys, \A k \in DOMAIN data : data[k] \in StorageValue
    PROVE  LET after == StorageBatchSet(t, data)
           IN  /\ \E E \in StorageContents(v) : TrieOn(after, B, v, <<a>>, E)
               /\ Grows(t, after)
<1> DEFINE new == TrieData(v, data)
           E == WithAll(C, new)
           after == MptBatchSet(t, new)
           P == <<a>>
<1>1. StorageBatchSet(t, data) = after
  BY TrieParts DEF StorageBatchSet
<1>2. E \in StorageContents(v)
  BY ContentAfterWrite
<1> HIDE DEF new
<1>3. Fits(Symbol, v, P, C) /\ Fits(Symbol, v, P, E)
  <2> HIDE DEF E
  <2> QED BY <1>2, StoragesFit
<1>4. 0 \in Symbol /\ 1 \in Symbol /\ P \in Seq(Symbol) /\ TrieOn(t, B, v, P, C)
  BY StoragePlace
<1> HIDE DEF P
<1>5. TrieOn(after, B, v, P, E) /\ Grows(t, after)
  BY ONLY <1>3, <1>4, BatchSetKeepsExact
<1> HIDE DEF E, after
<1> QED BY <1>1, <1>2, <1>5 DEF P

(* `remove_trie' and, of some of the keys, what `upgrade' begins with. *)
LEMMA RemoveTrieKeeps ==
    ASSUME NEW v \in Version, NEW a \in Address, NEW C \in StorageContents(v), NEW B,
           NEW t, TrieOn(t, B, v, <<a>>, C)
    PROVE  LET after == RemoveTrie(t)
           IN  TrieOn(after, B, v, <<a>>, NoContent) /\ Grows(t, after)
<1> DEFINE keys == DOMAIN C
           after == MptBatchRemove(t, keys)
           P == <<a>>
<1>1. RemoveTrie(t) = after
  BY TrieParts DEF RemoveTrie
<1>2. WithoutAll(C, keys) = NoContent
  BY WithoutEverything
<1> HIDE DEF keys
<1>3. Fits(Symbol, v, P, C) /\ Fits(Symbol, v, P, WithoutAll(C, keys))
  BY <1>2, StoragesFit, StoragePlace
<1>4. 0 \in Symbol /\ 1 \in Symbol /\ P \in Seq(Symbol) /\ TrieOn(t, B, v, P, C)
  BY StoragePlace
<1> HIDE DEF P
<1>5. TrieOn(after, B, v, P, WithoutAll(C, keys)) /\ Grows(t, after)
  BY ONLY <1>3, <1>4, BatchRemoveKeepsExact
<1> HIDE DEF after
<1> QED BY <1>1, <1>2, <1>5 DEF P

(* `remove'. *)
LEMMA StorageRemoveKeeps ==
    ASSUME NEW v \in Version, NEW a \in Address, NEW C \in StorageContents(v), NEW B,
           NEW t, TrieOn(t, B, v, <<a>>, C), NEW k
    PROVE  LET after == StorageRemove(t, k)
           IN  /\ \E E \in StorageContents(v) : TrieOn(after, B, v, <<a>>, E)
               /\ Grows(t, after)
<1> DEFINE key == StorageKey(v, k)
           E == WithoutAll(C, {key})
           after == MptRemove(t, key)
           P == <<a>>
<1>1. StorageRemove(t, k) = after
  BY TrieParts DEF StorageRemove
<1> HIDE DEF key
<1>2. E \in StorageContents(v)
  BY ContentAfterRemove
<1>3. Fits(Symbol, v, P, C) /\ Fits(Symbol, v, P, E)
  <2> HIDE DEF E
  <2> QED BY <1>2, StoragesFit
<1>4. 0 \in Symbol /\ 1 \in Symbol /\ P \in Seq(Symbol) /\ TrieOn(t, B, v, P, C)
  BY StoragePlace
<1>5. C = [x \in DOMAIN C |-> C[x]]
  BY StorageContentsShape
<1> HIDE DEF P
<1>6. TrieOn(after, B, v, P, E) /\ Grows(t, after)
  BY ONLY <1>3, <1>4, <1>5, RemoveKeepsExact
<1> HIDE DEF E, after
<1> QED BY <1>1, <1>2, <1>6 DEF P

(* The rows of a storage are in the overlay, or in the database if what    *)
(* the overlay did not touch is there.                                     *)
LEMMA StorageIsFound ==
    ASSUME NEW v, NEW a, NEW B, NEW t, NEW C, TrieOn(t, B, v, <<a>>, C), NEW A,
           PartOf(A, <<a>>) \ Touched(t.db) = PartOf(B, <<a>>) \ Touched(t.db)
    PROVE  Finds(t, A, v, <<a>>, C)
<1> DEFINE P == <<a>>
           o == t.db
<1>1. TrieRows(v, P, C) = PartOf(Visible(B, o), P)
  BY DEF TrieOn, Exactly
<1>2. PartOf(A, P) \ Touched(o) = PartOf(B, P) \ Touched(o)
  OBVIOUS
<1> HIDE DEF o, P
<1>3. PartOf(Visible(A, o), P) = PartOf(Visible(B, o), P)
  BY <1>2 DEF PartOf, Visible, Touched
<1>4. TrieRows(v, P, C) \subseteq Visible(A, o)
  BY <1>1, <1>3 DEF PartOf
<1> QED BY <1>4 DEF Finds, Sees, o, P

(* That of an empty storage is its root.                                   *)
LEMMA EmptyRootIsHeld ==
    ASSUME NEW v \in Version, NEW a \in Address, NEW B,
           NEW t, TrieOn(t, B, v, <<a>>, NoContent),
           NEW db, \A r \in DOMAIN db : db[r] = Last(r),
           PartOf(DOMAIN db, <<a>>) \ Touched(t.db) = PartOf(B, <<a>>) \ Touched(t.db)
    PROVE  Get(t.db, db, EmptyRootRow) # None
<1> DEFINE P == <<a>>
           A == DOMAIN db
           o == t.db
           row == Row(v, P, EmptyRootRow)
<1>1. OverlayOK(o, v, P)
  BY DEF TrieOn
<1>2. TrieRows(v, P, NoContent) = {row}
  BY NodesOfNoContent DEF TrieRows
<1>3. Finds(t, A, v, P, NoContent)
  BY StorageIsFound
<1>4. row \in Visible(A, o)
  BY <1>2, <1>3 DEF Finds, Sees
<1> HIDE DEF o, A, P
<1>5. Last(row) # None
  <2>1. 0 \in Symbol /\ 1 \in Symbol /\ P \in Seq(Symbol)
    BY StoragePlace DEF P
  <2>2. Last(row) = NoContent
    BY <2>1, EmptyRootIsNode, LastOfRow
  <2> QED BY <2>2, NoneIsNoContent
<1> HIDE DEF row
<1>6. Get(o, db, EmptyRootRow) # None
  BY <1>1, <1>4, <1>5, VisibleIsHeld DEF row, A
<1> QED BY <1>6 DEF o

(* `upgrade' of a storage. *)
LEMMA StorageUpgradeKeeps ==
    ASSUME NEW a \in Address, NEW B,
           NEW t, NEW C \in StorageContents(V1), TrieOn(t, B, V1, <<a>>, C),
           NEW db, \A r \in DOMAIN db : db[r] = Last(r),
           PartOf(DOMAIN db, <<a>>) \ Touched(t.db) = PartOf(B, <<a>>) \ Touched(t.db)
    PROVE  LET after == StorageUpgrade(t, db)
           IN  /\ \E E \in StorageContents(V2) : TrieOn(after, B, V2, <<a>>, E)
               /\ Grows(t, after)
<1> DEFINE P == <<a>>
           after == StorageUpgrade(t, db)
<1>0. V1 \in Version /\ V2 \in Version
  BY DEF Version
<1>1. t.root = C
  BY TrieParts
<1>2. /\ 0 \in Symbol /\ 1 \in Symbol /\ P \in Seq(Symbol)
      /\ Fits(Symbol, V1, P, NoContent) /\ Fits(Symbol, V2, P, NoContent)
      /\ NoContent # None /\ NoContent \in StorageContents(V2)
  BY <1>0, StoragePlace, NoneIsNoContent
<1>3. CASE C = NoContent
  <2>1. Get(t.db, db, EmptyRootRow) # None
    BY <1>0, <1>3, EmptyRootIsHeld
  <2>2. after = DeinitAndUpgrade(t, db)
    BY <1>1, <1>3 DEF StorageUpgrade
  <2>3. Owned(P, Row(V1, P, EmptyRootRow)) /\ Owned(P, Row(V2, P, EmptyRootRow))
    BY <1>2 DEF Fits
  <2>4. TrieOn(t, B, V1, P, NoContent)
    BY <1>3
  <2> HIDE DEF after, P
  <2>5. TrieOn(DeinitAndUpgrade(t, db), B, V2, P, NoContent) /\ Grows(t, DeinitAndUpgrade(t, db))
    BY <1>2, <2>1, <2>3, <2>4, DeinitKeepsExact
  <2> QED BY <1>2, <2>2, <2>5 DEF after, P
<1>4. CASE C # NoContent
  <2> DEFINE data == UpgradedData(C)
             E == WithAll(NoContent, data)
             emptied == MptBatchRemove(t, DOMAIN C)
             result == MptBatchSet(DeinitAndUpgrade(emptied, db), data)
  <2>1. Finds(t, DOMAIN db, V1, P, C)
    BY StorageIsFound
  <2>2. after = result
    BY <1>1, <1>4 DEF StorageUpgrade, RemoveTrie
  <2>3. E \in StorageContents(V2)
    BY ContentAfterUpgrade
  <2> HIDE DEF data
  <2>4. Fits(Symbol, V1, P, C) /\ Fits(Symbol, V2, P, E)
    <3> HIDE DEF E
    <3> QED BY <1>0, <2>3, StoragesFit
  <2>5. TrieOn(t, B, V1, P, C)
    OBVIOUS
  <2> HIDE DEF after, P
  <2>6. TrieOn(result, B, V2, P, E) /\ Grows(t, result)
    BY ONLY <1>2, <2>1, <2>4, <2>5, \A r \in DOMAIN db : db[r] = Last(r), UpgradeKeepsExact
  <2> HIDE DEF E, result
  <2> QED BY <2>2, <2>3, <2>6 DEF after, P
<1> QED BY <1>3, <1>4

(* `upgrade' of the accounts trie. *)
LEMMA AccountsUpgradeKeeps ==
    ASSUME NEW B, NEW t, NEW D, TrieOn(t, B, V1, <<>>, D), AccountContent(V1, D),
           NEW db, \A r \in DOMAIN db : db[r] = Last(r), Finds(t, DOMAIN db, V1, <<>>, D)
    PROVE  TrieOn(AccountsUpgrade(t, db), B, V2, <<>>, WithAll(NoContent, UpgradedFields(D)))
<1> DEFINE P == <<>>
           data == UpgradedFields(D)
           E == WithAll(NoContent, data)
           result == MptBatchSet(DeinitAndUpgrade(MptBatchRemove(t, DOMAIN D), db), data)
<1>0. V1 \in Version /\ V2 \in Version
  BY DEF Version
<1>1. AccountsUpgrade(t, db) = result
  BY TrieParts DEF AccountsUpgrade
<1>2. AccountContent(V2, E) /\ AccountContent(V1, NoContent) /\ AccountContent(V2, NoContent)
  BY AccountsAfterUpgrade, NoAccounts
<1> HIDE DEF data
<1>3. /\ Fits(Symbol, V1, P, D) /\ Fits(Symbol, V2, P, E)
      /\ Fits(Symbol, V1, P, NoContent) /\ Fits(Symbol, V2, P, NoContent)
  <2> HIDE DEF E
  <2> QED BY <1>0, <1>2, AccountsFit
<1>4. /\ 0 \in Symbol /\ 1 \in Symbol /\ P \in Seq(Symbol) /\ TrieOn(t, B, V1, P, D)
      /\ Finds(t, DOMAIN db, V1, P, D)
  BY SymbolFacts
<1>5. NoContent # None
  BY <1>0, NoneIsNoContent
<1> HIDE DEF P
<1>6. TrieOn(result, B, V2, P, E)
  BY ONLY <1>3, <1>4, <1>5, \A r \in DOMAIN db : db[r] = Last(r),
     UpgradeKeepsExact
<1> HIDE DEF E, result
<1> QED BY <1>1, <1>6 DEF E, P, data

-----------------------------------------------------------------------------
(* An upgrade of the session. *)

(* What the overlay of a storage has not touched is in the rows A as it is *)
(* in the rows B.                                                          *)
Agree(m, A, B) ==
    \A a \in Address :
        PartOf(A, <<a>>) \ TouchedBy(m, a) = PartOf(B, <<a>>) \ TouchedBy(m, a)

(* The storages `upgrade' finds, and the map it leaves. *)
TrieAt(m, info, a) == IF a \in DOMAIN m THEN m[a] ELSE StorageOpen(V1, a, info[a])
UpgradedMap(m, info, db) ==
    [a \in DOMAIN info |-> StorageUpgrade(TrieAt(m, info, a), db)]

(* The session is exact in V2, and has touched whatever it had before.     *)
LEMMA SessionAfterUpgrade ==
    ASSUME NEW t, NEW D, NEW m, NEW B, Session(V1, t, D, m, B),
           NEW db, \A r \in DOMAIN db : db[r] = Last(r), Agree(m, DOMAIN db, B),
           Finds(t, DOMAIN db, V1, <<>>, D)
    PROVE  LET n == UpgradedMap(m, StorageInfo(D), db)
           IN  /\ \E E : Session(V2, AccountsUpgrade(t, db), E, n, B)
               /\ \A a \in Address : TouchedBy(m, a) \subseteq TouchedBy(n, a)
<1> DEFINE info == StorageInfo(D)
           n == UpgradedMap(m, info, db)
           E == WithAll(NoContent, UpgradedFields(D))
           after == AccountsUpgrade(t, db)
<1>1. /\ TrieOn(t, B, V1, <<>>, D) /\ AccountContent(V1, D)
      /\ m = [a \in DOMAIN m |-> m[a]] /\ DOMAIN m \subseteq Address
      /\ \A a \in DOMAIN m : \E C \in StorageContents(V1) : TrieOn(m[a], B, V1, <<a>>, C)
      /\ \A a \in Address \ DOMAIN m : ExactOrNone(B, V1, <<a>>, HashAt(V1, D, a))
      /\ \A a \in DOMAIN m : HashAt(V1, D, a) # None
  BY DEF Session
<1>2. /\ DOMAIN info = {a \in Address : HashAt(V1, D, a) # None}
      /\ \A a \in DOMAIN info : info[a] = HashAt(V1, D, a) /\ info[a] \in StorageContents(V1)
  BY <1>1, StoragesOfRecord
<1>3. TrieOn(after, B, V2, <<>>, E)
  BY <1>1, AccountsUpgradeKeeps
<1>4. AccountContent(V2, E) /\ \A a \in Address : HashAt(V2, E, a) = None
  BY <1>1, AccountsAfterUpgrade
<1> HIDE DEF info, E, after
<1>5. ASSUME NEW a \in DOMAIN info
      PROVE  /\ \E C \in StorageContents(V2) :
                    TrieOn(StorageUpgrade(TrieAt(m, info, a), db), B, V2, <<a>>, C)
             /\ TouchedBy(m, a) \subseteq Touched(StorageUpgrade(TrieAt(m, info, a), db).db)
  <2> DEFINE s == TrieAt(m, info, a)
             T == Touched(s.db)
  <2>0. a \in Address /\ V1 \in Version
    BY <1>2 DEF Version
  <2>1. \E C \in StorageContents(V1) : TrieOn(s, B, V1, <<a>>, C)
    <3>1. CASE a \in DOMAIN m
      BY <1>1, <3>1 DEF TrieAt
    <3>2. CASE a \notin DOMAIN m
      <4> DEFINE C == info[a]
      <4>1. C \in StorageContents(V1) /\ C # None
        BY <1>2
      <4>2. ExactOrNone(B, V1, <<a>>, C)
        BY <1>1, <1>2, <2>0, <3>2
      <4> HIDE DEF C
      <4>3. Exactly(PartOf(B, <<a>>), V1, <<a>>, C)
        BY <4>1, <4>2 DEF ExactOrNone
      <4>4. TrieOn(StorageOpen(V1, a, C), B, V1, <<a>>, C)
        BY <4>3, OpenIsExact DEF StorageOpen
      <4> QED BY <3>2, <4>1, <4>4 DEF TrieAt, C
    <3> QED BY <3>1, <3>2
  <2>2. T = TouchedBy(m, a)
    <3>1. CASE a \in DOMAIN m
      BY <3>1 DEF TrieAt, TouchedBy
    <3>2. CASE a \notin DOMAIN m
      BY <3>2, NewOverlay DEF TrieAt, TouchedBy, StorageOpen, MptOpen, Touched
    <3> QED BY <3>1, <3>2
  <2>3. PartOf(DOMAIN db, <<a>>) \ T = PartOf(B, <<a>>) \ T
    BY <2>0, <2>2 DEF Agree
  <2>5. PICK C \in StorageContents(V1) : TrieOn(s, B, V1, <<a>>, C)
    BY <2>1
  <2> HIDE DEF s
  <2>6. /\ \E F \in StorageContents(V2) : TrieOn(StorageUpgrade(s, db), B, V2, <<a>>, F)
        /\ Grows(s, StorageUpgrade(s, db))
    BY <2>0, <2>3, <2>5, StorageUpgradeKeeps
  <2> QED BY <2>2, <2>6 DEF Grows, s
<1>6. /\ n = [a \in DOMAIN n |-> n[a]] /\ DOMAIN n = DOMAIN info
      /\ \A a \in DOMAIN n : n[a] = StorageUpgrade(TrieAt(m, info, a), db)
  BY DEF UpgradedMap
<1> HIDE DEF n
<1>7. \A a \in DOMAIN n : \E C \in StorageContents(V2) : TrieOn(n[a], B, V2, <<a>>, C)
  BY <1>5, <1>6
<1>8. \A a \in Address \ DOMAIN n : ExactOrNone(B, V2, <<a>>, HashAt(V2, E, a))
  <2> SUFFICES ASSUME NEW a \in Address \ DOMAIN n
               PROVE  PartOf(B, <<a>>) = {}
    BY <1>4 DEF ExactOrNone
  <2>1. HashAt(V1, D, a) = None
    BY <1>2, <1>6
  <2>2. a \notin DOMAIN m
    BY <1>1, <2>1
  <2> QED BY <1>1, <2>1, <2>2 DEF ExactOrNone
<1>9. \A a \in Address : TouchedBy(m, a) \subseteq TouchedBy(n, a)
  <2> SUFFICES ASSUME NEW a \in Address, NEW r \in TouchedBy(m, a)
               PROVE  r \in TouchedBy(n, a)
    OBVIOUS
  <2>1. a \in DOMAIN m
    BY DEF TouchedBy
  <2>2. a \in DOMAIN info
    BY <1>1, <1>2, <2>1
  <2> QED BY <1>5, <1>6, <2>2 DEF TouchedBy
<1>10. Session(V2, after, E, n, B)
  <2>1. V2 \in Version /\ V2 # V1
    BY DEF Version, V1, V2
  <2>2. DOMAIN n \subseteq Address
    BY <1>2, <1>6
  <2> QED BY <1>3, <1>4, <1>6, <1>7, <1>8, <2>1, <2>2 DEF Session
<1> QED BY <1>9, <1>10 DEF n, info, after

-----------------------------------------------------------------------------
(* `close' records the root of every storage of the map. *)

LessThan == {p \in Nat \X Nat : p[1] < p[2]}

(* A set of naturals has a smallest one.                                   *)
LEMMA SmallestNumber ==
    ASSUME NEW S, S \subseteq Nat, S # {}
    PROVE  \E i \in S : \A j \in S : ~(j < i)
<1>1. IsWellFoundedOn(LessThan, Nat)
  BY NatLessThanWellFounded DEF OpToRel, LessThan
<1>2. \E i \in S : \A j \in S : <<j, i>> \notin LessThan
  BY <1>1, WFMin
<1> QED BY <1>2 DEF LessThan

(* One step of the loop, and the accounts trie after each of n of them.    *)
RecordOne(m, order, x, i) == SetField(x, order[i], StorageHash, m[order[i]].root)

Records(t, m, order, n, f) ==
    f = [i \in 0 .. n |-> IF i = 0 THEN t ELSE RecordOne(m, order, f[i - 1], i)]

(* The loop ends: there are n steps of it, for every n.                    *)
LEMMA RecordsExist ==
    ASSUME NEW t, NEW m, NEW order, NEW N \in Nat
    PROVE  \E f : Records(t, m, order, N, f)
<1> DEFINE S == {n \in Nat : ~ \E f : Records(t, m, order, n, f)}
<1> SUFFICES ASSUME S # {} PROVE FALSE
  OBVIOUS
<1>0. S \subseteq Nat
  OBVIOUS
<1> HIDE DEF S
<1>1. PICK n \in S : \A j \in S : ~(j < n)
  BY <1>0, SmallestNumber
<1> USE DEF S
<1>2. n \in Nat /\ ~ \E f : Records(t, m, order, n, f)
  BY <1>1
<1>3. CASE n = 0
  <2> DEFINE f == [i \in 0 .. 0 |-> t]
  <2>1. f = [i \in 0 .. 0 |-> IF i = 0 THEN t ELSE RecordOne(m, order, f[i - 1], i)]
    OBVIOUS
  <2> HIDE DEF f
  <2>2. Records(t, m, order, n, f)
    BY <1>3, <2>1 DEF Records
  <2> QED BY <1>2, <2>2
<1>4. CASE n # 0
  <2>1. n - 1 \in Nat /\ n - 1 < n
    BY <1>2, <1>4
  <2>2. PICK f : Records(t, m, order, n - 1, f)
    BY <1>1, <2>1
  <2>3. /\ DOMAIN f = 0 .. n - 1
        /\ \A i \in 0 .. n - 1 : f[i] = IF i = 0 THEN t ELSE RecordOne(m, order, f[i - 1], i)
    BY <2>2 DEF Records
  <2> DEFINE last == RecordOne(m, order, f[n - 1], n)
             g == [i \in 0 .. n |-> IF i = n THEN last ELSE f[i]]
  <2>4. \A i \in 0 .. n : g[i] = IF i = 0 THEN t ELSE RecordOne(m, order, g[i - 1], i)
    <3> SUFFICES ASSUME NEW i \in 0 .. n
                 PROVE  g[i] = IF i = 0 THEN t ELSE RecordOne(m, order, g[i - 1], i)
      OBVIOUS
    <3>1. CASE i = 0
      BY <1>4, <2>1, <2>3, <3>1
    <3>2. CASE i # 0
      <4>1. i - 1 \in 0 .. n - 1 /\ i - 1 # n
        BY <1>2, <3>2
      <4>2. g[i - 1] = f[i - 1]
        BY <1>2, <4>1
      <4>3. CASE i = n
        BY <1>4, <4>2, <4>3
      <4>4. CASE i # n
        <5>1. i \in 0 .. n - 1
          BY <1>2, <4>4
        <5>2. g[i] = f[i]
          BY <4>4
        <5> QED BY <2>3, <3>2, <4>2, <5>1, <5>2
      <4> QED BY <4>3, <4>4
    <3> QED BY <3>1, <3>2
  <2>5. g = [i \in 0 .. n |-> g[i]]
    OBVIOUS
  <2> HIDE DEF g
  <2>6. Records(t, m, order, n, g)
    BY <2>4, <2>5 DEF Records
  <2> QED BY <1>2, <2>6
<1> QED BY <1>3, <1>4

(* Two contents that say the same of the fields a caller sets.             *)
SameFields(v, D, E) ==
    \A a \in Address, f \in Field :
        Lookup(E, AccountKey(v, a, f)) = Lookup(D, AccountKey(v, a, f))

(* After n steps the first n storages of the order are on record.          *)
OnRecord(v, D, m, order, n, E) ==
    /\ SameFields(v, D, E)
    /\ \A a \in Address :
           HashAt(v, E, a) = IF \E i \in 1 .. n : order[i] = a THEN m[a].root ELSE HashAt(v, D, a)

(* Every step keeps the trie exact.                                        *)
LEMMA RecordsKeep ==
    ASSUME NEW v \in Version, NEW B, NEW t, NEW D, TrieOn(t, B, v, <<>>, D),
           AccountContent(v, D),
           NEW m, \A a \in DOMAIN m : m[a].root \in StorageContents(v),
           DOMAIN m \subseteq Address,
           NEW N \in Nat, NEW order \in [1 .. N -> DOMAIN m], NEW f, Records(t, m, order, N, f)
    PROVE  \E E : /\ TrieOn(f[N], B, v, <<>>, E) /\ AccountContent(v, E)
                  /\ OnRecord(v, D, m, order, N, E)
<1> DEFINE Good(n) == \E E : /\ TrieOn(f[n], B, v, <<>>, E) /\ AccountContent(v, E)
                             /\ OnRecord(v, D, m, order, n, E)
           S == {n \in 0 .. N : ~Good(n)}
<1> SUFFICES ASSUME S # {} PROVE FALSE
  OBVIOUS
<1>0. S \subseteq Nat
  OBVIOUS
<1> HIDE DEF S
<1>1. PICK n \in S : \A j \in S : ~(j < n)
  BY <1>0, SmallestNumber
<1> USE DEF S
<1>2. n \in 0 .. N /\ ~Good(n)
  BY <1>1
<1>3. \A i \in 0 .. N : f[i] = IF i = 0 THEN t ELSE RecordOne(m, order, f[i - 1], i)
  BY DEF Records
<1>4. n # 0
  <2>1. f[0] = t
    BY <1>3
  <2>2. OnRecord(v, D, m, order, 0, D)
    BY DEF OnRecord, SameFields
  <2>3. Good(0)
    BY <2>1, <2>2
  <2> QED BY <1>2, <2>3
<1>5. n - 1 \in 0 .. N /\ n - 1 < n /\ n \in 1 .. N /\ n \in Nat
  BY <1>2, <1>4
<1>6. Good(n - 1)
  BY <1>1, <1>5
<1> DEFINE before == f[n - 1]
           a == order[n]
           x == m[a].root
<1>7. PICK E : /\ TrieOn(before, B, v, <<>>, E) /\ AccountContent(v, E)
               /\ OnRecord(v, D, m, order, n - 1, E)
  BY <1>6
<1>8. a \in DOMAIN m /\ a \in Address
  BY <1>5
<1>9. StorageHash \in Fields /\ x \in FieldContents(v, StorageHash) /\ x # Empty
  BY <1>8, NoneIsNoContent DEF Fields, FieldContents
<1>10. f[n] = SetField(before, a, StorageHash, x)
  BY <1>3, <1>4, <1>5 DEF RecordOne
<1> DEFINE F == WithAll(E, Single(AccountKey(v, a, StorageHash), x))
<1> HIDE DEF before, Good, x, a
<1>11. TrieOn(SetField(before, a, StorageHash, x), B, v, <<>>, F)
  BY <1>7, <1>8, <1>9, SetFieldKeeps
<1>12. /\ AccountContent(v, F)
       /\ \A b \in Address, g \in Fields : b # a \/ g # StorageHash =>
              Lookup(F, AccountKey(v, b, g)) = Lookup(E, AccountKey(v, b, g))
       /\ Lookup(F, AccountKey(v, a, StorageHash)) = x
  BY <1>7, <1>8, <1>9, ContentAfterSet
<1> HIDE DEF F
<1>13. OnRecord(v, D, m, order, n, F)
  <2>0. SameFields(v, D, F)
    BY <1>7, <1>12, SymbolFacts DEF OnRecord, SameFields, Fields
  <2> SUFFICES ASSUME NEW b \in Address
               PROVE  HashAt(v, F, b) = IF \E i \in 1 .. n : order[i] = b THEN m[b].root
                                        ELSE HashAt(v, D, b)
    BY <2>0 DEF OnRecord
  <2>1. CASE b = a
    <3>1. HashAt(v, F, b) = x
      BY <1>12, <2>1 DEF HashAt
    <3> QED BY <1>5, <2>1, <3>1 DEF x, a
  <2>2. CASE b # a
    <3>1. HashAt(v, F, b) = HashAt(v, E, b)
      BY <1>9, <1>12, <2>2 DEF HashAt
    <3>2. (\E i \in 1 .. n : order[i] = b) <=> (\E i \in 1 .. n - 1 : order[i] = b)
      BY <1>5, <2>2 DEF a
    <3> QED BY <1>7, <3>1, <3>2 DEF OnRecord
  <2> QED BY <2>1, <2>2
<1>14. Good(n)
  BY <1>10, <1>11, <1>12, <1>13 DEF Good
<1> QED BY <1>2, <1>14

(* An order of a finite set lists all of it.                               *)
LEMMA OrderIsComplete ==
    ASSUME NEW M, IsFiniteSet(M), NEW order \in SetToSeqs(M)
    PROVE  /\ Len(order) \in Nat
           /\ order \in [1 .. Len(order) -> M]
           /\ \A a \in M : \E i \in 1 .. Len(order) : order[i] = a
<1> DEFINE n == Cardinality(M)
<1>1. n \in Nat
  BY FS_CardinalityType
<1> HIDE DEF n
<1>2. order \in [1 .. n -> M] /\ \A i, j \in 1 .. n : i # j => order[i] # order[j]
  BY DEF SetToSeqs, n
<1>3. Len(order) = n
  BY <1>1, <1>2
<1>4. order \in Injection(1 .. n, M)
  BY <1>2 DEF Injection, IsInjective
<1>5. Cardinality(1 .. n) = n
  BY <1>1, FS_Interval
<1>6. order \in Surjection(1 .. n, M)
  BY <1>4, <1>5, FS_Injection DEF n
<1>7. \A a \in M : \E i \in 1 .. n : order[i] = a
  BY <1>6 DEF Surjection
<1> QED BY <1>1, <1>2, <1>3, <1>7

(* The accounts trie that `close' leaves is that of the last step. *)
LEMMA RecordedIsLast ==
    ASSUME NEW v, NEW t, NEW m, ws = [version |-> v, accounts |-> t, map |-> m],
           NEW order, Len(order) \in Nat
    PROVE  \E f : Records(t, m, order, Len(order), f) /\ Recorded(order) = f[Len(order)]
<1> DEFINE N == Len(order)
           r == CHOOSE f : Records(t, m, order, N, f)
<1>1. ws.accounts = t /\ ws.map = m
  OBVIOUS
<1>2. Records(t, m, order, N, r)
  BY RecordsExist
<1>3. Recorded(order) = r[N]
  BY <1>1 DEF Recorded, Records, RecordOne
<1> QED BY <1>2, <1>3

(* What `close' makes of the accounts trie. *)
AllOnRecord(v, D, m, E) ==
    /\ SameFields(v, D, E)
    /\ \A a \in Address :
           HashAt(v, E, a) = IF a \in DOMAIN m THEN m[a].root ELSE HashAt(v, D, a)

(* In whatever order they are recorded, every storage is on record.        *)
LEMMA RecordedKeeps ==
    ASSUME NEW v, NEW t, NEW D, NEW m, NEW B, Session(v, t, D, m, B),
           ws = [version |-> v, accounts |-> t, map |-> m], NEW order \in SetToSeqs(DOMAIN m)
    PROVE  \E E : /\ TrieOn(Recorded(order), B, v, <<>>, E) /\ AccountContent(v, E)
                  /\ AllOnRecord(v, D, m, E)
<1> DEFINE N == Len(order)
<1>1. IsFiniteSet(DOMAIN m)
  BY AddressesAreFinite, FS_Subset DEF Session
<1>2. /\ N \in Nat /\ order \in [1 .. N -> DOMAIN m]
      /\ \A a \in DOMAIN m : \E i \in 1 .. N : order[i] = a
  BY <1>1, OrderIsComplete
<1>3. PICK f : Records(t, m, order, N, f) /\ Recorded(order) = f[N]
  BY <1>2, RecordedIsLast
<1>4. /\ v \in Version /\ TrieOn(t, B, v, <<>>, D) /\ AccountContent(v, D)
      /\ DOMAIN m \subseteq Address
  BY DEF Session
<1>5. \A a \in DOMAIN m : m[a].root \in StorageContents(v)
  <2> SUFFICES ASSUME NEW a \in DOMAIN m PROVE m[a].root \in StorageContents(v)
    OBVIOUS
  <2>1. PICK C \in StorageContents(v) : TrieOn(m[a], B, v, <<a>>, C)
    BY DEF Session
  <2> DEFINE trie == m[a]
  <2> HIDE DEF trie
  <2>2. trie.root = C
    BY <2>1, TrieParts DEF trie
  <2> QED BY <2>2 DEF trie
<1> HIDE DEF N
<1>6. PICK E : /\ TrieOn(f[N], B, v, <<>>, E) /\ AccountContent(v, E)
               /\ OnRecord(v, D, m, order, N, E)
  BY <1>2, <1>3, <1>4, <1>5, RecordsKeep
<1>7. AllOnRecord(v, D, m, E)
  <2>1. \A a : (\E i \in 1 .. N : order[i] = a) <=> a \in DOMAIN m
    BY <1>2
  <2> QED BY <1>6, <2>1 DEF OnRecord, AllOnRecord
<1> QED BY <1>3, <1>6, <1>7

-----------------------------------------------------------------------------
(* The rows that `close' hands out. *)

(* An overlay that has touched rows of its own trie only.                  *)
OwnRows(o, P) ==
    /\ DOMAIN o.inserts \cap o.deletes = {}
    /\ \A r \in DOMAIN o.inserts : o.inserts[r] = Last(r)
    /\ \A r \in Touched(o) : Owned(P, r)

(* The overlays of the accounts trie and of the storages of a map.         *)
Overlays(x, m) == {x} \cup {m[a].db : a \in DOMAIN m}

ChangeOK(ins, del) ==
    /\ DOMAIN ins \cap del = {}
    /\ \A r \in DOMAIN ins : ins[r] = Last(r)

(* The database of rows B with a change applied.                           *)
After(B, ins, del) == (B \cup DOMAIN ins) \ del

(* No row is of two tries.                                                 *)
LEMMA OneOwner ==
    ASSUME NEW a \in Address, NEW r, Owned(<<a>>, r)
    PROVE  ~Owned(<<>>, r) /\ \A b \in Address : b # a => ~Owned(<<b>>, r)
<1>1. a # 0 /\ a # 1 /\ 0 # 1 /\ \A b \in Address : b # 1
  BY SymbolFacts
<1> DEFINE zero == 0
<1>2. zero # 1 /\ a # zero
  BY <1>1
<1> HIDE DEF zero
<1>3. ~(Owned(<<>>, r) /\ Owned(<<a>>, r))
  BY <1>1, <1>2, OwnersApart
<1>4. ASSUME NEW b \in Address, b # a PROVE ~Owned(<<b>>, r)
  BY <1>1, <1>4, OwnersApart
<1> QED BY <1>3, <1>4

(* Merging keeps the rows of every trie apart.                             *)
LEMMA MergedRows ==
    ASSUME NEW x, OwnRows(x, <<>>), NEW m, DOMAIN m \subseteq Address,
           \A a \in DOMAIN m : OwnRows(m[a].db, <<a>>), NEW B
    PROVE  LET rows == Merged(Overlays(x, m))
               A == After(B, rows.inserts, rows.deletes)
           IN  /\ ChangeOK(rows.inserts, rows.deletes)
               /\ PartOf(A, <<>>) = PartOf(Visible(B, x), <<>>)
               /\ \A a \in DOMAIN m : PartOf(A, <<a>>) = PartOf(Visible(B, m[a].db), <<a>>)
               /\ \A a \in Address \ DOMAIN m : PartOf(A, <<a>>) = PartOf(B, <<a>>)
               /\ \A r \in A \ B : Owned(<<>>, r) \/ \E a \in Address : Owned(<<a>>, r)
<1> DEFINE dbs == Overlays(x, m)
           rows == Merged(dbs)
           ins == rows.inserts
           del == rows.deletes
           A == After(B, ins, del)
<1>1. /\ DOMAIN ins = UNION {DOMAIN o.inserts : o \in dbs}
      /\ del = UNION {o.deletes : o \in dbs}
      /\ \A r \in DOMAIN ins : \E o \in dbs : r \in DOMAIN o.inserts /\ ins[r] = o.inserts[r]
  <2> HIDE DEF dbs
  <2> DEFINE owner(r) == CHOOSE o \in dbs : r \in DOMAIN o.inserts
  <2>1. rows = [inserts |-> [r \in UNION {DOMAIN o.inserts : o \in dbs} |-> owner(r).inserts[r]],
                deletes |-> UNION {o.deletes : o \in dbs}]
    BY DEF Merged
  <2>2. /\ DOMAIN ins = UNION {DOMAIN o.inserts : o \in dbs}
        /\ del = UNION {o.deletes : o \in dbs}
        /\ \A r \in DOMAIN ins : ins[r] = owner(r).inserts[r]
    BY <2>1
  <2>3. \A r \in DOMAIN ins : owner(r) \in dbs /\ r \in DOMAIN owner(r).inserts
    BY <2>2
  <2> QED BY <2>2, <2>3
<1>2. \A o \in dbs : DOMAIN o.inserts \cap o.deletes = {}
                     /\ \A r \in DOMAIN o.inserts : o.inserts[r] = Last(r)
  BY DEF OwnRows, Overlays
<1>3. \A r \in Touched(x) : Owned(<<>>, r)
  BY DEF OwnRows
<1>4. \A a \in DOMAIN m : \A r \in Touched(m[a].db) : Owned(<<a>>, r)
  BY DEF OwnRows
<1>6. \A r : r \in DOMAIN ins <=> \/ r \in DOMAIN x.inserts
                                  \/ \E a \in DOMAIN m : r \in DOMAIN m[a].db.inserts
  BY <1>1 DEF Overlays
<1>7. \A r : r \in del <=> r \in x.deletes \/ \E a \in DOMAIN m : r \in m[a].db.deletes
  BY <1>1 DEF Overlays
<1> HIDE DEF ins, del, rows
<1>8. ASSUME NEW r, Owned(<<>>, r)
      PROVE  (r \in DOMAIN ins <=> r \in DOMAIN x.inserts) /\ (r \in del <=> r \in x.deletes)
  <2>1. \A a \in DOMAIN m : r \notin Touched(m[a].db)
    BY <1>4, <1>8, OneOwner
  <2> QED BY <1>6, <1>7, <2>1 DEF Touched
<1>9. ASSUME NEW b \in Address, NEW r, Owned(<<b>>, r)
      PROVE  /\ r \notin Touched(x)
             /\ \A a \in DOMAIN m : a # b => r \notin Touched(m[a].db)
  BY <1>3, <1>4, <1>9, OneOwner
<1>10. ASSUME NEW b \in DOMAIN m, NEW r, Owned(<<b>>, r)
       PROVE  (r \in DOMAIN ins <=> r \in DOMAIN m[b].db.inserts)
              /\ (r \in del <=> r \in m[b].db.deletes)
  BY <1>6, <1>7, <1>9, <1>10 DEF Touched
<1>11. ASSUME NEW b \in Address \ DOMAIN m, NEW r, Owned(<<b>>, r)
       PROVE  r \notin DOMAIN ins /\ r \notin del
  BY <1>6, <1>7, <1>9, <1>11 DEF Touched
<1>12. \A r \in DOMAIN ins \cup del : Owned(<<>>, r) \/ \E a \in Address : Owned(<<a>>, r)
  BY <1>3, <1>4, <1>6, <1>7 DEF Touched
<1>13. ChangeOK(ins, del)
  <2>1. \A r \in DOMAIN ins : ins[r] = Last(r)
    BY <1>1, <1>2
  <2>2. \A r \in DOMAIN ins : r \notin del
    <3> SUFFICES ASSUME NEW r \in DOMAIN ins, r \in del PROVE FALSE
      OBVIOUS
    <3>1. CASE Owned(<<>>, r)
      BY <1>2, <1>8, <3>1 DEF Overlays
    <3>2. CASE \E a \in Address : Owned(<<a>>, r)
      <4>1. PICK a \in Address : Owned(<<a>>, r)
        BY <3>2
      <4>2. a \in DOMAIN m
        BY <1>11, <4>1
      <4> QED BY <1>2, <1>10, <4>1, <4>2 DEF Overlays
    <3> QED BY <1>12, <3>1, <3>2
  <2> QED BY <2>1, <2>2 DEF ChangeOK
<1>14. PartOf(A, <<>>) = PartOf(Visible(B, x), <<>>)
  BY <1>8 DEF PartOf, Visible, After
<1>15. \A a \in DOMAIN m : PartOf(A, <<a>>) = PartOf(Visible(B, m[a].db), <<a>>)
  BY <1>10 DEF PartOf, Visible, After
<1>16. \A a \in Address \ DOMAIN m : PartOf(A, <<a>>) = PartOf(B, <<a>>)
  BY <1>11 DEF PartOf, After
<1>17. \A r \in A \ B : Owned(<<>>, r) \/ \E a \in Address : Owned(<<a>>, r)
  BY <1>12 DEF After
<1> QED BY <1>13, <1>14, <1>15, <1>16, <1>17 DEF ins, del, rows

-----------------------------------------------------------------------------
(* The rows of a database are an exact image of a state. *)

(* Every row belongs to a trie.                                            *)
Parted(B) == \A r \in B : Owned(<<>>, r) \/ \E a \in Address : Owned(<<a>>, r)

IsState(B, v, D) ==
    /\ v \in Version /\ AccountContent(v, D)
    /\ Exactly(PartOf(B, <<>>), v, <<>>, D)
    /\ \A a \in Address : ExactOrNone(B, v, <<a>>, HashAt(v, D, a))
    /\ Parted(B)

(* A storage whose rows are in the database by now still is exact there.   *)
LEMMA StorageOverItsRows ==
    ASSUME NEW v, NEW P, NEW B, NEW t, NEW D, TrieOn(t, B, v, P, D),
           NEW A, PartOf(A, P) = PartOf(Visible(B, t.db), P)
    PROVE  TrieOn(t, A, v, P, D)
<1> DEFINE o == t.db
<1>1. DOMAIN o.inserts \cap o.deletes = {}
  BY DEF TrieOn, OverlayOK
<1>2. PartOf(A, P) = PartOf(Visible(B, o), P)
  OBVIOUS
<1> HIDE DEF o
<1>3. PartOf(Visible(A, o), P) = PartOf(Visible(B, o), P)
  BY <1>1, <1>2 DEF PartOf, Visible
<1> QED BY <1>3 DEF TrieOn, o

(* What `close' hands out makes of the database an image of the session,   *)
(* and the session goes on over it.                                        *)
LEMMA SessionAfterClose ==
    ASSUME NEW v, NEW t, NEW D, NEW m, NEW B, Session(v, t, D, m, B), Parted(B),
           ws = [version |-> v, accounts |-> t, map |-> m], NEW order \in SetToSeqs(DOMAIN m)
    PROVE  LET accounts == Recorded(order)
               rows == Merged(Overlays(accounts.db, m))
               A == After(B, rows.inserts, rows.deletes)
           IN  \E E : /\ accounts.root = E
                      /\ Session(v, MptClosed(accounts), E, m, A)
                      /\ IsState(A, v, E)
                      /\ ChangeOK(rows.inserts, rows.deletes)
                      /\ Agree(m, A, B)
<1> DEFINE accounts == Recorded(order)
<1>1. /\ v \in Version /\ m = [a \in DOMAIN m |-> m[a]] /\ DOMAIN m \subseteq Address
      /\ \A a \in DOMAIN m : \E C \in StorageContents(v) : TrieOn(m[a], B, v, <<a>>, C)
      /\ \A a \in Address \ DOMAIN m : ExactOrNone(B, v, <<a>>, HashAt(v, D, a))
  BY DEF Session
<1>2. PICK E : /\ TrieOn(accounts, B, v, <<>>, E) /\ AccountContent(v, E)
               /\ AllOnRecord(v, D, m, E)
  BY RecordedKeeps
<1> HIDE DEF accounts
<1> DEFINE x == accounts.db
           rows == Merged(Overlays(x, m))
           ins == rows.inserts
           del == rows.deletes
           A == After(B, ins, del)
<1>3. OwnRows(x, <<>>)
  BY <1>2 DEF TrieOn, OverlayOK, OwnRows
<1>4. \A a \in DOMAIN m : OwnRows(m[a].db, <<a>>)
  BY <1>1 DEF TrieOn, OverlayOK, OwnRows
<1>5. /\ ChangeOK(ins, del)
      /\ PartOf(A, <<>>) = PartOf(Visible(B, x), <<>>)
      /\ \A a \in DOMAIN m : PartOf(A, <<a>>) = PartOf(Visible(B, m[a].db), <<a>>)
      /\ \A a \in Address \ DOMAIN m : PartOf(A, <<a>>) = PartOf(B, <<a>>)
      /\ \A r \in A \ B : Owned(<<>>, r) \/ \E a \in Address : Owned(<<a>>, r)
  <2> HIDE DEF x
  <2> QED BY <1>1, <1>3, <1>4, MergedRows
<1> HIDE DEF A, ins, del
<1>6. TrieOn(MptClosed(accounts), A, v, <<>>, E) /\ accounts.root = E
  BY <1>2, <1>5, ClosedIsExact, TrieParts
<1>7. ASSUME NEW a \in DOMAIN m
      PROVE  \E C \in StorageContents(v) :
                 /\ TrieOn(m[a], A, v, <<a>>, C) /\ m[a].root = C
                 /\ C # None /\ Exactly(PartOf(A, <<a>>), v, <<a>>, C)
  <2>1. PICK C \in StorageContents(v) : TrieOn(m[a], B, v, <<a>>, C)
    BY <1>1
  <2> DEFINE trie == m[a]
  <2>2. PartOf(A, <<a>>) = PartOf(Visible(B, trie.db), <<a>>)
    BY <1>5
  <2>3. TrieOn(trie, B, v, <<a>>, C)
    BY <2>1
  <2> HIDE DEF trie
  <2>4. TrieOn(trie, A, v, <<a>>, C)
    BY <2>2, <2>3, StorageOverItsRows
  <2>5. trie.root = C
    BY <2>3, TrieParts
  <2>6. Exactly(PartOf(A, <<a>>), v, <<a>>, C)
    BY <2>2, <2>3 DEF TrieOn
  <2>7. C # None
    BY <1>1, NoneIsNoContent
  <2> QED BY <2>4, <2>5, <2>6, <2>7 DEF trie
<1>8. \A a \in Address : ExactOrNone(A, v, <<a>>, HashAt(v, E, a))
  <2> SUFFICES ASSUME NEW a \in Address
               PROVE  ExactOrNone(A, v, <<a>>, HashAt(v, E, a))
    OBVIOUS
  <2>1. CASE a \in DOMAIN m
    <3>1. HashAt(v, E, a) = m[a].root
      BY <1>2, <2>1 DEF AllOnRecord
    <3> QED BY <1>7, <2>1, <3>1 DEF ExactOrNone
  <2>2. CASE a \notin DOMAIN m
    <3>1. HashAt(v, E, a) = HashAt(v, D, a) /\ PartOf(A, <<a>>) = PartOf(B, <<a>>)
      BY <1>2, <1>5, <2>2 DEF AllOnRecord
    <3>2. ExactOrNone(B, v, <<a>>, HashAt(v, D, a))
      BY <1>1, <2>2
    <3> QED BY <3>1, <3>2 DEF ExactOrNone
  <2> QED BY <2>1, <2>2
<1>9. Session(v, MptClosed(accounts), E, m, A)
  <2>1. \A a \in DOMAIN m : HashAt(v, E, a) # None
    BY <1>1, <1>2, <1>7 DEF AllOnRecord
  <2> QED BY <1>1, <1>2, <1>6, <1>7, <1>8, <2>1 DEF Session
<1>10. IsState(A, v, E)
  <2>1. Exactly(PartOf(A, <<>>), v, <<>>, E)
    BY <1>2, <1>5 DEF TrieOn
  <2>2. Parted(A)
    BY <1>5 DEF Parted
  <2> QED BY <1>1, <1>2, <1>8, <2>1, <2>2 DEF IsState
<1>11. Agree(m, A, B)
  <2> SUFFICES ASSUME NEW a \in Address
               PROVE  PartOf(A, <<a>>) \ TouchedBy(m, a) = PartOf(B, <<a>>) \ TouchedBy(m, a)
    BY DEF Agree
  <2>1. CASE a \in DOMAIN m
    <3>1. PartOf(A, <<a>>) = PartOf(Visible(B, m[a].db), <<a>>)
      BY <1>5, <2>1
    <3> QED BY <2>1, <3>1 DEF TouchedBy, Touched, Visible, PartOf
  <2>2. CASE a \notin DOMAIN m
    BY <1>5, <2>2
  <2> QED BY <2>1, <2>2
<1> QED BY <1>5, <1>6, <1>9, <1>10, <1>11 DEF accounts, A, ins, del

-----------------------------------------------------------------------------
(* The inductive invariant.  There are the rows of the database, and those *)
(* it will have after each of the changes that wait: all of them are exact *)
(* images of a state, and the session is exact over the last of them.      *)

(* c lists the rows, from those of database db on. *)
Chain(c, db, ch) ==
    /\ c[0] = DOMAIN db
    /\ \A j \in 1 .. Len(ch) : c[j] = After(c[j - 1], ch[j].inserts, ch[j].deletes)

ChangesOK(c, ch) ==
    \A j \in 1 .. Len(ch) : /\ ChangeOK(ch[j].inserts, ch[j].deletes)
                            /\ IsState(c[j], ch[j].version, ch[j].root)

HeadOK(B, h) == IF h = NoState THEN B = {} ELSE IsState(B, h.version, h.root)

World(c, db, h, ch) ==
    /\ \E T : ch \in Seq(T)
    /\ db = [r \in DOMAIN db |-> Last(r)]
    /\ Chain(c, db, ch)
    /\ ChangesOK(c, ch)
    /\ HeadOK(c[0], h)

(* Storages the session has not touched are the same in all of them: what  *)
(* waits to be applied is the session's own.                               *)
Settled(m, c, n) == \A j \in 0 .. n : Agree(m, c[j], c[n])

SessionOK(s, c, n) ==
    s # NoSession =>
        \E v, t, D, m : /\ s = [version |-> v, accounts |-> t, map |-> m]
                        /\ Session(v, t, D, m, c[n])
                        /\ Settled(m, c, n)

IInv == \E c : World(c, storage, head, changes) /\ SessionOK(ws, c, Len(changes))

-----------------------------------------------------------------------------
(* Every step keeps the invariant. *)

(* What a session is not. *)
LEMMA SessionIsThere ==
    ASSUME NEW v \in Version, NEW t, NEW m
    PROVE  [version |-> v, accounts |-> t, map |-> m] # NoSession
<1>1. v # Nothing
  BY NothingIsNoVersion
<1>2. [version |-> v, accounts |-> t, map |-> m].version = v /\ NoSession.version = Nothing
  BY DEF NoSession
<1> QED BY <1>1, <1>2

(* Rows always belong to a trie. *)
LEMMA RowsAreParted ==
    ASSUME NEW c, NEW db, NEW h, NEW ch, World(c, db, h, ch)
    PROVE  Len(ch) \in Nat /\ \A j \in 0 .. Len(ch) : Parted(c[j])
<1>1. Len(ch) \in Nat
  BY DEF World
<1>2. Parted(c[0])
  BY DEF World, HeadOK, IsState, Parted
<1>3. \A j \in 1 .. Len(ch) : Parted(c[j])
  BY DEF World, ChangesOK, IsState
<1> QED BY <1>1, <1>2, <1>3

(* A step of the session alone. *)
LEMMA SessionStep ==
    ASSUME NEW c, World(c, storage, head, changes), UNCHANGED <<storage, head, changes>>,
           NEW v, NEW t, NEW D, NEW m, Session(v, t, D, m, c[Len(changes)]),
           Settled(m, c, Len(changes)),
           ws' = [version |-> v, accounts |-> t, map |-> m]
    PROVE  IInv'
<1>1. World(c, storage', head', changes') /\ Len(changes') = Len(changes)
  OBVIOUS
<1>2. SessionOK(ws', c, Len(changes'))
  BY <1>1 DEF SessionOK
<1> QED BY <1>1, <1>2 DEF IInv

(* What more the session touches it may have touched before. *)
LEMMA SettledGrows ==
    ASSUME NEW m, NEW c, NEW n, Settled(m, c, n), NEW k,
           \A a \in Address : TouchedBy(m, a) \subseteq TouchedBy(k, a)
    PROVE  Settled(k, c, n)
<1> SUFFICES ASSUME NEW j \in 0 .. n, NEW a \in Address
             PROVE  PartOf(c[j], <<a>>) \ TouchedBy(k, a) = PartOf(c[n], <<a>>) \ TouchedBy(k, a)
  BY DEF Settled, Agree
<1>1. PartOf(c[j], <<a>>) \ TouchedBy(m, a) = PartOf(c[n], <<a>>) \ TouchedBy(m, a)
  BY DEF Settled, Agree
<1> QED BY <1>1

(* With nothing that waits there is only one database.                     *)
LEMMA SettledAtFirst ==
    ASSUME NEW m, NEW c, NEW n, n = 0
    PROVE  Settled(m, c, n)
<1>1. \A j \in 0 .. 0 : Agree(m, c[j], c[0])
  BY DEF Agree
<1> QED BY <1>1 DEF Settled

(* A map with a new trie or a trie that has grown. *)
LEMMA TouchedByMore ==
    ASSUME NEW m, NEW a, NEW trie, a \in DOMAIN m => Grows(m[a], trie)
    PROVE  \A b \in Address : TouchedBy(m, b) \subseteq TouchedBy(MapWith(m, a, trie), b)
<1> DEFINE n == MapWith(m, a, trie)
<1>1. DOMAIN n = DOMAIN m \cup {a} /\ \A b \in DOMAIN n : n[b] = IF b = a THEN trie ELSE m[b]
  BY DEF MapWith
<1> HIDE DEF n
<1>2. \A b \in Address : TouchedBy(m, b) \subseteq TouchedBy(n, b)
  BY <1>1 DEF TouchedBy, Grows
<1> QED BY <1>2 DEF n

(* An empty database, and no session.                                      *)
LEMMA InitEstablishes == Init => IInv
<1> SUFFICES ASSUME Init PROVE IInv
  OBVIOUS
<1> DEFINE c == [j \in {0} |-> {}]
<1>1. storage = EmptyRows /\ head = NoState /\ ws = NoSession /\ changes = <<>>
  BY DEF Init
<1>2. DOMAIN storage = {} /\ storage = [r \in DOMAIN storage |-> Last(r)]
  BY <1>1 DEF EmptyRows
<1>3. changes \in Seq({}) /\ Len(changes) = 0 /\ c[0] = {}
  BY <1>1
<1> HIDE DEF c
<1>4. World(c, storage, head, changes)
  BY <1>1, <1>2, <1>3 DEF World, Chain, ChangesOK, HeadOK
<1>5. SessionOK(ws, c, Len(changes))
  BY <1>1 DEF SessionOK
<1> QED BY <1>4, <1>5 DEF IInv

(* A session without storages. *)
LEMMA SessionBegins ==
    ASSUME NEW v \in Version, NEW t, NEW D, NEW B,
           TrieOn(t, B, v, <<>>, D), AccountContent(v, D),
           \A a \in Address : ExactOrNone(B, v, <<a>>, HashAt(v, D, a))
    PROVE  Session(v, t, D, NoTries, B)
<1>1. NoTries = [a \in DOMAIN NoTries |-> NoTries[a]] /\ DOMAIN NoTries = {}
  BY DEF NoTries
<1> QED BY <1>1 DEF Session

(* A session on an empty database is exact over no rows.                   *)
LEMMA GenesisKeeps ==
    ASSUME IInv, NEW v \in Version, Genesis(v)
    PROVE  IInv'
<1>1. /\ head = NoState /\ changes = <<>> /\ UNCHANGED <<storage, head, changes>>
      /\ ws' = [version |-> v, accounts |-> AccountsNew(v), map |-> NoTries]
  BY DEF Genesis
<1>2. PICK c : World(c, storage, head, changes)
  BY DEF IInv
<1> DEFINE B == c[Len(changes)]
           P == <<>>
<1>3. Len(changes) = 0 /\ B = {}
  BY <1>1, <1>2 DEF World, HeadOK
<1>4. TrieOn(AccountsNew(v), B, v, P, NoContent) /\ AccountContent(v, NoContent)
  <2>1. AccountContent(v, NoContent)
    BY NoAccounts
  <2>2. Fits(Symbol, v, P, NoContent)
    BY <2>1, AccountsFit
  <2>3. Owned(P, Row(v, P, EmptyRootRow)) /\ PartOf(B, P) = {}
    BY <1>3, <2>2 DEF Fits, PartOf
  <2>4. 0 \in Symbol /\ 1 \in Symbol /\ P \in Seq(Symbol)
    BY SymbolFacts
  <2> HIDE DEF P, B
  <2> QED BY <2>1, <2>3, <2>4, NewIsExact DEF AccountsNew, P
<1>5. \A a \in Address : ExactOrNone(B, v, <<a>>, HashAt(v, NoContent, a))
  BY <1>3, NoAccounts DEF ExactOrNone, PartOf
<1>6. Session(v, AccountsNew(v), NoContent, NoTries, B)
  <2> HIDE DEF B
  <2> QED BY <1>4, <1>5, SessionBegins
<1>7. Settled(NoTries, c, Len(changes))
  BY <1>3, SettledAtFirst
<1> QED BY <1>1, <1>2, <1>6, <1>7, SessionStep

(* A session that is opened is exact over the last state.                  *)
LEMMA OpenKeeps ==
    ASSUME IInv, Open
    PROVE  IInv'
<1> DEFINE v == head.version
           D == head.root
<1>1. /\ head # NoState /\ changes = <<>> /\ UNCHANGED <<storage, head, changes>>
      /\ ws' = [version |-> v, accounts |-> AccountsOpen(v, D), map |-> NoTries]
  BY DEF Open
<1>2. PICK c : World(c, storage, head, changes)
  BY DEF IInv
<1> DEFINE B == c[Len(changes)]
<1>3. Len(changes) = 0 /\ IsState(B, v, D)
  BY <1>1, <1>2 DEF World, HeadOK
<1> HIDE DEF v, D
<1>4. /\ v \in Version /\ AccountContent(v, D) /\ Exactly(PartOf(B, <<>>), v, <<>>, D)
      /\ \A a \in Address : ExactOrNone(B, v, <<a>>, HashAt(v, D, a))
  BY <1>3 DEF IsState
<1>5. Settled(NoTries, c, Len(changes))
  BY <1>3, SettledAtFirst
<1>6. Session(v, AccountsOpen(v, D), D, NoTries, B)
  <2> HIDE DEF B
  <2>1. TrieOn(AccountsOpen(v, D), B, v, <<>>, D)
    BY <1>4, OpenIsExact DEF AccountsOpen
  <2> QED BY <1>4, <2>1, SessionBegins
<1> QED BY <1>1, <1>2, <1>5, <1>6, SessionStep

(* The parts of the session. *)
LEMMA SessionChanged ==
    ASSUME NEW s, NEW v, NEW t, NEW m, s = [version |-> v, accounts |-> t, map |-> m]
    PROVE  /\ s.version = v /\ s.accounts = t /\ s.map = m
           /\ \A x : [s EXCEPT !.accounts = x] = [version |-> v, accounts |-> x, map |-> m]
           /\ \A y : [s EXCEPT !.map = y] = [version |-> v, accounts |-> t, map |-> y]
           /\ \A x, y : [s EXCEPT !.accounts = x, !.map = y]
                            = [version |-> v, accounts |-> x, map |-> y]
           /\ \A a, z : [s EXCEPT !.map[a] = z]
                            = [version |-> v, accounts |-> t, map |-> [m EXCEPT ![a] = z]]
<1>1. s.version = v /\ s.accounts = t /\ s.map = m
  OBVIOUS
<1>2. \A x : [s EXCEPT !.accounts = x] = [version |-> v, accounts |-> x, map |-> m]
  OBVIOUS
<1>3. \A y : [s EXCEPT !.map = y] = [version |-> v, accounts |-> t, map |-> y]
  OBVIOUS
<1>4. ASSUME NEW x, NEW y
      PROVE  [s EXCEPT !.accounts = x, !.map = y] = [version |-> v, accounts |-> x, map |-> y]
  <2> DEFINE u == [s EXCEPT !.accounts = x]
  <2>1. [s EXCEPT !.accounts = x, !.map = y] = [u EXCEPT !.map = y]
    OBVIOUS
  <2>2. u = [version |-> v, accounts |-> x, map |-> m]
    BY <1>2
  <2> HIDE DEF u
  <2>3. [u EXCEPT !.map = y] = [version |-> v, accounts |-> x, map |-> y]
    BY <2>2
  <2> QED BY <2>1, <2>3
<1>5. ASSUME NEW a, NEW z
      PROVE  [s EXCEPT !.map[a] = z]
                 = [version |-> v, accounts |-> t, map |-> [m EXCEPT ![a] = z]]
  <2> DEFINE y == [m EXCEPT ![a] = z]
  <2>1. [s EXCEPT !.map[a] = z] = [s EXCEPT !.map = y]
    BY <1>1
  <2> HIDE DEF y
  <2>2. [s EXCEPT !.map = y] = [version |-> v, accounts |-> t, map |-> y]
    BY <1>3
  <2> QED BY <2>1, <2>2 DEF y
<1> QED BY <1>1, <1>2, <1>3, <1>4, <1>5

(* What holds of a session that is there. *)
InSession(c, v, t, D, m) ==
    /\ World(c, storage, head, changes)
    /\ ws = [version |-> v, accounts |-> t, map |-> m]
    /\ Session(v, t, D, m, c[Len(changes)])
    /\ Settled(m, c, Len(changes))

(* The invariant, of a session that is there.                              *)
LEMMA WhenAlive ==
    ASSUME IInv, Alive
    PROVE  \E c, v, t, D, m : InSession(c, v, t, D, m)
BY DEF IInv, Alive, SessionOK, InSession

(* What the actions read of it.                                            *)
LEMMA PartsOfSession ==
    ASSUME NEW c, NEW v, NEW t, NEW D, NEW m, InSession(c, v, t, D, m)
    PROVE  /\ ws.version = v /\ ws.accounts = t /\ ws.map = m
           /\ t.root = D /\ t.db.version = v
           /\ \A a : GetField(t, a, StorageHash) = HashAt(v, D, a)
<1>1. t.root = D /\ t.db.version = v
  BY DEF InSession, Session, TrieOn, OverlayOK
<1> QED BY <1>1 DEF InSession, GetField, MptGet, HashAt

(* A setter.                                                               *)
LEMMA SetAccountFieldKeeps ==
    ASSUME IInv, NEW a \in Address, NEW f \in Field, NEW x \in FieldValue[f],
           SetAccountField(a, f, x)
    PROVE  IInv'
<1>1. PICK c, v, t, D, m : InSession(c, v, t, D, m)
  BY WhenAlive DEF SetAccountField
<1> DEFINE after == SetField(t, a, f, x)
           B == c[Len(changes)]
<1>2. Session(v, t, D, m, B) /\ Settled(m, c, Len(changes)) /\ World(c, storage, head, changes)
  BY <1>1 DEF InSession
<1>3. /\ UNCHANGED <<storage, head, changes>>
      /\ ws' = [version |-> v, accounts |-> after, map |-> m]
  <2>1. ws' = [ws EXCEPT !.accounts = SetField(ws.accounts, a, f, x)]
    BY DEF SetAccountField
  <2>2. ws = [version |-> v, accounts |-> t, map |-> m] /\ ws.accounts = t
    BY <1>1, PartsOfSession DEF InSession
  <2> QED BY <2>1, <2>2, SessionChanged DEF SetAccountField
<1> HIDE DEF after
<1>4. \E E : Session(v, after, E, m, B)
  <2> HIDE DEF B
  <2> QED BY <1>2, SessionAfterSet DEF after
<1>5. PICK E : Session(v, after, E, m, B)
  BY <1>4
<1> QED BY <1>2, <1>3, <1>5, SessionStep

(* A step that puts a trie into the map or replaces it there. *)
LEMMA MapStep ==
    ASSUME NEW c, NEW v, NEW t, NEW D, NEW m, InSession(c, v, t, D, m),
           UNCHANGED <<storage, head, changes>>,
           NEW a, NEW trie, a \in DOMAIN m => Grows(m[a], trie),
           NEW s, NEW E, Session(v, s, E, MapWith(m, a, trie), c[Len(changes)]),
           ws' = [version |-> v, accounts |-> s, map |-> MapWith(m, a, trie)]
    PROVE  IInv'
<1> DEFINE n == MapWith(m, a, trie)
<1>1. World(c, storage, head, changes) /\ Settled(m, c, Len(changes))
  BY DEF InSession
<1>2. \A b \in Address : TouchedBy(m, b) \subseteq TouchedBy(n, b)
  BY TouchedByMore
<1> HIDE DEF n
<1>3. Settled(n, c, Len(changes))
  BY <1>1, <1>2, SettledGrows
<1> QED BY <1>1, <1>3, SessionStep DEF n

(* A storage that is opened.                                               *)
LEMMA OpenStorageKeeps ==
    ASSUME IInv, NEW a \in Address, OpenStorage(a)
    PROVE  IInv'
<1>1. PICK c, v, t, D, m : InSession(c, v, t, D, m)
  BY WhenAlive DEF OpenStorage
<1> DEFINE B == c[Len(changes)]
           hash == HashAt(v, D, a)
           trie == StorageOpen(v, a, hash)
<1>2. /\ ws = [version |-> v, accounts |-> t, map |-> m]
      /\ ws.version = v /\ ws.accounts = t /\ ws.map = m
      /\ GetField(t, a, StorageHash) = hash
  BY <1>1, PartsOfSession DEF InSession
<1>3. /\ a \notin DOMAIN m /\ hash # None
      /\ UNCHANGED <<storage, head, changes>>
      /\ ws' = [ws EXCEPT !.map = With(m, a, trie)]
  BY <1>2 DEF OpenStorage
<1>4. Session(v, t, D, m, B) /\ m = [b \in DOMAIN m |-> m[b]]
  BY <1>1 DEF InSession, Session
<1>5. Session(v, t, D, With(m, a, trie), B)
  <2> HIDE DEF B
  <2>1. Session(v, t, D, m, B) /\ a \in Address /\ a \notin DOMAIN m /\ HashAt(v, D, a) # None
    BY <1>3, <1>4
  <2> QED BY ONLY <2>1, SessionAfterOpenStorage
<1> HIDE DEF trie
<1>6. With(m, a, trie) = MapWith(m, a, trie)
  BY <1>4, MapChanges
<1>7. ws' = [version |-> v, accounts |-> t, map |-> MapWith(m, a, trie)]
  BY <1>2, <1>3, <1>6, SessionChanged
<1>8. a \in DOMAIN m => Grows(m[a], trie)
  BY <1>3
<1>9. Session(v, t, D, MapWith(m, a, trie), B)
  BY <1>5, <1>6
<1> QED BY ONLY <1>1, <1>3, <1>7, <1>8, <1>9, MapStep

(* A storage that is created.                                              *)
LEMMA CreateStorageKeeps ==
    ASSUME IInv, NEW a \in Address, CreateStorage(a)
    PROVE  IInv'
<1>1. PICK c, v, t, D, m : InSession(c, v, t, D, m)
  BY WhenAlive DEF CreateStorage
<1> DEFINE B == c[Len(changes)]
           trie == StorageNew(v, a)
           after == SetField(t, a, StorageHash, NoContent)
<1>2. /\ ws = [version |-> v, accounts |-> t, map |-> m]
      /\ ws.version = v /\ ws.accounts = t /\ ws.map = m
      /\ GetField(t, a, StorageHash) = HashAt(v, D, a)
  BY <1>1, PartsOfSession DEF InSession
<1>3. /\ a \notin DOMAIN m /\ HashAt(v, D, a) = None
      /\ UNCHANGED <<storage, head, changes>>
      /\ ws' = [ws EXCEPT !.accounts = after, !.map = With(m, a, trie)]
  <2>1. trie.root = NoContent
    BY DEF StorageNew, MptNew
  <2> QED BY <1>2, <2>1 DEF CreateStorage
<1>4. Session(v, t, D, m, B) /\ m = [b \in DOMAIN m |-> m[b]]
  BY <1>1 DEF InSession, Session
<1>5. PICK E : Session(v, after, E, With(m, a, trie), B)
  <2> HIDE DEF B
  <2>1. Session(v, t, D, m, B) /\ a \in Address /\ a \notin DOMAIN m /\ HashAt(v, D, a) = None
    BY <1>3, <1>4
  <2> QED BY ONLY <2>1, SessionAfterCreateStorage
<1> HIDE DEF trie, after
<1>6. With(m, a, trie) = MapWith(m, a, trie)
  BY <1>4, MapChanges
<1>7. ws' = [version |-> v, accounts |-> after, map |-> MapWith(m, a, trie)]
  BY <1>2, <1>3, <1>6, SessionChanged
<1>8. a \in DOMAIN m => Grows(m[a], trie)
  BY <1>3
<1>9. Session(v, after, E, MapWith(m, a, trie), B)
  BY <1>5, <1>6
<1> QED BY ONLY <1>1, <1>3, <1>7, <1>8, <1>9, MapStep

(* A step that changes a storage of the map. *)
LEMMA ChangeStorageKeeps ==
    ASSUME NEW c, NEW v, NEW t, NEW D, NEW m, InSession(c, v, t, D, m),
           NEW a \in DOMAIN m, NEW keys, NEW trie, ChangeStorage(a, keys, trie),
           \E E \in StorageContents(v) : TrieOn(trie, c[Len(changes)], v, <<a>>, E),
           Grows(m[a], trie)
    PROVE  IInv'
<1> DEFINE B == c[Len(changes)]
<1>1. /\ ws = [version |-> v, accounts |-> t, map |-> m]
      /\ Session(v, t, D, m, B) /\ m = [b \in DOMAIN m |-> m[b]]
  BY DEF InSession, Session
<1>2. UNCHANGED <<storage, head, changes>> /\ ws' = [ws EXCEPT !.map[a] = trie]
  BY DEF ChangeStorage
<1>3. PICK E \in StorageContents(v) : TrieOn(trie, B, v, <<a>>, E)
  OBVIOUS
<1> HIDE DEF B
<1>4. Session(v, t, D, [m EXCEPT ![a] = trie], B)
  BY <1>1, <1>3, SessionAfterChangeStorage
<1>5. [m EXCEPT ![a] = trie] = MapWith(m, a, trie)
  BY <1>1, MapChanges
<1>6. ws' = [version |-> v, accounts |-> t, map |-> MapWith(m, a, trie)]
  BY <1>1, <1>2, <1>5, SessionChanged
<1>7. Session(v, t, D, MapWith(m, a, trie), c[Len(changes)])
  BY <1>4, <1>5 DEF B
<1>8. a \in DOMAIN m => Grows(m[a], trie)
  OBVIOUS
<1> QED BY ONLY InSession(c, v, t, D, m), <1>2, <1>6, <1>7, <1>8, MapStep

(* A storage of the map. *)
LEMMA StorageOfSession ==
    ASSUME NEW c, NEW v, NEW t, NEW D, NEW m, InSession(c, v, t, D, m), NEW a \in DOMAIN m
    PROVE  /\ v \in Version /\ a \in Address
           /\ \E C \in StorageContents(v) : TrieOn(m[a], c[Len(changes)], v, <<a>>, C)
BY DEF InSession, Session

(* `batch_set' on a storage of the map.                                    *)
LEMMA WriteStorageKeeps ==
    ASSUME IInv, NEW a \in Address, NEW data \in PartialData, WriteStorage(a, data)
    PROVE  IInv'
<1>1. PICK c, v, t, D, m : InSession(c, v, t, D, m)
  BY WhenAlive DEF WriteStorage
<1>2. ws.map = m /\ a \in DOMAIN m
  BY <1>1, PartsOfSession DEF WriteStorage
<1> DEFINE old == m[a]
           trie == StorageBatchSet(old, data)
           B == c[Len(changes)]
<1>3. PICK keys : ChangeStorage(a, keys, trie)
  BY <1>2 DEF WriteStorage
<1>4. DOMAIN data \subseteq StorageKeys /\ \A k \in DOMAIN data : data[k] \in StorageValue
  BY DEF PartialData
<1>5. v \in Version /\ \E C \in StorageContents(v) : TrieOn(old, B, v, <<a>>, C)
  BY <1>1, <1>2, StorageOfSession
<1>6. PICK C \in StorageContents(v) : TrieOn(old, B, v, <<a>>, C)
  BY <1>5
<1> HIDE DEF old, B
<1>7. (\E E \in StorageContents(v) : TrieOn(trie, B, v, <<a>>, E)) /\ Grows(old, trie)
  BY <1>4, <1>5, <1>6, StorageBatchSetKeeps
<1> HIDE DEF trie
<1> QED BY <1>1, <1>2, <1>3, <1>7, ChangeStorageKeeps DEF old, B

(* `remove' on a storage of the map.                                       *)
LEMMA RemoveStorageKeyKeeps ==
    ASSUME IInv, NEW a \in Address, NEW k, RemoveStorageKey(a, k)
    PROVE  IInv'
<1>1. PICK c, v, t, D, m : InSession(c, v, t, D, m)
  BY WhenAlive DEF RemoveStorageKey
<1>2. ws.map = m /\ a \in DOMAIN m
  BY <1>1, PartsOfSession DEF RemoveStorageKey
<1> DEFINE old == m[a]
           trie == StorageRemove(old, k)
           B == c[Len(changes)]
<1>3. PICK keys : ChangeStorage(a, keys, trie)
  BY <1>2 DEF RemoveStorageKey
<1>4. v \in Version /\ \E C \in StorageContents(v) : TrieOn(old, B, v, <<a>>, C)
  BY <1>1, <1>2, StorageOfSession
<1>5. PICK C \in StorageContents(v) : TrieOn(old, B, v, <<a>>, C)
  BY <1>4
<1> HIDE DEF old, B
<1>6. (\E E \in StorageContents(v) : TrieOn(trie, B, v, <<a>>, E)) /\ Grows(old, trie)
  BY <1>4, <1>5, StorageRemoveKeeps
<1> HIDE DEF trie
<1> QED BY <1>1, <1>2, <1>3, <1>6, ChangeStorageKeeps DEF old, B

(* `remove_trie' on a storage of the map.                                  *)
LEMMA RemoveStorageTrieKeeps ==
    ASSUME IInv, NEW a \in Address, RemoveStorageTrie(a)
    PROVE  IInv'
<1>1. PICK c, v, t, D, m : InSession(c, v, t, D, m)
  BY WhenAlive DEF RemoveStorageTrie
<1>2. ws.map = m /\ a \in DOMAIN m
  BY <1>1, PartsOfSession DEF RemoveStorageTrie
<1> DEFINE old == m[a]
           trie == RemoveTrie(old)
           B == c[Len(changes)]
<1>3. PICK keys : ChangeStorage(a, keys, trie)
  BY <1>2 DEF RemoveStorageTrie
<1>4. v \in Version /\ \E C \in StorageContents(v) : TrieOn(old, B, v, <<a>>, C)
  BY <1>1, <1>2, StorageOfSession
<1>5. PICK C \in StorageContents(v) : TrieOn(old, B, v, <<a>>, C)
  BY <1>4
<1> HIDE DEF old, B
<1>6. TrieOn(trie, B, v, <<a>>, NoContent) /\ Grows(old, trie)
  BY <1>4, <1>5, RemoveTrieKeeps
<1>7. NoContent \in StorageContents(v)
  BY <1>4, NoneIsNoContent
<1> HIDE DEF trie
<1> QED BY <1>1, <1>2, <1>3, <1>6, <1>7, ChangeStorageKeeps DEF old, B

-----------------------------------------------------------------------------
(* The empty root of the accounts trie: where its root is found, so is the *)
(* row of the empty root, which `upgrade' needs.                           *)

(* A node below the root is at an address.                                 *)
LEMMA PositionsOfAccounts ==
    ASSUME NEW v \in Version, NEW D, AccountContent(v, D), NEW p \in Positions(D)
    PROVE  p \in Seq(Symbol) /\ (p = <<>> \/ p[1] \in Address)
<1>1. \A k \in DOMAIN D : k \in Seq(Symbol)
  BY AccountsFit DEF Fits
<1>2. CASE p = <<>>
  BY <1>2, SymbolFacts
<1>3. CASE p # <<>>
  <2>1. PICK k \in Below(D, p) : \E l \in 1 .. Len(k) :
             p = SubSeq(k, 1, l) /\ k \in Seq(Symbol) /\ p \in Seq(Symbol) /\ Len(p) = l
    BY <1>1, <1>3, PositionIsPartOfKey
  <2>2. PICK l \in 1 .. Len(k) :
             p = SubSeq(k, 1, l) /\ k \in Seq(Symbol) /\ p \in Seq(Symbol) /\ Len(p) = l
    BY <2>1
  <2>3. k \in AccountKeys(v)
    BY <2>1 DEF AccountContent, Below
  <2>4. PICK a \in Address, f \in Fields : k = AccountKey(v, a, f)
    BY <2>3 DEF AccountKeys, Fields
  <2>5. k[1] = a
    BY <2>4, AccountKeyParts DEF AccountAddress
  <2>6. p[1] = k[1]
    BY <2>2
  <2> QED BY <2>2, <2>4, <2>5, <2>6
<1> QED BY <1>2, <1>3

(* The row of a root, and that of any node of accounts, tell the version.  *)
LEMMA RootsOfOneVersion ==
    ASSUME NEW v \in Version, NEW w \in Version, NEW e,
           NEW p \in Seq(Symbol), p = <<>> \/ p[1] \in Address, NEW n,
           Row(v, <<>>, Append(<<>>, e)) = Row(w, <<>>, Append(p, n))
    PROVE  v = w
<1> DEFINE P == <<>>
           none == <<>>
           r == Row(w, P, Append(p, n))
           q == Row(v, P, Append(none, e))
           L == Lead(w, P)
           M == Lead(v, P)
<1>1. P \in Seq(Symbol) /\ none \in Seq(Symbol) /\ 0 \in Symbol /\ 1 \in Symbol
  BY SymbolFacts
<1>2. \A a \in Address : a # 0
  BY SymbolFacts
<1>3. L = (IF w = V1 THEN <<>> ELSE <<0>>) /\ M = (IF v = V1 THEN <<>> ELSE <<0>>)
  BY DEF Lead
<1> HIDE DEF L, M
<1>4. r = q /\ Len(none) = 0 /\ Len(p) \in Nat
  OBVIOUS
<1> HIDE DEF P, none, r, q
<1>5. /\ Len(r) = Len(L) + Len(p) + 1
      /\ \A i \in 1 .. Len(L) : r[i] = L[i]
      /\ \A i \in 1 .. Len(p) : r[Len(L) + i] = p[i]
  BY <1>1, ElementsOfRow DEF r, L
<1>6. /\ Len(q) = Len(M) + Len(none) + 1
      /\ \A i \in 1 .. Len(M) : q[i] = M[i]
  BY <1>1, ElementsOfRow DEF q, M
<1>7. Len(L) + Len(p) + 1 = Len(M) + 1
  <2>1. Len(r) = Len(q)
    BY <1>4
  <2> QED BY <1>4, <1>5, <1>6, <2>1
<1>8. CASE v = V1 /\ w = V2
  <2>1. Len(L) = 1 /\ Len(M) = 0
    BY <1>3, <1>8 DEF V1, V2
  <2> QED BY <1>4, <1>7, <2>1
<1>9. CASE v = V2 /\ w = V1
  <2>1. L = <<>> /\ M = <<0>>
    BY <1>3, <1>9 DEF V1, V2
  <2>2. Len(L) = 0 /\ Len(M) = 1 /\ M[1] = 0
    BY <2>1
  <2>3. Len(p) = 1
    BY <1>4, <1>7, <2>2
  <2>4. q[1] = 0
    BY <1>6, <2>2
  <2>5. r[1] = p[1]
    BY <1>5, <2>2, <2>3
  <2>6. p # <<>>
    BY <2>3
  <2> QED BY <1>2, <1>4, <2>4, <2>5, <2>6
<1> QED BY <1>8, <1>9 DEF Version

(* The accounts trie in a state of the rows: a row that is a root of a     *)
(* trie of accounts is the root, or the empty root.                        *)
LEMMA RootRowTells ==
    ASSUME NEW B, NEW w, NEW D, IsState(B, w, D),
           NEW v \in Version, NEW E, AccountContent(v, E),
           Row(v, <<>>, NodeRow(E, <<>>)) \in B
    PROVE  w = v /\ TrieRows(v, <<>>, E) \subseteq B
<1> DEFINE P == <<>>
           e == NodeRow(E, <<>>)
           root == Row(v, P, e)
<1>1. w \in Version /\ Exactly(PartOf(B, P), w, P, D) /\ AccountContent(w, D)
  BY DEF IsState
<1>2. /\ \A k \in DOMAIN E : k \in Seq(Symbol)
      /\ \A x \in NodeRows(E) : Owned(P, Row(v, P, x))
      /\ \A k \in DOMAIN D : k \in Seq(Symbol)
  BY <1>1, AccountsFit DEF Fits
<1>3. E = [k \in DOMAIN E |-> E[k]] /\ D = [k \in DOMAIN D |-> D[k]]
  BY <1>1 DEF AccountContent
<1>4. e = <<E>> /\ e \in NodeRows(E) /\ NodeRow(D, <<>>) = <<D>>
  BY <1>2, <1>3, RootIsContent
<1>5. root \in TrieRows(w, P, D) \cup {Row(w, P, EmptyRootRow)}
  <2>1. root \in PartOf(B, P)
    BY <1>2, <1>4 DEF PartOf
  <2> QED BY <1>1, <2>1 DEF Exactly
<1>6. PICK x \in NodeRows(D) \cup {EmptyRootRow} : root = Row(w, P, x)
  BY <1>5 DEF TrieRows
<1>7. w = v
  <2>1. \E p \in Seq(Symbol) : \E n : x = Append(p, n) /\ (p = <<>> \/ p[1] \in Address)
    <3>1. CASE x = EmptyRootRow
      <4>1. x = Append(<<>>, NoContent) /\ <<>> \in Seq(Symbol)
        BY <3>1 DEF EmptyRootRow
      <4> QED BY <4>1
    <3>2. CASE x \in NodeRows(D)
      <4>1. PICK p \in Positions(D) : x = Append(p, Node(D, p))
        BY <3>2 DEF NodeRows, NodeRow
      <4>2. p \in Seq(Symbol) /\ (p = <<>> \/ p[1] \in Address)
        BY <1>1, PositionsOfAccounts
      <4> QED BY <4>1, <4>2
    <3> QED BY <1>6, <3>1, <3>2
  <2>2. PICK p \in Seq(Symbol) : \E n : x = Append(p, n) /\ (p = <<>> \/ p[1] \in Address)
    BY <2>1
  <2>3. PICK n : x = Append(p, n) /\ (p = <<>> \/ p[1] \in Address)
    BY <2>2
  <2>4. e = Append(<<>>, E)
    BY <1>4
  <2>5. Row(v, <<>>, Append(<<>>, E)) = Row(w, <<>>, Append(p, n))
    BY <1>6, <2>3, <2>4
  <2> QED BY <1>1, <2>3, <2>5, RootsOfOneVersion
<1>8. x = <<E>>
  <2>1. IsNodeRow(Symbol, x) /\ IsNodeRow(Symbol, e)
    BY <1>2, <1>4, NodesAreRows, EmptyRootIsNode
  <2> QED BY <1>4, <1>6, <1>7, <2>1, SymbolFacts, RowsApart
<1>9. CASE x = EmptyRootRow
  <2>1. E = NoContent
    BY <1>8, <1>9 DEF EmptyRootRow
  <2>2. TrieRows(v, P, E) = {Row(v, P, <<E>>)}
    BY <2>1, NodesOfNoContent DEF TrieRows, EmptyRootRow
  <2> QED BY <1>4, <1>7, <2>2
<1>10. CASE x \in NodeRows(D)
  <2>1. PICK p \in Positions(D) : x = Append(p, Node(D, p))
    BY <1>10 DEF NodeRows, NodeRow
  <2>2. p \in Seq(Symbol)
    BY <1>2, PositionIsPartOfKey, EmptySeq
  <2>3. Len(p) = 0
    <3>1. Len(x) = 1
      BY <1>8
    <3>2. Len(x) = Len(p) + 1
      BY <2>1, <2>2, LastOfAppend
    <3> QED BY <2>2, <3>1, <3>2
  <2>4. x = NodeRow(D, <<>>)
    BY <2>1, <2>2, <2>3 DEF NodeRow
  <2>5. E = D
    BY <1>4, <1>8, <2>4
  <2> QED BY <1>1, <1>7, <2>5 DEF Exactly, PartOf
<1> QED BY <1>6, <1>9, <1>10

(* The accounts trie of a session, and where its root is.                  *)
LEMMA AccountsAreTrie ==
    ASSUME NEW c, NEW v, NEW t, NEW D, NEW m, InSession(c, v, t, D, m)
    PROVE  /\ v \in Version /\ AccountContent(v, D) /\ IsTrie(t, v, <<>>, D) /\ t.root = D
           /\ Fits(Symbol, v, <<>>, D)
           /\ \A k \in DOMAIN D : k \in Seq(Symbol)
           /\ D = [k \in DOMAIN D |-> D[k]]
<1>1. v \in Version /\ TrieOn(t, c[Len(changes)], v, <<>>, D) /\ AccountContent(v, D)
  BY DEF InSession, Session
<1>2. IsTrie(t, v, <<>>, D) /\ t.root = D
  BY <1>1 DEF TrieOn, IsTrie
<1>3. Fits(Symbol, v, <<>>, D)
  BY <1>1, AccountsFit
<1> QED BY <1>1, <1>2, <1>3 DEF Fits, AccountContent

(* A write goes through the root.                                          *)
LEMMA WriteReadsRoot ==
    ASSUME NEW t, NEW D, t.root = D, NEW db, NEW a, NEW f, NEW x,
           CanSetField(t, db, a, f, x)
    PROVE  Holds(t, db, {NodeRow(D, <<>>)})
<1> DEFINE key == AccountKey(t.db.version, a, f)
           keys == {key}
           new == WithAll(t.root, [k \in keys |-> x])
           e == NodeRow(D, <<>>)
<1>1. CanChange(t, db, keys, new)
  BY DEF CanSetField
<1>2. e \in PathRows(D, key)
  <2>1. IsPrefix(<<>>, key)
    <3>1. Len(key) >= 0 /\ SubSeq(<<>>, 1, 0) = SubSeq(key, 1, 0)
      BY DEF AccountKey
    <3> QED BY <3>1 DEF IsPrefix
  <2>2. <<>> \in Positions(D)
    BY DEF Positions
  <2> QED BY <2>1, <2>2 DEF PathRows
<1> HIDE DEF new, e, key
<1>3. e \in UNION {PathRows(t.root, k) : k \in keys}
  BY <1>2
<1> QED BY <1>1, <1>3 DEF CanChange, Holds, e

(* Versions only grow: from the database over what waits to the session.   *)
VersionsGrow(h, ch, s) ==
    /\ h # NoState /\ s # NoSession => h.version <= s.version
    /\ \A j \in 1 .. Len(ch) :
           /\ h # NoState => h.version <= ch[j].version
           /\ s # NoSession => ch[j].version <= s.version
           /\ \A k \in j .. Len(ch) : ch[j].version <= ch[k].version

(* An accounts trie that was written to sees the row of the empty root.    *)
RootKept(s, db) ==
    s # NoSession =>
        \/ Touched(s.accounts.db) = {}
        \/ Row(s.version, <<>>, EmptyRootRow) \in Sees(s.accounts, DOMAIN db)

RInv == VersionsGrow(head, changes, ws) /\ RootKept(ws, storage)

(* A session that finds its root finds the row of the empty root.          *)
LEMMA EmptyRootIsSeen ==
    ASSUME NEW c, NEW v, NEW t, NEW D, NEW m, InSession(c, v, t, D, m),
           RootKept(ws, storage), Holds(t, storage, {NodeRow(D, <<>>)})
    PROVE  Row(v, <<>>, EmptyRootRow) \in Sees(t, DOMAIN storage)
<1> DEFINE P == <<>>
           A == DOMAIN storage
           row == Row(v, P, EmptyRootRow)
           e == NodeRow(D, <<>>)
           X == {e}
<1>1. /\ v \in Version /\ AccountContent(v, D) /\ IsTrie(t, v, P, D)
      /\ ws.version = v /\ ws.accounts = t /\ ws # NoSession
  <2>1. v \in Version /\ AccountContent(v, D) /\ IsTrie(t, v, P, D)
    BY AccountsAreTrie
  <2>2. ws.version = v /\ ws.accounts = t
    BY PartsOfSession
  <2>3. ws # NoSession
    BY <2>1, SessionIsThere DEF InSession
  <2> QED BY <2>1, <2>2, <2>3
<1>2. Row(v, P, e) \in Sees(t, A)
  <2>1. Holds(t, storage, X)
    OBVIOUS
  <2> HIDE DEF e, P
  <2>2. Image(v, P, X) \subseteq Sees(t, A)
    BY <1>1, <2>1, HeldAreFound
  <2> QED BY <2>2 DEF Image
<1>3. CASE row \in Sees(t, A)
  BY <1>3
<1>4. CASE Touched(t.db) = {}
  <2>1. Sees(t, A) = A
    BY <1>4 DEF Sees, Visible, Touched
  <2>2. HeadOK(A, head) /\ A # {}
    BY <1>2, <2>1 DEF InSession, World, Chain
  <2>3. IsState(A, head.version, head.root)
    BY <2>2 DEF HeadOK
  <2> HIDE DEF A
  <2>4. TrieRows(v, P, D) \subseteq A
    BY <1>1, <1>2, <2>1, <2>3, RootRowTells
  <2> QED BY <2>1, <2>4 DEF TrieRows, A
<1> QED BY <1>1, <1>3, <1>4 DEF RootKept

(* One that finds all nodes finds all rows.                                *)
LEMMA IteratedIsFound ==
    ASSUME NEW c, NEW v, NEW t, NEW D, NEW m, InSession(c, v, t, D, m),
           RootKept(ws, storage), CanIterate(t, storage)
    PROVE  Finds(t, DOMAIN storage, v, <<>>, D)
<1> DEFINE P == <<>>
           A == DOMAIN storage
           X == NodeRows(D)
<1>1. /\ IsTrie(t, v, P, D) /\ t.root = D
      /\ \A k \in DOMAIN D : k \in Seq(Symbol)
      /\ D = [k \in DOMAIN D |-> D[k]]
  BY AccountsAreTrie
<1>2. Holds(t, storage, X) /\ NodeRow(D, <<>>) \in X
  BY <1>1, RootIsContent DEF CanIterate
<1>3. Row(v, P, EmptyRootRow) \in Sees(t, A)
  BY <1>2, EmptyRootIsSeen DEF Holds
<1> HIDE DEF P, X
<1>4. Image(v, P, X) \subseteq Sees(t, A)
  BY <1>1, <1>2, HeldAreFound
<1> QED BY <1>3, <1>4 DEF Finds, TrieRows, Image, P, X

(* `upgrade' reads the database as it is, before what waits is applied.    *)
LEMMA UpgradeKeeps ==
    ASSUME IInv, RInv, Upgrade
    PROVE  IInv'
<1>1. PICK c, v, t, D, m : InSession(c, v, t, D, m)
  BY WhenAlive DEF Upgrade
<1>2. /\ ws = [version |-> v, accounts |-> t, map |-> m]
      /\ ws.version = v /\ ws.accounts = t /\ ws.map = m /\ t.root = D
  BY <1>1, PartsOfSession DEF InSession
<1> DEFINE B == c[Len(changes)]
           info == StorageInfo(D)
           n == UpgradedMap(m, info, storage)
           after == AccountsUpgrade(t, storage)
<1>3. /\ v = V1 /\ CanIterate(t, storage)
      /\ ws' = [version |-> V2, accounts |-> after, map |-> n]
      /\ UNCHANGED <<storage, head, changes>>
  BY <1>2 DEF Upgrade, UpgradedMap, TrieAt
<1>4. /\ World(c, storage, head, changes) /\ Session(V1, t, D, m, B)
      /\ Settled(m, c, Len(changes))
  BY <1>1, <1>3 DEF InSession
<1>5. \A r \in DOMAIN storage : storage[r] = Last(r)
  <2>1. storage = [r \in DOMAIN storage |-> Last(r)]
    BY <1>4 DEF World
  <2> QED BY <2>1
<1>6. Agree(m, DOMAIN storage, B)
  <2>1. c[0] = DOMAIN storage /\ 0 \in 0 .. Len(changes)
    BY <1>4, RowsAreParted DEF World, Chain
  <2> QED BY <1>4, <2>1 DEF Settled
<1>7. Finds(t, DOMAIN storage, V1, <<>>, D)
  BY <1>1, <1>3, IteratedIsFound DEF RInv
<1> HIDE DEF B, info
<1>8. /\ \E E : Session(V2, after, E, n, B)
      /\ \A a \in Address : TouchedBy(m, a) \subseteq TouchedBy(n, a)
  BY <1>4, <1>5, <1>6, <1>7, SessionAfterUpgrade DEF info
<1>9. PICK E : Session(V2, after, E, n, B)
  BY <1>8
<1> HIDE DEF n, after
<1>10. Settled(n, c, Len(changes))
  BY <1>4, <1>8, SettledGrows
<1> QED BY <1>3, <1>4, <1>9, <1>10, SessionStep DEF B

(* The session ends; what waits still makes the same databases.            *)
LEMMA DropKeeps ==
    ASSUME IInv, Drop
    PROVE  IInv'
<1>1. PICK c : World(c, storage, head, changes)
  BY DEF IInv
<1>2. World(c, storage', head', changes') /\ SessionOK(ws', c, Len(changes'))
  BY <1>1 DEF Drop, SessionOK
<1> QED BY <1>2 DEF IInv

(* What waited is lost: there is only the database.                        *)
LEMMA CrashKeeps ==
    ASSUME IInv, Crash
    PROVE  IInv'
<1>1. PICK c : World(c, storage, head, changes)
  BY DEF IInv
<1>2. ws' = NoSession /\ changes' = <<>> /\ UNCHANGED <<storage, head>>
  BY DEF Crash
<1>3. World(c, storage', head', changes')
  <2>1. changes' \in Seq({}) /\ Len(changes') = 0
    BY <1>2
  <2> QED BY <1>1, <1>2, <2>1 DEF World, Chain, ChangesOK
<1>4. SessionOK(ws', c, Len(changes'))
  BY <1>2 DEF SessionOK
<1> QED BY <1>3, <1>4 DEF IInv

(* One more change waits. *)
LEMMA ChainExtended ==
    ASSUME NEW c, NEW db, NEW h, NEW ch, World(c, db, h, ch), NEW x,
           NEW A, A = After(c[Len(ch)], x.inserts, x.deletes),
           ChangeOK(x.inserts, x.deletes), IsState(A, x.version, x.root),
           NEW d, d = [j \in 0 .. Len(ch) + 1 |-> IF j = Len(ch) + 1 THEN A ELSE c[j]]
    PROVE  /\ World(d, db, h, Append(ch, x))
           /\ Len(Append(ch, x)) = Len(ch) + 1 /\ d[Len(ch) + 1] = A
           /\ \A j \in 0 .. Len(ch) : d[j] = c[j]
<1> DEFINE n == Len(ch)
           more == Append(ch, x)
<1>1. PICK T : ch \in Seq(T)
  BY DEF World
<1>2. /\ n \in Nat /\ more \in Seq(T \cup {x}) /\ Len(more) = n + 1 /\ more[n + 1] = x
      /\ \A j \in 1 .. n : more[j] = ch[j]
  BY <1>1
<1>3. d[n + 1] = A /\ \A j \in 0 .. n : d[j] = c[j]
  BY <1>2
<1>4. /\ Chain(c, db, ch) /\ ChangesOK(c, ch) /\ HeadOK(c[0], h)
      /\ db = [r \in DOMAIN db |-> Last(r)]
  BY DEF World
<1>5. A = After(c[n], x.inserts, x.deletes)
  OBVIOUS
<1> HIDE DEF n, more
<1>6. Chain(d, db, more)
  <2>1. d[0] = DOMAIN db
    BY <1>2, <1>3, <1>4 DEF Chain
  <2>2. ASSUME NEW j \in 1 .. n + 1
        PROVE  d[j] = After(d[j - 1], more[j].inserts, more[j].deletes)
    <3>0. j - 1 \in 0 .. n
      BY <1>2
    <3>1. CASE j = n + 1
      BY <1>2, <1>3, <1>5, <3>0, <3>1
    <3>2. CASE j # n + 1
      <4>1. j \in 1 .. n
        BY <1>2, <3>2
      <4>2. c[j] = After(c[j - 1], ch[j].inserts, ch[j].deletes)
        BY <1>4, <4>1 DEF Chain, n
      <4>3. j \in 0 .. n
        BY <1>2, <4>1
      <4>4. d[j] = c[j] /\ d[j - 1] = c[j - 1]
        BY ONLY <1>3, <3>0, <4>3
      <4> QED BY <1>2, <4>1, <4>2, <4>4
    <3> QED BY <3>1, <3>2
  <2> QED BY <1>2, <2>1, <2>2 DEF Chain
<1>7. ChangesOK(d, more)
  <2> SUFFICES ASSUME NEW j \in 1 .. n + 1
               PROVE  /\ ChangeOK(more[j].inserts, more[j].deletes)
                      /\ IsState(d[j], more[j].version, more[j].root)
    BY <1>2 DEF ChangesOK
  <2>1. CASE j = n + 1
    BY <1>2, <1>3, <2>1
  <2>2. CASE j # n + 1
    <3>1. j \in 1 .. n
      BY <1>2, <2>2
    <3> QED BY <1>2, <1>3, <1>4, <3>1 DEF ChangesOK, n
  <2> QED BY <2>1, <2>2
<1>8. World(d, db, h, more)
  BY <1>2, <1>3, <1>4, <1>6, <1>7 DEF World
<1> QED BY <1>2, <1>3, <1>8 DEF n, more

(* `close' adds a database to those to come, with the session over it.     *)
LEMMA CloseKeeps ==
    ASSUME IInv, Close
    PROVE  IInv'
<1>1. PICK c, v, t, D, m : InSession(c, v, t, D, m)
  BY WhenAlive DEF Close
<1>2. /\ ws = [version |-> v, accounts |-> t, map |-> m]
      /\ ws.version = v /\ ws.map = m
  BY <1>1, PartsOfSession DEF InSession
<1>3. PICK order \in SetToSeqs(DOMAIN ws.map) :
          LET accounts == Recorded(order)
              rows == Merged({accounts.db} \cup {ws.map[a].db : a \in DOMAIN ws.map})
          IN  /\ changes' = Append(changes,
                     [inserts |-> rows.inserts, deletes |-> rows.deletes,
                      version |-> ws.version, root |-> accounts.root])
              /\ ws' = [ws EXCEPT !.accounts = MptClosed(accounts)]
  BY DEF Close
<1> DEFINE n == Len(changes)
           B == c[n]
           accounts == Recorded(order)
           rows == Merged(Overlays(accounts.db, m))
           A == After(B, rows.inserts, rows.deletes)
           x == [inserts |-> rows.inserts, deletes |-> rows.deletes,
                 version |-> v, root |-> accounts.root]
           d == [j \in 0 .. n + 1 |-> IF j = n + 1 THEN A ELSE c[j]]
<1>4. /\ World(c, storage, head, changes) /\ Session(v, t, D, m, B) /\ Settled(m, c, n)
  BY <1>1 DEF InSession
<1>5. n \in Nat /\ Parted(B)
  BY <1>4, RowsAreParted
<1>6. \E E : /\ accounts.root = E
             /\ Session(v, MptClosed(accounts), E, m, A)
             /\ IsState(A, v, E)
             /\ ChangeOK(rows.inserts, rows.deletes)
             /\ Agree(m, A, B)
  <2>1. ws = [version |-> v, accounts |-> t, map |-> m] /\ order \in SetToSeqs(DOMAIN m)
    BY <1>2, <1>3
  <2> HIDE DEF B
  <2> QED BY ONLY <1>4, <1>5, <2>1, SessionAfterClose
<1>7. PICK E : /\ accounts.root = E
               /\ Session(v, MptClosed(accounts), E, m, A)
               /\ IsState(A, v, E)
               /\ ChangeOK(rows.inserts, rows.deletes)
               /\ Agree(m, A, B)
  BY <1>6
<1>8. /\ changes' = Append(changes, x) /\ UNCHANGED <<storage, head>>
      /\ ws' = [version |-> v, accounts |-> MptClosed(accounts), map |-> m]
  <2>1. ws' = [ws EXCEPT !.accounts = MptClosed(accounts)]
    BY <1>3
  <2>2. {accounts.db} \cup {ws.map[a].db : a \in DOMAIN ws.map} = Overlays(accounts.db, m)
    BY <1>2 DEF Overlays
  <2>3. changes' = Append(changes, x)
    BY <1>2, <1>3, <2>2
  <2>4. UNCHANGED <<storage, head>>
    BY DEF Close
  <2> HIDE DEF accounts
  <2> QED BY <1>2, <2>1, <2>3, <2>4, SessionChanged
<1>9. /\ x.inserts = rows.inserts /\ x.deletes = rows.deletes /\ x.version = v
      /\ x.root = accounts.root
  OBVIOUS
<1> HIDE DEF accounts, rows
<1>10. A = After(B, x.inserts, x.deletes) /\ ChangeOK(x.inserts, x.deletes)
       /\ IsState(A, x.version, x.root)
  BY <1>7, <1>9
<1> HIDE DEF x, A
<1>11. /\ World(d, storage, head, Append(changes, x)) /\ Len(Append(changes, x)) = n + 1
       /\ d[n + 1] = A /\ \A j \in 0 .. n : d[j] = c[j]
  BY <1>4, <1>10, ChainExtended
<1> HIDE DEF d, n
<1>12. World(d, storage', head', changes') /\ Len(changes') = n + 1
  BY <1>8, <1>11
<1>13. Settled(m, d, n + 1)
  <2> SUFFICES ASSUME NEW j \in 0 .. n + 1 PROVE Agree(m, d[j], A)
    BY <1>11 DEF Settled
  <2>1. CASE j = n + 1
    BY <1>11, <2>1 DEF Agree
  <2>2. CASE j # n + 1
    <3>1. j \in 0 .. n
      BY <1>5, <2>2
    <3>2. Agree(m, d[j], B)
      BY <1>4, <1>11, <3>1 DEF Settled
    <3> HIDE DEF B
    <3> QED BY <1>7, <3>2 DEF Agree
  <2> QED BY <2>1, <2>2
<1>14. SessionOK(ws', d, Len(changes'))
  <2>1. Session(v, MptClosed(accounts), E, m, d[n + 1])
    BY <1>7, <1>11
  <2> QED BY <1>8, <1>12, <1>13, <2>1 DEF SessionOK
<1> QED BY <1>12, <1>14 DEF IInv

(* Either order of applying a change makes the rows that were foreseen.    *)
LEMMA AppliedRows ==
    ASSUME NEW db, db = [r \in DOMAIN db |-> Last(r)], NEW ins, NEW del, ChangeOK(ins, del),
           NEW new \in Applied(db, ins, del)
    PROVE  DOMAIN new = After(DOMAIN db, ins, del) /\ new = [r \in DOMAIN new |-> Last(r)]
<1>1. \A r \in DOMAIN db : db[r] = Last(r)
  <2>1. \A r \in DOMAIN db : [q \in DOMAIN db |-> Last(q)][r] = Last(r)
    OBVIOUS
  <2> QED BY <2>1
<1>2. DOMAIN ins \cap del = {} /\ \A r \in DOMAIN ins : ins[r] = Last(r)
  BY DEF ChangeOK
<1>3. CASE new = InsertThenDelete(db, ins, del)
  <2>1. /\ DOMAIN new = (DOMAIN db \cup DOMAIN ins) \ del
        /\ \A r \in DOMAIN new : new[r] = IF r \in DOMAIN ins THEN ins[r] ELSE db[r]
        /\ new = [r \in DOMAIN new |-> new[r]]
    BY <1>3 DEF InsertThenDelete, Without, Extend
  <2>2. \A r \in DOMAIN new : new[r] = Last(r)
    BY <1>1, <1>2, <2>1
  <2> QED BY <2>1, <2>2 DEF After
<1>4. CASE new = DeleteThenInsert(db, ins, del)
  <2>1. /\ DOMAIN new = (DOMAIN db \ del) \cup DOMAIN ins
        /\ \A r \in DOMAIN new : new[r] = IF r \in DOMAIN ins THEN ins[r] ELSE db[r]
        /\ new = [r \in DOMAIN new |-> new[r]]
    BY <1>4 DEF DeleteThenInsert, Without, Extend
  <2>2. \A r \in DOMAIN new : new[r] = Last(r)
    BY <1>1, <1>2, <2>1
  <2>3. DOMAIN new = After(DOMAIN db, ins, del)
    BY <1>2, <2>1 DEF After
  <2> QED BY <2>1, <2>2, <2>3
<1> QED BY <1>3, <1>4 DEF Applied

(* The first of the databases to come is there.                            *)
LEMMA ApplyKeeps ==
    ASSUME IInv, Apply
    PROVE  IInv'
<1>1. PICK c : World(c, storage, head, changes) /\ SessionOK(ws, c, Len(changes))
  BY DEF IInv
<1> DEFINE n == Len(changes)
           d == [j \in 0 .. n - 1 |-> c[j + 1]]
           ins == changes[1].inserts
           del == changes[1].deletes
<1>2. PICK T : changes \in Seq(T)
  BY <1>1 DEF World
<1>3. /\ changes # <<>> /\ changes' = Tail(changes) /\ ws' = ws
      /\ storage' \in Applied(storage, Head(changes).inserts, Head(changes).deletes)
      /\ head' = [version |-> Head(changes).version, root |-> Head(changes).root]
  BY DEF Apply
<1>4. /\ n \in Nat /\ n >= 1 /\ Head(changes) = changes[1]
      /\ changes' \in Seq(T) /\ Len(changes') = n - 1
      /\ \A j \in 1 .. n - 1 : changes'[j] = changes[j + 1]
  BY <1>2, <1>3
<1>5. /\ storage = [r \in DOMAIN storage |-> Last(r)]
      /\ Chain(c, storage, changes) /\ ChangesOK(c, changes)
  BY <1>1 DEF World
<1>6. ChangeOK(ins, del) /\ IsState(c[1], changes[1].version, changes[1].root)
  BY <1>4, <1>5 DEF ChangesOK
<1>7. DOMAIN storage' = c[1] /\ storage' = [r \in DOMAIN storage' |-> Last(r)]
  <2>1. c[1] = After(DOMAIN storage, ins, del)
    BY <1>4, <1>5 DEF Chain
  <2>2. storage' \in Applied(storage, ins, del)
    BY <1>3, <1>4
  <2> HIDE DEF ins, del
  <2> QED BY <1>5, <1>6, <2>1, <2>2, AppliedRows
<1>8. \A j \in 0 .. n - 1 : d[j] = c[j + 1]
  OBVIOUS
<1> HIDE DEF d, n, ins, del
<1>9. Chain(d, storage', changes')
  <2>1. d[0] = DOMAIN storage'
    BY <1>4, <1>7, <1>8
  <2>2. ASSUME NEW j \in 1 .. n - 1
        PROVE  d[j] = After(d[j - 1], changes'[j].inserts, changes'[j].deletes)
    <3>1. j + 1 \in 1 .. n /\ j - 1 \in 0 .. n - 1 /\ j \in 0 .. n - 1
          /\ (j + 1) - 1 = j /\ (j - 1) + 1 = j
      BY <1>4
    <3>2. c[j + 1] = After(c[j], changes[j + 1].inserts, changes[j + 1].deletes)
      BY <1>5, <3>1 DEF Chain, n
    <3>3. d[j] = c[j + 1] /\ d[j - 1] = c[j]
      BY <1>8, <3>1
    <3> QED BY <1>4, <3>2, <3>3
  <2> QED BY <1>4, <2>1, <2>2 DEF Chain
<1>10. ChangesOK(d, changes')
  <2> SUFFICES ASSUME NEW j \in 1 .. n - 1
               PROVE  /\ ChangeOK(changes'[j].inserts, changes'[j].deletes)
                      /\ IsState(d[j], changes'[j].version, changes'[j].root)
    BY <1>4 DEF ChangesOK
  <2>1. j + 1 \in 1 .. n /\ j \in 0 .. n - 1
    BY <1>4
  <2>2. /\ ChangeOK(changes[j + 1].inserts, changes[j + 1].deletes)
        /\ IsState(c[j + 1], changes[j + 1].version, changes[j + 1].root)
    BY <1>5, <2>1 DEF ChangesOK, n
  <2> QED BY <1>4, <1>8, <2>1, <2>2
<1>11. HeadOK(d[0], head')
  <2> DEFINE v == changes[1].version
             D == changes[1].root
  <2>1. d[0] = c[1]
    BY <1>4, <1>8
  <2>2. head' = [version |-> v, root |-> D]
    BY <1>3, <1>4
  <2>3. IsState(c[1], v, D)
    BY <1>6
  <2> HIDE DEF v, D
  <2>4. head'.version = v /\ head'.root = D
    BY <2>2
  <2>5. NoState.version = Nothing /\ v \in Version
    BY <2>3 DEF NoState, IsState
  <2>6. head' # NoState
    BY <2>4, <2>5, NothingIsNoVersion
  <2> QED BY <2>1, <2>3, <2>4, <2>6 DEF HeadOK
<1>12. World(d, storage', head', changes')
  BY <1>4, <1>7, <1>9, <1>10, <1>11 DEF World
<1>13. SessionOK(ws', d, Len(changes'))
  <2> SUFFICES ASSUME ws # NoSession
               PROVE  \E v, t, D, m : /\ ws = [version |-> v, accounts |-> t, map |-> m]
                                      /\ Session(v, t, D, m, d[n - 1])
                                      /\ Settled(m, d, n - 1)
    BY <1>3, <1>4 DEF SessionOK
  <2>1. PICK v, t, D, m : /\ ws = [version |-> v, accounts |-> t, map |-> m]
                          /\ Session(v, t, D, m, c[n]) /\ Settled(m, c, n)
    BY <1>1 DEF SessionOK, n
  <2>2. d[n - 1] = c[n]
    BY <1>4, <1>8
  <2>3. Settled(m, d, n - 1)
    <3> SUFFICES ASSUME NEW j \in 0 .. n - 1 PROVE Agree(m, d[j], c[n])
      BY <2>2 DEF Settled
    <3>1. j + 1 \in 0 .. n
      BY <1>4
    <3> QED BY <1>8, <2>1, <3>1 DEF Settled
  <2> QED BY <2>1, <2>2, <2>3
<1> QED BY <1>12, <1>13 DEF IInv

-----------------------------------------------------------------------------
(* What a session finds of its empty root, step by step. *)

(* An accounts trie whose rows are found sees that of its empty root.      *)
LEMMA FoundHasRoot ==
    ASSUME NEW v, NEW P, NEW t, NEW D, NEW A, Finds(t, A, v, P, D)
    PROVE  Row(v, P, EmptyRootRow) \in Sees(t, A)
BY DEF Finds, TrieRows

(* A session put together.                                                 *)
LEMMA RootKeptOf ==
    ASSUME NEW v, NEW t, NEW m, NEW db, Row(v, <<>>, EmptyRootRow) \in Sees(t, DOMAIN db)
    PROVE  RootKept([version |-> v, accounts |-> t, map |-> m], db)
BY DEF RootKept

(* With nothing that waits the session is exact over the database.         *)
LEMMA RootOfExact ==
    ASSUME NEW c, NEW db, NEW h, NEW ch, World(c, db, h, ch), ch = <<>>,
           NEW s, SessionOK(s, c, Len(ch))
    PROVE  RootKept(s, db)
<1> SUFFICES ASSUME s # NoSession PROVE RootKept(s, db)
  BY DEF RootKept
<1>1. Len(ch) = 0 /\ c[0] = DOMAIN db
  BY DEF World, Chain
<1>2. PICK v, t, D, m : /\ s = [version |-> v, accounts |-> t, map |-> m]
                        /\ Session(v, t, D, m, c[Len(ch)])
  BY DEF SessionOK
<1>3. TrieOn(t, DOMAIN db, v, <<>>, D)
  BY <1>1, <1>2 DEF Session
<1>4. Finds(t, DOMAIN db, v, <<>>, D)
  BY <1>3 DEF TrieOn, Exactly, PartOf, Finds, Sees
<1> QED BY <1>2, <1>4, FoundHasRoot, RootKeptOf

(* A setter goes through the root, and keeps the empty one.                *)
LEMMA SetFieldKeepsRoot ==
    ASSUME NEW v \in Version, NEW t, NEW D, IsTrie(t, v, <<>>, D), AccountContent(v, D),
           NEW a \in Address, NEW f \in Fields, NEW x, x = Empty \/ x \in FieldContents(v, f),
           NEW A, Row(v, <<>>, EmptyRootRow) \in Sees(t, A)
    PROVE  Row(v, <<>>, EmptyRootRow) \in Sees(SetField(t, a, f, x), A)
<1> DEFINE new == WithAll(D, Single(AccountKey(v, a, f), x))
           P == <<>>
           row == Row(v, P, EmptyRootRow)
           after == Commit(t, new)
<1>1. SetField(t, a, f, x) = after
  BY DEF SetField, MptSet, MptBatchSet, IsTrie, OverlayOK, Single
<1>2. AccountContent(v, new)
  BY ContentAfterSet
<1> HIDE DEF new
<1>3. Fits(Symbol, v, P, D) /\ Fits(Symbol, v, P, new)
  BY <1>2, AccountsFit
<1>4. /\ 0 \in Symbol /\ 1 \in Symbol /\ P \in Seq(Symbol) /\ IsTrie(t, v, P, D)
      /\ Row(v, P, EmptyRootRow) \in Sees(t, A)
  BY SymbolFacts
<1> HIDE DEF P
<1>5. Row(v, P, EmptyRootRow) \in Sees(Commit(t, new), A)
  BY ONLY <1>3, <1>4, CommitKeepsRoot
<1> QED BY <1>1, <1>5 DEF P

(* The setters of the caller, and that of a storage that is created.       *)
LEMMA SettersKeepRoot ==
    ASSUME IInv, RInv, Alive, NEW a \in Address, NEW f \in Fields, NEW x,
           x = Empty \/ x \in FieldContents(ws.version, f),
           CanSetField(ws.accounts, storage, a, f, x),
           NEW m, NEW s, s = [version  |-> ws.version,
                              accounts |-> SetField(ws.accounts, a, f, x),
                              map      |-> m]
    PROVE  RootKept(s, storage)
<1>1. PICK c, v, t, D, n : InSession(c, v, t, D, n)
  BY WhenAlive
<1>2. ws.version = v /\ ws.accounts = t /\ t.root = D
  BY <1>1, PartsOfSession
<1>3. v \in Version /\ AccountContent(v, D) /\ IsTrie(t, v, <<>>, D)
  BY <1>1, AccountsAreTrie
<1>4. Holds(t, storage, {NodeRow(D, <<>>)})
  BY <1>2, WriteReadsRoot
<1>5. Row(v, <<>>, EmptyRootRow) \in Sees(t, DOMAIN storage)
  BY <1>1, <1>4, EmptyRootIsSeen DEF RInv
<1>6. Row(v, <<>>, EmptyRootRow) \in Sees(SetField(t, a, f, x), DOMAIN storage)
  BY <1>2, <1>3, <1>5, SetFieldKeepsRoot
<1> QED BY <1>2, <1>6, RootKeptOf

(* Setting a field.                                                        *)
LEMMA SetAccountFieldKeepsRoot ==
    ASSUME IInv, RInv, NEW a \in Address, NEW f \in Field, NEW x \in FieldValue[f],
           SetAccountField(a, f, x)
    PROVE  RootKept(ws', storage')
<1>1. PICK c, v, t, D, m : ws = [version |-> v, accounts |-> t, map |-> m]
  BY WhenAlive DEF SetAccountField, InSession
<1>2. f \in Fields /\ (x = Empty \/ x \in FieldContents(ws.version, f))
  BY SymbolFacts DEF Fields, FieldContents
<1>3. /\ Alive /\ CanSetField(ws.accounts, storage, a, f, x) /\ storage' = storage
      /\ ws' = [ws EXCEPT !.accounts = SetField(ws.accounts, a, f, x)]
  BY DEF SetAccountField
<1>4. ws' = [version |-> ws.version, accounts |-> SetField(ws.accounts, a, f, x), map |-> m]
  BY <1>1, <1>3, SessionChanged
<1>5. RootKept(ws', storage)
  BY <1>2, <1>3, <1>4, SettersKeepRoot
<1> QED BY <1>3, <1>5

(* Creating a storage records the hash of an empty trie.                   *)
LEMMA CreateStorageKeepsRoot ==
    ASSUME IInv, RInv, NEW a \in Address, CreateStorage(a)
    PROVE  RootKept(ws', storage')
<1>1. PICK c, v, t, D, m : InSession(c, v, t, D, m)
  BY WhenAlive DEF CreateStorage
<1>2. ws = [version |-> v, accounts |-> t, map |-> m] /\ ws.version = v /\ v \in Version
  BY <1>1, PartsOfSession, AccountsAreTrie DEF InSession
<1> DEFINE trie == StorageNew(v, a)
           after == SetField(ws.accounts, a, StorageHash, NoContent)
           n == With(ws.map, a, trie)
<1>3. trie.root = NoContent
  BY DEF StorageNew, MptNew
<1>4. /\ Alive /\ CanSetField(ws.accounts, storage, a, StorageHash, NoContent)
      /\ storage' = storage /\ ws' = [ws EXCEPT !.accounts = after, !.map = n]
  BY <1>2, <1>3 DEF CreateStorage
<1>5. StorageHash \in Fields /\ NoContent \in FieldContents(v, StorageHash)
  BY <1>2, NoneIsNoContent DEF Fields, FieldContents
<1> HIDE DEF n, trie, after
<1>6. ws' = [version |-> ws.version, accounts |-> after, map |-> n]
  BY <1>2, <1>4, SessionChanged
<1>7. RootKept(ws', storage)
  <2> DEFINE f == StorageHash
             x == NoContent
             s == [version |-> ws.version, accounts |-> SetField(ws.accounts, a, f, x), map |-> n]
  <2>1. f \in Fields /\ x \in FieldContents(ws.version, f) /\ ws' = s
    BY <1>2, <1>5, <1>6 DEF after
  <2>2. CanSetField(ws.accounts, storage, a, f, x)
    BY <1>4
  <2> HIDE DEF f, x
  <2>3. RootKept(s, storage)
    BY <1>4, <2>1, <2>2, SettersKeepRoot
  <2> QED BY <2>1, <2>3
<1> QED BY <1>4, <1>7

(* An upgrade puts the empty root of V2 and every node above it.           *)
LEMMA UpgradeFindsNodes ==
    ASSUME NEW t, NEW D, IsTrie(t, V1, <<>>, D), AccountContent(V1, D), NEW db, NEW A
    PROVE  \E E : /\ Finds(AccountsUpgrade(t, db), A, V2, <<>>, E)
                  /\ AccountsUpgrade(t, db).root = E
<1> DEFINE P == <<>>
           none == NoContent
           data == UpgradedFields(D)
           E == WithAll(none, data)
           emptied == Commit(t, none)
           moved == DeinitAndUpgrade(emptied, db)
           result == MptBatchSet(moved, data)
<1>0. V1 \in Version /\ V2 \in Version
  BY DEF Version
<1>1. AccountsUpgrade(t, db) = result
  <2>1. t.root = D
    BY DEF IsTrie
  <2>2. WithoutAll(D, DOMAIN D) = none
    BY DEF WithoutAll, Without, NoContent, EmptyRows
  <2> QED BY <2>1, <2>2 DEF AccountsUpgrade, MptBatchRemove
<1>2. /\ AccountContent(V2, WithAll(NoContent, UpgradedFields(D)))
      /\ AccountContent(V1, NoContent) /\ AccountContent(V2, NoContent)
  BY AccountsAfterUpgrade, NoAccounts
<1> HIDE DEF data
<1>3. /\ Fits(Symbol, V1, P, D) /\ Fits(Symbol, V2, P, E)
      /\ Fits(Symbol, V1, P, none) /\ Fits(Symbol, V2, P, none)
  <2>1. AccountContent(V2, E)
    BY <1>2 DEF data
  <2> HIDE DEF E
  <2> QED BY <1>0, <1>2, <2>1, AccountsFit
<1>4. 0 \in Symbol /\ 1 \in Symbol /\ P \in Seq(Symbol) /\ IsTrie(t, V1, P, D)
  BY SymbolFacts
<1>5. moved.root = none
  BY DEF DeinitAndUpgrade
<1>6. result.root = E
  <2> HIDE DEF moved
  <2> QED BY <1>5 DEF MptBatchSet, Commit
<1> HIDE DEF P
<1>7. IsTrie(emptied, V1, P, none)
  <2> HIDE DEF none
  <2>1. IsTrie(Commit(t, none), V1, P, none)
    BY ONLY <1>3, <1>4, CommitEffect
  <2> QED BY <2>1
<1> HIDE DEF emptied
<1>8. IsTrie(moved, V2, P, none) /\ Finds(moved, A, V2, P, none)
  BY ONLY <1>4, <1>7, MovedFindsRoot
<1> HIDE DEF moved, none
<1>9. Finds(result, A, V2, P, E)
  BY ONLY <1>3, <1>4, <1>8, BatchSetKeepsNodes
<1> HIDE DEF result, E
<1> QED BY <1>1, <1>6, <1>9 DEF P

(* An upgrade puts the row of the empty root itself.                       *)
LEMMA UpgradeKeepsRoot ==
    ASSUME IInv, Upgrade
    PROVE  RootKept(ws', storage')
<1>1. PICK c, v, t, D, m : InSession(c, v, t, D, m)
  BY WhenAlive DEF Upgrade
<1>2. ws.version = v /\ ws.accounts = t
  BY <1>1, PartsOfSession
<1> DEFINE after == AccountsUpgrade(t, storage)
           A == DOMAIN storage
<1>3. v = V1 /\ storage' = storage /\ \E n : ws' = [version |-> V2, accounts |-> after, map |-> n]
  BY <1>2 DEF Upgrade
<1>4. AccountContent(V1, D) /\ IsTrie(t, V1, <<>>, D)
  BY <1>1, <1>3, AccountsAreTrie
<1>5. PICK n : ws' = [version |-> V2, accounts |-> after, map |-> n]
  BY <1>3
<1>6. \E E : Finds(after, A, V2, <<>>, E)
  <2> HIDE DEF A
  <2> QED BY <1>4, UpgradeFindsNodes
<1> HIDE DEF after
<1>7. Row(V2, <<>>, EmptyRootRow) \in Sees(after, A)
  BY <1>6, FoundHasRoot
<1>8. RootKept(ws', storage)
  BY <1>5, <1>7, RootKeptOf
<1> QED BY <1>3, <1>8

(* After `close' the overlay is empty.                                     *)
LEMMA CloseKeepsRoot ==
    ASSUME IInv, Close
    PROVE  RootKept(ws', storage')
<1>1. PICK c, v, t, D, m : InSession(c, v, t, D, m)
  BY WhenAlive DEF Close
<1>2. ws = [version |-> v, accounts |-> t, map |-> m] /\ ws.map = m
  BY <1>1, PartsOfSession DEF InSession
<1>3. PICK order \in SetToSeqs(DOMAIN m) :
          ws' = [ws EXCEPT !.accounts = MptClosed(Recorded(order))]
  BY <1>2 DEF Close
<1> DEFINE accounts == Recorded(order)
           B == c[Len(changes)]
<1>4. Session(v, t, D, m, B)
  BY <1>1 DEF InSession
<1> HIDE DEF B
<1>5. \E E : TrieOn(Recorded(order), B, v, <<>>, E)
  BY <1>2, <1>4, RecordedKeeps
<1> HIDE DEF accounts
<1>6. PICK E : TrieOn(accounts, B, v, <<>>, E)
  BY <1>5 DEF accounts
<1> DEFINE after == MptClosed(accounts)
<1>7. Touched(after.db) = {}
  <2>2. after = [accounts EXCEPT !.db = Closed(accounts.db)]
        /\ accounts = [root |-> E, db |-> accounts.db]
    BY <1>6 DEF MptClosed, TrieOn
  <2> DEFINE o == accounts.db
  <2> HIDE DEF after, o
  <2>3. after.db = Closed(o)
    BY <2>2 DEF o
  <2>4. OverlayOK(o, v, <<>>)
    BY <1>6 DEF TrieOn, o
  <2>5. Closed(o).inserts = EmptyRows /\ Closed(o).deletes = {} /\ DOMAIN EmptyRows = {}
    BY <2>4 DEF Closed, OverlayOK, EmptyRows
  <2> QED BY <2>3, <2>5 DEF Touched
<1> HIDE DEF after
<1>8. ws'.accounts = after
  BY <1>2, <1>3 DEF after, accounts
<1> QED BY <1>7, <1>8 DEF RootKept

(* What is applied keeps the empty root where it is of the same version.   *)
LEMMA ApplyKeepsRoot ==
    ASSUME IInv, IInv', RInv, Apply
    PROVE  RootKept(ws', storage')
<1> DEFINE A == DOMAIN storage
           after == DOMAIN storage'
<1> SUFFICES ASSUME ws # NoSession, Touched(ws.accounts.db) # {}
             PROVE  Row(ws.version, <<>>, EmptyRootRow) \in Sees(ws.accounts, after)
  BY DEF Apply, RootKept
<1>1. PICK d : World(d, storage', head', changes') /\ SessionOK(ws, d, Len(changes'))
  BY DEF IInv, Apply
<1>2. PICK v, t, D, m : /\ ws = [version |-> v, accounts |-> t, map |-> m]
                        /\ Session(v, t, D, m, d[Len(changes')])
  BY <1>1 DEF SessionOK
<1> DEFINE B == d[Len(changes')]
           o == t.db
           row == Row(v, <<>>, EmptyRootRow)
<1>3. /\ v \in Version /\ OverlayOK(o, v, <<>>) /\ AccountContent(v, NoContent)
      /\ row \in Visible(B, o)
  <2>1. v \in Version /\ TrieOn(t, B, v, <<>>, D)
    BY <1>2 DEF Session
  <2> QED BY <2>1, NoAccounts DEF TrieOn, Exactly, PartOf, TrieRows
<1>4. ws.version = v /\ ws.accounts = t
  BY <1>2
<1>5. row \in Visible(A, o)
  BY <1>4 DEF RInv, RootKept, Sees
<1> HIDE DEF B, o, row
<1>6. row \notin o.deletes
  BY <1>3 DEF Visible, OverlayOK
<1>7. CASE row \in DOMAIN o.inserts
  BY <1>4, <1>6, <1>7 DEF Sees, Visible, o, row
<1>8. CASE row \in A
  <2>1. HeadOK(A, head) /\ A # {}
    BY <1>8 DEF IInv, World, Chain
  <2>2. head # NoState /\ IsState(A, head.version, head.root)
    BY <2>1 DEF HeadOK
  <2>3. NodeRow(NoContent, <<>>) = EmptyRootRow
    <3> DEFINE E == NoContent
    <3>1. E = [k \in DOMAIN E |-> E[k]] /\ \A k \in DOMAIN E : k \in Seq(Symbol)
      BY <1>3, AccountsFit DEF AccountContent, Fits
    <3> HIDE DEF E
    <3>2. NodeRow(E, <<>>) = <<E>>
      BY <3>1, RootIsContent
    <3> QED BY <3>2 DEF EmptyRootRow, E
  <2>4. head.version = v
    <3>1. Row(v, <<>>, NodeRow(NoContent, <<>>)) \in A
      BY <1>8, <2>3 DEF row
    <3> HIDE DEF A
    <3> QED BY <1>3, <2>2, <3>1, RootRowTells
  <2>5. changes # <<>> /\ Len(changes) \in Nat /\ Len(changes) >= 1 /\ Head(changes) = changes[1]
    <3>1. PICK T : changes \in Seq(T)
      BY DEF IInv, World
    <3> QED BY <3>1 DEF Apply
  <2>6. head.version <= changes[1].version /\ changes[1].version <= ws.version
    BY <2>2, <2>5 DEF RInv, VersionsGrow
  <2>7. changes[1].version \in Version
    BY <2>5 DEF IInv, World, ChangesOK, IsState
  <2>8. changes[1].version = v
    BY <1>3, <1>4, <2>4, <2>6, <2>7 DEF Version, V1, V2
  <2>9. head'.version = v
    BY <2>5, <2>8 DEF Apply
  <2>10. head' # NoState
    BY <1>3, <2>9, NothingIsNoVersion DEF NoState
  <2>11. HeadOK(after, head')
    BY <1>1 DEF World, Chain
  <2>12. Exactly(PartOf(after, <<>>), v, <<>>, head'.root)
    BY <2>9, <2>10, <2>11 DEF HeadOK, IsState
  <2>13. row \in after
    BY <2>12 DEF Exactly, PartOf, TrieRows, row
  <2> QED BY <1>4, <1>6, <2>13 DEF Sees, Visible, o, row
<1> QED BY <1>5, <1>7, <1>8 DEF Visible

(* What waits has a version.                                               *)
LEMMA VersionsOfChanges ==
    ASSUME IInv
    PROVE  /\ Len(changes) \in Nat
           /\ \A j \in 1 .. Len(changes) : changes[j].version \in Version
           /\ head # NoState => head.version \in Version
<1>1. PICK c : World(c, storage, head, changes)
  BY DEF IInv
<1>2. Len(changes) \in Nat
  BY <1>1 DEF World
<1>3. \A j \in 1 .. Len(changes) : changes[j].version \in Version
  BY <1>1 DEF World, ChangesOK, IsState
<1>4. head # NoState => head.version \in Version
  BY <1>1 DEF World, HeadOK, IsState
<1> QED BY <1>2, <1>3, <1>4

(* With nothing that waits the session is of the version of the database.  *)
LEMMA NothingGrows ==
    ASSUME NEW h, NEW s, h # NoState /\ s # NoSession => h.version <= s.version
    PROVE  VersionsGrow(h, <<>>, s)
BY DEF VersionsGrow

(* What is handed out is of the version of the session.                    *)
LEMMA CloseGrows ==
    ASSUME IInv, RInv, Close
    PROVE  VersionsGrow(head', changes', ws')
<1>1. PICK c, v, t, D, m : InSession(c, v, t, D, m)
  BY WhenAlive DEF Close
<1>2. /\ ws = [version |-> v, accounts |-> t, map |-> m] /\ ws.version = v /\ v \in Version
      /\ ws # NoSession
  BY <1>1, PartsOfSession, AccountsAreTrie, SessionIsThere DEF InSession
<1> DEFINE n == Len(changes)
<1>3. PICK x : changes' = Append(changes, x) /\ x.version = v
  <2>1. \E i, d, w, r : changes' = Append(changes, [inserts |-> i, deletes |-> d,
                                                    version |-> w, root |-> r]) /\ w = v
    <3>1. PICK order : \E i, d, r : changes' = Append(changes,
              [inserts |-> i, deletes |-> d, version |-> ws.version, root |-> r])
      BY DEF Close
    <3> QED BY <1>2, <3>1
  <2> QED BY <2>1
<1>4. head' = head /\ \E y : ws' = [ws EXCEPT !.accounts = y]
  BY DEF Close
<1>5. ws'.version = v
  BY <1>2, <1>4
<1>6. /\ n \in Nat /\ Len(changes') = n + 1 /\ changes'[n + 1] = x
      /\ \A j \in 1 .. n : changes'[j] = changes[j]
  <2>1. PICK T : changes \in Seq(T)
    BY <1>1 DEF InSession, World
  <2>2. changes \in Seq(T \cup {x}) /\ x \in T \cup {x}
    BY <2>1
  <2> QED BY <1>3, <2>2
<1>7. VersionsGrow(head, changes, ws)
  BY DEF RInv
<1> HIDE DEF n
<1>8. \A j \in 1 .. n : /\ head # NoState => head.version <= changes[j].version
                       /\ changes[j].version <= v
                       /\ \A k \in j .. n : changes[j].version <= changes[k].version
  BY <1>2, <1>7 DEF VersionsGrow, n
<1>9. head # NoState => head.version <= v
  BY <1>2, <1>7 DEF VersionsGrow
<1>10. v <= v
  BY <1>2 DEF Version, V1, V2
<1>11. ASSUME NEW j \in 1 .. n + 1
       PROVE  /\ head # NoState => head.version <= changes'[j].version
              /\ changes'[j].version <= v
              /\ \A k \in j .. n + 1 : changes'[j].version <= changes'[k].version
  <2>1. CASE j \in 1 .. n
    <3>1. changes'[j] = changes[j]
      BY <1>6, <2>1
    <3>2. ASSUME NEW k \in j .. n + 1 PROVE changes[j].version <= changes'[k].version
      <4>1. CASE k = n + 1
        BY <1>3, <1>6, <1>8, <2>1, <4>1
      <4>2. CASE k # n + 1
        <5>1. k \in j .. n /\ k \in 1 .. n
          BY <1>6, <2>1, <4>2
        <5> QED BY <1>6, <1>8, <2>1, <5>1
      <4> QED BY <4>1, <4>2
    <3> QED BY <1>8, <2>1, <3>1, <3>2
  <2>2. CASE j = n + 1
    <3>1. changes'[j].version = v
      BY <1>3, <1>6, <2>2
    <3>2. \A k \in j .. n + 1 : k = j
      BY <1>6, <2>2
    <3> QED BY <1>9, <1>10, <3>1, <3>2
  <2> QED BY <1>6, <2>1, <2>2
<1> QED BY <1>4, <1>5, <1>6, <1>9, <1>11 DEF VersionsGrow

(* The first of what waits becomes the database.                           *)
LEMMA ApplyGrows ==
    ASSUME IInv, RInv, Apply
    PROVE  VersionsGrow(head', changes', ws')
<1> DEFINE n == Len(changes)
<1>1. PICK T : changes \in Seq(T)
  BY DEF IInv, World
<1>2. /\ changes # <<>> /\ changes' = Tail(changes) /\ ws' = ws
      /\ head'.version = Head(changes).version
  BY DEF Apply
<1>3. /\ n \in Nat /\ n >= 1 /\ Head(changes) = changes[1] /\ Len(changes') = n - 1
      /\ \A j \in 1 .. n - 1 : changes'[j] = changes[j + 1]
  BY <1>1, <1>2
<1> HIDE DEF n
<1>4. \A j \in 1 .. n : /\ ws # NoSession => changes[j].version <= ws.version
                       /\ \A k \in j .. n : changes[j].version <= changes[k].version
  BY DEF RInv, VersionsGrow, n
<1>5. 1 \in 1 .. n /\ \A j \in 1 .. n - 1 : j + 1 \in 1 .. n
  BY <1>3
<1>6. ws' # NoSession => head'.version <= ws'.version
  BY <1>2, <1>3, <1>4, <1>5
<1>7. ASSUME NEW j \in 1 .. n - 1
      PROVE  /\ head'.version <= changes'[j].version
             /\ ws' # NoSession => changes'[j].version <= ws'.version
             /\ \A k \in j .. n - 1 : changes'[j].version <= changes'[k].version
  <2>1. head'.version <= changes'[j].version
    <3>1. j + 1 \in 1 .. n
      BY <1>3
    <3> QED BY <1>2, <1>3, <1>4, <1>5, <3>1
  <2>2. ws' # NoSession => changes'[j].version <= ws'.version
    BY <1>2, <1>3, <1>4, <1>5
  <2>3. ASSUME NEW k \in j .. n - 1 PROVE changes'[j].version <= changes'[k].version
    <3>1. k \in 1 .. n - 1 /\ k + 1 \in j + 1 .. n /\ j + 1 \in 1 .. n
      BY <1>3
    <3> QED BY <1>3, <1>4, <3>1
  <2> QED BY <2>1, <2>2, <2>3
<1> QED BY <1>3, <1>6, <1>7 DEF VersionsGrow

(* An upgrade leads to the last version.                                   *)
LEMMA UpgradeGrows ==
    ASSUME IInv, RInv, Upgrade
    PROVE  VersionsGrow(head', changes', ws')
<1>1. head' = head /\ changes' = changes /\ ws'.version = V2
  BY DEF Upgrade
<1>2. /\ \A j \in 1 .. Len(changes) : changes[j].version <= V2
      /\ head # NoState => head.version <= V2
  BY VersionsOfChanges DEF Version, V1, V2
<1> QED BY <1>1, <1>2 DEF RInv, VersionsGrow

(* A step of the session that leaves its version alone, and its accounts.  *)
LEMMA SameVersionGrows ==
    ASSUME NEW h, NEW ch, NEW s, VersionsGrow(h, ch, s), s # NoSession,
           NEW u, u.version = s.version
    PROVE  VersionsGrow(h, ch, u)
BY DEF VersionsGrow

(* What leaves the accounts trie alone.                                    *)
LEMMA SameAccountsKeepRoot ==
    ASSUME NEW s, NEW db, RootKept(s, db), s # NoSession,
           NEW u, u.accounts = s.accounts, u.version = s.version
    PROVE  RootKept(u, db)
BY DEF RootKept

(* Every step of the world state keeps the invariant. *)
LEMMA StepKeeps ==
    ASSUME IInv, RInv, [Next]_vars
    PROVE  IInv'
<1>1. CASE UNCHANGED vars
  BY <1>1 DEF vars, IInv
<1>2. CASE \E v \in Version : Genesis(v)
  BY <1>2, GenesisKeeps
<1>3. CASE Open
  BY <1>3, OpenKeeps
<1>4. CASE \E a \in Address, f \in Field : \E x \in FieldValue[f] : SetAccountField(a, f, x)
  BY <1>4, SetAccountFieldKeeps
<1>5. CASE \E a \in Address : OpenStorage(a)
  BY <1>5, OpenStorageKeeps
<1>6. CASE \E a \in Address : CreateStorage(a)
  BY <1>6, CreateStorageKeeps
<1>7. CASE \E a \in Address, data \in PartialData : WriteStorage(a, data)
  BY <1>7, WriteStorageKeeps
<1>8. CASE \E a \in Address, k \in StorageKeys : RemoveStorageKey(a, k)
  BY <1>8, RemoveStorageKeyKeeps
<1>9. CASE \E a \in Address : RemoveStorageTrie(a)
  BY <1>9, RemoveStorageTrieKeeps
<1>10. CASE Close
  BY <1>10, CloseKeeps
<1>11. CASE Upgrade
  BY <1>11, UpgradeKeeps
<1>12. CASE Apply
  BY <1>12, ApplyKeeps
<1>13. CASE Drop
  BY <1>13, DropKeeps
<1>14. CASE Crash
  BY <1>14, CrashKeeps
<1> QED
  BY <1>1, <1>2, <1>3, <1>4, <1>5, <1>6, <1>7, <1>8, <1>9, <1>10, <1>11, <1>12, <1>13, <1>14
  DEF Next

(* So does the empty root of the accounts trie. *)
LEMMA StepKeepsRoot ==
    ASSUME IInv, IInv', RInv, [Next]_vars
    PROVE  RInv'
<1>1. CASE UNCHANGED vars
  BY <1>1 DEF vars, RInv
<1>2. ASSUME changes' = <<>>, head' # NoState /\ ws' # NoSession => head'.version <= ws'.version
      PROVE  RInv'
  <2>1. PICK c : World(c, storage', head', changes') /\ SessionOK(ws', c, Len(changes'))
    BY DEF IInv
  <2>2. RootKept(ws', storage')
    BY <1>2, <2>1, RootOfExact
  <2>3. VersionsGrow(head', <<>>, ws')
    BY <1>2, NothingGrows
  <2> QED BY <1>2, <2>2, <2>3 DEF RInv
<1>3. ASSUME Alive, UNCHANGED <<head, changes>>, ws'.version = ws.version, RootKept(ws', storage')
      PROVE  RInv'
  <2>1. VersionsGrow(head, changes, ws')
    BY <1>3, SameVersionGrows DEF RInv, Alive
  <2> QED BY <1>3, <2>1 DEF RInv
<1>4. ASSUME Alive, UNCHANGED <<storage, head, changes>>,
             \E k : ws' = [ws EXCEPT !.map = k] \/ \E a : ws' = [ws EXCEPT !.map[a] = k]
      PROVE  RInv'
  <2>1. PICK c, v, t, D, m : ws = [version |-> v, accounts |-> t, map |-> m]
    BY <1>4, WhenAlive DEF InSession
  <2>2. ws'.version = ws.version /\ ws'.accounts = ws.accounts
    BY <1>4, <2>1
  <2>3. RootKept(ws', storage)
    BY <1>4, <2>2, SameAccountsKeepRoot DEF RInv, Alive
  <2> QED BY <1>3, <1>4, <2>2, <2>3
<1>5. ASSUME NEW a, NEW keys, NEW trie, Alive, ChangeStorage(a, keys, trie) PROVE RInv'
  BY <1>4, <1>5 DEF ChangeStorage
<1>6. CASE \E v \in Version : Genesis(v)
  BY <1>2, <1>6 DEF Genesis
<1>7. CASE Open
  <2>1. changes' = <<>> /\ head' = head /\ ws'.version = head.version
    BY <1>7 DEF Open
  <2>2. head # NoState => head.version <= head.version
    BY VersionsOfChanges DEF Version, V1, V2
  <2> QED BY <1>2, <2>1, <2>2
<1>8. ASSUME NEW a \in Address, NEW f \in Field, NEW x \in FieldValue[f], SetAccountField(a, f, x)
      PROVE  RInv'
  <2>1. PICK c, v, t, D, m : ws = [version |-> v, accounts |-> t, map |-> m]
    BY <1>8, WhenAlive DEF SetAccountField, InSession
  <2>2. ws'.version = ws.version
    BY <1>8, <2>1 DEF SetAccountField
  <2>3. RootKept(ws', storage')
    BY <1>8, SetAccountFieldKeepsRoot
  <2> QED BY <1>3, <1>8, <2>2, <2>3 DEF SetAccountField
<1>9. ASSUME NEW a \in Address, OpenStorage(a) PROVE RInv'
  <2>1. Alive /\ UNCHANGED <<storage, head, changes>> /\ \E k : ws' = [ws EXCEPT !.map = k]
    BY <1>9 DEF OpenStorage
  <2> QED BY <1>4, <2>1
<1>10. ASSUME NEW a \in Address, CreateStorage(a) PROVE RInv'
  <2>1. PICK c, v, t, D, m : ws = [version |-> v, accounts |-> t, map |-> m]
    BY <1>10, WhenAlive DEF CreateStorage, InSession
  <2>2. \E x, y : ws' = [ws EXCEPT !.accounts = x, !.map = y]
    BY <1>10 DEF CreateStorage
  <2>3. ws'.version = ws.version
    BY <2>1, <2>2, SessionChanged
  <2>4. RootKept(ws', storage')
    BY <1>10, CreateStorageKeepsRoot
  <2> QED BY <1>3, <1>10, <2>3, <2>4 DEF CreateStorage
<1>11. ASSUME NEW a \in Address, NEW data \in PartialData, WriteStorage(a, data) PROVE RInv'
  <2>1. Alive /\ \E keys, trie : ChangeStorage(a, keys, trie)
    BY <1>11 DEF WriteStorage
  <2> QED BY <1>5, <2>1
<1>12. ASSUME NEW a \in Address, NEW k, RemoveStorageKey(a, k) PROVE RInv'
  <2>1. Alive /\ \E keys, trie : ChangeStorage(a, keys, trie)
    BY <1>12 DEF RemoveStorageKey
  <2> QED BY <1>5, <2>1
<1>13. ASSUME NEW a \in Address, RemoveStorageTrie(a) PROVE RInv'
  <2>1. Alive /\ \E keys, trie : ChangeStorage(a, keys, trie)
    BY <1>13 DEF RemoveStorageTrie
  <2> QED BY <1>5, <2>1
<1>14. CASE Close
  BY <1>14, CloseGrows, CloseKeepsRoot DEF RInv
<1>15. CASE Upgrade
  BY <1>15, UpgradeGrows, UpgradeKeepsRoot DEF RInv
<1>16. CASE Apply
  BY <1>16, ApplyGrows, ApplyKeepsRoot DEF RInv
<1>17. CASE Drop
  <2>1. ws' = NoSession /\ UNCHANGED <<storage, head, changes>>
    BY <1>17 DEF Drop
  <2> QED BY <2>1 DEF RInv, VersionsGrow, RootKept
<1>18. CASE Crash
  BY <1>2, <1>18 DEF Crash
<1> QED
  BY <1>1, <1>6, <1>7, <1>8, <1>9, <1>10, <1>11, <1>12, <1>13, <1>14, <1>15, <1>16, <1>17, <1>18
  DEF Next

(* The invariant holds always: the database, each set of changes that      *)
(* waits and the session are exact images of a content.                    *)
THEOREM Invariance == Spec => []IInv
<1>1. Init => IInv /\ RInv
  <2>1. ASSUME Init PROVE RInv
    BY <2>1, NothingGrows DEF Init, RInv, RootKept
  <2> QED BY <2>1, InitEstablishes
<1>2. IInv /\ RInv /\ [Next]_vars => IInv' /\ RInv'
  BY StepKeeps, StepKeepsRoot
<1> QED BY <1>1, <1>2, PTL DEF Spec

-----------------------------------------------------------------------------
(* What follows from the invariant. *)

(* Every trie of the session is on its own prefix, its keys in the layout  *)
(* of the session's version.                                               *)
LEMMA InvariantTypes == IInv => TypeOK
<1> SUFFICES ASSUME IInv PROVE TypeOK
  OBVIOUS
<1>1. PICK c : World(c, storage, head, changes)
  BY DEF IInv
<1>2. head # NoState => head.version \in Version
  BY <1>1 DEF World, HeadOK, IsState
<1>3. \A j \in 1 .. Len(changes) : changes[j].version \in Version
  BY <1>1 DEF World, ChangesOK, IsState
<1>4. ASSUME Alive
      PROVE  /\ ws.version \in Version /\ DOMAIN ws.map \subseteq Address
             /\ ws.accounts.db.prefix = <<>>
             /\ DOMAIN ws.accounts.root \subseteq AccountKeys(ws.version)
             /\ \A a \in DOMAIN ws.map :
                    /\ ws.map[a].db.prefix = <<a>>
                    /\ ws.map[a].root \in StorageContents(ws.version)
  <2>1. PICK d, v, t, D, m : InSession(d, v, t, D, m)
    BY <1>4, WhenAlive
  <2>2. ws.version = v /\ ws.accounts = t /\ ws.map = m /\ t.root = D
    BY <2>1, PartsOfSession
  <2>3. /\ v \in Version /\ DOMAIN m \subseteq Address /\ t.db.prefix = <<>>
        /\ DOMAIN D \subseteq AccountKeys(v)
    BY <2>1 DEF InSession, Session, TrieOn, OverlayOK, AccountContent
  <2>4. ASSUME NEW a \in DOMAIN m
        PROVE  m[a].db.prefix = <<a>> /\ m[a].root \in StorageContents(v)
    <3>1. PICK C \in StorageContents(v) : TrieOn(m[a], d[Len(changes)], v, <<a>>, C)
      BY <2>1 DEF InSession, Session
    <3>2. m[a].root = C
      BY <3>1, TrieParts
    <3> QED BY <3>1, <3>2 DEF TrieOn, OverlayOK
  <2> QED BY <2>2, <2>3, <2>4
<1> QED BY <1>2, <1>3, <1>4 DEF TypeOK

(* A V1 session has put on record every storage of its map.                *)
LEMMA InvariantRecords == IInv => StoragesOnRecord
<1> SUFFICES ASSUME IInv, Alive, ws.version = V1
             PROVE  DOMAIN ws.map \subseteq DOMAIN StorageInfo(ws.accounts.root)
  BY DEF StoragesOnRecord
<1>1. PICK c, v, t, D, m : InSession(c, v, t, D, m)
  BY WhenAlive
<1>2. v = V1 /\ ws.map = m /\ ws.accounts.root = D
  BY <1>1, PartsOfSession
<1>3. /\ AccountContent(V1, D) /\ DOMAIN m \subseteq Address
      /\ \A a \in DOMAIN m : HashAt(V1, D, a) # None
  BY <1>1, <1>2 DEF InSession, Session
<1>4. DOMAIN StorageInfo(D) = {a \in Address : HashAt(V1, D, a) # None}
  BY <1>3, StoragesOfRecord
<1> QED BY <1>2, <1>3, <1>4

(* What `close' hands out does not insert and delete one row.              *)
LEMMA InvariantOneWay == IInv => ChangesOneWay
BY DEF IInv, World, ChangesOK, ChangeOK, ChangesOneWay

(* The database holds the rows of the last state, and no others. *)
LEMMA InvariantDatabase == IInv => DatabaseExact
<1> SUFFICES ASSUME IInv PROVE DatabaseExact
  OBVIOUS
<1>1. PICK c : World(c, storage, head, changes)
  BY DEF IInv
<1>2. /\ storage = [r \in DOMAIN storage |-> Last(r)]
      /\ c[0] = DOMAIN storage /\ HeadOK(DOMAIN storage, head)
  BY <1>1 DEF World, Chain
<1>3. CASE head = NoState
  <2>1. DOMAIN storage = {}
    BY <1>2, <1>3 DEF HeadOK
  <2>2. storage = EmptyRows
    BY <1>2, <2>1 DEF EmptyRows
  <2> QED BY <1>3, <2>2 DEF DatabaseExact
<1>4. CASE head # NoState
  <2> DEFINE v == head.version
             D == head.root
             B == DOMAIN storage
             stored == {a \in Address : HashAt(v, D, a) # None}
             needed == TrieRows(v, <<>>, D)
                           \cup UNION {TrieRows(v, <<a>>, HashAt(v, D, a)) : a \in stored}
  <2>1. HeadRows = needed
    BY DEF HeadRows, GetField, MptGet, AccountsOpen, MptOpen, NewDB, HashAt
  <2>2. IsState(B, v, D)
    BY <1>2, <1>4 DEF HeadOK
  <2>3. \A r \in B : storage[r] = Last(r)
    <3>1. \A r \in B : [q \in B |-> Last(q)][r] = Last(r)
      OBVIOUS
    <3> QED BY <1>2, <3>1
  <2> HIDE DEF v, D, B
  <2>4. TrieRows(v, <<>>, D) \subseteq B
    BY <2>2 DEF IsState, Exactly, PartOf
  <2>5. ASSUME NEW a \in stored
        PROVE  TrieRows(v, <<a>>, HashAt(v, D, a)) \subseteq B
    BY <2>2, <2>5 DEF IsState, ExactOrNone, Exactly, PartOf
  <2>6. needed \subseteq B
    BY <2>4, <2>5
  <2>7. ASSUME NEW r \in B
        PROVE  r \in needed
    <3>1. CASE Owned(<<>>, r)
      <4>1. r \in TrieRows(v, <<>>, D)
        BY <2>2, <2>7, <3>1 DEF IsState, Exactly, PartOf
      <4> QED BY <4>1
    <3>2. CASE \E a \in Address : Owned(<<a>>, r)
      <4>1. PICK a \in Address : Owned(<<a>>, r)
        BY <3>2
      <4>2. r \in PartOf(B, <<a>>) /\ ExactOrNone(B, v, <<a>>, HashAt(v, D, a))
        BY <2>2, <2>7, <4>1 DEF IsState, PartOf
      <4>3. a \in stored
        BY <4>2 DEF ExactOrNone
      <4>4. r \in TrieRows(v, <<a>>, HashAt(v, D, a))
        BY <4>2, <4>3 DEF ExactOrNone, Exactly
      <4> QED BY <4>3, <4>4
    <3> QED BY <2>2, <2>7, <3>1, <3>2 DEF IsState, Parted
  <2>8. storage = [r \in B |-> Last(r)]
    BY <1>2 DEF B
  <2>9. B = needed
    BY <2>6, <2>7
  <2> QED BY <1>4, <2>1, <2>8, <2>9 DEF DatabaseExact
<1> QED BY <1>3, <1>4

(* No node is None. *)
LEMMA NoneIsNowhere ==
    ASSUME NEW v \in Version, NEW D, DOMAIN D \subseteq TrieKeys(v),
           \A k \in DOMAIN D : k \in Seq(Symbol), \A k \in DOMAIN D : D[k] \in Values(v),
           NEW p \in Positions(D)
    PROVE  Node(D, p) # None
<1>1. PICK X \in SUBSET RestsOfKeys(D) : Node(D, p) \in [X -> ValuesOf(D)]
  BY NodeShape
<1>2. RestsOfKeys(D) \subseteq NodeKeys(v)
  <2> SUFFICES ASSUME NEW k \in DOMAIN D, NEW s \in Suffixes(k) PROVE s \in NodeKeys(v)
    BY DEF RestsOfKeys
  <2>1. k \in TrieKeys(v)
    OBVIOUS
  <2> QED BY <2>1 DEF NodeKeys
<1>3. ValuesOf(D) \subseteq Values(v)
  BY DEF ValuesOf
<1> DEFINE V == Values(v)
           n == Node(D, p)
<1> HIDE DEF V, n
<1>4. n \in [X -> V]
  <2>1. n \in [X -> ValuesOf(D)] /\ ValuesOf(D) \subseteq V
    BY <1>1, <1>3 DEF n, V
  <2> QED BY <2>1
<1>5. X \in SUBSET NodeKeys(v)
  BY <1>1, <1>2
<1>6. None \notin [X -> V]
  BY <1>5, NoneIsNoNode DEF V
<1> QED BY <1>4, <1>6 DEF n

(* The values and the keys of accounts and of storages. *)
LEMMA ContentsOfTries ==
    ASSUME NEW v \in Version, NEW D,
           AccountContent(v, D) \/ D \in StorageContents(v)
    PROVE  /\ DOMAIN D \subseteq TrieKeys(v)
           /\ \A k \in DOMAIN D : D[k] \in Values(v)
<1>1. CASE AccountContent(v, D)
  <2>1. DOMAIN D \subseteq AccountKeys(v)
    BY <1>1 DEF AccountContent
  <2>2. ASSUME NEW k \in DOMAIN D PROVE D[k] \in Values(v)
    <3>1. PICK a \in Address, f \in Fields : k = AccountKey(v, a, f)
      BY <2>1 DEF AccountKeys, Fields
    <3>2. D[k] \in FieldContents(v, f)
      BY <1>1, <3>1 DEF AccountContent
    <3>3. CASE f = StorageHash
      BY <3>2, <3>3 DEF FieldContents, Values
    <3>4. CASE f # StorageHash
      <4>1. f \in Field /\ D[k] \in FieldValue[f]
        BY <3>1, <3>2, <3>4 DEF FieldContents, Fields
      <4> QED BY <4>1 DEF Values
    <3> QED BY <3>3, <3>4
  <2> QED BY <2>1, <2>2 DEF TrieKeys
<1>2. CASE D \in StorageContents(v)
  <2>1. /\ DOMAIN D \subseteq {StorageKey(v, k) : k \in StorageKeys}
        /\ \A k \in DOMAIN D : D[k] \in StorageValue \ {Empty}
    BY <1>2, StorageContentsShape
  <2> QED BY <2>1 DEF TrieKeys, Values
<1> QED BY <1>1, <1>2

(* A trie that sees each of its rows holds each of its nodes.              *)
LEMMA FoundIsReadable ==
    ASSUME NEW v \in Version, NEW P \in Seq(Symbol), NEW db,
           \A r \in DOMAIN db : db[r] = Last(r),
           NEW t, NEW D, IsTrie(t, v, P, D), Finds(t, DOMAIN db, v, P, D),
           Fits(Symbol, v, P, D), AccountContent(v, D) \/ D \in StorageContents(v)
    PROVE  CanIterate(t, db)
<1> DEFINE o == t.db
<1>1. t.root = D /\ OverlayOK(o, v, P) /\ TrieRows(v, P, D) \subseteq Visible(DOMAIN db, o)
  BY DEF IsTrie, Finds, Sees
<1> HIDE DEF o
<1>2. ASSUME NEW x \in NodeRows(D)
      PROVE  Get(o, db, x) # None
  <2>1. PICK p \in Positions(D) : x = Append(p, Node(D, p))
    BY DEF NodeRows, NodeRow
  <2>2. \A k \in DOMAIN D : k \in Seq(Symbol)
    BY DEF Fits
  <2>3. IsNodeRow(Symbol, x)
    BY <2>2, NodesAreRows
  <2>4. Last(Row(v, P, x)) = Last(x)
    BY <2>3, SymbolFacts, LastOfRow
  <2>5. p \in Seq(Symbol)
    BY <2>2, PositionIsPartOfKey, EmptySeq
  <2>6. Last(x) = Node(D, p)
    BY <2>1, <2>5, LastOfAppend
  <2>7. Node(D, p) # None
    BY <2>2, NoneIsNowhere, ContentsOfTries
  <2>8. Row(v, P, x) \in Visible(DOMAIN db, o)
    BY <1>1 DEF TrieRows
  <2> QED BY <1>1, <2>4, <2>6, <2>7, <2>8, VisibleIsHeld
<1> QED BY <1>1, <1>2 DEF CanIterate, Holds, o

(* A trie that is exact on a database finds each of its nodes.             *)
LEMMA ExactIsReadable ==
    ASSUME NEW v \in Version, NEW P \in Seq(Symbol), NEW db,
           \A r \in DOMAIN db : db[r] = Last(r),
           NEW t, NEW D, TrieOn(t, DOMAIN db, v, P, D),
           Fits(Symbol, v, P, D), AccountContent(v, D) \/ D \in StorageContents(v)
    PROVE  CanIterate(t, db)
<1>1. IsTrie(t, v, P, D) /\ Finds(t, DOMAIN db, v, P, D)
  BY DEF TrieOn, IsTrie, Exactly, PartOf, Finds, Sees
<1> QED BY <1>1, FoundIsReadable

(* A session with nothing that waits finds every node.                     *)
LEMMA InvariantReadable == IInv => SessionReadable
<1> SUFFICES ASSUME IInv, Alive, changes = <<>>, NEW x \in Tries
             PROVE  CanIterate(x, storage)
  BY DEF SessionReadable
<1>1. PICK c, v, t, D, m : InSession(c, v, t, D, m)
  BY WhenAlive
<1> DEFINE B == DOMAIN storage
<1>2. Session(v, t, D, m, B)
  <2>1. Len(changes) = 0 /\ c[0] = DOMAIN storage
    BY <1>1 DEF InSession, World, Chain
  <2> QED BY <1>1, <2>1 DEF InSession
<1>3. \A r \in B : storage[r] = Last(r)
  <2>1. storage = [r \in B |-> Last(r)]
    BY <1>1 DEF InSession, World
  <2>2. \A r \in B : [q \in B |-> Last(q)][r] = Last(r)
    OBVIOUS
  <2> QED BY <2>1, <2>2
<1>4. ws.accounts = t /\ ws.map = m
  BY <1>1, PartsOfSession
<1>5. v \in Version
  BY <1>2 DEF Session
<1>6. CASE x = t
  <2>1. TrieOn(t, B, v, <<>>, D) /\ AccountContent(v, D)
    BY <1>2 DEF Session
  <2> QED BY <1>3, <1>5, <1>6, <2>1, AccountsFit, SymbolFacts, ExactIsReadable
<1>7. CASE \E a \in DOMAIN m : x = m[a]
  <2>1. PICK a \in DOMAIN m : x = m[a]
    BY <1>7
  <2>2. a \in Address /\ \E C \in StorageContents(v) : TrieOn(x, B, v, <<a>>, C)
    BY <1>2, <2>1 DEF Session
  <2>3. PICK C \in StorageContents(v) : TrieOn(x, B, v, <<a>>, C)
    BY <2>2
  <2> QED BY <1>3, <1>5, <2>2, <2>3, StoragesFit, SymbolFacts, ExactIsReadable
<1> QED BY <1>4, <1>6, <1>7 DEF Tries

(* `all' and the getters take the same fields for set. *)
Got(v, D, a, f) == Lookup(D, AccountKey(v, a, f))

(* What `all' lists, in terms of the getters.                              *)
LEMMA ListingIsLookup ==
    ASSUME NEW v \in Version, NEW D, AccountContent(v, D)
    PROVE  /\ \A a : a \in DOMAIN AllAccounts(v, D) <=>
                      a \in Address /\ \E f \in AccountField : Got(v, D, a, f) # None
           /\ \A a \in DOMAIN AllAccounts(v, D), f \in AccountField :
                  AllAccounts(v, D)[a][f] = IF Got(v, D, a, f) = None THEN DefaultAccount[f]
                                            ELSE Got(v, D, a, f)
<1> DEFINE rows(a, f) == {k \in DOMAIN D : AccountAddress(k) = a /\ FieldOf(v, k) = f}
           all == AllAccounts(v, D)
           got(a, f) == Got(v, D, a, f)
<1>1. /\ DOMAIN all = {AccountAddress(k) : k \in DOMAIN D}
      /\ \A a \in DOMAIN all, f \in AccountField :
             all[a][f] = IF rows(a, f) = {} THEN DefaultAccount[f]
                         ELSE D[CHOOSE k \in rows(a, f) : TRUE]
  BY DEF AllAccounts
<1>2. ASSUME NEW k \in DOMAIN D
      PROVE  \E a \in Address, f \in Fields :
                 k = AccountKey(v, a, f) /\ AccountAddress(k) = a /\ FieldOf(v, k) = f
  BY AccountKeyParts DEF AccountContent, AccountKeys, Fields
<1>3. \A a, f : rows(a, f) = DOMAIN D \cap {AccountKey(v, a, f)}
  <2> SUFFICES ASSUME NEW a, NEW f, NEW k
               PROVE  k \in rows(a, f) <=> k \in DOMAIN D /\ k = AccountKey(v, a, f)
    OBVIOUS
  <2> QED BY <1>2, AccountKeyParts
<1>4. ASSUME NEW a, NEW f, AccountKey(v, a, f) \in DOMAIN D
      PROVE  a \in Address /\ f \in AccountField /\ got(a, f) # None
             /\ got(a, f) = D[AccountKey(v, a, f)]
  <2>1. PICK b \in Address, g \in Fields : AccountKey(v, a, f) = AccountKey(v, b, g)
    BY <1>2, <1>4
  <2>2. a \in Address /\ f \in Fields
    BY <2>1, AccountKeyParts
  <2>3. D[AccountKey(v, a, f)] \in FieldContents(v, f)
    BY <1>4, <2>2 DEF AccountContent
  <2>4. f \in AccountField
    BY <2>2, FieldsAreCallers DEF Fields, AccountField
  <2> QED BY <1>4, <2>2, <2>3, <2>4, NoneIsNoContent DEF Got, Lookup
<1>5. ASSUME NEW a, NEW f, AccountKey(v, a, f) \notin DOMAIN D
      PROVE  got(a, f) = None
  BY <1>5 DEF Got, Lookup
<1> HIDE DEF all, got
<1>6. DOMAIN all = {a \in Address : \E f \in AccountField : got(a, f) # None}
  <2>1. ASSUME NEW a \in DOMAIN all
        PROVE  a \in Address /\ \E f \in AccountField : got(a, f) # None
    <3>1. PICK k \in DOMAIN D : a = AccountAddress(k)
      BY <1>1
    <3>2. PICK f : k = AccountKey(v, a, f)
      BY <1>2, <3>1
    <3> QED BY <1>4, <3>1, <3>2
  <2>2. ASSUME NEW a \in Address, NEW f \in AccountField, got(a, f) # None
        PROVE  a \in DOMAIN all
    <3>1. AccountKey(v, a, f) \in DOMAIN D
      BY <1>5, <2>2
    <3>2. AccountAddress(AccountKey(v, a, f)) = a
      BY AccountKeyParts
    <3> QED BY <1>1, <3>1, <3>2
  <2> QED BY <2>1, <2>2
<1>7. ASSUME NEW a \in DOMAIN all, NEW f \in AccountField
      PROVE  all[a][f] = IF got(a, f) = None THEN DefaultAccount[f] ELSE got(a, f)
  <2>1. CASE AccountKey(v, a, f) \in DOMAIN D
    <3>1. rows(a, f) = {AccountKey(v, a, f)}
      BY <1>3, <2>1
    <3>2. (CHOOSE k \in rows(a, f) : TRUE) = AccountKey(v, a, f)
      BY <3>1
    <3>3. all[a][f] = D[AccountKey(v, a, f)]
      BY <1>1, <3>1, <3>2
    <3> QED BY <1>4, <2>1, <3>3
  <2>2. CASE AccountKey(v, a, f) \notin DOMAIN D
    <3>1. rows(a, f) = {}
      BY <1>3, <2>2
    <3> QED BY <1>1, <1>5, <2>2, <3>1
  <2> QED BY <2>1, <2>2
<1> QED BY <1>6, <1>7 DEF all, got

(* `all' answers what the getters answer.                                  *)
LEMMA InvariantAll == IInv => AllMatchesGetters
<1> SUFFICES ASSUME IInv, Alive
             PROVE  LET all == AllAccounts(ws.version, ws.accounts.root)
                        got(a, f) == GetField(ws.accounts, a, f)
                    IN  /\ DOMAIN all = {a \in Address : \E f \in AccountField : got(a, f) # None}
                        /\ \A a \in DOMAIN all, f \in AccountField :
                               all[a][f] = IF got(a, f) = None THEN DefaultAccount[f] ELSE got(a, f)
  BY DEF AllMatchesGetters
<1>1. PICK c, v, t, D, m : InSession(c, v, t, D, m)
  BY WhenAlive
<1>2. ws.version = v /\ ws.accounts = t /\ t.root = D /\ t.db.version = v
  BY <1>1, PartsOfSession
<1>3. v \in Version /\ AccountContent(v, D)
  BY <1>1 DEF InSession, Session
<1>4. \A a, f : GetField(ws.accounts, a, f) = Got(v, D, a, f)
  BY <1>2 DEF GetField, MptGet, Got
<1>5. AllAccounts(ws.version, ws.accounts.root) = AllAccounts(v, D)
  BY <1>2
<1> QED BY <1>3, <1>4, <1>5, ListingIsLookup

-----------------------------------------------------------------------------
(* The invariants of WorldState. *)

(* Every trie of a session writes under its own prefix, and its keys are   *)
(* in the layout of the session's version: `open', `new', `upgrade' and    *)
(* the storages that world_state.rs opens on demand all agree on both.     *)
THEOREM TypeCorrect == Spec => []TypeOK
BY Invariance, InvariantTypes, PTL

(* The database holds the nodes of the last state hash and of the storages *)
(* on record, a row of the empty root for each of them, and nothing else:  *)
(* mpt.rs deletes what is no longer a node, `close' merges every buffer,   *)
(* and `upgrade' leaves no row of V1, in whatever order the caller applies *)
(* the rows.                                                               *)
THEOREM DatabaseIsExact == Spec => []DatabaseExact
BY Invariance, InvariantDatabase, PTL

(* A session finds every node of each of its tries as long as nothing it   *)
(* handed out still waits: no operation of mpt.rs returns an MptError.     *)
THEOREM SessionIsReadable == Spec => []SessionReadable
BY Invariance, InvariantReadable, PTL

(* `all' of accounts_trie.rs and the getters agree, in either version.     *)
THEOREM AllIsWhatGettersSay == Spec => []AllMatchesGetters
BY Invariance, InvariantAll, PTL

(* No row is inserted and deleted in the merge that `close' returns.       *)
THEOREM MergeIsOneWay == Spec => []ChangesOneWay
BY Invariance, InvariantOneWay, PTL

(* Before an upgrade every storage of the map has a hash on record.        *)
THEOREM RecordsAreComplete == Spec => []StoragesOnRecord
BY Invariance, InvariantRecords, PTL

-----------------------------------------------------------------------------
(* A session of which one change set waits reads a database that is one    *)
(* step behind.  Its storages read what their overlays hold; the accounts  *)
(* trie gave its overlay away, and finds its root only with all its nodes. *)

RootOrAll(t, A, v, D) ==
    Finds(t, A, v, <<>>, D) \/ Row(v, <<>>, NodeRow(D, <<>>)) \notin Sees(t, A)

(* A root that is held is seen, and then all nodes are.                    *)
LEMMA HeldRootTells ==
    ASSUME NEW v, NEW t, NEW D, IsTrie(t, v, <<>>, D), NEW db,
           RootOrAll(t, DOMAIN db, v, D), Holds(t, db, {NodeRow(D, <<>>)})
    PROVE  Finds(t, DOMAIN db, v, <<>>, D)
<1> DEFINE P == <<>>
           e == NodeRow(D, <<>>)
           X == {e}
<1> HIDE DEF P, e
<1>1. Image(v, P, X) \subseteq Sees(t, DOMAIN db)
  <2>1. IsTrie(t, v, P, D) /\ Holds(t, db, X)
    BY DEF P, e
  <2> QED BY <2>1, HeldAreFound
<1>2. Row(v, P, e) \in Sees(t, DOMAIN db)
  BY <1>1 DEF Image
<1> QED BY <1>2 DEF RootOrAll, P, e

(* A setter keeps the nodes of the accounts trie found.                    *)
LEMMA SetFieldKeepsNodes ==
    ASSUME NEW v \in Version, NEW t, NEW D, IsTrie(t, v, <<>>, D), AccountContent(v, D),
           NEW a \in Address, NEW f \in Fields, NEW x, x = Empty \/ x \in FieldContents(v, f),
           NEW A, Finds(t, A, v, <<>>, D)
    PROVE  \E E : Finds(SetField(t, a, f, x), A, v, <<>>, E) /\ SetField(t, a, f, x).root = E
<1> DEFINE data == Single(AccountKey(v, a, f), x)
           new == WithAll(D, data)
           P == <<>>
           after == MptBatchSet(t, data)
<1>1. SetField(t, a, f, x) = after
  BY DEF SetField, MptSet, IsTrie, OverlayOK, Single
<1>2. AccountContent(v, new)
  BY ContentAfterSet
<1>3. Fits(Symbol, v, P, D) /\ Fits(Symbol, v, P, new)
  <2> HIDE DEF new
  <2> QED BY <1>2, AccountsFit
<1>4. /\ 0 \in Symbol /\ 1 \in Symbol /\ P \in Seq(Symbol)
      /\ IsTrie(t, v, P, D) /\ Finds(t, A, v, P, D)
  BY SymbolFacts
<1>5. after.root = new
  BY DEF MptBatchSet, Commit, IsTrie
<1> HIDE DEF data, P
<1>6. Finds(after, A, v, P, new)
  BY ONLY <1>3, <1>4, BatchSetKeepsNodes
<1> HIDE DEF after, new
<1> QED BY <1>1, <1>5, <1>6 DEF P

(* What a session may wait for, and what its accounts trie tells.          *)
Tells(s, db) ==
    s # NoSession => RootOrAll(s.accounts, DOMAIN db, s.version, s.accounts.root)

WInv == Len(changes) <= 1 /\ Tells(ws, storage)

(* Where the root is, of a session put together.                           *)
LEMMA TellsOf ==
    ASSUME NEW v, NEW t, NEW D, t.root = D, NEW m, NEW db,
           RootOrAll(t, DOMAIN db, v, D)
    PROVE  Tells([version |-> v, accounts |-> t, map |-> m], db)
<1> DEFINE s == [version |-> v, accounts |-> t, map |-> m]
<1>1. s.accounts = t /\ s.version = v
  OBVIOUS
<1> HIDE DEF s
<1>2. RootOrAll(s.accounts, DOMAIN db, s.version, s.accounts.root)
  BY <1>1
<1> QED BY <1>2 DEF Tells, s

(* And taken apart.                                                        *)
LEMMA ToldBy ==
    ASSUME NEW c, NEW v, NEW t, NEW D, NEW m, InSession(c, v, t, D, m), Tells(ws, storage)
    PROVE  RootOrAll(t, DOMAIN storage, v, D)
<1>1. ws.version = v /\ ws.accounts = t /\ t.root = D
  BY PartsOfSession
<1>2. ws # NoSession
  <2>1. v \in Version /\ ws = [version |-> v, accounts |-> t, map |-> m]
    BY DEF InSession, Session
  <2> QED BY <2>1, SessionIsThere
<1>3. RootOrAll(ws.accounts, DOMAIN storage, ws.version, ws.accounts.root)
  BY <1>2 DEF Tells
<1> QED BY <1>1, <1>3

(* With nothing that waits the session is exact over the database.         *)
LEMMA NothingWaits ==
    ASSUME NEW c, NEW db, NEW h, NEW ch, World(c, db, h, ch), ch = <<>>,
           NEW s, SessionOK(s, c, Len(ch))
    PROVE  Tells(s, db)
<1> SUFFICES ASSUME s # NoSession PROVE Tells(s, db)
  BY DEF Tells
<1>1. Len(ch) = 0 /\ c[0] = DOMAIN db
  BY DEF World, Chain
<1>2. PICK v, t, D, m : /\ s = [version |-> v, accounts |-> t, map |-> m]
                        /\ Session(v, t, D, m, c[Len(ch)])
  BY DEF SessionOK
<1>3. TrieOn(t, DOMAIN db, v, <<>>, D)
  BY <1>1, <1>2 DEF Session
<1>4. t.root = D
  BY <1>3 DEF TrieOn
<1>5. Finds(t, DOMAIN db, v, <<>>, D)
  BY <1>3 DEF TrieOn, Exactly, PartOf, Finds, Sees
<1> QED BY <1>2, <1>4, <1>5, TellsOf DEF RootOrAll

(* A trie of accounts that gave its overlay away.                          *)
LEMMA ClosedTells ==
    ASSUME NEW c, NEW db, NEW h, NEW ch, World(c, db, h, ch), NEW v \in Version,
           NEW B, NEW t, NEW E, TrieOn(t, B, v, <<>>, E), AccountContent(v, E)
    PROVE  RootOrAll(MptClosed(t), DOMAIN db, v, E) /\ MptClosed(t).root = E
<1> DEFINE after == MptClosed(t)
           o == t.db
           A == DOMAIN db
<1>1. after = [t EXCEPT !.db = Closed(o)] /\ t = [root |-> E, db |-> o]
  BY DEF MptClosed, TrieOn
<1>2. /\ after.root = E /\ after.db = Closed(o)
  <2> HIDE DEF o, after
  <2> QED BY <1>1
<1>3. Closed(o).inserts = EmptyRows /\ Closed(o).deletes = {} /\ DOMAIN EmptyRows = {}
  <2>1. OverlayOK(o, v, <<>>)
    BY DEF TrieOn
  <2> HIDE DEF o
  <2> QED BY <2>1 DEF Closed, OverlayOK, EmptyRows
<1> HIDE DEF after, o
<1>4. Sees(after, A) = A
  BY <1>2, <1>3 DEF Sees, Visible
<1>5. ASSUME Row(v, <<>>, NodeRow(E, <<>>)) \in A
      PROVE  TrieRows(v, <<>>, E) \subseteq A
  <2>1. c[0] = A /\ HeadOK(c[0], h)
    BY DEF World, Chain
  <2>2. h # NoState /\ IsState(A, h.version, h.root)
    BY <1>5, <2>1 DEF HeadOK
  <2> HIDE DEF A
  <2> QED BY <1>5, <2>2, RootRowTells
<1> HIDE DEF A
<1> QED BY <1>2, <1>4, <1>5 DEF RootOrAll, Finds, after, A

(* A setter, the creation of a storage and an upgrade find the root, and   *)
(* then all nodes, before and after.                                       *)
LEMMA SetAccountFieldTells ==
    ASSUME IInv, WInv, NEW a \in Address, NEW f \in Field, NEW x \in FieldValue[f],
           SetAccountField(a, f, x)
    PROVE  Tells(ws', storage')
<1>1. PICK c, v, t, D, m : InSession(c, v, t, D, m)
  BY WhenAlive DEF SetAccountField
<1>2. ws = [version |-> v, accounts |-> t, map |-> m] /\ ws.accounts = t
  BY <1>1, PartsOfSession DEF InSession
<1>3. /\ v \in Version /\ AccountContent(v, D) /\ IsTrie(t, v, <<>>, D) /\ t.root = D
  BY <1>1, AccountsAreTrie
<1> DEFINE after == SetField(t, a, f, x)
           db == storage
           A == DOMAIN db
<1>4. /\ CanSetField(t, db, a, f, x) /\ storage' = db
      /\ ws' = [version |-> v, accounts |-> after, map |-> m]
  <2>1. ws' = [ws EXCEPT !.accounts = SetField(ws.accounts, a, f, x)]
    BY DEF SetAccountField
  <2>2. ws' = [version |-> v, accounts |-> after, map |-> m]
    BY <1>2, <2>1
  <2> QED BY <1>2, <2>2 DEF SetAccountField
<1> HIDE DEF after, db
<1>5. RootOrAll(t, A, v, D)
  BY <1>1, ToldBy DEF WInv, db
<1>6. Holds(t, db, {NodeRow(D, <<>>)})
  BY <1>3, <1>4, WriteReadsRoot
<1>7. Finds(t, A, v, <<>>, D)
  BY <1>3, <1>5, <1>6, HeldRootTells
<1>8. f \in Fields /\ (x = Empty \/ x \in FieldContents(v, f))
  BY SymbolFacts DEF Fields, FieldContents
<1>9. \E E : Finds(after, A, v, <<>>, E) /\ after.root = E
  <2> HIDE DEF A
  <2> QED BY <1>3, <1>7, <1>8, SetFieldKeepsNodes DEF after
<1>10. PICK E : Finds(after, A, v, <<>>, E) /\ after.root = E
  BY <1>9
<1>11. RootOrAll(after, A, v, E)
  BY <1>10 DEF RootOrAll
<1>12. Tells([version |-> v, accounts |-> after, map |-> m], db)
  BY <1>10, <1>11, TellsOf
<1> QED BY <1>4, <1>12

(* The same of a storage that is created.                                  *)
LEMMA CreateStorageTells ==
    ASSUME IInv, WInv, NEW a \in Address, CreateStorage(a)
    PROVE  Tells(ws', storage')
<1>1. PICK c, v, t, D, m : InSession(c, v, t, D, m)
  BY WhenAlive DEF CreateStorage
<1>2. /\ ws = [version |-> v, accounts |-> t, map |-> m]
      /\ ws.version = v /\ ws.accounts = t /\ ws.map = m
  BY <1>1, PartsOfSession DEF InSession
<1>3. /\ v \in Version /\ AccountContent(v, D) /\ IsTrie(t, v, <<>>, D) /\ t.root = D
  BY <1>1, AccountsAreTrie
<1> DEFINE x == NoContent
           trie == StorageNew(v, a)
           after == SetField(t, a, StorageHash, x)
           n == With(m, a, trie)
           db == storage
           A == DOMAIN db
<1>4. /\ CanSetField(t, db, a, StorageHash, x) /\ storage' = db
      /\ ws' = [version |-> v, accounts |-> after, map |-> n]
  <2>1. trie.root = x
    BY DEF StorageNew, MptNew
  <2>2. /\ CanSetField(t, db, a, StorageHash, x) /\ storage' = db
        /\ ws' = [ws EXCEPT !.accounts = after, !.map = n]
    BY <1>2, <2>1 DEF CreateStorage
  <2> HIDE DEF after, n, db, x, trie
  <2> DEFINE u == [ws EXCEPT !.accounts = after]
  <2>3. u = [version |-> v, accounts |-> after, map |-> m]
    BY <1>2
  <2>4. ws' = [u EXCEPT !.map = n]
    BY <2>2
  <2> HIDE DEF u
  <2>5. [u EXCEPT !.map = n] = [version |-> v, accounts |-> after, map |-> n]
    BY <2>3
  <2> QED BY <2>2, <2>4, <2>5
<1>5. StorageHash \in Fields /\ x \in FieldContents(v, StorageHash)
  BY <1>3, NoneIsNoContent DEF Fields, FieldContents
<1> HIDE DEF after, db, x, n
<1>6. RootOrAll(t, A, v, D)
  BY <1>1, ToldBy DEF WInv, db
<1>7. Holds(t, db, {NodeRow(D, <<>>)})
  BY <1>3, <1>4, WriteReadsRoot
<1>8. Finds(t, A, v, <<>>, D)
  BY <1>3, <1>6, <1>7, HeldRootTells
<1>9. \E E : Finds(after, A, v, <<>>, E) /\ after.root = E
  <2> HIDE DEF A
  <2> QED BY <1>3, <1>5, <1>8, SetFieldKeepsNodes DEF after
<1>10. PICK E : Finds(after, A, v, <<>>, E) /\ after.root = E
  BY <1>9
<1>11. RootOrAll(after, A, v, E)
  BY <1>10 DEF RootOrAll
<1>12. Tells([version |-> v, accounts |-> after, map |-> n], db)
  BY <1>10, <1>11, TellsOf
<1> QED BY <1>4, <1>12

(* The same of an upgrade.                                                 *)
LEMMA UpgradeTells ==
    ASSUME IInv, Upgrade
    PROVE  Tells(ws', storage')
<1>1. PICK c, v, t, D, m : InSession(c, v, t, D, m)
  BY WhenAlive DEF Upgrade
<1>2. ws.version = v /\ ws.accounts = t
  BY <1>1, PartsOfSession
<1> DEFINE after == AccountsUpgrade(t, storage)
           db == storage
           A == DOMAIN db
<1>3. v = V1 /\ storage' = db /\ \E n : ws' = [version |-> V2, accounts |-> after, map |-> n]
  BY <1>2 DEF Upgrade
<1>4. AccountContent(V1, D) /\ IsTrie(t, V1, <<>>, D)
  BY <1>1, <1>3, AccountsAreTrie
<1>5. PICK n : ws' = [version |-> V2, accounts |-> after, map |-> n]
  BY <1>3
<1>6. \E E : Finds(after, A, V2, <<>>, E) /\ after.root = E
  <2> HIDE DEF A
  <2> QED BY <1>4, UpgradeFindsNodes
<1> HIDE DEF after, db
<1>7. PICK E : Finds(after, A, V2, <<>>, E) /\ after.root = E
  BY <1>6
<1> QED BY <1>3, <1>5, <1>7, TellsOf DEF RootOrAll

(* After `close' the accounts trie is in the database as it was, or its    *)
(* root is not there.                                                      *)
LEMMA CloseTells ==
    ASSUME IInv, Close
    PROVE  Tells(ws', storage')
<1>1. PICK c, v, t, D, m : InSession(c, v, t, D, m)
  BY WhenAlive DEF Close
<1>2. /\ ws = [version |-> v, accounts |-> t, map |-> m] /\ ws.map = m
  BY <1>1, PartsOfSession DEF InSession
<1>3. storage' = storage /\ \E order \in SetToSeqs(DOMAIN m) :
          ws' = [ws EXCEPT !.accounts = MptClosed(Recorded(order))]
  BY <1>2 DEF Close
<1>4. PICK order \in SetToSeqs(DOMAIN m) :
          ws' = [ws EXCEPT !.accounts = MptClosed(Recorded(order))]
  BY <1>3
<1> DEFINE accounts == Recorded(order)
           after == MptClosed(accounts)
           B == c[Len(changes)]
<1>5. /\ World(c, storage, head, changes) /\ Session(v, t, D, m, B) /\ v \in Version
  BY <1>1 DEF InSession, Session
<1> HIDE DEF B
<1>6. \E E : TrieOn(Recorded(order), B, v, <<>>, E) /\ AccountContent(v, E)
  BY <1>2, <1>5, RecordedKeeps
<1> HIDE DEF accounts
<1>7. PICK E : TrieOn(accounts, B, v, <<>>, E) /\ AccountContent(v, E)
  BY <1>6 DEF accounts
<1>8. RootOrAll(after, DOMAIN storage, v, E) /\ after.root = E
  BY <1>5, <1>7, ClosedTells
<1>9. ws' = [version |-> v, accounts |-> after, map |-> m]
  <2>1. ws' = [ws EXCEPT !.accounts = MptClosed(accounts)]
    BY <1>4 DEF accounts
  <2> QED BY <1>2, <2>1
<1>10. Tells([version |-> v, accounts |-> after, map |-> m], storage)
  BY <1>8, TellsOf
<1> QED BY <1>3, <1>9, <1>10

(* What waits, and what the accounts trie tells, step by step.  A step     *)
(* that leaves nothing that waits is settled by IInv alone.                *)
LEMMA WaitingIsShort ==
    ASSUME IInv, Len(changes) <= 1
    PROVE  /\ Len(changes) \in Nat
           /\ Len(changes) < 1 => changes = <<>>
           /\ changes # <<>> => Tail(changes) = <<>>
<1>1. PICK c, T : World(c, storage, head, changes) /\ changes \in Seq(T)
  BY DEF IInv, World
<1>2. Len(changes) \in Nat
  BY <1>1
<1>3. Len(changes) < 1 => changes = <<>>
  BY <1>1
<1>4. changes # <<>> => Tail(changes) = <<>>
  <2> SUFFICES ASSUME changes # <<>> PROVE Tail(changes) = <<>>
    OBVIOUS
  <2>1. Len(changes) = 1
    <3> DEFINE l == Len(changes)
    <3>1. l \in Nat /\ l <= 1 /\ ~(l < 1)
      BY <1>2, <1>3
    <3> HIDE DEF l
    <3> QED BY <3>1 DEF l
  <2>2. Tail(changes) \in Seq(T) /\ Len(Tail(changes)) = 0
    BY <1>1, <2>1
  <2> QED BY <2>2
<1> QED BY <1>2, <1>3, <1>4

(* Steps that leave the accounts trie and the database alone.              *)
LEMMA SameAccountsTell ==
    ASSUME NEW s, NEW db, Tells(s, db), s # NoSession,
           NEW u, u.accounts = s.accounts, u.version = s.version
    PROVE  Tells(u, db)
BY DEF Tells

(* A storage is opened. *)
LEMMA OpenStorageTells ==
    ASSUME IInv, WInv, NEW a, OpenStorage(a)
    PROVE  Tells(ws', storage')
<1>1. PICK c, v, t, D, m : ws = [version |-> v, accounts |-> t, map |-> m]
  BY WhenAlive DEF OpenStorage, InSession
<1>2. ws # NoSession /\ storage' = storage /\ \E n : ws' = [ws EXCEPT !.map = n]
  BY DEF OpenStorage, Alive
<1>3. ws'.accounts = ws.accounts /\ ws'.version = ws.version
  BY <1>1, <1>2
<1> QED BY <1>2, <1>3, SameAccountsTell DEF WInv

(* A storage of the map changes. *)
LEMMA ChangeStorageTells ==
    ASSUME IInv, WInv, Alive, NEW a, NEW keys, NEW trie, ChangeStorage(a, keys, trie)
    PROVE  Tells(ws', storage')
<1>1. PICK c, v, t, D, m : ws = [version |-> v, accounts |-> t, map |-> m]
  BY WhenAlive DEF InSession
<1>2. ws # NoSession /\ storage' = storage /\ ws' = [ws EXCEPT !.map[a] = trie]
  BY DEF ChangeStorage, Alive
<1>3. ws'.accounts = ws.accounts /\ ws'.version = ws.version
  BY <1>1, <1>2
<1> QED BY <1>2, <1>3, SameAccountsTell DEF WInv

(* Every step, where the caller lets one change set wait at most.          *)
LEMMA StepWaits ==
    ASSUME MaxWaiting = 1, IInv, IInv', WInv, Next
    PROVE  WInv'
<1>0. Len(changes) <= 1
  BY DEF WInv
<1>1. ASSUME changes' = <<>>
      PROVE  WInv'
  <2>1. PICK c : World(c, storage', head', changes') /\ SessionOK(ws', c, Len(changes'))
    BY DEF IInv
  <2>2. Tells(ws', storage')
    BY <1>1, <2>1, NothingWaits
  <2>3. Len(changes') <= 1
    BY <1>1
  <2> QED BY <2>2, <2>3 DEF WInv
<1>2. ASSUME UNCHANGED changes, Tells(ws', storage')
      PROVE  WInv'
  BY <1>0, <1>2 DEF WInv
<1>3. ASSUME NEW v \in Version, Genesis(v) PROVE WInv'
  BY <1>1, <1>3 DEF Genesis
<1>4. CASE Open
  BY <1>1, <1>4 DEF Open
<1>5. ASSUME NEW a \in Address, NEW f \in Field, NEW x \in FieldValue[f], SetAccountField(a, f, x)
      PROVE  WInv'
  <2>1. Tells(ws', storage')
    BY <1>5, SetAccountFieldTells
  <2> QED BY <1>2, <1>5, <2>1 DEF SetAccountField
<1>6. ASSUME NEW a \in Address, OpenStorage(a) PROVE WInv'
  <2>1. Tells(ws', storage')
    BY <1>6, OpenStorageTells
  <2> QED BY <1>2, <1>6, <2>1 DEF OpenStorage
<1>7. ASSUME NEW a \in Address, CreateStorage(a) PROVE WInv'
  <2>1. Tells(ws', storage')
    BY <1>7, CreateStorageTells
  <2> QED BY <1>2, <1>7, <2>1 DEF CreateStorage
<1>8. ASSUME Alive, NEW a, NEW keys, NEW trie, ChangeStorage(a, keys, trie) PROVE WInv'
  <2>1. Tells(ws', storage')
    BY <1>8, ChangeStorageTells
  <2> QED BY <1>2, <1>8, <2>1 DEF ChangeStorage
<1>9. ASSUME NEW a \in Address, NEW data \in PartialData, WriteStorage(a, data) PROVE WInv'
  <2>1. Alive /\ \E keys, trie : ChangeStorage(a, keys, trie)
    BY <1>9 DEF WriteStorage
  <2> QED BY <1>8, <2>1
<1>10. ASSUME NEW a \in Address, NEW k, RemoveStorageKey(a, k) PROVE WInv'
  <2>1. Alive /\ \E keys, trie : ChangeStorage(a, keys, trie)
    BY <1>10 DEF RemoveStorageKey
  <2> QED BY <1>8, <2>1
<1>11. ASSUME NEW a \in Address, RemoveStorageTrie(a) PROVE WInv'
  <2>1. Alive /\ \E keys, trie : ChangeStorage(a, keys, trie)
    BY <1>11 DEF RemoveStorageTrie
  <2> QED BY <1>8, <2>1
<1>12. CASE Close
  <2>1. Tells(ws', storage')
    BY <1>12, CloseTells
  <2>2. Len(changes) < 1 /\ \E x : changes' = Append(changes, x)
    BY <1>12 DEF Close
  <2>3. changes = <<>>
    BY <1>0, <2>2, WaitingIsShort
  <2>4. Len(changes') <= 1
    BY <2>2, <2>3
  <2> QED BY <2>1, <2>4 DEF WInv
<1>13. CASE Upgrade
  <2>1. Tells(ws', storage')
    BY <1>13, UpgradeTells
  <2> QED BY <1>2, <1>13, <2>1 DEF Upgrade
<1>14. CASE Apply
  <2>1. changes' = <<>>
    BY <1>0, <1>14, WaitingIsShort DEF Apply
  <2> QED BY <1>1, <2>1
<1>15. CASE Drop
  <2>1. Tells(ws', storage')
    BY <1>15 DEF Drop, Tells
  <2> QED BY <1>2, <1>15, <2>1 DEF Drop
<1>16. CASE Crash
  BY <1>1, <1>16 DEF Crash
<1> QED
  BY <1>3, <1>4, <1>5, <1>6, <1>7, <1>9, <1>10, <1>11, <1>12, <1>13, <1>14, <1>15, <1>16
  DEF Next

(* A trie of the session is found as a whole, or its root is not.          *)
LEMMA InvariantWhole == IInv /\ WInv => NeverHalfReadable
<1> SUFFICES ASSUME IInv, WInv, Alive, NEW x \in Tries
             PROVE  CanIterate(x, storage) \/ ~Holds(x, storage, {NodeRow(x.root, <<>>)})
  BY DEF NeverHalfReadable
<1>1. PICK c, v, t, D, m : InSession(c, v, t, D, m)
  BY WhenAlive
<1> DEFINE db == storage
           A == DOMAIN db
           B == c[Len(changes)]
<1>2. \A r \in A : db[r] = Last(r)
  <2>1. db = [r \in A |-> Last(r)]
    BY <1>1 DEF InSession, World
  <2>2. \A r \in A : [q \in A |-> Last(q)][r] = Last(r)
    OBVIOUS
  <2> QED BY <2>1, <2>2
<1>3. ws.accounts = t /\ ws.map = m
  BY <1>1, PartsOfSession
<1>4. /\ v \in Version /\ AccountContent(v, D) /\ IsTrie(t, v, <<>>, D) /\ t.root = D
      /\ Fits(Symbol, v, <<>>, D)
  BY <1>1, AccountsAreTrie
<1>5. CASE x = t
  <2>1. RootOrAll(t, A, v, D)
    BY <1>1, ToldBy DEF WInv
  <2>2. CASE Finds(t, A, v, <<>>, D)
    <3> DEFINE P == <<>>
    <3>1. P \in Seq(Symbol) /\ IsTrie(t, v, P, D) /\ Fits(Symbol, v, P, D) /\ Finds(t, A, v, P, D)
      BY <1>4, <2>2, SymbolFacts
    <3> HIDE DEF db, P
    <3>2. CanIterate(t, db)
      BY <1>2, <1>4, <3>1, FoundIsReadable
    <3> QED BY <1>5, <3>2 DEF db
  <2>3. CASE ~Holds(t, db, {NodeRow(D, <<>>)})
    BY <1>4, <1>5, <2>3
  <2>4. CASE Holds(t, db, {NodeRow(D, <<>>)})
    <3> HIDE DEF db
    <3>1. Finds(t, A, v, <<>>, D)
      BY <1>4, <2>1, <2>4, HeldRootTells
    <3> QED BY <2>2, <3>1
  <2> QED BY <2>3, <2>4
<1>6. CASE \E a \in DOMAIN m : x = m[a]
  <2>1. PICK a \in DOMAIN m : x = m[a]
    BY <1>6
  <2>2. a \in Address /\ \E C \in StorageContents(v) : TrieOn(x, B, v, <<a>>, C)
    BY <1>1, <2>1, StorageOfSession
  <2>3. PICK C \in StorageContents(v) : TrieOn(x, B, v, <<a>>, C)
    BY <2>2
  <2>4. PartOf(A, <<a>>) \ Touched(x.db) = PartOf(B, <<a>>) \ Touched(x.db)
    <3>1. World(c, storage, head, changes) /\ Settled(m, c, Len(changes))
      BY <1>1 DEF InSession
    <3>2. c[0] = A /\ 0 \in 0 .. Len(changes)
      BY <3>1, RowsAreParted DEF World, Chain
    <3>3. Agree(m, A, B)
      BY <3>1, <3>2 DEF Settled
    <3> HIDE DEF A, B
    <3> QED BY <2>1, <2>2, <3>3 DEF Agree, TouchedBy
  <2> HIDE DEF A, B
  <2>5. PartOf(Visible(A, x.db), <<a>>) = PartOf(Visible(B, x.db), <<a>>)
    BY <2>4 DEF PartOf, Visible, Touched
  <2>6. IsTrie(x, v, <<a>>, C) /\ Finds(x, A, v, <<a>>, C)
    BY <2>3, <2>5 DEF TrieOn, IsTrie, Exactly, PartOf, Finds, Sees
  <2>7. CanIterate(x, db)
    <3> HIDE DEF db
    <3>1. Fits(Symbol, v, <<a>>, C) /\ <<a>> \in Seq(Symbol)
      BY <1>4, <2>2, StoragesFit, SymbolFacts
    <3> QED BY <1>2, <1>4, <2>6, <3>1, FoundIsReadable DEF A
  <2> QED BY <2>7
<1> QED BY <1>3, <1>5, <1>6 DEF Tries

(* A caller that applies a change set before it asks for the next never    *)
(* meets a trie that can be read in part: what mpt.rs reads first is the   *)
(* root, so an operation that fails changes nothing, and `batch_set' and   *)
(* `batch_remove' are not left half done.                                  *)
THEOREM AllOrNothing == MaxWaiting = 1 => (Spec => []NeverHalfReadable)
<1> SUFFICES ASSUME MaxWaiting = 1 PROVE Spec => []NeverHalfReadable
  OBVIOUS
<1>1. Init => WInv
  BY DEF Init, WInv, Tells, NoSession
<1>2. IInv /\ IInv' /\ WInv /\ [Next]_vars => WInv'
  <2>1. ASSUME IInv, IInv', WInv, Next PROVE WInv'
    BY <2>1, StepWaits
  <2>2. ASSUME WInv, UNCHANGED vars PROVE WInv'
    BY <2>2 DEF vars, WInv
  <2> QED BY <2>1, <2>2
<1>3. Spec => []IInv
  BY Invariance
<1> QED BY <1>1, <1>2, <1>3, InvariantWhole, PTL DEF Spec
=============================================================================
