----------------------------- MODULE MptProofs -----------------------------
(***************************************************************************)
(* What the operations of a trie leave in its overlay, for any symbols,    *)
(* prefix and content.  A trie is exact on a database when the rows of its *)
(* own that one sees through the overlay are the nodes of its root and the *)
(* row of the empty root: every operation keeps it exact.                  *)
(***************************************************************************)
EXTENDS StorageTrie, SequenceTheorems, TLAPS

-----------------------------------------------------------------------------
(* Rows. *)

(* What `build_key' puts before a key. *)
Lead(version, prefix) ==
    IF version = V1 THEN prefix
    ELSE (IF prefix = <<>> THEN <<0>> ELSE <<1>>) \o prefix

(* The key of a node: its position, then the node. *)
IsNodeRow(S, x) == \E p \in Seq(S) : \E n : x = Append(p, n)

(* The last element of what was appended to. *)
LEMMA LastOfAppend ==
    ASSUME NEW S, NEW q \in Seq(S), NEW n
    PROVE  Last(Append(q, n)) = n /\ Len(Append(q, n)) = Len(q) + 1
BY DEF Last

(* A row is its prefix and tag, the position and the node, in this order.  *)
LEMMA RowOfNode ==
    ASSUME NEW S, 0 \in S, 1 \in S, NEW v, NEW P \in Seq(S), NEW p \in Seq(S), NEW n
    PROVE  /\ Lead(v, P) \in Seq(S)
           /\ Lead(v, P) \o p \in Seq(S)
           /\ Row(v, P, Append(p, n)) = Append(Lead(v, P) \o p, n)
<1> DEFINE T == S \cup {n}
           L == Lead(v, P)
<1>1. <<0>> \in Seq(S) /\ <<1>> \in Seq(S)
  OBVIOUS
<1>2. L \in Seq(S)
  BY <1>1, ConcatProperties DEF Lead
<1>3. Row(v, P, Append(p, n)) = L \o Append(p, n)
  BY DEF Row, Lead
<1> HIDE DEF L
<1>4. L \in Seq(T) /\ p \in Seq(T) /\ n \in T /\ <<n>> \in Seq(T)
  BY <1>2, SeqMonotonic
<1>5. L \o p \in Seq(S) /\ L \o p \in Seq(T)
  BY <1>2, <1>4, ConcatProperties
<1>6. L \o Append(p, n) = Append(L \o p, n)
  <2>1. Append(p, n) = p \o <<n>>
    BY <1>4, AppendIsConcat
  <2>2. L \o (p \o <<n>>) = (L \o p) \o <<n>>
    BY <1>4, ConcatAssociative
  <2>3. (L \o p) \o <<n>> = Append(L \o p, n)
    BY <1>4, <1>5, AppendIsConcat
  <2> QED BY <2>1, <2>2, <2>3
<1> QED BY <1>2, <1>3, <1>4, <1>5, <1>6 DEF L

(* Two nodes have two rows. *)
LEMMA RowsApart ==
    ASSUME NEW S, 0 \in S, 1 \in S, NEW v, NEW P \in Seq(S),
           NEW x, NEW y, IsNodeRow(S, x), IsNodeRow(S, y), Row(v, P, x) = Row(v, P, y)
    PROVE  x = y
<1>1. PICK p \in Seq(S) : \E n : x = Append(p, n)
  BY DEF IsNodeRow
<1>2. PICK n : x = Append(p, n)
  BY <1>1
<1>3. PICK q \in Seq(S) : \E m : y = Append(q, m)
  BY DEF IsNodeRow
<1>4. PICK m : y = Append(q, m)
  BY <1>3
<1> DEFINE T == S \cup {n, m}
           L == Lead(v, P)
<1>5. L \in Seq(S) /\ L \o p \in Seq(S) /\ L \o q \in Seq(S)
  BY RowOfNode
<1>6. Append(L \o p, n) = Append(L \o q, m)
  <2>1. Row(v, P, x) = Append(L \o p, n)
    BY <1>2, RowOfNode
  <2>2. Row(v, P, y) = Append(L \o q, m)
    BY <1>4, RowOfNode
  <2> QED BY <2>1, <2>2
<1> HIDE DEF L
<1>7. L \in Seq(T) /\ p \in Seq(T) /\ q \in Seq(T) /\ L \o p \in Seq(T) /\ L \o q \in Seq(T)
  BY <1>5, SeqMonotonic
<1>a. n \in T /\ m \in T
  OBVIOUS
<1> HIDE DEF T
<1>8. L \o p = L \o q /\ n = m
  <2> DEFINE a == L \o p
             b == L \o q
  <2> HIDE DEF a, b
  <2>1. a \in Seq(T) /\ b \in Seq(T) /\ Append(a, n) = Append(b, m)
    BY <1>6, <1>7 DEF a, b
  <2>2. a = b /\ n = m
    BY <1>a, <2>1, AppendInjective
  <2> QED BY <2>2 DEF a, b
<1>9. p = q
  BY <1>7, <1>8, ConcatSimplifications
<1> QED BY <1>2, <1>4, <1>8, <1>9

(* The last element of a row is that of the key, the node. *)
LEMMA LastOfRow ==
    ASSUME NEW S, 0 \in S, 1 \in S, NEW v, NEW P \in Seq(S), NEW x, IsNodeRow(S, x)
    PROVE  Last(Row(v, P, x)) = Last(x)
<1>1. PICK p \in Seq(S) : \E n : x = Append(p, n)
  BY DEF IsNodeRow
<1>2. PICK n : x = Append(p, n)
  BY <1>1
<1>3. Last(Append(p, n)) = n
  BY LastOfAppend
<1> DEFINE q == Lead(v, P) \o p
<1>4. Row(v, P, Append(p, n)) = Append(q, n) /\ q \in Seq(S)
  BY RowOfNode
<1> HIDE DEF q
<1>5. Last(Append(q, n)) = n
  BY <1>4, LastOfAppend
<1> QED BY <1>2, <1>3, <1>4, <1>5

-----------------------------------------------------------------------------
(* The overlay. *)

Image(v, P, X) == {Row(v, P, x) : x \in X}

(* The overlay of a trie: no row is both inserted and deleted, and a row   *)
(* that is inserted holds the node in its key.                             *)
OverlayOK(o, v, P) ==
    /\ o = [inserts |-> o.inserts, deletes |-> o.deletes, prefix |-> P, version |-> v]
    /\ DOMAIN o.inserts \cap o.deletes = {}
    /\ \A r \in DOMAIN o.inserts : o.inserts[r] = Last(r)

Touched(o) == DOMAIN o.inserts \cup o.deletes

(* The rows one sees through the overlay, over rows B of a database. *)
Visible(B, o) == (B \cup DOMAIN o.inserts) \ o.deletes

(* Changing the two buffers of an overlay, in either order, leaves the     *)
(* rest.                                                                   *)
LEMMA BuffersChanged ==
    ASSUME NEW i, NEW d, NEW p, NEW v, NEW x, NEW y, NEW o,
           o = [inserts |-> i, deletes |-> d, prefix |-> p, version |-> v]
    PROVE  /\ [o EXCEPT !.deletes = y, !.inserts = x]
                = [inserts |-> x, deletes |-> y, prefix |-> p, version |-> v]
           /\ [o EXCEPT !.inserts = x, !.deletes = y]
                = [inserts |-> x, deletes |-> y, prefix |-> p, version |-> v]
           /\ [o EXCEPT !.version = y]
                = [inserts |-> i, deletes |-> d, prefix |-> p, version |-> y]
<1> DEFINE o1 == [o EXCEPT !.deletes = y]
           o2 == [o EXCEPT !.inserts = x]
<1>1. /\ o1 = [inserts |-> i, deletes |-> y, prefix |-> p, version |-> v]
      /\ o2 = [inserts |-> x, deletes |-> d, prefix |-> p, version |-> v]
      /\ [o EXCEPT !.version = y]
                = [inserts |-> i, deletes |-> d, prefix |-> p, version |-> y]
  OBVIOUS
<1>2. /\ [o EXCEPT !.deletes = y, !.inserts = x] = [o1 EXCEPT !.inserts = x]
      /\ [o EXCEPT !.inserts = x, !.deletes = y] = [o2 EXCEPT !.deletes = y]
  OBVIOUS
<1> HIDE DEF o1, o2
<1>3. /\ [o1 EXCEPT !.inserts = x]
             = [inserts |-> x, deletes |-> y, prefix |-> p, version |-> v]
      /\ [o2 EXCEPT !.deletes = y]
             = [inserts |-> x, deletes |-> y, prefix |-> p, version |-> v]
  BY <1>1
<1> QED BY <1>1, <1>2, <1>3

(* A new overlay is empty. *)
LEMMA NewOverlay ==
    ASSUME NEW v, NEW P
    PROVE  /\ OverlayOK(NewDB(v, P), v, P)
           /\ DOMAIN NewDB(v, P).inserts = {}
           /\ NewDB(v, P).deletes = {}
BY DEF OverlayOK, NewDB, EmptyRows

(* `put' of nodes. *)
LEMMA PutAllEffect ==
    ASSUME NEW v, NEW P, NEW o, OverlayOK(o, v, P),
           NEW X, \A x \in X : Last(Row(v, P, x)) = Last(x)
    PROVE  LET after == PutAll(o, Entries(X))
           IN  /\ OverlayOK(after, v, P)
               /\ DOMAIN after.inserts = DOMAIN o.inserts \cup Image(v, P, X)
               /\ after.deletes = o.deletes \ Image(v, P, X)
<1> DEFINE I == Image(v, P, X)
           new == [r \in I |-> Entries(X)[CHOOSE k \in X : Row(v, P, k) = r]]
           after == PutAll(o, Entries(X))
           ins == Extend(o.inserts, new)
           del == o.deletes \ I
<1>1. o = [inserts |-> o.inserts, deletes |-> o.deletes, prefix |-> P, version |-> v]
  BY DEF OverlayOK
<1>2. o.prefix = P /\ o.version = v
  BY <1>1
<1>3. DOMAIN Entries(X) = X
  BY DEF Entries
<1>4. after = [o EXCEPT !.deletes = del, !.inserts = ins]
  BY <1>2, <1>3 DEF PutAll, BuildKey, Image
<1>5. after = [inserts |-> ins, deletes |-> del, prefix |-> P, version |-> v]
  <2> DEFINE i == o.inserts
             d == o.deletes
  <2>1. o = [inserts |-> i, deletes |-> d, prefix |-> P, version |-> v]
    BY <1>1
  <2> HIDE DEF ins, del, after, i, d
  <2> QED BY ONLY <2>1, <1>4, BuffersChanged
<1>6. \A r \in I : new[r] = Last(r)
  <2> SUFFICES ASSUME NEW r \in I PROVE new[r] = Last(r)
    OBVIOUS
  <2> DEFINE k == CHOOSE x \in X : Row(v, P, x) = r
  <2>1. k \in X /\ Row(v, P, k) = r
    BY DEF Image
  <2>2. new[r] = Last(k)
    BY <2>1 DEF Entries
  <2> HIDE DEF k, new, I
  <2> QED BY <2>1, <2>2
<1>7. DOMAIN ins = DOMAIN o.inserts \cup I /\ \A r \in DOMAIN ins : ins[r] = Last(r)
  <2>1. DOMAIN new = I
    OBVIOUS
  <2> HIDE DEF I, new
  <2> QED BY <1>6, <2>1 DEF OverlayOK, Extend
<1>8. OverlayOK(after, v, P) /\ DOMAIN after.inserts = DOMAIN o.inserts \cup I /\ after.deletes = del
  <2> HIDE DEF ins, after, I
  <2> QED BY <1>5, <1>7 DEF OverlayOK
<1> HIDE DEF after
<1> QED BY <1>8 DEF after

(* `delete' of nodes. *)
LEMMA DeleteAllEffect ==
    ASSUME NEW v, NEW P, NEW o, OverlayOK(o, v, P), NEW X
    PROVE  LET after == DeleteAll(o, X)
           IN  /\ OverlayOK(after, v, P)
               /\ DOMAIN after.inserts = DOMAIN o.inserts \ Image(v, P, X)
               /\ after.deletes = o.deletes \cup Image(v, P, X)
<1> DEFINE I == Image(v, P, X)
           after == DeleteAll(o, X)
           ins == Without(o.inserts, I)
           del == o.deletes \cup I
<1>1. o = [inserts |-> o.inserts, deletes |-> o.deletes, prefix |-> P, version |-> v]
  BY DEF OverlayOK
<1>2. o.prefix = P /\ o.version = v
  BY <1>1
<1>3. after = [o EXCEPT !.inserts = ins, !.deletes = del]
  BY <1>2 DEF DeleteAll, BuildKey, Image
<1>4. after = [inserts |-> ins, deletes |-> del, prefix |-> P, version |-> v]
  <2> DEFINE i == o.inserts
             d == o.deletes
  <2>1. o = [inserts |-> i, deletes |-> d, prefix |-> P, version |-> v]
    BY <1>1
  <2> HIDE DEF ins, del, after, i, d
  <2> QED BY ONLY <2>1, <1>3, BuffersChanged
<1>5. DOMAIN ins = DOMAIN o.inserts \ I /\ \A r \in DOMAIN ins : ins[r] = Last(r)
  <2> HIDE DEF I
  <2> QED BY DEF OverlayOK, Without
<1>6. OverlayOK(after, v, P) /\ DOMAIN after.inserts = DOMAIN o.inserts \ I /\ after.deletes = del
  <2> HIDE DEF ins, after, I
  <2> QED BY <1>4, <1>5 DEF OverlayOK
<1> HIDE DEF after
<1> QED BY <1>6 DEF after

(* The key of the empty root is that of a node. *)
LEMMA EmptyRootIsNode ==
    ASSUME NEW S
    PROVE  IsNodeRow(S, EmptyRootRow) /\ Last(EmptyRootRow) = NoContent
<1>1. EmptyRootRow = Append(<<>>, NoContent) /\ <<>> \in Seq(S)
  BY DEF EmptyRootRow
<1> QED BY <1>1 DEF IsNodeRow, EmptyRootRow, Last

(* `put' of the empty root. *)
LEMMA PutEmptyRootEffect ==
    ASSUME NEW S, 0 \in S, 1 \in S, NEW v, NEW P \in Seq(S), NEW o, OverlayOK(o, v, P)
    PROVE  LET after == Put(o, EmptyRootRow, NoContent)
               row == Row(v, P, EmptyRootRow)
           IN  /\ OverlayOK(after, v, P)
               /\ DOMAIN after.inserts = DOMAIN o.inserts \cup {row}
               /\ after.deletes = o.deletes \ {row}
<1> DEFINE row == Row(v, P, EmptyRootRow)
           after == Put(o, EmptyRootRow, NoContent)
           ins == Extend(o.inserts, [r \in {row} |-> NoContent])
           del == o.deletes \ {row}
<1>1. o = [inserts |-> o.inserts, deletes |-> o.deletes, prefix |-> P, version |-> v]
  BY DEF OverlayOK
<1>2. o.prefix = P /\ o.version = v
  BY <1>1
<1>3. after = [o EXCEPT !.deletes = del, !.inserts = ins]
  BY <1>2 DEF Put, BuildKey
<1>4. after = [inserts |-> ins, deletes |-> del, prefix |-> P, version |-> v]
  <2> DEFINE i == o.inserts
             d == o.deletes
  <2>1. o = [inserts |-> i, deletes |-> d, prefix |-> P, version |-> v]
    BY <1>1
  <2> HIDE DEF ins, del, after, i, d
  <2> QED BY ONLY <2>1, <1>3, BuffersChanged
<1>5. Last(row) = NoContent
  BY EmptyRootIsNode, LastOfRow
<1>6. DOMAIN ins = DOMAIN o.inserts \cup {row} /\ \A r \in DOMAIN ins : ins[r] = Last(r)
  <2> HIDE DEF row
  <2> QED BY <1>5 DEF OverlayOK, Extend
<1>7. OverlayOK(after, v, P) /\ DOMAIN after.inserts = DOMAIN o.inserts \cup {row} /\ after.deletes = del
  <2> HIDE DEF ins, after, row
  <2> QED BY <1>4, <1>6 DEF OverlayOK
<1> HIDE DEF after
<1> QED BY <1>7 DEF after

-----------------------------------------------------------------------------
(* Nodes. *)

(* A position is the root or a part of a key. *)
LEMMA PositionIsPartOfKey ==
    ASSUME NEW S, NEW D, \A k \in DOMAIN D : k \in Seq(S), NEW p \in Positions(D), p # <<>>
    PROVE  \E k \in Below(D, p) : \E l \in 1 .. Len(k) :
               /\ p = SubSeq(k, 1, l)
               /\ k \in Seq(S) /\ p \in Seq(S) /\ Len(p) = l
<1>1. PICK k \in DOMAIN D : p \in Prefixes(k)
  BY DEF Positions
<1>2. PICK l \in 0 .. Len(k) : p = SubSeq(k, 1, l)
  BY <1>1 DEF Prefixes
<1>3. k \in Seq(S) /\ Len(k) \in Nat
  BY LenProperties
<1>4. l # 0
  BY <1>2, SubSeqEmpty
<1>5. /\ p \in Seq(S) /\ Len(p) = l
      /\ \A i \in 1 .. l : p[i] = k[i]
  <2>1. \A i \in 1 .. l : k[i] \in S
    BY <1>2, <1>3, ElementOfSeq
  <2> QED BY <1>2, <1>3, <1>4, <2>1, SubSeqProperties
<1>6. SubSeq(p, 1, Len(p)) = p
  BY <1>5, SubSeqFull
<1>7. IsPrefix(p, k)
  BY <1>2, <1>3, <1>5, <1>6 DEF IsPrefix
<1>8. k \in Below(D, p)
  BY <1>7 DEF Below
<1>9. l \in 1 .. Len(k)
  BY <1>2, <1>3, <1>4
<1> QED BY <1>2, <1>3, <1>5, <1>8, <1>9

(* The keys of nodes are made of symbols and end in the node. *)
LEMMA NodesAreRows ==
    ASSUME NEW S, NEW D, \A k \in DOMAIN D : k \in Seq(S), NEW x \in NodeRows(D)
    PROVE  IsNodeRow(S, x)
<1>1. PICK p \in Positions(D) : x = Append(p, Node(D, p))
  BY DEF NodeRows, NodeRow
<1>2. CASE p = <<>>
  <2>1. p \in Seq(S)
    BY <1>2
  <2> QED BY <1>1, <2>1 DEF IsNodeRow
<1>3. CASE p # <<>>
  <2>1. p \in Seq(S)
    BY <1>3, PositionIsPartOfKey
  <2> QED BY <1>1, <2>1 DEF IsNodeRow
<1> QED BY <1>2, <1>3

(* A node is a function from rests of the keys to values of the content. *)
RestsOfKeys(D) == UNION {Suffixes(k) : k \in DOMAIN D}
ValuesOf(D) == {D[k] : k \in DOMAIN D}

(* A node is a function from rests of keys to values of the content.       *)
LEMMA NodeShape ==
    ASSUME NEW S, NEW D, \A k \in DOMAIN D : k \in Seq(S), NEW p \in Positions(D)
    PROVE  \E X \in SUBSET RestsOfKeys(D) : Node(D, p) \in [X -> ValuesOf(D)]
<1> DEFINE rest(k) == SubSeq(k, Len(p) + 1, Len(k))
           X == {rest(k) : k \in Below(D, p)}
<1>1. ASSUME NEW k \in Below(D, p)
      PROVE  /\ k \in DOMAIN D
             /\ p \o rest(k) = k
             /\ rest(k) \in Suffixes(k)
  <2>1. k \in DOMAIN D /\ IsPrefix(p, k) /\ k \in Seq(S) /\ Len(k) \in Nat
    BY <1>1, LenProperties DEF Below
  <2>2. p \in Seq(S) /\ Len(p) \in Nat
    <3>1. p = <<>> => p \in Seq(S)
      OBVIOUS
    <3> QED BY <3>1, PositionIsPartOfKey, LenProperties
  <2>3. Len(p) \in 0 .. Len(k) /\ SubSeq(k, 1, Len(p)) = p
    BY <2>1, <2>2, SubSeqFull DEF IsPrefix
  <2>4. p \o rest(k) = k
    <3>1. 1 \in 1 .. Len(k) + 1 /\ Len(p) \in 1 - 1 .. Len(k) /\ Len(k) \in Len(p) .. Len(k)
      BY <2>1, <2>3
    <3>2. SubSeq(k, 1, Len(p)) \o SubSeq(k, Len(p) + 1, Len(k)) = SubSeq(k, 1, Len(k))
      BY <2>1, <3>1, ConcatAdjacentSubSeq
    <3> QED BY <2>1, <2>3, <3>2, SubSeqFull
  <2>5. rest(k) \in Suffixes(k)
    <3>1. CASE Len(p) = Len(k)
      <4>1. rest(k) = <<>>
        BY <2>1, <3>1, SubSeqEmpty
      <4> QED BY <4>1 DEF Suffixes
    <3>2. CASE Len(p) # Len(k)
      <4>1. Len(p) + 1 \in 1 .. Len(k)
        BY <2>1, <2>3, <3>2
      <4> QED BY <4>1 DEF Suffixes
    <3> QED BY <3>1, <3>2
  <2> QED BY <2>1, <2>4, <2>5
<1>2. X \subseteq RestsOfKeys(D)
  <2> SUFFICES ASSUME NEW k \in Below(D, p)
               PROVE  rest(k) \in RestsOfKeys(D)
    OBVIOUS
  <2> HIDE DEF rest
  <2>1. k \in DOMAIN D /\ rest(k) \in Suffixes(k)
    BY <1>1
  <2> QED BY <2>1 DEF RestsOfKeys
<1>3. Node(D, p) = [s \in X |-> D[p \o s]]
  BY DEF Node
<1>4. \A s \in X : D[p \o s] \in ValuesOf(D)
  BY <1>1 DEF ValuesOf
<1> HIDE DEF X
<1>5. Node(D, p) \in [X -> ValuesOf(D)]
  BY <1>3, <1>4
<1> QED BY <1>2, <1>5

(* An empty trie is one node, the empty root. *)
LEMMA NodesOfNoContent == NodeRows(NoContent) = {EmptyRootRow}
<1>1. DOMAIN NoContent = {}
  BY DEF NoContent, EmptyRows
<1>2. Positions(NoContent) = {<<>>}
  BY <1>1 DEF Positions
<1>3. Node(NoContent, <<>>) = NoContent
  BY <1>1 DEF Node, Below, NoContent, EmptyRows
<1>4. Append(<<>>, NoContent) = <<NoContent>>
  OBVIOUS
<1> QED BY <1>2, <1>3, <1>4 DEF NodeRows, NodeRow, EmptyRootRow

(* A content without keys is the empty one. *)
LEMMA NoKeysNoContent ==
    ASSUME NEW D, D = [k \in DOMAIN D |-> D[k]], DOMAIN D = {}
    PROVE  D = NoContent
BY DEF NoContent, EmptyRows

-----------------------------------------------------------------------------
(* A trie on a database. *)

(* Whose row it is.  The accounts trie has the empty prefix, the storage   *)
(* of account a the prefix <<a>>.  Of two rows of one shape the node, or   *)
(* the visibility after the address, tells the tries apart.                *)
IsAccountRow(r) ==
    \/ Len(r) = 1
    \/ r[1] = 0
    \/ /\ r[1] # 1
       /\ \/ Len(r) = 2 /\ \E s \in DOMAIN r[2] : s[1] = Protected
          \/ Len(r) > 2 /\ r[2] = Protected

IsStorageRow(a, r) ==
    /\ Len(r) > 1
    /\ \/ r[1] = 1 /\ r[2] = a
       \/ /\ r[1] = a
          /\ Len(r) = 2 => \A s \in DOMAIN r[2] : s[1] = Public
          /\ Len(r) > 2 => r[2] = Public

Owned(P, r) == IF P = <<>> THEN IsAccountRow(r) ELSE IsStorageRow(P[1], r)
PartOf(B, P) == {r \in B : Owned(P, r)}

(* A content whose keys are made of symbols and whose nodes have rows of   *)
(* the trie's own.                                                         *)
Fits(S, v, P, D) ==
    /\ \A k \in DOMAIN D : k \in Seq(S)
    /\ \A x \in NodeRows(D) \cup {EmptyRootRow} : Owned(P, Row(v, P, x))

(* Rows are the nodes of a content and the empty root. *)
Exactly(B, v, P, D) == B = TrieRows(v, P, D)

(* A trie with content D, exact on the rows B of a database. *)
TrieOn(t, B, v, P, D) ==
    /\ t = [root |-> D, db |-> t.db]
    /\ OverlayOK(t.db, v, P)
    /\ \A r \in Touched(t.db) : Owned(P, r)
    /\ Exactly(PartOf(Visible(B, t.db), P), v, P, D)

(* The overlay of a trie only grows until it is closed. *)
Grows(t, after) == Touched(t.db) \subseteq Touched(after.db)

(* A trie with content D, and one whose rows are all found over rows A.    *)
IsTrie(t, v, P, D) == t = [root |-> D, db |-> t.db] /\ OverlayOK(t.db, v, P)
Sees(t, A) == Visible(A, t.db)
Writes(t) == Touched(t.db)
Finds(t, A, v, P, D) == TrieRows(v, P, D) \subseteq Sees(t, A)

(* The nodes a commit deletes and those it puts. *)
Dead(D, new) == TrieNodes(D) \ TrieNodes(new)
Fresh(D, new) == TrieNodes(new) \ TrieNodes(D)

(* Trie `after' is t with the rows of some nodes deleted, then others put. *)
Rewrites(after, t, v, P, dead, fresh, A) ==
    /\ Writes(after) = (Writes(t) \cup Image(v, P, dead)) \cup Image(v, P, fresh)
    /\ Sees(after, A) = (Sees(t, A) \ Image(v, P, dead)) \cup Image(v, P, fresh)

(* What `TrieDBMut::commit' does to the rows, over any database. *)
LEMMA CommitEffect ==
    ASSUME NEW S, 0 \in S, 1 \in S, NEW v, NEW P \in Seq(S),
           NEW t, NEW D, IsTrie(t, v, P, D), Fits(S, v, P, D),
           NEW new, Fits(S, v, P, new), NEW A
    PROVE  /\ IsTrie(Commit(t, new), v, P, new)
           /\ Rewrites(Commit(t, new), t, v, P, Dead(D, new), Fresh(D, new), A)
<1> DEFINE dead  == Dead(D, new)
           fresh == Fresh(D, new)
           o == t.db
           o1 == DeleteAll(o, dead)
           o2 == PutAll(o1, Entries(fresh))
<1>1. Commit(t, new) = [root |-> new, db |-> o2]
  <2>1. t.root = D
    BY DEF IsTrie
  <2> QED BY <2>1 DEF Commit, Dead, Fresh
<1>2. \A x \in fresh : IsNodeRow(S, x)
  BY NodesAreRows DEF Fits, Fresh, TrieNodes
<1> HIDE DEF dead, fresh, o2, o1, o
<1>3. OverlayOK(o, v, P)
  BY DEF IsTrie, o
<1>4. /\ OverlayOK(o1, v, P)
      /\ DOMAIN o1.inserts = DOMAIN o.inserts \ Image(v, P, dead)
      /\ o1.deletes = o.deletes \cup Image(v, P, dead)
  BY <1>3, DeleteAllEffect DEF o1
<1>5. /\ OverlayOK(o2, v, P)
      /\ DOMAIN o2.inserts = DOMAIN o1.inserts \cup Image(v, P, fresh)
      /\ o2.deletes = o1.deletes \ Image(v, P, fresh)
  <2>1. \A x \in fresh : Last(Row(v, P, x)) = Last(x)
    BY <1>2, LastOfRow
  <2> QED BY <1>4, <2>1, PutAllEffect DEF o2
<1>6. Touched(o2) = (Touched(o) \cup Image(v, P, dead)) \cup Image(v, P, fresh)
  BY <1>4, <1>5 DEF Touched
<1>7. Visible(A, o2) = (Visible(A, o) \ Image(v, P, dead)) \cup Image(v, P, fresh)
  BY <1>4, <1>5 DEF Visible, OverlayOK
<1> DEFINE after == Commit(t, new)
<1> HIDE DEF after
<1>8. after = [root |-> new, db |-> after.db] /\ after.db = o2
  BY <1>1 DEF after
<1>9. IsTrie(after, v, P, new)
  BY <1>5, <1>8 DEF IsTrie
<1> QED BY <1>6, <1>7, <1>8, <1>9 DEF after, o, dead, fresh, Sees, Writes, Rewrites

(* A commit keeps the rows readable, over any database. *)
LEMMA CommitKeepsNodes ==
    ASSUME NEW S, 0 \in S, 1 \in S, NEW v, NEW P \in Seq(S),
           NEW t, NEW D, IsTrie(t, v, P, D), Fits(S, v, P, D),
           NEW new, Fits(S, v, P, new),
           NEW A, Finds(t, A, v, P, D)
    PROVE  Finds(Commit(t, new), A, v, P, new)
<1> DEFINE dead  == Dead(D, new)
           fresh == Fresh(D, new)
           after == Commit(t, new)
           R(x) == Row(v, P, x)
<1>1. Sees(after, A) = (Sees(t, A) \ Image(v, P, dead)) \cup Image(v, P, fresh)
  BY CommitEffect DEF Rewrites
<1>2. \A x \in NodeRows(new) \cup NodeRows(D) \cup {EmptyRootRow} : IsNodeRow(S, x)
  BY NodesAreRows, EmptyRootIsNode DEF Fits
<1> HIDE DEF after
<1> SUFFICES ASSUME NEW x \in NodeRows(new) \cup {EmptyRootRow}
             PROVE  R(x) \in Sees(after, A)
  BY DEF Finds, TrieRows, after
<1>3. CASE x \in fresh
  BY <1>1, <1>3 DEF Image
<1>4. CASE x \notin fresh
  <2>1. x \in NodeRows(D) \cup {EmptyRootRow}
    BY <1>4 DEF Fresh, TrieNodes
  <2>2. R(x) \in Sees(t, A)
    BY <2>1 DEF Finds, TrieRows
  <2>3. R(x) \notin Image(v, P, dead)
    <3> SUFFICES ASSUME NEW y \in dead, R(x) = R(y) PROVE FALSE
      BY DEF Image
    <3>1. y \in NodeRows(D)
      BY DEF Dead, TrieNodes
    <3>2. x = y
      BY <1>2, <3>1, RowsApart
    <3> QED BY <3>2 DEF Dead, TrieNodes
  <2> QED BY <1>1, <2>2, <2>3
<1> QED BY <1>3, <1>4

(* It keeps the row of the empty root, whatever nodes are missing.          *)
LEMMA CommitKeepsRoot ==
    ASSUME NEW S, 0 \in S, 1 \in S, NEW v, NEW P \in Seq(S),
           NEW t, NEW D, IsTrie(t, v, P, D), Fits(S, v, P, D),
           NEW new, Fits(S, v, P, new),
           NEW A, Row(v, P, EmptyRootRow) \in Sees(t, A)
    PROVE  Row(v, P, EmptyRootRow) \in Sees(Commit(t, new), A)
<1> DEFINE dead  == Dead(D, new)
           fresh == Fresh(D, new)
           after == Commit(t, new)
<1>1. Sees(after, A) = (Sees(t, A) \ Image(v, P, dead)) \cup Image(v, P, fresh)
  <2>1. Rewrites(Commit(t, new), t, v, P, Dead(D, new), Fresh(D, new), A)
    BY ONLY 0 \in S, 1 \in S, P \in Seq(S), IsTrie(t, v, P, D), Fits(S, v, P, D),
       Fits(S, v, P, new), CommitEffect
  <2> QED BY <2>1 DEF Rewrites
<1>2. \A x \in NodeRows(D) \cup {EmptyRootRow} : IsNodeRow(S, x)
  BY NodesAreRows, EmptyRootIsNode DEF Fits
<1> HIDE DEF after
<1> DEFINE row == Row(v, P, EmptyRootRow)
<1>3. row \notin Image(v, P, dead)
  <2> SUFFICES ASSUME NEW y \in dead, row = Row(v, P, y) PROVE FALSE
    BY DEF Image
  <2>1. y \in NodeRows(D) /\ y # EmptyRootRow
    BY DEF Dead, TrieNodes
  <2> QED BY <1>2, <2>1, RowsApart
<1> QED BY <1>1, <1>3 DEF after

(* `TrieDBMut::commit' keeps the trie exact. *)
LEMMA CommitKeepsExact ==
    ASSUME NEW S, 0 \in S, 1 \in S, NEW v, NEW P \in Seq(S), NEW B,
           NEW t, NEW D, TrieOn(t, B, v, P, D), Fits(S, v, P, D),
           NEW new, Fits(S, v, P, new)
    PROVE  TrieOn(Commit(t, new), B, v, P, new) /\ Grows(t, Commit(t, new))
<1> DEFINE dead  == Dead(D, new)
           fresh == Fresh(D, new)
           o == t.db
           after == Commit(t, new)
           R(x) == Row(v, P, x)
<1>1. IsTrie(t, v, P, D)
  BY DEF TrieOn, IsTrie
<1>2. /\ IsTrie(after, v, P, new)
      /\ Writes(after) = (Writes(t) \cup Image(v, P, dead)) \cup Image(v, P, fresh)
      /\ Sees(after, B) = (Sees(t, B) \ Image(v, P, dead)) \cup Image(v, P, fresh)
  <2> HIDE DEF o, R
  <2>1. /\ IsTrie(Commit(t, new), v, P, new)
        /\ Rewrites(Commit(t, new), t, v, P, Dead(D, new), Fresh(D, new), B)
    BY ONLY 0 \in S, 1 \in S, P \in Seq(S), <1>1, Fits(S, v, P, D), Fits(S, v, P, new),
       CommitEffect
  <2> QED BY <2>1 DEF Rewrites
<1>3. \A x \in dead \cup fresh \cup NodeRows(new) \cup {EmptyRootRow} : Owned(P, R(x))
  BY DEF Fits, Dead, Fresh, TrieNodes
<1>4. Exactly(PartOf(Visible(B, o), P), v, P, D)
  BY DEF TrieOn
<1>5. TrieRows(v, P, new) \subseteq PartOf(Visible(B, after.db), P)
  <2>1. Finds(t, B, v, P, D)
    BY <1>4 DEF Exactly, PartOf, Finds, Sees
  <2>2. Finds(after, B, v, P, new)
    BY <1>1, <2>1, CommitKeepsNodes
  <2> HIDE DEF after
  <2> QED BY <1>3, <2>2 DEF PartOf, TrieRows, Finds, Sees
<1> HIDE DEF after, o
<1>6. /\ Touched(after.db) = (Touched(o) \cup Image(v, P, dead)) \cup Image(v, P, fresh)
      /\ Visible(B, after.db) = (Visible(B, o) \ Image(v, P, dead)) \cup Image(v, P, fresh)
  BY <1>2 DEF Writes, Sees, o
<1>7. PartOf(Visible(B, after.db), P) \subseteq TrieRows(v, P, new)
  <2> SUFFICES ASSUME NEW r \in Visible(B, after.db), Owned(P, r)
               PROVE  r \in TrieRows(v, P, new)
    BY DEF PartOf
  <2>1. CASE r \in Image(v, P, fresh)
    BY <2>1 DEF Image, TrieRows, Fresh, TrieNodes
  <2>2. CASE r \notin Image(v, P, fresh)
    <3>1. r \in PartOf(Visible(B, o), P) /\ r \notin Image(v, P, dead)
      BY <1>6, <2>2 DEF PartOf
    <3>2. PICK x \in NodeRows(D) \cup {EmptyRootRow} : r = R(x)
      BY <1>4, <3>1 DEF Exactly, TrieRows
    <3>3. x \in NodeRows(new) \cup {EmptyRootRow}
      BY <3>1, <3>2 DEF Dead, TrieNodes, Image
    <3> QED BY <3>2, <3>3 DEF TrieRows
  <2> QED BY <2>1, <2>2
<1>8. \A r \in Touched(after.db) : Owned(P, r)
  <2>1. \A r \in Image(v, P, dead) \cup Image(v, P, fresh) : Owned(P, r)
    BY <1>3 DEF Image
  <2> QED BY <1>6, <2>1 DEF TrieOn, o
<1>9. TrieOn(after, B, v, P, new) /\ Grows(t, after)
  BY <1>2, <1>5, <1>6, <1>7, <1>8 DEF TrieOn, IsTrie, Grows, Exactly, o
<1> QED BY <1>9 DEF after

(* `batch_set' keeps the trie exact. *)
LEMMA BatchSetKeepsExact ==
    ASSUME NEW S, 0 \in S, 1 \in S, NEW v, NEW P \in Seq(S), NEW B,
           NEW t, NEW D, TrieOn(t, B, v, P, D), Fits(S, v, P, D),
           NEW data, Fits(S, v, P, WithAll(D, data))
    PROVE  /\ TrieOn(MptBatchSet(t, data), B, v, P, WithAll(D, data))
           /\ Grows(t, MptBatchSet(t, data))
<1>1. t.root = D
  BY DEF TrieOn
<1>2. MptBatchSet(t, data) = Commit(t, WithAll(D, data))
  BY <1>1 DEF MptBatchSet
<1> QED BY <1>2, CommitKeepsExact

(* `batch_remove' and `remove' keep the trie exact. *)
LEMMA BatchRemoveKeepsExact ==
    ASSUME NEW S, 0 \in S, 1 \in S, NEW v, NEW P \in Seq(S), NEW B,
           NEW t, NEW D, TrieOn(t, B, v, P, D), Fits(S, v, P, D),
           NEW keys, Fits(S, v, P, WithoutAll(D, keys))
    PROVE  /\ TrieOn(MptBatchRemove(t, keys), B, v, P, WithoutAll(D, keys))
           /\ Grows(t, MptBatchRemove(t, keys))
<1>1. t.root = D
  BY DEF TrieOn
<1>2. MptBatchRemove(t, keys) = Commit(t, WithoutAll(D, keys))
  BY <1>1 DEF MptBatchRemove
<1> QED BY <1>2, CommitKeepsExact

(* `remove' of one key, there or not.                                      *)
LEMMA RemoveKeepsExact ==
    ASSUME NEW S, 0 \in S, 1 \in S, NEW v, NEW P \in Seq(S), NEW B,
           NEW t, NEW D, TrieOn(t, B, v, P, D), Fits(S, v, P, D),
           D = [k \in DOMAIN D |-> D[k]],
           NEW key, Fits(S, v, P, WithoutAll(D, {key}))
    PROVE  /\ TrieOn(MptRemove(t, key), B, v, P, WithoutAll(D, {key}))
           /\ Grows(t, MptRemove(t, key))
<1>0. t.root = D
  BY DEF TrieOn
<1>1. CASE key \in DOMAIN D
  <2> DEFINE keys == {key}
  <2>1. MptRemove(t, key) = MptBatchRemove(t, keys) /\ Fits(S, v, P, WithoutAll(D, keys))
    BY <1>0, <1>1 DEF MptRemove
  <2> HIDE DEF keys
  <2>2. /\ TrieOn(MptBatchRemove(t, keys), B, v, P, WithoutAll(D, keys))
        /\ Grows(t, MptBatchRemove(t, keys))
    BY <2>1, BatchRemoveKeepsExact
  <2> QED BY <2>1, <2>2 DEF keys
<1>2. CASE key \notin DOMAIN D
  <2>1. MptRemove(t, key) = t
    BY <1>0, <1>2 DEF MptRemove
  <2>2. WithoutAll(D, {key}) = D
    BY <1>2 DEF WithoutAll, Without
  <2> QED BY <2>1, <2>2 DEF Grows
<1> QED BY <1>1, <1>2

(* `open' finds the trie as it is in the database. *)
LEMMA OpenIsExact ==
    ASSUME NEW v, NEW P, NEW B, NEW D, Exactly(PartOf(B, P), v, P, D)
    PROVE  /\ TrieOn(MptOpen(v, P, D), B, v, P, D)
           /\ Touched(MptOpen(v, P, D).db) = {}
<1> DEFINE t == MptOpen(v, P, D)
<1>1. t = [root |-> D, db |-> NewDB(v, P)]
  BY DEF MptOpen
<1>2. t = [root |-> D, db |-> t.db] /\ t.db = NewDB(v, P)
  <2> HIDE DEF t
  <2> QED BY <1>1
<1> HIDE DEF t
<1>3. OverlayOK(t.db, v, P) /\ DOMAIN t.db.inserts = {} /\ t.db.deletes = {}
  BY <1>2, NewOverlay
<1>4. Visible(B, t.db) = B /\ Touched(t.db) = {}
  BY <1>3 DEF Visible, Touched
<1> QED BY <1>2, <1>3, <1>4 DEF TrieOn, t

(* `new' is exact where the database has nothing of the trie. *)
LEMMA NewIsExact ==
    ASSUME NEW S, 0 \in S, 1 \in S, NEW v, NEW P \in Seq(S), NEW B,
           PartOf(B, P) = {}, Owned(P, Row(v, P, EmptyRootRow))
    PROVE  TrieOn(MptNew(v, P), B, v, P, NoContent)
<1> DEFINE o == NewDB(v, P)
           o1 == Put(o, EmptyRootRow, NoContent)
           row == Row(v, P, EmptyRootRow)
           t == MptNew(v, P)
<1>1. t = [root |-> NoContent, db |-> o1]
  BY DEF MptNew
<1>2. OverlayOK(o, v, P) /\ DOMAIN o.inserts = {} /\ o.deletes = {}
  BY NewOverlay
<1>3. /\ OverlayOK(o1, v, P)
      /\ DOMAIN o1.inserts = {row}
      /\ o1.deletes = {}
  <2> HIDE DEF o
  <2> QED BY <1>2, PutEmptyRootEffect
<1> HIDE DEF o, o1, t
<1>4. t = [root |-> NoContent, db |-> t.db] /\ t.db = o1
  BY <1>1
<1>5. PartOf(Visible(B, t.db), P) = {row} /\ \A r \in Touched(t.db) : Owned(P, r)
  BY <1>3, <1>4 DEF Visible, PartOf, Touched
<1>6. TrieRows(v, P, NoContent) = {row}
  BY NodesOfNoContent DEF TrieRows
<1> QED BY <1>3, <1>4, <1>5, <1>6 DEF TrieOn, Exactly, t

(* `get' answers for every row that is visible over the database. *)
LEMMA VisibleIsHeld ==
    ASSUME NEW v, NEW P, NEW o, OverlayOK(o, v, P),
           NEW storage, \A r \in DOMAIN storage : storage[r] = Last(r),
           NEW x, Row(v, P, x) \in Visible(DOMAIN storage, o), Last(Row(v, P, x)) # None
    PROVE  Get(o, storage, x) # None
<1> DEFINE row == Row(v, P, x)
<1>1. o.prefix = P /\ o.version = v
  BY DEF OverlayOK
<1>2. BuildKey(o, x) = row
  BY <1>1 DEF BuildKey
<1> HIDE DEF row
<1>3. row \in (DOMAIN storage \cup DOMAIN o.inserts) \ o.deletes /\ Last(row) # None
  BY DEF Visible, row
<1>4. CASE row \in DOMAIN o.inserts
  <2>1. Get(o, storage, x) = o.inserts[row]
    BY <1>2, <1>4 DEF Get
  <2>2. o.inserts[row] = Last(row)
    BY <1>4 DEF OverlayOK
  <2> QED BY <1>3, <2>1, <2>2
<1>5. CASE row \notin DOMAIN o.inserts
  <2>1. Get(o, storage, x) = storage[row]
    BY <1>2, <1>3, <1>5 DEF Get
  <2> QED BY <1>3, <1>5, <2>1
<1> QED BY <1>4, <1>5

(* It has no answer for the others. *)
LEMMA HeldIsVisible ==
    ASSUME NEW v, NEW P, NEW o, OverlayOK(o, v, P), NEW storage,
           NEW x, Get(o, storage, x) # None
    PROVE  Row(v, P, x) \in Visible(DOMAIN storage, o)
<1> DEFINE row == Row(v, P, x)
<1>1. o.prefix = P /\ o.version = v /\ DOMAIN o.inserts \cap o.deletes = {}
  BY DEF OverlayOK
<1>2. BuildKey(o, x) = row
  BY <1>1 DEF BuildKey
<1> HIDE DEF row
<1>3. CASE row \in DOMAIN o.inserts
  BY <1>1, <1>3 DEF Visible, row
<1>4. CASE row \notin DOMAIN o.inserts
  <2>1. row \notin o.deletes
    BY <1>2, <1>4 DEF Get
  <2>2. row \in DOMAIN storage
    BY <1>2, <1>4, <2>1 DEF Get
  <2> QED BY <2>1, <2>2 DEF Visible, row
<1> QED BY <1>3, <1>4

(* `deinit_and_upgrade' of an empty trie whose root the code finds.        *)
LEMMA DeinitKeepsExact ==
    ASSUME NEW S, 0 \in S, 1 \in S, NEW P \in Seq(S), NEW B,
           NEW t, TrieOn(t, B, V1, P, NoContent),
           NEW storage, Get(t.db, storage, EmptyRootRow) # None,
           Owned(P, Row(V1, P, EmptyRootRow)), Owned(P, Row(V2, P, EmptyRootRow))
    PROVE  /\ TrieOn(DeinitAndUpgrade(t, storage), B, V2, P, NoContent)
           /\ Grows(t, DeinitAndUpgrade(t, storage))
<1> DEFINE o == t.db
           keys == {EmptyRootRow}
           o1 == DeleteAll(o, keys)
           o2 == Upgraded(o1)
           o3 == Put(o2, EmptyRootRow, NoContent)
           row1 == Row(V1, P, EmptyRootRow)
           row2 == Row(V2, P, EmptyRootRow)
           after == DeinitAndUpgrade(t, storage)
<1>1. after = [root |-> NoContent, db |-> o3]
  <2>1. Holds(t, storage, {EmptyRootRow})
    BY DEF Holds
  <2> QED BY <2>1 DEF DeinitAndUpgrade, Delete
<1>2. OverlayOK(o, V1, P)
  BY DEF TrieOn
<1>3. /\ OverlayOK(o1, V1, P)
      /\ DOMAIN o1.inserts = DOMAIN o.inserts \ {row1}
      /\ o1.deletes = o.deletes \cup {row1}
  <2>1. Image(V1, P, keys) = {row1}
    BY DEF Image
  <2> HIDE DEF o, keys, row1
  <2> QED BY <1>2, <2>1, DeleteAllEffect
<1>4. /\ OverlayOK(o2, V2, P)
      /\ DOMAIN o2.inserts = DOMAIN o1.inserts
      /\ o2.deletes = o1.deletes
  <2> DEFINE i == o1.inserts
             d == o1.deletes
  <2>1. o1 = [inserts |-> i, deletes |-> d, prefix |-> P, version |-> V1]
    BY <1>3 DEF OverlayOK
  <2>2. o2 = [o1 EXCEPT !.version = V2]
    BY DEF Upgraded
  <2> HIDE DEF o1, o2
  <2>3. o2 = [inserts |-> i, deletes |-> d, prefix |-> P, version |-> V2]
    <3> HIDE DEF i, d
    <3> QED BY <2>1, <2>2, BuffersChanged
  <2> QED BY <1>3, <2>3 DEF OverlayOK
<1>5. /\ OverlayOK(o3, V2, P)
      /\ DOMAIN o3.inserts = DOMAIN o2.inserts \cup {row2}
      /\ o3.deletes = o2.deletes \ {row2}
  <2> HIDE DEF o2
  <2> QED BY <1>4, PutEmptyRootEffect
<1> HIDE DEF o, o1, o2, o3, after
<1>6. after = [root |-> NoContent, db |-> after.db] /\ after.db = o3
  BY <1>1
<1>7. TrieRows(V1, P, NoContent) = {row1} /\ TrieRows(V2, P, NoContent) = {row2}
  BY NodesOfNoContent DEF TrieRows
<1> HIDE DEF row1, row2
<1>8. Visible(B, o3) = (Visible(B, o) \ {row1}) \cup {row2}
  BY <1>3, <1>4, <1>5 DEF Visible, OverlayOK
<1>9. PartOf(Visible(B, o), P) = {row1}
  BY <1>7 DEF TrieOn, Exactly, o, row1
<1>10. PartOf(Visible(B, o3), P) = {row2}
  <2>1. Owned(P, row2)
    BY DEF row2
  <2> QED BY <1>8, <1>9, <2>1 DEF PartOf
<1>11. (\A r \in Touched(o3) : Owned(P, r)) /\ Touched(o) \subseteq Touched(o3)
  <2>1. Owned(P, row1) /\ Owned(P, row2)
    BY DEF row1, row2
  <2>2. \A r \in Touched(o) : Owned(P, r)
    BY DEF TrieOn, o
  <2> QED BY <1>3, <1>4, <1>5, <2>1, <2>2 DEF Touched
<1>12. TrieOn(after, B, V2, P, NoContent)
  BY <1>5, <1>6, <1>7, <1>10, <1>11 DEF TrieOn, Exactly
<1> QED BY <1>6, <1>11, <1>12 DEF o, after, Grows

(* A trie whose rows are found is emptied with its empty root at hand:     *)
(* what `deinit_and_upgrade' looks for is there.                           *)
LEMMA EmptiedIsHeld ==
    ASSUME NEW S, 0 \in S, 1 \in S, NEW v, NEW P \in Seq(S), NEW B,
           NEW t, NEW D, TrieOn(t, B, v, P, D), Fits(S, v, P, D), Fits(S, v, P, NoContent),
           NEW storage, \A r \in DOMAIN storage : storage[r] = Last(r),
           Finds(t, DOMAIN storage, v, P, D), NoContent # None
    PROVE  Get(MptBatchRemove(t, DOMAIN D).db, storage, EmptyRootRow) # None
<1> DEFINE A == DOMAIN storage
           after == Commit(t, NoContent)
           row == Row(v, P, EmptyRootRow)
<1>1. MptBatchRemove(t, DOMAIN D) = after
  <2>1. t.root = D
    BY DEF TrieOn
  <2>2. WithoutAll(D, DOMAIN D) = NoContent
    BY DEF WithoutAll, Without, NoContent, EmptyRows
  <2> QED BY <2>1, <2>2 DEF MptBatchRemove
<1>2. IsTrie(t, v, P, D)
  BY DEF TrieOn, IsTrie
<1>3. Finds(t, A, v, P, D)
  OBVIOUS
<1> HIDE DEF A
<1>4. Finds(after, A, v, P, NoContent)
  BY ONLY 0 \in S, 1 \in S, P \in Seq(S), Fits(S, v, P, D), Fits(S, v, P, NoContent),
     <1>2, <1>3, CommitKeepsNodes
<1>5. IsTrie(after, v, P, NoContent)
  BY ONLY 0 \in S, 1 \in S, P \in Seq(S), Fits(S, v, P, D), Fits(S, v, P, NoContent),
     <1>2, CommitEffect
<1> HIDE DEF after
<1> DEFINE o == after.db
<1>6. OverlayOK(o, v, P)
  BY <1>5 DEF IsTrie
<1>7. row \in Visible(A, o)
  BY <1>4, NodesOfNoContent DEF Finds, Sees, TrieRows
<1>8. Last(row) # None
  BY EmptyRootIsNode, LastOfRow
<1> HIDE DEF o
<1>9. Get(o, storage, EmptyRootRow) # None
  BY <1>6, <1>7, <1>8, VisibleIsHeld DEF A
<1> QED BY <1>1, <1>9 DEF o

(* `upgrade' of a trie: emptied, moved to V2 and filled again. *)
LEMMA UpgradeKeepsExact ==
    ASSUME NEW S, 0 \in S, 1 \in S, NEW P \in Seq(S), NEW B,
           NEW t, NEW D, TrieOn(t, B, V1, P, D), Fits(S, V1, P, D),
           Fits(S, V1, P, NoContent), Fits(S, V2, P, NoContent),
           NEW storage, \A r \in DOMAIN storage : storage[r] = Last(r),
           Finds(t, DOMAIN storage, V1, P, D), NoContent # None,
           NEW data, Fits(S, V2, P, WithAll(NoContent, data))
    PROVE  LET emptied == MptBatchRemove(t, DOMAIN D)
               after == MptBatchSet(DeinitAndUpgrade(emptied, storage), data)
           IN  TrieOn(after, B, V2, P, WithAll(NoContent, data)) /\ Grows(t, after)
<1> DEFINE keys == DOMAIN D
           emptied == MptBatchRemove(t, keys)
           moved == DeinitAndUpgrade(emptied, storage)
           after == MptBatchSet(moved, data)
<1>1. Get(emptied.db, storage, EmptyRootRow) # None
  BY EmptiedIsHeld
<1>2. WithoutAll(D, keys) = NoContent
  BY DEF WithoutAll, Without, NoContent, EmptyRows
<1> HIDE DEF keys
<1>3. Fits(S, V1, P, WithoutAll(D, keys))
  BY <1>2
<1>4. TrieOn(emptied, B, V1, P, WithoutAll(D, keys)) /\ Grows(t, emptied)
  BY ONLY 0 \in S, 1 \in S, P \in Seq(S), TrieOn(t, B, V1, P, D), Fits(S, V1, P, D), <1>3,
     BatchRemoveKeepsExact
<1>5. TrieOn(emptied, B, V1, P, NoContent)
  BY <1>2, <1>4
<1> HIDE DEF emptied
<1>6. Owned(P, Row(V1, P, EmptyRootRow)) /\ Owned(P, Row(V2, P, EmptyRootRow))
  BY DEF Fits
<1>7. TrieOn(moved, B, V2, P, NoContent) /\ Grows(emptied, moved)
  BY <1>1, <1>5, <1>6, DeinitKeepsExact
<1> HIDE DEF moved
<1>8. TrieOn(after, B, V2, P, WithAll(NoContent, data)) /\ Grows(moved, after)
  BY ONLY 0 \in S, 1 \in S, P \in Seq(S), Fits(S, V2, P, NoContent),
     Fits(S, V2, P, WithAll(NoContent, data)), <1>7, BatchSetKeepsExact
<1> HIDE DEF after
<1>9. Grows(t, after)
  BY <1>4, <1>7, <1>8 DEF Grows
<1> QED BY <1>8, <1>9 DEF after, moved, emptied, keys

(* `close' leaves an exact trie if its rows are in the database by then.   *)
LEMMA ClosedIsExact ==
    ASSUME NEW v, NEW P, NEW B, NEW t, NEW D, TrieOn(t, B, v, P, D),
           NEW A, PartOf(A, P) = PartOf(Visible(B, t.db), P)
    PROVE  /\ TrieOn(MptClosed(t), A, v, P, D)
           /\ Touched(MptClosed(t).db) = {}
<1> DEFINE o == t.db
           o1 == Closed(o)
           none == EmptyRows
           no == {}
           after == MptClosed(t)
<1>1. o = [inserts |-> o.inserts, deletes |-> o.deletes, prefix |-> P, version |-> v]
  BY DEF TrieOn, OverlayOK
<1>2. o1 = [inserts |-> none, deletes |-> no, prefix |-> P, version |-> v]
  <2> DEFINE i == o.inserts
             d == o.deletes
  <2>1. o = [inserts |-> i, deletes |-> d, prefix |-> P, version |-> v]
    BY <1>1
  <2>2. o1 = [o EXCEPT !.inserts = none, !.deletes = no]
    BY DEF Closed
  <2> HIDE DEF i, d, none, no, o, o1
  <2> QED BY ONLY <2>1, <2>2, BuffersChanged
<1>3. t = [root |-> D, db |-> o]
  BY DEF TrieOn
<1>4. after = [root |-> D, db |-> o1]
  <2>1. after = [t EXCEPT !.db = o1]
    BY DEF MptClosed
  <2> HIDE DEF o, o1, after
  <2> QED BY <1>3, <2>1
<1> HIDE DEF o, o1, after
<1>5. after = [root |-> D, db |-> after.db] /\ after.db = o1
  BY <1>4
<1>6. OverlayOK(o1, v, P) /\ Touched(o1) = {} /\ Visible(A, o1) = A
  BY <1>2 DEF OverlayOK, Touched, Visible, EmptyRows
<1>7. Exactly(PartOf(A, P), v, P, D)
  BY DEF TrieOn
<1> QED BY <1>5, <1>6, <1>7 DEF TrieOn, after

-----------------------------------------------------------------------------
(* The rows of accounts and storages are theirs alone. *)

(* The elements of a row. *)
LEMMA ElementsOfRow ==
    ASSUME NEW S, 0 \in S, 1 \in S, NEW v, NEW P \in Seq(S), NEW p \in Seq(S), NEW n
    PROVE  LET r == Row(v, P, Append(p, n))
               L == Lead(v, P)
           IN  /\ Len(r) = Len(L) + Len(p) + 1
               /\ \A i \in 1 .. Len(L) : r[i] = L[i]
               /\ \A i \in 1 .. Len(p) : r[Len(L) + i] = p[i]
               /\ r[Len(L) + Len(p) + 1] = n
<1> DEFINE T == S \cup {n}
           L == Lead(v, P)
           q == L \o p
           r == Row(v, P, Append(p, n))
<1>1. L \in Seq(S) /\ q \in Seq(S) /\ r = Append(q, n)
  BY RowOfNode
<1> HIDE DEF L
<1>2. /\ Len(L) \in Nat /\ Len(p) \in Nat /\ Len(q) = Len(L) + Len(p)
      /\ \A i \in 1 .. Len(L) + Len(p) : q[i] = IF i <= Len(L) THEN L[i] ELSE p[i - Len(L)]
  BY <1>1, ConcatProperties, LenProperties
<1> HIDE DEF q, r
<1>3. q \in Seq(T) /\ n \in T
  BY <1>1, SeqMonotonic
<1>4. /\ Len(r) = Len(q) + 1
      /\ \A i \in 1 .. Len(q) : r[i] = q[i]
      /\ r[Len(q) + 1] = n
  BY <1>1, <1>3, AppendProperties
<1>5. \A i \in 1 .. Len(L) : r[i] = L[i]
  BY <1>2, <1>4
<1>6. \A i \in 1 .. Len(p) : r[Len(L) + i] = p[i]
  BY <1>2, <1>4
<1> QED BY <1>2, <1>4, <1>5, <1>6 DEF L, r

(* The nodes of accounts. *)
LEMMA AccountContentFits ==
    ASSUME NEW S, 0 \in S, 1 \in S, NEW v \in Version,
           NEW A \in SUBSET S, 0 \notin A, 1 \notin A, NEW F \in SUBSET S,
           NEW D, \A k \in DOMAIN D : \E a \in A, f \in F : k = AccountKey(v, a, f)
    PROVE  Fits(S, v, <<>>, D)
<1>1. \A k \in DOMAIN D : k \in Seq(S)
  <2> SUFFICES ASSUME NEW k \in DOMAIN D PROVE k \in Seq(S)
    OBVIOUS
  <2>1. PICK a \in A, f \in F : k = AccountKey(v, a, f)
    OBVIOUS
  <2>2. a \in S /\ f \in S /\ <<a, 1, f>> \in Seq(S) /\ <<a, f>> \in Seq(S)
    OBVIOUS
  <2> QED BY <2>1, <2>2 DEF AccountKey, Protected
<1>2. <<>> \in Seq(S)
  OBVIOUS
<1>3. \A p \in Seq(S) : \A n : \/ p = <<>>
                               \/ v = V2
                               \/ Len(p) = 1 /\ p[1] # 1 /\ \E s \in DOMAIN n : s[1] = Protected
                               \/ Len(p) > 1 /\ p[1] # 1 /\ p[2] = Protected
                               => Owned(<<>>, Row(v, <<>>, Append(p, n)))
  <2> SUFFICES ASSUME NEW p \in Seq(S), NEW n,
                      \/ p = <<>>
                      \/ v = V2
                      \/ Len(p) = 1 /\ p[1] # 1 /\ \E s \in DOMAIN n : s[1] = Protected
                      \/ Len(p) > 1 /\ p[1] # 1 /\ p[2] = Protected
               PROVE  IsAccountRow(Row(v, <<>>, Append(p, n)))
    BY DEF Owned
  <2> DEFINE P == <<>>
             r == Row(v, P, Append(p, n))
             L == Lead(v, P)
  <2>1. /\ Len(r) = Len(L) + Len(p) + 1
        /\ \A i \in 1 .. Len(L) : r[i] = L[i]
        /\ \A i \in 1 .. Len(p) : r[Len(L) + i] = p[i]
        /\ r[Len(L) + Len(p) + 1] = n
    <3>1. P \in Seq(S)
      BY <1>2
    <3> HIDE DEF P
    <3> QED BY <3>1, ElementsOfRow
  <2>2. v = V1 => L = <<>> /\ Len(L) = 0
    BY DEF Lead
  <2>3. v = V2 => L = <<0>> /\ Len(L) = 1 /\ L[1] = 0
    BY DEF Lead, V1, V2
  <2>4. Len(p) \in Nat
    BY LenProperties
  <2>5. v = V1 \/ v = V2
    BY DEF Version
  <2> HIDE DEF r, L
  <2> SUFFICES IsAccountRow(r)
    BY DEF r
  <2>6. CASE v = V2
    <3>1. r[1] = 0
      BY <2>1, <2>3, <2>6
    <3> QED BY <3>1 DEF IsAccountRow
  <2>7. CASE v = V1 /\ p = <<>>
    <3>1. Len(r) = 1
      BY <2>1, <2>2, <2>7
    <3> QED BY <3>1 DEF IsAccountRow
  <2>8. CASE v = V1 /\ Len(p) = 1 /\ p[1] # 1 /\ \E s \in DOMAIN n : s[1] = Protected
    <3>1. Len(r) = 2 /\ r[1] = p[1] /\ r[2] = n
      BY <2>1, <2>2, <2>8
    <3> QED BY <2>8, <3>1 DEF IsAccountRow
  <2>9. CASE v = V1 /\ Len(p) > 1 /\ p[1] # 1 /\ p[2] = Protected
    <3>1. Len(r) > 2 /\ r[1] = p[1] /\ r[2] = p[2]
      BY <2>1, <2>2, <2>4, <2>9
    <3> QED BY <2>9, <3>1 DEF IsAccountRow
  <2> QED BY <2>5, <2>6, <2>7, <2>8, <2>9
<1>4. ASSUME NEW p \in Positions(D)
      PROVE  Owned(<<>>, Row(v, <<>>, NodeRow(D, p)))
  <2> DEFINE n == Node(D, p)
  <2>1. CASE p = <<>>
    BY <1>2, <1>3, <2>1 DEF NodeRow
  <2>2. CASE p # <<>>
    <3>1. PICK k \in Below(D, p) : \E l \in 1 .. Len(k) :
               p = SubSeq(k, 1, l) /\ k \in Seq(S) /\ p \in Seq(S) /\ Len(p) = l
      BY <1>1, <2>2, PositionIsPartOfKey
    <3>2. PICK l \in 1 .. Len(k) :
               p = SubSeq(k, 1, l) /\ k \in Seq(S) /\ p \in Seq(S) /\ Len(p) = l
      BY <3>1
    <3>3. PICK a \in A, f \in F : k = AccountKey(v, a, f)
      BY <3>1 DEF Below
    <3>4. CASE v = V2
      BY <1>3, <3>2, <3>4 DEF NodeRow
    <3>5. CASE v # V2
      <4>1. k = <<a, Protected, f>> /\ Len(k) = 3
        BY <3>3, <3>5 DEF AccountKey, Version
      <4>2. p[1] = a /\ (l > 1 => p[2] = Protected)
        BY <3>2, <4>1
      <4>3. CASE l = 1
        <5> DEFINE s == SubSeq(k, Len(p) + 1, Len(k))
        <5>1. s \in DOMAIN n
          BY <3>1 DEF Node
        <5>2. s = SubSeq(k, 2, 3) /\ s[1] = Protected
          BY <3>2, <4>1, <4>3
        <5> HIDE DEF n, s
        <5>3. Owned(<<>>, Row(v, <<>>, Append(p, n)))
          BY <1>3, <3>2, <4>2, <4>3, <5>1, <5>2
        <5> QED BY <5>3 DEF NodeRow, n
      <4>4. CASE l # 1
        <5>1. Len(p) > 1 /\ p[1] # 1 /\ p[2] = Protected
          BY <3>2, <4>2, <4>4
        <5> QED BY <1>3, <3>2, <5>1 DEF NodeRow
      <4> QED BY <4>3, <4>4
    <3> QED BY <3>4, <3>5
  <2> QED BY <2>1, <2>2
<1>5. Owned(<<>>, Row(v, <<>>, EmptyRootRow))
  <2>1. EmptyRootRow = Append(<<>>, NoContent)
    BY DEF EmptyRootRow
  <2> QED BY <1>2, <1>3, <2>1
<1> QED BY <1>1, <1>4, <1>5 DEF Fits, NodeRows

(* The nodes of the storage of an account. *)
LEMMA StorageContentFits ==
    ASSUME NEW S, 0 \in S, 1 \in S, NEW v \in Version,
           NEW a \in S, a # 0, a # 1, NEW K \in SUBSET S,
           NEW D, \A k \in DOMAIN D : \E x \in K : k = StorageKey(v, x)
    PROVE  Fits(S, v, <<a>>, D)
<1>1. \A k \in DOMAIN D : k \in Seq(S)
  <2> SUFFICES ASSUME NEW k \in DOMAIN D PROVE k \in Seq(S)
    OBVIOUS
  <2>1. PICK x \in K : k = StorageKey(v, x)
    OBVIOUS
  <2>2. x \in S /\ <<0, x>> \in Seq(S) /\ <<x>> \in Seq(S)
    OBVIOUS
  <2> QED BY <2>1, <2>2 DEF StorageKey, Public
<1>2. <<>> \in Seq(S) /\ <<a>> \in Seq(S)
  OBVIOUS
<1>3. \A p \in Seq(S) : \A n : \/ v = V2
                               \/ p = <<>> /\ \A s \in DOMAIN n : s[1] = Public
                               \/ Len(p) > 0 /\ p[1] = Public
                               => Owned(<<a>>, Row(v, <<a>>, Append(p, n)))
  <2> SUFFICES ASSUME NEW p \in Seq(S), NEW n,
                      \/ v = V2
                      \/ p = <<>> /\ \A s \in DOMAIN n : s[1] = Public
                      \/ Len(p) > 0 /\ p[1] = Public
               PROVE  IsStorageRow(a, Row(v, <<a>>, Append(p, n)))
    BY DEF Owned
  <2> DEFINE P == <<a>>
             r == Row(v, P, Append(p, n))
             L == Lead(v, P)
  <2>1. /\ Len(r) = Len(L) + Len(p) + 1
        /\ \A i \in 1 .. Len(L) : r[i] = L[i]
        /\ \A i \in 1 .. Len(p) : r[Len(L) + i] = p[i]
        /\ r[Len(L) + Len(p) + 1] = n
    <3>1. P \in Seq(S)
      BY <1>2
    <3> HIDE DEF P
    <3> QED BY <3>1, ElementsOfRow
  <2>2. v = V1 => Len(L) = 1 /\ L[1] = a
    BY DEF Lead
  <2>3. v = V2 => Len(L) = 2 /\ L[1] = 1 /\ L[2] = a
    <3>1. <<1>> \in Seq(S)
      OBVIOUS
    <3> DEFINE M == <<1>> \o <<a>>
    <3>2. /\ Len(M) = Len(<<1>>) + Len(<<a>>)
          /\ \A i \in 1 .. Len(<<1>>) + Len(<<a>>) :
                 M[i] = IF i <= Len(<<1>>) THEN <<1>>[i] ELSE <<a>>[i - Len(<<1>>)]
      BY <1>2, <3>1, ConcatProperties
    <3>3. Len(<<1>>) = 1 /\ Len(<<a>>) = 1
      OBVIOUS
    <3> HIDE DEF M
    <3>4. Len(M) = 2 /\ M[1] = 1 /\ M[2] = a
      BY <3>2, <3>3
    <3>5. v = V2 => L = M
      BY DEF Lead, V1, V2, M
    <3> QED BY <3>4, <3>5
  <2>4. Len(p) \in Nat
    BY LenProperties
  <2>5. v = V1 \/ v = V2
    BY DEF Version
  <2> HIDE DEF r, L
  <2> SUFFICES IsStorageRow(a, r)
    BY DEF r
  <2>6. CASE v = V2
    <3>0. Len(L) = 2
      BY <2>3, <2>6
    <3>1. Len(r) \in Nat /\ Len(r) > 1
      BY ONLY <2>1, <2>4, <3>0
    <3>2. r[1] = L[1] /\ r[2] = L[2]
      BY ONLY <2>1, <3>0
    <3>3. r[1] = 1 /\ r[2] = a
      BY <2>3, <2>6, <3>2
    <3> QED BY <3>1, <3>3 DEF IsStorageRow
  <2>7. CASE v = V1 /\ p = <<>> /\ \A s \in DOMAIN n : s[1] = Public
    <3>0. Len(L) = 1 /\ L[1] = a /\ Len(p) = 0
      BY <2>2, <2>7
    <3>1. Len(r) = 2 /\ r[1] = a /\ r[2] = n
      BY ONLY <2>1, <3>0
    <3> QED BY ONLY <2>7, <3>1 DEF IsStorageRow
  <2>8. CASE v = V1 /\ Len(p) > 0 /\ p[1] = Public
    <3>0. Len(L) = 1 /\ L[1] = a
      BY <2>2, <2>8
    <3>1. Len(r) \in Nat /\ Len(r) > 2 /\ r[1] = a /\ r[2] = p[1]
      BY ONLY <2>1, <2>4, <2>8, <3>0
    <3> QED BY ONLY <2>8, <3>1 DEF IsStorageRow, Public
  <2> QED BY <2>5, <2>6, <2>7, <2>8
<1>4. ASSUME NEW k \in DOMAIN D PROVE v = V2 \/ (k[1] = Public /\ Len(k) = 2)
  <2>1. PICK x \in K : k = StorageKey(v, x)
    OBVIOUS
  <2> QED BY <2>1 DEF StorageKey, Version
<1>5. ASSUME NEW p \in Positions(D)
      PROVE  Owned(<<a>>, Row(v, <<a>>, NodeRow(D, p)))
  <2> DEFINE n == Node(D, p)
  <2>1. CASE v = V2
    <3>1. p \in Seq(S)
      BY <1>1, <1>2, PositionIsPartOfKey
    <3> QED BY <1>3, <2>1, <3>1 DEF NodeRow
  <2>2. CASE v # V2 /\ p = <<>>
    <3>1. \A s \in DOMAIN n : s[1] = Public
      <4> SUFFICES ASSUME NEW k \in Below(D, p)
                   PROVE  SubSeq(k, Len(p) + 1, Len(k))[1] = Public
        BY DEF Node
      <4>1. k[1] = Public /\ Len(k) = 2 /\ k \in Seq(S)
        BY <1>1, <1>4, <2>2 DEF Below
      <4>2. SubSeq(k, 1, Len(k)) = k
        BY <4>1, SubSeqFull
      <4> QED BY <2>2, <4>1, <4>2
    <3> HIDE DEF n
    <3>2. Owned(<<a>>, Row(v, <<a>>, Append(p, n)))
      BY <1>2, <1>3, <2>2, <3>1
    <3> QED BY <3>2 DEF NodeRow, n
  <2>3. CASE v # V2 /\ p # <<>>
    <3>1. PICK k \in Below(D, p) : \E l \in 1 .. Len(k) :
               p = SubSeq(k, 1, l) /\ k \in Seq(S) /\ p \in Seq(S) /\ Len(p) = l
      BY <1>1, <2>3, PositionIsPartOfKey
    <3>2. PICK l \in 1 .. Len(k) :
               p = SubSeq(k, 1, l) /\ k \in Seq(S) /\ p \in Seq(S) /\ Len(p) = l
      BY <3>1
    <3>3. k[1] = Public /\ Len(k) = 2
      BY <1>4, <2>3 DEF Below
    <3>4. Len(p) > 0 /\ p[1] = Public
      BY <3>2, <3>3
    <3> QED BY <1>3, <3>2, <3>4 DEF NodeRow
  <2> QED BY <2>1, <2>2, <2>3
<1>6. Owned(<<a>>, Row(v, <<a>>, EmptyRootRow))
  <2>1. EmptyRootRow = Append(<<>>, NoContent)
    BY DEF EmptyRootRow
  <2>2. DOMAIN NoContent = {}
    BY DEF NoContent, EmptyRows
  <2>3. v = V1 \/ v = V2
    BY DEF Version
  <2> QED BY <1>2, <1>3, <2>1, <2>2, <2>3
<1> QED BY <1>1, <1>5, <1>6 DEF Fits, NodeRows

(* No row is of two tries. *)
LEMMA OwnersApart ==
    ASSUME NEW a, a # 0, a # 1, NEW b, b # 1, a # b, NEW r
    PROVE  /\ ~(Owned(<<>>, r) /\ Owned(<<a>>, r))
           /\ ~(Owned(<<a>>, r) /\ Owned(<<b>>, r))
<1>1. <<a>> # <<>> /\ <<b>> # <<>> /\ <<a>>[1] = a /\ <<b>>[1] = b
  OBVIOUS
<1>2. Owned(<<>>, r) = IsAccountRow(r) /\ Owned(<<a>>, r) = IsStorageRow(a, r)
      /\ Owned(<<b>>, r) = IsStorageRow(b, r)
  BY <1>1 DEF Owned
<1>3. ~(IsAccountRow(r) /\ IsStorageRow(a, r))
  <2> SUFFICES ASSUME IsAccountRow(r), IsStorageRow(a, r) PROVE FALSE
    OBVIOUS
  <2>1. CASE r[1] = 1
    <3>1. Len(r) > 1 /\ Len(r) # 1 /\ r[1] # 0
      BY <2>1 DEF IsStorageRow
    <3> QED BY <2>1, <3>1 DEF IsAccountRow
  <2>2. CASE r[1] = a
    BY <2>2 DEF IsAccountRow, IsStorageRow, Public, Protected
  <2> QED BY <2>1, <2>2 DEF IsStorageRow
<1>4. ~(IsStorageRow(a, r) /\ IsStorageRow(b, r))
  BY DEF IsStorageRow
<1> QED BY <1>2, <1>3, <1>4
-----------------------------------------------------------------------------
(* Tries that find their nodes, whatever else there is. *)

(* `batch_set' keeps the nodes found.                                      *)
LEMMA BatchSetKeepsNodes ==
    ASSUME NEW S, 0 \in S, 1 \in S, NEW v, NEW P \in Seq(S),
           NEW t, NEW D, IsTrie(t, v, P, D), Fits(S, v, P, D),
           NEW data, Fits(S, v, P, WithAll(D, data)),
           NEW A, Finds(t, A, v, P, D)
    PROVE  Finds(MptBatchSet(t, data), A, v, P, WithAll(D, data))
<1>1. t.root = D
  BY DEF IsTrie
<1>2. MptBatchSet(t, data) = Commit(t, WithAll(D, data))
  BY <1>1 DEF MptBatchSet
<1> QED BY <1>2, CommitKeepsNodes

(* A V2 trie that was just moved finds its root, which was put.            *)
LEMMA MovedFindsRoot ==
    ASSUME NEW S, 0 \in S, 1 \in S, NEW P \in Seq(S),
           NEW t, NEW D, IsTrie(t, V1, P, D), NEW storage, NEW A
    PROVE  LET moved == DeinitAndUpgrade(t, storage)
           IN  IsTrie(moved, V2, P, NoContent) /\ Finds(moved, A, V2, P, NoContent)
<1> DEFINE o == t.db
           keys == {EmptyRootRow}
           deleted == DeleteAll(o, keys)
           o1 == IF Holds(t, storage, {EmptyRootRow}) THEN deleted ELSE o
           o2 == Upgraded(o1)
           o3 == Put(o2, EmptyRootRow, NoContent)
           row == Row(V2, P, EmptyRootRow)
           moved == DeinitAndUpgrade(t, storage)
<1>1. moved = [root |-> NoContent, db |-> o3]
  BY DEF DeinitAndUpgrade, Delete
<1>2. OverlayOK(o1, V1, P)
  <2>1. OverlayOK(o, V1, P)
    BY DEF IsTrie
  <2> HIDE DEF o, keys
  <2>2. OverlayOK(deleted, V1, P)
    BY <2>1, DeleteAllEffect
  <2> QED BY <2>1, <2>2
<1> HIDE DEF o1
<1>3. OverlayOK(o2, V2, P)
  <2> DEFINE i == o1.inserts
             d == o1.deletes
  <2>1. o1 = [inserts |-> i, deletes |-> d, prefix |-> P, version |-> V1]
    BY <1>2 DEF OverlayOK
  <2>2. o2 = [o1 EXCEPT !.version = V2]
    BY DEF Upgraded
  <2> HIDE DEF o2
  <2>3. o2 = [inserts |-> i, deletes |-> d, prefix |-> P, version |-> V2]
    <3> HIDE DEF i, d
    <3> QED BY <2>1, <2>2, BuffersChanged
  <2> QED BY <1>2, <2>3 DEF OverlayOK
<1> HIDE DEF o2
<1>4. /\ OverlayOK(o3, V2, P)
      /\ DOMAIN o3.inserts = DOMAIN o2.inserts \cup {row}
      /\ o3.deletes = o2.deletes \ {row}
  BY <1>3, PutEmptyRootEffect
<1> HIDE DEF o3, moved
<1>5. moved = [root |-> NoContent, db |-> moved.db] /\ moved.db = o3
  BY <1>1
<1>6. TrieRows(V2, P, NoContent) = {row}
  BY NodesOfNoContent DEF TrieRows
<1> HIDE DEF row
<1>7. row \in Visible(A, o3)
  BY <1>4 DEF Visible
<1> QED BY <1>4, <1>5, <1>6, <1>7 DEF IsTrie, Finds, Sees, moved

(* A trie whose nodes are held finds them.                                 *)
LEMMA HeldAreFound ==
    ASSUME NEW v, NEW P, NEW t, NEW D, IsTrie(t, v, P, D),
           NEW storage, NEW X, Holds(t, storage, X)
    PROVE  Image(v, P, X) \subseteq Sees(t, DOMAIN storage)
<1>1. ASSUME NEW x \in X PROVE Row(v, P, x) \in Visible(DOMAIN storage, t.db)
  <2>1. Get(t.db, storage, x) # None
    BY DEF Holds
  <2>2. OverlayOK(t.db, v, P)
    BY DEF IsTrie
  <2> QED BY <2>1, <2>2, HeldIsVisible
<1> QED BY <1>1 DEF Image, Sees

(* The node of the root is the whole content.                              *)
LEMMA RootIsContent ==
    ASSUME NEW S, NEW D, \A k \in DOMAIN D : k \in Seq(S), D = [k \in DOMAIN D |-> D[k]]
    PROVE  Node(D, <<>>) = D /\ NodeRow(D, <<>>) = <<D>> /\ NodeRow(D, <<>>) \in NodeRows(D)
<1>1. ASSUME NEW k \in DOMAIN D
      PROVE  IsPrefix(<<>>, k) /\ SubSeq(k, Len(<<>>) + 1, Len(k)) = k /\ <<>> \o k = k
  <2>1. k \in Seq(S) /\ Len(<<>>) = 0
    OBVIOUS
  <2>2. SubSeq(<<>>, 1, 0) = SubSeq(k, 1, 0)
    BY <2>1
  <2>3. SubSeq(k, 1, Len(k)) = k
    BY <2>1
  <2>4. Len(k) >= 0 /\ <<>> \o k = k
    BY <2>1
  <2> QED BY <2>1, <2>2, <2>3, <2>4 DEF IsPrefix
<1>2. Below(D, <<>>) = DOMAIN D
  BY <1>1 DEF Below
<1>3. {SubSeq(k, Len(<<>>) + 1, Len(k)) : k \in Below(D, <<>>)} = DOMAIN D
  BY <1>1, <1>2
<1>4. Node(D, <<>>) = [s \in DOMAIN D |-> D[<<>> \o s]]
  BY <1>3 DEF Node
<1>5. Node(D, <<>>) = D
  BY <1>1, <1>4
<1>6. NodeRow(D, <<>>) = <<D>>
  BY <1>5 DEF NodeRow
<1>7. NodeRow(D, <<>>) \in NodeRows(D)
  BY DEF NodeRows, Positions
<1> QED BY <1>5, <1>6, <1>7
=============================================================================
