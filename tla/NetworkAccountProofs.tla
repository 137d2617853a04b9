------------------------ MODULE NetworkAccountProofs ------------------------
(***************************************************************************)
(* What holds of the network account for any operators, owners, sizes and  *)
(* lists: every row belongs to one part, the listed pools are found, and   *)
(* the rows implement parts that do not know of each other.                *)
(***************************************************************************)
EXTENDS NetworkAccount, FiniteSetTheorems, WellFoundedInduction, TLAPS

(* The symbols of keys.                                                    *)
Symbol == Operators \cup Owners \cup Nat

(* Two stores say the same of some rows.                                   *)
SameRow(s, t, r) == (r \in DOMAIN t <=> r \in DOMAIN s) /\ (r \in DOMAIN s => t[r] = s[r])
Same(s, t, rows) == \A r \in rows : SameRow(s, t, r)

-----------------------------------------------------------------------------
(* Rows and maps. *)

(* What is written is read, and nothing else changes.                      *)
LEMMA WrittenRows ==
    ASSUME NEW s, NEW rows
    PROVE  /\ DOMAIN Written(s, rows) = DOMAIN s \cup DOMAIN rows
           /\ \A r \in DOMAIN rows : Read(Written(s, rows), r) = rows[r]
           /\ \A r : r \notin DOMAIN rows => SameRow(s, Written(s, rows), r)
BY DEF Written, Read, SameRow

(* What is deleted is gone, and nothing else changes.                      *)
LEMMA DeletedRows ==
    ASSUME NEW s, NEW rows
    PROVE  /\ DOMAIN Deleted(s, rows) = DOMAIN s \ rows
           /\ \A r \in rows : Read(Deleted(s, rows), r) = None
           /\ \A r : r \notin rows => SameRow(s, Deleted(s, rows), r)
BY DEF Deleted, Read, SameRow

(* Rows that are the same are read the same, and so are maps.              *)
LEMMA SameIsRead ==
    ASSUME NEW s, NEW t, NEW r, SameRow(s, t, r)
    PROVE  Read(t, r) = Read(s, r)
BY DEF SameRow, Read

(* A map is loaded the same from rows that are the same.                   *)
LEMMA SameIsLoaded ==
    ASSUME NEW s, NEW t, NEW d, NEW keys, NEW c, Same(s, t, MapRows(d, keys, c))
    PROVE  Loaded(t, d, keys, c) = Loaded(s, d, keys, c)
<1>1. SameRow(s, t, LengthRow(d))
  BY DEF Same, MapRows
<1>2. \A k \in keys : Read(t, KeyIndexRow(d, k)) = Read(s, KeyIndexRow(d, k))
  BY SameIsRead DEF Same, MapRows
<1>3. \A i \in 0 .. c - 1 : Read(t, IndexValueRow(d, i)) = Read(s, IndexValueRow(d, i))
  BY SameIsRead DEF Same, MapRows
<1> QED BY <1>1, <1>2, <1>3 DEF Loaded, SameRow

(* The rows of a map, as sequences.                                        *)
LEMMA RowsOfMap ==
    ASSUME NEW d \in Seq(Symbol)
    PROVE  /\ /\ LengthRow(d) \in Seq(Symbol) /\ Len(LengthRow(d)) = Len(d) + 1
              /\ LengthRow(d)[Len(d) + 1] = 0
              /\ \A j \in 1 .. Len(d) : LengthRow(d)[j] = d[j]
           /\ \A k \in Symbol :
              /\ KeyIndexRow(d, k) \in Seq(Symbol) /\ Len(KeyIndexRow(d, k)) = Len(d) + 2
              /\ KeyIndexRow(d, k)[Len(d) + 1] = 1 /\ KeyIndexRow(d, k)[Len(d) + 2] = k
              /\ \A j \in 1 .. Len(d) : KeyIndexRow(d, k)[j] = d[j]
           /\ \A i \in Nat :
              /\ IndexValueRow(d, i) \in Seq(Symbol) /\ Len(IndexValueRow(d, i)) = Len(d) + 2
              /\ IndexValueRow(d, i)[Len(d) + 1] = 2 /\ IndexValueRow(d, i)[Len(d) + 2] = i
              /\ \A j \in 1 .. Len(d) : IndexValueRow(d, i)[j] = d[j]
<1>1. 0 \in Symbol /\ 1 \in Symbol /\ 2 \in Symbol /\ Nat \subseteq Symbol
  BY DEF Symbol
<1>2. ASSUME NEW x \in Symbol, NEW y \in Symbol
      PROVE  /\ d \o <<x, y>> \in Seq(Symbol) /\ Len(d \o <<x, y>>) = Len(d) + 2
             /\ (d \o <<x, y>>)[Len(d) + 1] = x /\ (d \o <<x, y>>)[Len(d) + 2] = y
             /\ \A j \in 1 .. Len(d) : (d \o <<x, y>>)[j] = d[j]
  <2>1. <<x, y>> \in Seq(Symbol) /\ Len(<<x, y>>) = 2 OBVIOUS
  <2> QED BY <2>1
<1>3. ASSUME NEW x \in Symbol
      PROVE  /\ Append(d, x) \in Seq(Symbol) /\ Len(Append(d, x)) = Len(d) + 1
             /\ Append(d, x)[Len(d) + 1] = x
             /\ \A j \in 1 .. Len(d) : Append(d, x)[j] = d[j]
  OBVIOUS
<1> QED BY <1>1, <1>2, <1>3 DEF LengthRow, KeyIndexRow, IndexValueRow

(* Maps of some keys and indices.                                          *)
IsMap(m, keys, c) ==
    m = [len |-> m.len, ki |-> [k \in keys |-> m.ki[k]], iv |-> [i \in 0 .. c - 1 |-> m.iv[i]]]

(* A store with a map in the place of what was there.                      *)
IsSaved(s, t, d, keys, c, m) ==
    /\ LengthRow(d) \in DOMAIN t /\ t[LengthRow(d)] = m.len
    /\ \A k \in keys : Read(t, KeyIndexRow(d, k)) = m.ki[k]
    /\ \A i \in 0 .. c - 1 : Read(t, IndexValueRow(d, i)) = m.iv[i]
    /\ \A r : r \notin MapRows(d, keys, c) => SameRow(s, t, r)
    /\ DOMAIN t \subseteq DOMAIN s \cup MapRows(d, keys, c)

(* `Saved' does so.                                                        *)
LEMMA SavedRows ==
    ASSUME NEW s, NEW d \in Seq(Symbol), NEW keys, keys \subseteq Symbol, NEW c \in Nat,
           NEW m, IsMap(m, keys, c), NEW t, t = Saved(s, d, m)
    PROVE  IsSaved(s, t, d, keys, c, m)
<1> DEFINE kiRows == {KeyIndexRow(d, k) : k \in keys}
           ivRows == {IndexValueRow(d, i) : i \in 0 .. c - 1}
           content(r) == IF r = LengthRow(d) THEN m.len
                         ELSE IF r \in kiRows THEN m.ki[Last(r)] ELSE m.iv[Last(r)]
           rows == {LengthRow(d)} \cup {r \in kiRows : m.ki[Last(r)] # None}
                                  \cup {r \in ivRows : m.iv[Last(r)] # None}
           new == [r \in rows |-> content(r)]
           old == Deleted(s, kiRows \cup ivRows)
<1>1. DOMAIN m.ki = keys /\ DOMAIN m.iv = 0 .. c - 1
  BY DEF IsMap
<1>2. t = Written(old, new)
  BY <1>1 DEF Saved
<1>3. \A i \in 0 .. c - 1 : i \in Nat
  OBVIOUS
<1>4. \A k \in keys : /\ KeyIndexRow(d, k) # LengthRow(d) /\ KeyIndexRow(d, k) \notin ivRows
                      /\ Last(KeyIndexRow(d, k)) = k
  <2> TAKE k \in keys
  <2>1. k \in Symbol OBVIOUS
  <2>2. KeyIndexRow(d, k) # LengthRow(d)
    BY <2>1, RowsOfMap
  <2>3. KeyIndexRow(d, k) \notin ivRows
    <3>1. ASSUME NEW i \in Nat PROVE KeyIndexRow(d, k) # IndexValueRow(d, i)
      <4>1. KeyIndexRow(d, k)[Len(d) + 1] = 1 BY <2>1, RowsOfMap
      <4>2. IndexValueRow(d, i)[Len(d) + 1] = 2 BY RowsOfMap
      <4> QED BY <4>1, <4>2
    <3> QED BY <3>1, <1>3
  <2>4. Last(KeyIndexRow(d, k)) = k
    <3>1. Len(KeyIndexRow(d, k)) = Len(d) + 2 /\ KeyIndexRow(d, k)[Len(d) + 2] = k
      BY <2>1, RowsOfMap
    <3> QED BY <3>1 DEF Last
  <2> QED BY <2>2, <2>3, <2>4
<1>5. \A i \in 0 .. c - 1 : /\ IndexValueRow(d, i) # LengthRow(d) /\ IndexValueRow(d, i) \notin kiRows
                            /\ Last(IndexValueRow(d, i)) = i
  <2> TAKE i \in 0 .. c - 1
  <2>1. i \in Nat OBVIOUS
  <2>2. IndexValueRow(d, i) # LengthRow(d)
    BY <2>1, RowsOfMap
  <2>3. IndexValueRow(d, i) \notin kiRows
    <3>1. ASSUME NEW k \in keys PROVE KeyIndexRow(d, k) # IndexValueRow(d, i)
      BY <1>4
    <3> QED BY <3>1
  <2>4. Last(IndexValueRow(d, i)) = i
    <3>1. Len(IndexValueRow(d, i)) = Len(d) + 2 /\ IndexValueRow(d, i)[Len(d) + 2] = i
      BY <2>1, RowsOfMap
    <3> QED BY <3>1 DEF Last
  <2> QED BY <2>2, <2>3, <2>4
<1>6. DOMAIN new = rows /\ \A r \in rows : new[r] = content(r)
  OBVIOUS
<1>7. MapRows(d, keys, c) = {LengthRow(d)} \cup kiRows \cup ivRows
  BY DEF MapRows
<1>8. /\ DOMAIN t = DOMAIN old \cup rows
      /\ \A r \in rows : r \in DOMAIN t /\ Read(t, r) = content(r) /\ t[r] = content(r)
      /\ \A r : r \notin rows => SameRow(old, t, r)
  <2> HIDE DEF new, old, rows, content
  <2>0. /\ DOMAIN Written(old, new) = DOMAIN old \cup DOMAIN new
        /\ \A r \in DOMAIN new : Read(Written(old, new), r) = new[r]
        /\ \A r : r \notin DOMAIN new => SameRow(old, Written(old, new), r)
    BY WrittenRows
  <2>1. /\ DOMAIN t = DOMAIN old \cup rows
        /\ \A r \in rows : Read(t, r) = new[r]
        /\ \A r : r \notin rows => SameRow(old, t, r)
    BY <1>2, <1>6, <2>0
  <2> QED BY <2>1, <1>6 DEF Read
<1>9. /\ DOMAIN old = DOMAIN s \ (kiRows \cup ivRows)
      /\ \A r \in kiRows \cup ivRows : Read(old, r) = None
      /\ \A r : r \notin kiRows \cup ivRows => SameRow(s, old, r)
  <2> HIDE DEF kiRows, ivRows
  <2> QED BY DeletedRows
<1>10. LengthRow(d) \in DOMAIN t /\ t[LengthRow(d)] = m.len
  BY <1>8
<1>11. \A k \in keys : Read(t, KeyIndexRow(d, k)) = m.ki[k]
  <2> TAKE k \in keys
  <2> DEFINE r == KeyIndexRow(d, k)
  <2>1. r \in kiRows /\ r # LengthRow(d) /\ r \notin ivRows /\ Last(r) = k
    BY <1>4
  <2> HIDE DEF r, kiRows, ivRows
  <2>2. CASE m.ki[k] # None
    <3>1. r \in rows BY <2>1, <2>2
    <3>2. Read(t, r) = content(r) BY <3>1, <1>8
    <3> QED BY <3>2, <2>1 DEF r
  <2>3. CASE m.ki[k] = None
    <3>1. r \notin rows BY <2>1, <2>3
    <3>2. SameRow(old, t, r) BY <3>1, <1>8
    <3> HIDE DEF old, rows
    <3>3. Read(t, r) = Read(old, r) BY <3>2, SameIsRead
    <3>4. Read(old, r) = None BY <2>1, <1>9
    <3> QED BY <3>3, <3>4, <2>3 DEF r
  <2> QED BY <2>2, <2>3 DEF r
<1>12. \A i \in 0 .. c - 1 : Read(t, IndexValueRow(d, i)) = m.iv[i]
  <2> TAKE i \in 0 .. c - 1
  <2> DEFINE r == IndexValueRow(d, i)
  <2>1. r \in ivRows /\ r # LengthRow(d) /\ r \notin kiRows /\ Last(r) = i
    BY <1>5
  <2> HIDE DEF r, kiRows, ivRows
  <2>2. CASE m.iv[i] # None
    <3>1. r \in rows BY <2>1, <2>2
    <3>2. Read(t, r) = content(r) BY <3>1, <1>8
    <3> QED BY <3>2, <2>1 DEF r
  <2>3. CASE m.iv[i] = None
    <3>1. r \notin rows BY <2>1, <2>3
    <3>2. SameRow(old, t, r) BY <3>1, <1>8
    <3> HIDE DEF old, rows
    <3>3. Read(t, r) = Read(old, r) BY <3>2, SameIsRead
    <3>4. Read(old, r) = None BY <2>1, <1>9
    <3> QED BY <3>3, <3>4, <2>3 DEF r
  <2> QED BY <2>2, <2>3 DEF r
<1>13. ASSUME NEW r, r \notin MapRows(d, keys, c) PROVE SameRow(s, t, r)
  <2> HIDE DEF kiRows, ivRows, old, new
  <2>1. r \notin rows /\ r \notin kiRows \cup ivRows
    BY <1>13, <1>7
  <2> HIDE DEF rows
  <2>2. SameRow(old, t, r) /\ SameRow(s, old, r)
    BY <2>1, <1>8, <1>9
  <2> QED BY <2>2 DEF SameRow
<1>14. DOMAIN t \subseteq DOMAIN s \cup MapRows(d, keys, c)
  <2>1. rows \subseteq MapRows(d, keys, c)
    <3> HIDE DEF kiRows, ivRows
    <3> QED BY <1>7
  <2> HIDE DEF rows, kiRows, ivRows, old
  <2> QED BY <2>1, <1>8, <1>9
<1> HIDE DEF kiRows, ivRows, rows, new, old, content
<1> QED BY <1>10, <1>11, <1>12, <1>13, <1>14 DEF IsSaved

(* What was saved is loaded.                                               *)
LEMMA SavedIsLoaded ==
    ASSUME NEW s, NEW t, NEW d, NEW keys, NEW c, NEW m, IsMap(m, keys, c),
           IsSaved(s, t, d, keys, c, m)
    PROVE  Loaded(t, d, keys, c) = m
<1>1. Loaded(t, d, keys, c) = [len |-> m.len, ki |-> [k \in keys |-> m.ki[k]],
                               iv |-> [i \in 0 .. c - 1 |-> m.iv[i]]]
  BY DEF Loaded, IsSaved
<1> QED BY <1>1 DEF IsMap

-----------------------------------------------------------------------------
(* The parts of the account. *)

(* A part is an epoch, a deposit, the fields or the stakes of a pool, or   *)
(* the map of a set of pools.                                              *)
Part == {<<"epoch", 0>>} \cup ({"deposit"} \X (Operators \X Owners))
          \cup ({"fields", "stakes"} \X Handles)
          \cup ({"set"} \X {PrevValidatorPools, ValidatorPools, NextValidatorPools})

FieldRows(x) == {Append(x, f) : f \in PoolField}
StakesRows(x) == MapRows(StakesAt(x), Owners, M)
SetRows(v) == MapRows(<<v>>, Operators, N)

PartRows(P) ==
    CASE P[1] = "epoch" -> {<<CurrentEpoch>>}
      [] P[1] = "deposit" -> DepositRows(P[2])
      [] P[1] = "fields" -> FieldRows(P[2])
      [] P[1] = "stakes" -> StakesRows(P[2])
      [] P[1] = "set" -> SetRows(P[2])

(* The shape of the rows of a map.                                         *)
LEMMA MapRowShape ==
    ASSUME NEW d \in Seq(Symbol), NEW keys, keys \subseteq Symbol, NEW c \in Nat,
           NEW r \in MapRows(d, keys, c)
    PROVE  /\ Len(r) \in {Len(d) + 1, Len(d) + 2} /\ r[Len(d) + 1] \in {0, 1, 2}
           /\ \A j \in 1 .. Len(d) : r[j] = d[j]
<1>1. \A i \in 0 .. c - 1 : i \in Nat
  OBVIOUS
<1>2. CASE r = LengthRow(d)
  BY <1>2, RowsOfMap
<1>3. ASSUME NEW k \in keys, r = KeyIndexRow(d, k)
      PROVE  /\ Len(r) \in {Len(d) + 1, Len(d) + 2} /\ r[Len(d) + 1] \in {0, 1, 2}
             /\ \A j \in 1 .. Len(d) : r[j] = d[j]
  <2>1. k \in Symbol OBVIOUS
  <2> QED BY <2>1, <1>3, RowsOfMap
<1>4. ASSUME NEW i \in Nat, r = IndexValueRow(d, i)
      PROVE  /\ Len(r) \in {Len(d) + 1, Len(d) + 2} /\ r[Len(d) + 1] \in {0, 1, 2}
             /\ \A j \in 1 .. Len(d) : r[j] = d[j]
  BY <1>4, RowsOfMap
<1> QED BY <1>1, <1>2, <1>3, <1>4 DEF MapRows

(* Where a pool is: two symbols or three.                                  *)
LEMMA HandleShape ==
    ASSUME NEW x \in Handles
    PROVE  /\ x \in Seq(Symbol)
           /\ \/ Len(x) = 2 /\ x[1] = 3 /\ x = <<3, x[2]>> /\ x[2] \in Operators
              \/ /\ Len(x) = 3 /\ x[1] \in {0, 1} /\ x[2] = 3 /\ x[3] \in Operators
                 /\ x = <<x[1], 3, x[3]>>
<1>1. CASE \E p \in Operators : x = PoolAt(p)
  BY <1>1 DEF PoolAt, Pools, Symbol
<1>2. CASE \E v \in ValidatorSets, p \in Operators : x = CopyAt(v, p)
  BY <1>2 DEF CopyAt, NestedMap, ValidatorSets, PrevValidatorPools, ValidatorPools, Symbol
<1> QED BY <1>1, <1>2 DEF Handles

(* The shape of the rows of each part.                                     *)
LEMMA DepositShape ==
    ASSUME NEW d \in Operators \X Owners, NEW r \in DepositRows(d)
    PROVE  Len(r) = 4 /\ r[1] = 4 /\ r[2] = d[1] /\ r[3] = d[2]
<1>1. PICK f \in DepositField : r = Append(DepositAt(d[1], d[2]), f)
  BY DEF DepositRows
<1>2. r = Append(<<4, d[1], d[2]>>, f)
  BY <1>1 DEF DepositAt, Deposits
<1>3. <<4, d[1], d[2]>> \in Seq(Symbol) /\ f \in Symbol
  BY DEF Symbol, DepositField, Balance, AutoStakeRewards
<1> QED BY <1>2, <1>3

(* A field of a pool is one symbol below the pool.                         *)
LEMMA FieldShape ==
    ASSUME NEW x \in Handles, NEW r \in FieldRows(x)
    PROVE  /\ Len(r) = Len(x) + 1 /\ r[Len(x) + 1] \in {0, 1, 2, 3}
           /\ \A j \in 1 .. Len(x) : r[j] = x[j]
<1>1. PICK f \in PoolField : r = Append(x, f)
  BY DEF FieldRows
<1>2. f \in {0, 1, 2, 3} /\ f \in Symbol
  BY DEF PoolField, Operator, Power, CommissionRate, OperatorStake, Symbol
<1>3. x \in Seq(Symbol)
  BY HandleShape
<1> QED BY <1>1, <1>2, <1>3

(* The stakes of a pool are below symbol 4.                                *)
LEMMA StakesAtShape ==
    ASSUME NEW x \in Handles
    PROVE  /\ StakesAt(x) \in Seq(Symbol) /\ Len(StakesAt(x)) = Len(x) + 1
           /\ StakesAt(x)[Len(x) + 1] = 4 /\ \A j \in 1 .. Len(x) : StakesAt(x)[j] = x[j]
<1>1. x \in Seq(Symbol) /\ 4 \in Symbol
  BY HandleShape DEF Symbol
<1> QED BY <1>1 DEF StakesAt, DelegatedStakes

(* So are the rows of their map.                                           *)
LEMMA StakesShape ==
    ASSUME NEW x \in Handles, NEW r \in StakesRows(x)
    PROVE  /\ Len(r) \in {Len(x) + 2, Len(x) + 3} /\ r[Len(x) + 1] = 4
           /\ \A j \in 1 .. Len(x) : r[j] = x[j]
<1> DEFINE d == StakesAt(x)
<1>1. /\ d \in Seq(Symbol) /\ Len(d) = Len(x) + 1 /\ d[Len(x) + 1] = 4
      /\ \A j \in 1 .. Len(x) : d[j] = x[j]
  BY StakesAtShape
<1>2. r \in MapRows(d, Owners, M) /\ Owners \subseteq Symbol /\ M \in Nat
  BY SizesArePositive DEF StakesRows, Symbol
<1> HIDE DEF d
<1>3. /\ Len(r) \in {Len(d) + 1, Len(d) + 2}
      /\ \A j \in 1 .. Len(d) : r[j] = d[j]
  BY <1>1, <1>2, MapRowShape
<1>4. Len(x) \in Nat
  BY HandleShape
<1> QED BY <1>1, <1>3, <1>4

(* The rows of a set are below its symbol.                                 *)
LEMMA SetShape ==
    ASSUME NEW v \in Nat, NEW r \in SetRows(v)
    PROVE  Len(r) \in {2, 3} /\ r[1] = v /\ r[2] \in {0, 1, 2}
<1>1. r \in MapRows(<<v>>, Operators, N) /\ Operators \subseteq Symbol /\ N \in Nat
  BY SizesArePositive DEF SetRows, Symbol
<1>2. <<v>> \in Seq(Symbol) /\ Len(<<v>>) = 1 /\ <<v>>[1] = v
  BY DEF Symbol
<1>3. /\ Len(r) \in {Len(<<v>>) + 1, Len(<<v>>) + 2} /\ r[Len(<<v>>) + 1] \in {0, 1, 2}
      /\ \A j \in 1 .. Len(<<v>>) : r[j] = <<v>>[j]
  BY <1>1, <1>2, MapRowShape
<1> QED BY <1>2, <1>3

(* No row belongs to two parts.                                            *)
LEMMA PartsApart ==
    ASSUME NEW P \in Part, NEW Q \in Part, P # Q
    PROVE  PartRows(P) \cap PartRows(Q) = {}
<1> SUFFICES ASSUME NEW r, r \in PartRows(P), r \in PartRows(Q) PROVE FALSE
  OBVIOUS
<1> DEFINE Epoch(A) == A = <<"epoch", 0>> /\ Len(r) = 1
           Deposit(A) == /\ A = <<"deposit", A[2]>> /\ A[2] = <<A[2][1], A[2][2]>>
                         /\ Len(r) = 4 /\ r[1] = 4 /\ r[2] = A[2][1] /\ r[3] = A[2][2]
           Fields(A) == /\ A = <<"fields", A[2]>> /\ A[2] \in Handles
                        /\ Len(r) = Len(A[2]) + 1 /\ r[Len(A[2]) + 1] \in {0, 1, 2, 3}
                        /\ \A j \in 1 .. Len(A[2]) : r[j] = A[2][j]
           Stakes(A) == /\ A = <<"stakes", A[2]>> /\ A[2] \in Handles
                        /\ Len(r) \in {Len(A[2]) + 2, Len(A[2]) + 3} /\ r[Len(A[2]) + 1] = 4
                        /\ \A j \in 1 .. Len(A[2]) : r[j] = A[2][j]
           Set(A) == /\ A = <<"set", A[2]>> /\ A[2] \in {0, 1, 2}
                     /\ Len(r) \in {2, 3} /\ r[1] = A[2] /\ r[2] \in {0, 1, 2}
<1>1. ASSUME NEW A \in Part, r \in PartRows(A)
      PROVE  Epoch(A) \/ Deposit(A) \/ Fields(A) \/ Stakes(A) \/ Set(A)
  <2>1. CASE A = <<"epoch", 0>>
    BY <1>1, <2>1 DEF PartRows
  <2>2. CASE \E d \in Operators \X Owners : A = <<"deposit", d>>
    <3>1. PICK d \in Operators \X Owners : A = <<"deposit", d>> BY <2>2
    <3>2. r \in DepositRows(d) BY <3>1, <1>1 DEF PartRows
    <3>3. Len(r) = 4 /\ r[1] = 4 /\ r[2] = d[1] /\ r[3] = d[2] BY <3>2, DepositShape
    <3> QED BY <3>1, <3>3
  <2>3. CASE \E x \in Handles : A = <<"fields", x>>
    <3>1. PICK x \in Handles : A = <<"fields", x>> BY <2>3
    <3>2. r \in FieldRows(x) BY <3>1, <1>1 DEF PartRows
    <3>3. /\ Len(r) = Len(x) + 1 /\ r[Len(x) + 1] \in {0, 1, 2, 3}
          /\ \A j \in 1 .. Len(x) : r[j] = x[j]
      BY <3>2, FieldShape
    <3> QED BY <3>1, <3>3
  <2>4. CASE \E x \in Handles : A = <<"stakes", x>>
    <3>1. PICK x \in Handles : A = <<"stakes", x>> BY <2>4
    <3>2. r \in StakesRows(x) BY <3>1, <1>1 DEF PartRows
    <3>3. /\ Len(r) \in {Len(x) + 2, Len(x) + 3} /\ r[Len(x) + 1] = 4
          /\ \A j \in 1 .. Len(x) : r[j] = x[j]
      BY <3>2, StakesShape
    <3> QED BY <3>1, <3>3
  <2>5. CASE \E v \in {0, 1, 2} : A = <<"set", v>>
    <3>1. PICK v \in {0, 1, 2} : A = <<"set", v>> BY <2>5
    <3>2. r \in SetRows(v) /\ v \in Nat BY <3>1, <1>1 DEF PartRows
    <3>3. Len(r) \in {2, 3} /\ r[1] = v /\ r[2] \in {0, 1, 2} BY <3>2, SetShape
    <3> QED BY <3>1, <3>3
  <2> QED BY <2>1, <2>2, <2>3, <2>4, <2>5
          DEF Part, PrevValidatorPools, ValidatorPools, NextValidatorPools
<1> DEFINE Two(x) == Len(x) = 2 /\ x[1] = 3 /\ x = <<3, x[2]>>
           Three(x) == Len(x) = 3 /\ x[1] \in {0, 1} /\ x[2] = 3 /\ x = <<x[1], 3, x[3]>>
<1>2. \A x \in Handles : Two(x) \/ Three(x)
  BY HandleShape
<1>3. Epoch(P) \/ Deposit(P) \/ Fields(P) \/ Stakes(P) \/ Set(P)
  BY <1>1
<1>4. Epoch(Q) \/ Deposit(Q) \/ Fields(Q) \/ Stakes(Q) \/ Set(Q)
  BY <1>1
<1>5. ASSUME NEW A, NEW B, Epoch(A) \/ Deposit(A), Deposit(B) \/ Fields(B) \/ Stakes(B) \/ Set(B)
      PROVE  Deposit(A) /\ Deposit(B) /\ A = B
  <2>1. Deposit(A) /\ Deposit(B) => A = B OBVIOUS
  <2>2. ~(Fields(B) \/ Stakes(B))
    <3>1. Fields(B) \/ Stakes(B) => Two(B[2]) \/ Three(B[2]) BY <1>2
    <3> QED BY <1>5, <3>1
  <2>3. ~Set(B) BY <1>5
  <2>4. ~Epoch(A) BY <1>5, <2>2, <2>3
  <2> QED BY <1>5, <2>1, <2>2, <2>3, <2>4
<1>6. ASSUME NEW A, NEW B, Fields(A) \/ Stakes(A), Fields(B) \/ Stakes(B)
      PROVE  A = B
  <2>1. (Two(A[2]) \/ Three(A[2])) /\ (Two(B[2]) \/ Three(B[2])) BY <1>2, <1>6
  <2>2. A[2] = B[2] BY <1>6, <2>1
  <2> QED BY <1>6, <2>2
<1>7. ASSUME NEW A, NEW B, Fields(A) \/ Stakes(A), Set(B) PROVE FALSE
  <2>1. Two(A[2]) \/ Three(A[2]) BY <1>2, <1>7
  <2> QED BY <1>7, <2>1
<1>8. ASSUME NEW A, NEW B, Set(A), Set(B) PROVE A = B
  BY <1>8
<1>9. Epoch(P) /\ Epoch(Q) => P = Q
  OBVIOUS
<1> HIDE DEF Epoch, Deposit, Fields, Stakes, Set
<1> QED BY <1>3, <1>4, <1>5, <1>6, <1>7, <1>8, <1>9

-----------------------------------------------------------------------------
(* What is right of each part. *)

(* A validator set is traced: what is listed is found below the length,    *)
(* and where a key leads there is a value, of that key or not.             *)
Traced(m) ==
    /\ \A i \in 0 .. m.len - 1 :
           /\ m.iv[i] # None /\ m.ki[m.iv[i].key] # None
           /\ m.ki[m.iv[i].key] < m.len /\ m.iv[m.ki[m.iv[i].key]] = m.iv[i]
    /\ \A p \in Operators : m.ki[p] # None => m.iv[m.ki[p]] # None

EpochRight(s) == Read(s, <<CurrentEpoch>>) \in Epochs \cup {None}
DepositRight(s, d) ==
    \A f \in DepositField :
        Read(s, Append(DepositAt(d[1], d[2]), f)) \in DepositValue[f] \cup {None}
FieldsRight(s, x) == \A f \in PoolField : Read(s, Append(x, f)) \in PoolValue[f] \cup {None}
StakesRight(s, x) == StakesOf(s, x) \in StakeMap!IndexMaps
SetRight(s, v) ==
    IF v = NextValidatorPools THEN NextPools(s) \in NextMap!IndexMaps
    ELSE AddressesOf(s, v) \in AddressMap!IndexMaps /\ Traced(AddressesOf(s, v))

Right(s, P) ==
    CASE P[1] = "epoch" -> EpochRight(s)
      [] P[1] = "deposit" -> DepositRight(s, P[2])
      [] P[1] = "fields" -> FieldsRight(s, P[2])
      [] P[1] = "stakes" -> StakesRight(s, P[2])
      [] P[1] = "set" -> SetRight(s, P[2])

AllRows == UNION {PartRows(P) : P \in Part}

(* The inductive invariant.                                                *)
StoreOK(s) == DOMAIN s \subseteq AllRows /\ \A P \in Part : Right(s, P)
IInv == StoreOK(store)

(* Two stores that differ in some parts only.                              *)
Differ(s, t, C) ==
    /\ DOMAIN t \subseteq DOMAIN s \cup AllRows
    /\ \A P \in Part \ C : Same(s, t, PartRows(P))

(* The parts, by kind.                                                     *)
LEMMA PartCases ==
    ASSUME NEW P \in Part
    PROVE  \/ P = <<"epoch", 0>>
           \/ \E d \in Operators \X Owners : P = <<"deposit", d>>
           \/ \E x \in Handles : P = <<"fields", x>> \/ P = <<"stakes", x>>
           \/ \E v \in {0, 1, 2} : P = <<"set", v>>
BY DEF Part, PrevValidatorPools, ValidatorPools, NextValidatorPools

(* What the parts are.                                                     *)
LEMMA PartsAre ==
    /\ <<"epoch", 0>> \in Part
    /\ \A d \in Operators \X Owners : <<"deposit", d>> \in Part
    /\ \A x \in Handles : <<"fields", x>> \in Part /\ <<"stakes", x>> \in Part
    /\ \A v \in {0, 1, 2} : <<"set", v>> \in Part
BY DEF Part, PrevValidatorPools, ValidatorPools, NextValidatorPools

(* The rows of each part.                                                  *)
LEMMA RowsOfParts ==
    /\ PartRows(<<"epoch", 0>>) = {<<CurrentEpoch>>}
    /\ \A d : PartRows(<<"deposit", d>>) = DepositRows(d)
    /\ \A x : PartRows(<<"fields", x>>) = FieldRows(x)
    /\ \A x : PartRows(<<"stakes", x>>) = StakesRows(x)
    /\ \A v : PartRows(<<"set", v>>) = SetRows(v)
BY DEF PartRows

(* What is right in each part.                                             *)
LEMMA RightOfParts ==
    ASSUME NEW s
    PROVE  /\ Right(s, <<"epoch", 0>>) <=> EpochRight(s)
           /\ \A d : Right(s, <<"deposit", d>>) <=> DepositRight(s, d)
           /\ \A x : Right(s, <<"fields", x>>) <=> FieldsRight(s, x)
           /\ \A x : Right(s, <<"stakes", x>>) <=> StakesRight(s, x)
           /\ \A v : Right(s, <<"set", v>>) <=> SetRight(s, v)
BY DEF Right

(* Parts that are the same are read the same.                              *)
LEMMA SameDeposit ==
    ASSUME NEW s, NEW t, NEW d, Same(s, t, DepositRows(d))
    PROVE  \A f \in DepositField : Read(t, Append(DepositAt(d[1], d[2]), f))
                                     = Read(s, Append(DepositAt(d[1], d[2]), f))
BY SameIsRead DEF Same, DepositRows

(* The fields of a pool read the same from the same rows.                  *)
LEMMA SameFields ==
    ASSUME NEW s, NEW t, NEW x, Same(s, t, FieldRows(x))
    PROVE  \A f \in PoolField : Read(t, Append(x, f)) = Read(s, Append(x, f))
BY SameIsRead DEF Same, FieldRows

(* So do its stakes.                                                       *)
LEMMA SameStakes ==
    ASSUME NEW s, NEW t, NEW x, Same(s, t, StakesRows(x))
    PROVE  StakesOf(t, x) = StakesOf(s, x)
BY SameIsLoaded DEF StakesRows, StakesOf

(* So do the sets of pools.                                                *)
LEMMA SameSet ==
    ASSUME NEW s, NEW t, NEW v, Same(s, t, SetRows(v))
    PROVE  /\ AddressesOf(t, v) = AddressesOf(s, v)
           /\ v = NextValidatorPools => NextPools(t) = NextPools(s)
BY SameIsLoaded DEF SetRows, AddressesOf, NextPools

(* What is right stays right while its rows are the same.                  *)
LEMMA SameIsRight ==
    ASSUME NEW s, NEW t, NEW P \in Part, Same(s, t, PartRows(P)), Right(s, P)
    PROVE  Right(t, P)
<1>1. CASE P = <<"epoch", 0>>
  <2>1. SameRow(s, t, <<CurrentEpoch>>) BY <1>1, RowsOfParts DEF Same
  <2>2. Read(t, <<CurrentEpoch>>) = Read(s, <<CurrentEpoch>>) BY <2>1, SameIsRead
  <2> QED BY <1>1, <2>2, RightOfParts DEF EpochRight
<1>2. ASSUME NEW d \in Operators \X Owners, P = <<"deposit", d>> PROVE Right(t, P)
  <2>1. Same(s, t, DepositRows(d)) BY <1>2, RowsOfParts
  <2> QED BY <1>2, <2>1, SameDeposit, RightOfParts DEF DepositRight
<1>3. ASSUME NEW x \in Handles, P = <<"fields", x>> PROVE Right(t, P)
  <2>1. Same(s, t, FieldRows(x)) BY <1>3, RowsOfParts
  <2> QED BY <1>3, <2>1, SameFields, RightOfParts DEF FieldsRight
<1>4. ASSUME NEW x \in Handles, P = <<"stakes", x>> PROVE Right(t, P)
  <2>1. Same(s, t, StakesRows(x)) BY <1>4, RowsOfParts
  <2>2. StakesOf(t, x) = StakesOf(s, x) BY <2>1, SameStakes
  <2> QED BY <1>4, <2>2, RightOfParts DEF StakesRight
<1>5. ASSUME NEW v \in {0, 1, 2}, P = <<"set", v>> PROVE Right(t, P)
  <2>1. Same(s, t, SetRows(v)) BY <1>5, RowsOfParts
  <2>2. /\ AddressesOf(t, v) = AddressesOf(s, v)
        /\ v = NextValidatorPools => NextPools(t) = NextPools(s)
    BY <2>1, SameSet
  <2> QED BY <1>5, <2>2, RightOfParts DEF SetRight
<1> QED BY <1>1, <1>2, <1>3, <1>4, <1>5, PartCases

(* The invariant after parts have changed.                                 *)
LEMMA StoreChanges ==
    ASSUME NEW s, NEW t, NEW C, StoreOK(s), Differ(s, t, C),
           \A P \in Part \cap C : Right(t, P)
    PROVE  StoreOK(t)
<1>1. DOMAIN t \subseteq AllRows BY DEF StoreOK, Differ
<1>2. ASSUME NEW P \in Part PROVE Right(t, P)
  <2>1. CASE P \in C BY <2>1
  <2>2. CASE P \notin C BY <2>2, SameIsRight DEF StoreOK, Differ
  <2> QED BY <2>1, <2>2
<1> QED BY <1>1, <1>2 DEF StoreOK

(* One change after another.                                               *)
LEMMA DifferTwice ==
    ASSUME NEW s, NEW t, NEW u, NEW C, NEW D, Differ(s, t, C), Differ(t, u, D)
    PROVE  Differ(s, u, C \cup D)
<1>1. DOMAIN u \subseteq DOMAIN s \cup AllRows BY DEF Differ
<1>2. ASSUME NEW P \in Part \ (C \cup D) PROVE Same(s, u, PartRows(P))
  <2>1. Same(s, t, PartRows(P)) /\ Same(t, u, PartRows(P)) BY DEF Differ
  <2> QED BY <2>1 DEF Same, SameRow
<1> QED BY <1>1, <1>2 DEF Differ

(* Rows of one part change no other part.                                  *)
LEMMA OnePart ==
    ASSUME NEW s, NEW t, NEW P \in Part, NEW R, R \subseteq PartRows(P),
           DOMAIN t \subseteq DOMAIN s \cup R,
           \A r : r \notin R => SameRow(s, t, r)
    PROVE  Differ(s, t, {P})
<1>1. R \subseteq AllRows BY DEF AllRows
<1>2. ASSUME NEW Q \in Part \ {P} PROVE Same(s, t, PartRows(Q))
  <2>1. PartRows(P) \cap PartRows(Q) = {} BY PartsApart
  <2> QED BY <2>1 DEF Same
<1> QED BY <1>1, <1>2 DEF Differ

(* Writing rows of one part changes that part only.                        *)
LEMMA WrittenPart ==
    ASSUME NEW s, NEW rows, NEW P \in Part, DOMAIN rows \subseteq PartRows(P)
    PROVE  Differ(s, Written(s, rows), {P})
BY WrittenRows, OnePart

(* So does deleting them.                                                  *)
LEMMA DeletedPart ==
    ASSUME NEW s, NEW rows, NEW P \in Part, rows \subseteq PartRows(P)
    PROVE  Differ(s, Deleted(s, rows), {P})
BY DeletedRows, OnePart

-----------------------------------------------------------------------------
(* What the operations of a map do. *)

LessThan == {p \in Nat \X Nat : p[1] < p[2]}

(* A set of numbers has a smallest one.                                    *)
LEMMA SmallestNumber ==
    ASSUME NEW S, S \subseteq Nat, S # {}
    PROVE  \E i \in S : \A j \in S : ~(j < i)
<1>1. IsWellFoundedOn(LessThan, Nat)
  BY NatLessThanWellFounded DEF OpToRel, LessThan
<1>2. \E i \in S : \A j \in S : <<j, i>> \notin LessThan
  BY <1>1, WFMin
<1> QED BY <1>2 DEF LessThan

(* A set of places in a list has a last one.                               *)
LEMMA LastPlace ==
    ASSUME NEW n \in Nat, NEW S, S \subseteq 1 .. n, S # {}
    PROVE  (CHOOSE x \in S : \A y \in S : x >= y) \in S
<1> DEFINE T == {n - j : j \in S}
<1>1. T \subseteq Nat /\ T # {}
  <2>1. ASSUME NEW j \in S PROVE n - j \in Nat
    <3>1. j \in 1 .. n OBVIOUS
    <3> QED BY <3>1
  <2> QED BY <2>1
<1> HIDE DEF T
<1>2. PICK t \in T : \A u \in T : ~(u < t)
  BY <1>1, SmallestNumber
<1>3. PICK x \in S : t = n - x
  BY <1>2 DEF T
<1>4. ASSUME NEW y \in S PROVE x >= y
  <2>1. n - y \in T BY DEF T
  <2>2. ~(n - y < n - x) BY <1>2, <1>3, <2>1
  <2>3. x \in 1 .. n /\ y \in 1 .. n OBVIOUS
  <2> QED BY <2>2, <2>3
<1>5. \E z \in S : \A y \in S : z >= y
  BY <1>4
<1> QED BY <1>5

(* Maps of the three kinds.                                                *)
LEMMA TypedIsMap ==
    /\ \A m \in AddressMap!IndexMaps : IsMap(m, Operators, N)
    /\ \A m \in StakeMap!IndexMaps : IsMap(m, Owners, M)
    /\ \A m \in NextMap!IndexMaps : IsMap(m, Operators, N)
<1>1. ASSUME NEW keys, NEW c, NEW A, NEW B, NEW C, NEW m \in [len : A, ki : [keys -> B], iv : [0 .. c - 1 -> C]]
      PROVE  IsMap(m, keys, c)
  <2>1. /\ m = [len |-> m.len, ki |-> m.ki, iv |-> m.iv]
        /\ m.ki \in [keys -> B] /\ m.iv \in [0 .. c - 1 -> C]
    OBVIOUS
  <2>2. m.ki = [k \in keys |-> m.ki[k]] /\ m.iv = [i \in 0 .. c - 1 |-> m.iv[i]]
    BY <2>1
  <2> QED BY <2>1, <2>2 DEF IsMap
<1>2. \A m \in AddressMap!IndexMaps : IsMap(m, Operators, N)
  BY <1>1 DEF AddressMap!IndexMaps, AddressMap!Index
<1>3. \A m \in StakeMap!IndexMaps : IsMap(m, Owners, M)
  BY <1>1 DEF StakeMap!IndexMaps, StakeMap!Index
<1>4. \A m \in NextMap!IndexMaps : IsMap(m, Operators, N)
  BY <1>1 DEF NextMap!IndexMaps, NextMap!Index
<1> QED BY <1>2, <1>3, <1>4

(* A cleared map is empty.                                                 *)
LEMMA StakesCleared ==
    ASSUME NEW m \in StakeMap!IndexMaps
    PROVE  /\ StakeMap!MapClear(m) \in StakeMap!IndexMaps
           /\ StakeMap!ValuesIn(StakeMap!MapClear(m)) = {}
<1> DEFINE n == StakeMap!MapClear(m)
<1>1. n.len = 0 BY DEF StakeMap!MapClear
<1>2. StakeMap!ValuesIn(n) = {}
  <2> HIDE DEF n
  <2> QED BY <1>1 DEF StakeMap!ValuesIn
<1>3. PICK keys : n = [len |-> 0,
                       ki |-> [k \in Owners |-> IF k \in keys THEN None ELSE m.ki[k]],
                       iv |-> [i \in 0 .. M - 1 |-> IF i < m.len THEN None ELSE m.iv[i]]]
  BY DEF StakeMap!MapClear, StakeMap!Index
<1>4. /\ m.ki \in [Owners -> 0 .. M - 1 \cup {None}]
      /\ m.iv \in [0 .. M - 1 -> Stake \cup {None}]
  BY DEF StakeMap!IndexMaps, StakeMap!Index
<1>5. 0 \in 0 .. M BY SizesArePositive
<1> HIDE DEF n
<1>6. n \in [len : 0 .. M, ki : [Owners -> 0 .. M - 1 \cup {None}],
             iv : [0 .. M - 1 -> Stake \cup {None}]]
  BY <1>3, <1>4, <1>5
<1>7. n \in StakeMap!IndexMaps
  BY <1>6 DEF StakeMap!IndexMaps, StakeMap!Index
<1> QED BY <1>2, <1>7 DEF n

(* The place at which a key is last in a list.                             *)
LEMMA LastOfKey ==
    ASSUME NEW list, NEW k, Len(list) \in Nat, \E j \in 1 .. Len(list) : list[j].key = k,
           NEW S, S = {j \in 1 .. Len(list) : list[j].key = k}
    PROVE  (CHOOSE x \in S : \A y \in S : x >= y) \in 1 .. Len(list)
<1>1. S \subseteq 1 .. Len(list) /\ S # {} OBVIOUS
<1>2. (CHOOSE x \in S : \A y \in S : x >= y) \in S
  BY <1>1, LastPlace
<1> QED BY <1>1, <1>2

(* The values of a list are those of the map it fills.                     *)
LEMMA ValuesOfList ==
    ASSUME NEW list, Len(list) \in Nat, DOMAIN list = 1 .. Len(list),
           NEW iv, \A i \in 0 .. Len(list) - 1 : iv[i] = list[i + 1]
    PROVE  {iv[i] : i \in 0 .. Len(list) - 1} = ToSet(list)
<1>1. ASSUME NEW i \in 0 .. Len(list) - 1 PROVE iv[i] \in ToSet(list)
  <2>1. i + 1 \in DOMAIN list OBVIOUS
  <2> QED BY <2>1 DEF ToSet
<1>2. ASSUME NEW j \in DOMAIN list PROVE \E i \in 0 .. Len(list) - 1 : list[j] = iv[i]
  <2>1. j - 1 \in 0 .. Len(list) - 1 /\ (j - 1) + 1 = j
    OBVIOUS
  <2> QED BY <2>1
<1> QED BY <1>1, <1>2 DEF ToSet

(* Stakes are filled with a list.                                          *)
LEMMA StakesFilled ==
    ASSUME NEW m \in StakeMap!IndexMaps, NEW list \in Seq(Stake), Len(list) <= M
    PROVE  /\ StakeMap!MapFill(m, list) \in StakeMap!IndexMaps
           /\ StakeMap!ValuesIn(StakeMap!MapFill(m, list)) = ToSet(list)
<1> DEFINE n == StakeMap!MapFill(m, list)
           S(k) == {j \in 1 .. Len(list) : list[j].key = k}
           last(k) == CHOOSE x \in S(k) : \A y \in S(k) : x >= y
           In(k) == \E j \in 1 .. Len(list) : list[j].key = k
<1>1. /\ Len(list) \in Nat /\ DOMAIN list = 1 .. Len(list) /\ Len(list) \in 0 .. M
      /\ \A j \in 1 .. Len(list) : list[j] \in Stake
  BY SizesArePositive
<1>2. \A k : In(k) => last(k) \in 1 .. Len(list)
  <2>1. ASSUME NEW k, In(k) PROVE last(k) \in 1 .. Len(list)
    <3>1. S(k) = {j \in 1 .. Len(list) : list[j].key = k} OBVIOUS
    <3> HIDE DEF S
    <3> QED BY <2>1, <3>1, <1>1, LastOfKey
  <2> QED BY <2>1
<1>3. /\ n.len = Len(list)
      /\ n.ki = [k \in Owners |-> IF In(k) THEN last(k) - 1 ELSE m.ki[k]]
      /\ n.iv = [i \in 0 .. M - 1 |-> IF i < Len(list) THEN list[i + 1] ELSE m.iv[i]]
      /\ n = [len |-> n.len, ki |-> n.ki, iv |-> n.iv]
  BY DEF StakeMap!MapFill, StakeMap!Max, StakeMap!Index
<1> HIDE DEF n, last, In
<1>4. /\ m.ki \in [Owners -> 0 .. M - 1 \cup {None}]
      /\ m.iv \in [0 .. M - 1 -> Stake \cup {None}]
  BY DEF StakeMap!IndexMaps, StakeMap!Index
<1>5. n.ki \in [Owners -> 0 .. M - 1 \cup {None}]
  <2>1. \A k : In(k) => last(k) - 1 \in 0 .. M - 1
    BY <1>1, <1>2, SizesArePositive
  <2> QED BY <1>3, <1>4, <2>1
<1>6. n.iv \in [0 .. M - 1 -> Stake \cup {None}]
  <2>1. \A i \in 0 .. M - 1 : i < Len(list) => list[i + 1] \in Stake
    BY <1>1
  <2> QED BY <1>3, <1>4, <2>1
<1>7. n \in [len : 0 .. M, ki : [Owners -> 0 .. M - 1 \cup {None}],
             iv : [0 .. M - 1 -> Stake \cup {None}]]
  BY <1>1, <1>3, <1>5, <1>6
<1>8. {n.iv[i] : i \in 0 .. Len(list) - 1} = ToSet(list)
  <2>1. \A i \in 0 .. Len(list) - 1 : i \in 0 .. M - 1 /\ i < Len(list)
    BY <1>1, SizesArePositive
  <2>2. PICK iv : iv = n.iv OBVIOUS
  <2>3. \A i \in 0 .. Len(list) - 1 : iv[i] = list[i + 1]
    BY <2>1, <2>2, <1>3
  <2>4. {iv[i] : i \in 0 .. Len(list) - 1} = ToSet(list)
    BY <2>3, <1>1, ValuesOfList
  <2> QED BY <2>2, <2>4
<1> QED BY <1>3, <1>7, <1>8 DEF n, StakeMap!IndexMaps, StakeMap!Index, StakeMap!ValuesIn

(* The next pools are filled with a list.                                  *)
LEMMA NextFilled ==
    ASSUME NEW list \in Seq(PoolKey), Len(list) <= N, NEW n,
           n = NextMap!MapFill(NextMap!EmptyMap, list)
    PROVE  n \in NextMap!IndexMaps /\ NextMap!ValuesIn(n) = ToSet(list)
<1> DEFINE S(k) == {j \in 1 .. Len(list) : list[j].key = k}
           last(k) == CHOOSE x \in S(k) : \A y \in S(k) : x >= y
           In(k) == \E j \in 1 .. Len(list) : list[j].key = k
<1>1. /\ Len(list) \in Nat /\ DOMAIN list = 1 .. Len(list) /\ Len(list) \in 0 .. N
      /\ \A j \in 1 .. Len(list) : list[j] \in PoolKey
  BY SizesArePositive
<1>2. \A k : In(k) => last(k) \in 1 .. Len(list)
  <2>1. ASSUME NEW k, In(k) PROVE last(k) \in 1 .. Len(list)
    <3>1. S(k) = {j \in 1 .. Len(list) : list[j].key = k} OBVIOUS
    <3> HIDE DEF S
    <3> QED BY <2>1, <3>1, <1>1, LastOfKey
  <2> QED BY <2>1
<1>3. /\ n.len = Len(list)
      /\ n.ki = [k \in Operators |-> IF In(k) THEN last(k) - 1 ELSE NextMap!EmptyMap.ki[k]]
      /\ n.iv = [i \in 0 .. N - 1 |-> IF i < Len(list) THEN list[i + 1]
                                      ELSE NextMap!EmptyMap.iv[i]]
      /\ n = [len |-> n.len, ki |-> n.ki, iv |-> n.iv]
  BY DEF NextMap!MapFill, NextMap!Max, NextMap!Index
<1> HIDE DEF last, In
<1>4. /\ \A k \in Operators : NextMap!EmptyMap.ki[k] = None
      /\ \A i \in 0 .. N - 1 : NextMap!EmptyMap.iv[i] = None
  BY DEF NextMap!EmptyMap, NextMap!Index
<1>5. n.ki \in [Operators -> 0 .. N - 1 \cup {None}]
  <2>1. \A k : In(k) => last(k) - 1 \in 0 .. N - 1
    BY <1>1, <1>2, SizesArePositive
  <2> QED BY <1>3, <1>4, <2>1
<1>6. n.iv \in [0 .. N - 1 -> PoolKey \cup {None}]
  <2>1. \A i \in 0 .. N - 1 : i < Len(list) => list[i + 1] \in PoolKey
    BY <1>1
  <2> QED BY <1>3, <1>4, <2>1
<1>7. n \in [len : 0 .. N, ki : [Operators -> 0 .. N - 1 \cup {None}],
             iv : [0 .. N - 1 -> PoolKey \cup {None}]]
  BY <1>1, <1>3, <1>5, <1>6
<1>8. {n.iv[i] : i \in 0 .. Len(list) - 1} = ToSet(list)
  <2>1. \A i \in 0 .. Len(list) - 1 : i \in 0 .. N - 1 /\ i < Len(list)
    BY <1>1, SizesArePositive
  <2>2. PICK iv : iv = n.iv OBVIOUS
  <2>3. \A i \in 0 .. Len(list) - 1 : iv[i] = list[i + 1]
    BY <2>1, <2>2, <1>3
  <2>4. {iv[i] : i \in 0 .. Len(list) - 1} = ToSet(list)
    BY <2>3, <1>1, ValuesOfList
  <2> QED BY <2>2, <2>4
<1> QED BY <1>3, <1>7, <1>8 DEF NextMap!IndexMaps, NextMap!Index, NextMap!ValuesIn

-----------------------------------------------------------------------------
(* What is written to a part is read there. *)

BlankPool == [fields |-> [f \in PoolField |-> None], stakes |-> {}]
PoolParts(x) == {<<"fields", x>>, <<"stakes", x>>}

(* Stakes.                                                                 *)
LEMMA StakesSaved ==
    ASSUME NEW s, NEW x \in Handles, NEW m \in StakeMap!IndexMaps,
           NEW t, t = Saved(s, StakesAt(x), m)
    PROVE  Differ(s, t, {<<"stakes", x>>}) /\ StakesOf(t, x) = m /\ StakesRight(t, x)
<1> DEFINE d == StakesAt(x)
           P == <<"stakes", x>>
<1>1. d \in Seq(Symbol) /\ Owners \subseteq Symbol /\ M \in Nat
  BY StakesAtShape, SizesArePositive DEF Symbol
<1>2. IsMap(m, Owners, M) BY TypedIsMap
<1>3. P \in Part BY PartsAre
<1>4. PartRows(P) = MapRows(d, Owners, M)
  BY RowsOfParts DEF StakesRows
<1>5. t = Saved(s, d, m) OBVIOUS
<1>6. StakesOf(t, x) = Loaded(t, d, Owners, M) BY DEF StakesOf
<1> HIDE DEF d, P
<1>7. IsSaved(s, t, d, Owners, M, m)
  BY <1>1, <1>2, <1>5, SavedRows
<1>8. Loaded(t, d, Owners, M) = m
  BY <1>2, <1>7, SavedIsLoaded
<1>9. Differ(s, t, {P})
  BY <1>3, <1>4, <1>7, OnePart DEF IsSaved
<1> QED BY <1>6, <1>8, <1>9 DEF P, StakesRight

(* The addresses of a validator set.                                       *)
LEMMA SetSaved ==
    ASSUME NEW s, NEW v \in {0, 1}, NEW m \in AddressMap!IndexMaps, Traced(m),
           NEW t, t = Saved(s, <<v>>, m)
    PROVE  Differ(s, t, {<<"set", v>>}) /\ AddressesOf(t, v) = m /\ SetRight(t, v)
<1> DEFINE d == <<v>>
           P == <<"set", v>>
<1>1. d \in Seq(Symbol) /\ Operators \subseteq Symbol /\ N \in Nat
  BY SizesArePositive DEF Symbol
<1>2. IsMap(m, Operators, N) BY TypedIsMap
<1>3. P \in Part BY PartsAre
<1>4. PartRows(P) = MapRows(d, Operators, N)
  BY RowsOfParts DEF SetRows
<1>5. t = Saved(s, d, m) OBVIOUS
<1>6. AddressesOf(t, v) = Loaded(t, d, Operators, N) BY DEF AddressesOf
<1> HIDE DEF d, P
<1>7. IsSaved(s, t, d, Operators, N, m)
  BY <1>1, <1>2, <1>5, SavedRows
<1>8. Loaded(t, d, Operators, N) = m
  BY <1>2, <1>7, SavedIsLoaded
<1>9. Differ(s, t, {P})
  BY <1>3, <1>4, <1>7, OnePart DEF IsSaved
<1> QED BY <1>6, <1>8, <1>9 DEF P, SetRight, NextValidatorPools

(* The next pools.                                                         *)
LEMMA NextSaved ==
    ASSUME NEW s, NEW m \in NextMap!IndexMaps, NEW t, t = Saved(s, <<NextValidatorPools>>, m)
    PROVE  Differ(s, t, {<<"set", 2>>}) /\ NextPools(t) = m /\ SetRight(t, 2)
<1> DEFINE d == <<2>>
           P == <<"set", 2>>
<1>1. d \in Seq(Symbol) /\ Operators \subseteq Symbol /\ N \in Nat
  BY SizesArePositive DEF Symbol
<1>2. IsMap(m, Operators, N) BY TypedIsMap
<1>3. P \in Part BY PartsAre
<1>4. PartRows(P) = MapRows(d, Operators, N)
  BY RowsOfParts DEF SetRows
<1>5. t = Saved(s, d, m) BY DEF NextValidatorPools
<1>6. NextPools(t) = Loaded(t, d, Operators, N) BY DEF NextPools, NextValidatorPools
<1> HIDE DEF d, P
<1>7. IsSaved(s, t, d, Operators, N, m)
  BY <1>1, <1>2, <1>5, SavedRows
<1>8. Loaded(t, d, Operators, N) = m
  BY <1>2, <1>7, SavedIsLoaded
<1>9. Differ(s, t, {P})
  BY <1>3, <1>4, <1>7, OnePart DEF IsSaved
<1> QED BY <1>6, <1>8, <1>9 DEF P, SetRight, NextValidatorPools

(* The length of a validator set alone.                                    *)
LEMMA LengthWritten ==
    ASSUME NEW s, NEW v \in {0, 1}, SetRight(s, v),
           NEW t, t = Written(s, [r \in {LengthRow(<<v>>)} |-> 0])
    PROVE  /\ Differ(s, t, {<<"set", v>>}) /\ SetRight(t, v)
           /\ AddressesOf(t, v).len = 0
           /\ AddressesOf(t, v).ki = AddressesOf(s, v).ki
           /\ AddressesOf(t, v).iv = AddressesOf(s, v).iv
<1> DEFINE rows == [r \in {LengthRow(<<v>>)} |-> 0]
           m == AddressesOf(s, v)
           n == AddressesOf(t, v)
<1>1. DOMAIN rows = {LengthRow(<<v>>)} /\ rows[LengthRow(<<v>>)] = 0
  OBVIOUS
<1>2. t = Written(s, rows) OBVIOUS
<1>3. <<v>> \in Seq(Symbol)
  BY DEF Symbol
<1>4. /\ \A k \in Operators : KeyIndexRow(<<v>>, k) # LengthRow(<<v>>)
      /\ \A i \in 0 .. N - 1 : IndexValueRow(<<v>>, i) # LengthRow(<<v>>)
  <2>1. \A k \in Operators : k \in Symbol
    BY DEF Symbol
  <2>2. \A i \in 0 .. N - 1 : i \in Nat
    OBVIOUS
  <2> DEFINE d == <<v>>
  <2> HIDE DEF d
  <2>3. d \in Seq(Symbol) /\ Len(d) \in Nat BY <1>3 DEF d
  <2>4. Len(LengthRow(d)) = Len(d) + 1 BY <2>3, RowsOfMap
  <2>5. ASSUME NEW k \in Symbol PROVE KeyIndexRow(d, k) # LengthRow(d)
    <3>1. Len(KeyIndexRow(d, k)) = Len(d) + 2 BY <2>3, RowsOfMap
    <3> QED BY <3>1, <2>4, <2>3
  <2>6. ASSUME NEW i \in Nat PROVE IndexValueRow(d, i) # LengthRow(d)
    <3>1. Len(IndexValueRow(d, i)) = Len(d) + 2 BY <2>3, RowsOfMap
    <3> QED BY <3>1, <2>4, <2>3
  <2> USE DEF d
  <2> QED BY <2>1, <2>2, <2>5, <2>6
<1> HIDE DEF rows
<1>5. /\ LengthRow(<<v>>) \in DOMAIN t /\ t[LengthRow(<<v>>)] = 0
      /\ \A r : r # LengthRow(<<v>>) => SameRow(s, t, r)
  BY <1>1, <1>2, WrittenRows DEF Written
<1>6. Differ(s, t, {<<"set", v>>})
  <2>1. DOMAIN rows \subseteq PartRows(<<"set", v>>)
    BY <1>1, RowsOfParts DEF SetRows, MapRows
  <2>2. <<"set", v>> \in Part BY PartsAre
  <2> QED BY <1>2, <2>1, <2>2, WrittenPart
<1>7. n.len = 0
  BY <1>5 DEF AddressesOf, Loaded
<1>8. n.ki = m.ki
  <2>1. \A k \in Operators : Read(t, KeyIndexRow(<<v>>, k)) = Read(s, KeyIndexRow(<<v>>, k))
    BY <1>4, <1>5, SameIsRead
  <2> QED BY <2>1 DEF AddressesOf, Loaded
<1>9. n.iv = m.iv
  <2>1. \A i \in 0 .. N - 1 : Read(t, IndexValueRow(<<v>>, i)) = Read(s, IndexValueRow(<<v>>, i))
    BY <1>4, <1>5, SameIsRead
  <2> QED BY <2>1 DEF AddressesOf, Loaded
<1>10. m \in AddressMap!IndexMaps /\ Traced(m)
  BY DEF SetRight, NextValidatorPools
<1>11. n = [len |-> n.len, ki |-> n.ki, iv |-> n.iv]
  BY DEF AddressesOf, Loaded
<1> HIDE DEF m, n
<1>12. n \in AddressMap!IndexMaps
  BY <1>7, <1>8, <1>9, <1>10, <1>11, SizesArePositive DEF AddressMap!IndexMaps
<1>13. Traced(n)
  BY <1>7, <1>8, <1>9, <1>10 DEF Traced
<1>14. SetRight(t, v)
  BY <1>12, <1>13 DEF SetRight, n, NextValidatorPools
<1> QED BY <1>6, <1>7, <1>8, <1>9, <1>14 DEF m, n

(* Some fields of a pool are written.                                      *)
RowsOfFields(x, F) == {Append(x, f) : f \in F}

(* Fields are written, and the other fields stay.                          *)
LEMMA FieldsWritten ==
    ASSUME NEW s, NEW x \in Handles, NEW F, F \subseteq PoolField, NEW rows,
           DOMAIN rows = RowsOfFields(x, F), NEW t, t = Written(s, rows)
    PROVE  /\ Differ(s, t, {<<"fields", x>>})
           /\ \A f \in F : Read(t, Append(x, f)) = rows[Append(x, f)]
           /\ \A f \in PoolField \ F : Read(t, Append(x, f)) = Read(s, Append(x, f))
<1>1. DOMAIN rows \subseteq PartRows(<<"fields", x>>)
  BY RowsOfParts DEF FieldRows, RowsOfFields
<1>2. <<"fields", x>> \in Part BY PartsAre
<1>3. \A f \in PoolField, g \in PoolField : Append(x, f) = Append(x, g) => f = g
  <2>1. x \in Seq(Symbol) BY HandleShape
  <2>2. PoolField \subseteq Symbol
    BY DEF PoolField, Operator, Power, CommissionRate, OperatorStake, Symbol
  <2>3. ASSUME NEW f \in Symbol, NEW g \in Symbol, Append(x, f) = Append(x, g) PROVE f = g
    <3>1. Append(x, f)[Len(x) + 1] = f /\ Append(x, g)[Len(x) + 1] = g BY <2>1
    <3> QED BY <2>3, <3>1
  <2> QED BY <2>2, <2>3
<1>4. \A f \in PoolField \ F : Append(x, f) \notin DOMAIN rows
  BY <1>3 DEF RowsOfFields
<1>5. /\ \A r \in DOMAIN rows : Read(t, r) = rows[r]
      /\ \A r : r \notin DOMAIN rows => SameRow(s, t, r)
  BY WrittenRows
<1>6. Differ(s, t, {<<"fields", x>>})
  BY <1>1, <1>2, WrittenPart
<1>7. \A f \in F : Read(t, Append(x, f)) = rows[Append(x, f)]
  BY <1>5 DEF RowsOfFields
<1>8. \A f \in PoolField \ F : Read(t, Append(x, f)) = Read(s, Append(x, f))
  BY <1>4, <1>5, SameIsRead
<1> QED BY <1>6, <1>7, <1>8

(* A pool that is deleted is blank.                                        *)
LEMMA PoolDeleted ==
    ASSUME NEW s, StoreOK(s), NEW x \in Handles, NEW t, t = WithoutPool(s, x)
    PROVE  StoreOK(t) /\ Differ(s, t, PoolParts(x)) /\ PoolIn(t, x) = BlankPool
<1>1. PICK u : u = Deleted(s, FieldRows(x))
  OBVIOUS
<1>2. <<"fields", x>> \in Part /\ <<"stakes", x>> \in Part
  BY PartsAre
<1>3. Differ(s, u, {<<"fields", x>>})
  BY <1>1, <1>2, DeletedPart, RowsOfParts
<1>4. StakesOf(s, x) \in StakeMap!IndexMaps
  BY <1>2, RightOfParts DEF StoreOK, StakesRight
<1>5. PICK m : m = StakeMap!MapClear(StakesOf(s, x))
  OBVIOUS
<1>6. m \in StakeMap!IndexMaps /\ StakeMap!ValuesIn(m) = {}
  BY <1>4, <1>5, StakesCleared
<1>7. t = Saved(u, StakesAt(x), m)
  BY <1>1, <1>5 DEF WithoutPool, FieldRows
<1>8. Differ(u, t, {<<"stakes", x>>}) /\ StakesOf(t, x) = m /\ StakesRight(t, x)
  BY <1>6, <1>7, StakesSaved
<1>9. Differ(s, t, PoolParts(x))
  <2>1. {<<"fields", x>>} \cup {<<"stakes", x>>} = PoolParts(x)
    BY DEF PoolParts
  <2> QED BY <1>3, <1>8, <2>1, DifferTwice
<1>10. \A f \in PoolField : Read(t, Append(x, f)) = None
  <2>1. \A r \in FieldRows(x) : Read(u, r) = None
    BY <1>1, DeletedRows
  <2>2. Same(u, t, FieldRows(x))
    <3>1. <<"fields", x>> \notin {<<"stakes", x>>} OBVIOUS
    <3>2. Same(u, t, PartRows(<<"fields", x>>)) BY <1>2, <1>8, <3>1 DEF Differ
    <3> QED BY <3>2, RowsOfParts
  <2>3. \A f \in PoolField : Read(t, Append(x, f)) = Read(u, Append(x, f))
    BY <2>2, SameFields
  <2> QED BY <2>1, <2>3 DEF FieldRows
<1>11. FieldsRight(t, x)
  BY <1>10 DEF FieldsRight
<1>12. StoreOK(t)
  <2>1. Right(t, <<"fields", x>>) /\ Right(t, <<"stakes", x>>)
    BY <1>8, <1>11, RightOfParts
  <2>2. \A P \in Part \cap PoolParts(x) : Right(t, P)
    BY <2>1 DEF PoolParts
  <2> QED BY <1>9, <2>2, StoreChanges
<1>13. PoolIn(t, x) = BlankPool
  BY <1>6, <1>8, <1>10 DEF PoolIn, BlankPool
<1> QED BY <1>9, <1>12, <1>13

(* A pool none of whose parts has changed.                                 *)
LEMMA SamePool ==
    ASSUME NEW s, NEW t, NEW C, Differ(s, t, C), NEW x \in Handles, PoolParts(x) \cap C = {}
    PROVE  PoolIn(t, x) = PoolIn(s, x)
<1>1. <<"fields", x>> \in Part \ C /\ <<"stakes", x>> \in Part \ C
  BY PartsAre DEF PoolParts
<1>2. Same(s, t, FieldRows(x)) /\ Same(s, t, StakesRows(x))
  BY <1>1, RowsOfParts DEF Differ
<1>3. \A f \in PoolField : Read(t, Append(x, f)) = Read(s, Append(x, f))
  BY <1>2, SameFields
<1>4. StakesOf(t, x) = StakesOf(s, x)
  BY <1>2, SameStakes
<1> QED BY <1>3, <1>4 DEF PoolIn

-----------------------------------------------------------------------------
(* Clearing a validator set. *)

(* What a validator set lists.                                             *)
LEMMA ListedAre ==
    ASSUME NEW s, StoreOK(s), NEW v \in {0, 1}, NEW m, m = AddressesOf(s, v)
    PROVE  /\ m \in AddressMap!IndexMaps /\ Traced(m) /\ m.len \in 0 .. N
           /\ \A i \in 0 .. m.len - 1 : i \in 0 .. N - 1 /\ m.iv[i] \in PoolAddress
           /\ ListedAt(s, v) = [j \in 1 .. m.len |-> m.iv[j - 1].key]
           /\ Len(ListedAt(s, v)) = m.len
           /\ \A j \in 1 .. m.len : ListedAt(s, v)[j] \in Operators
<1>1. m \in AddressMap!IndexMaps /\ Traced(m)
  <2>1. SetRight(s, v)
    BY PartsAre, RightOfParts DEF StoreOK
  <2> QED BY <2>1 DEF SetRight, NextValidatorPools
<1>2. m.len \in 0 .. N /\ m.len \in Nat
  BY <1>1, SizesArePositive DEF AddressMap!IndexMaps
<1>3. \A i \in 0 .. m.len - 1 : i \in 0 .. N - 1 /\ m.iv[i] \in PoolAddress
  <2> TAKE i \in 0 .. m.len - 1
  <2>1. i \in 0 .. N - 1 BY <1>2, SizesArePositive
  <2>2. m.iv[i] \in PoolAddress \cup {None}
    BY <1>1, <2>1 DEF AddressMap!IndexMaps, AddressMap!Index
  <2>3. m.iv[i] # None BY <1>1 DEF Traced
  <2> QED BY <2>1, <2>2, <2>3
<1>4. ListedAt(s, v) = [j \in 1 .. m.len |-> m.iv[j - 1].key]
  BY DEF ListedAt
<1>5. \A j \in 1 .. m.len : m.iv[j - 1].key \in Operators
  <2> TAKE j \in 1 .. m.len
  <2>1. j - 1 \in 0 .. m.len - 1 BY <1>2
  <2>2. m.iv[j - 1] \in PoolAddress BY <1>3, <2>1
  <2> QED BY <2>2 DEF PoolAddress
<1>6. Len([j \in 1 .. m.len |-> m.iv[j - 1].key]) = m.len
  BY <1>2
<1> QED BY <1>1, <1>2, <1>3, <1>4, <1>5, <1>6

(* The loop of `clear', unfolded: there is a function that does what the   *)
(* definition says, for one pool more if there is one for the pools before.*)
EmptyOne(t, v, p) == WithoutPool(t, CopyAt(v, p))
Unfolded(f, s, v, listed, n) ==
    f = [k \in 0 .. n |-> IF k = 0 THEN s ELSE EmptyOne(f[k - 1], v, listed[k])]

(* There is a function that unfolds the loop of `clear'.                   *)
LEMMA UnfoldedExists ==
    ASSUME NEW s, NEW v, NEW listed, NEW n \in Nat
    PROVE  \E f : Unfolded(f, s, v, listed, n)
<1> DEFINE S == {k \in Nat : ~ \E f : Unfolded(f, s, v, listed, k)}
<1>1. SUFFICES ASSUME S # {} PROVE FALSE
  OBVIOUS
<1>2. PICK k \in S : \A j \in S : ~(j < k)
  BY <1>1, SmallestNumber
<1>3. k \in Nat /\ ~ \E f : Unfolded(f, s, v, listed, k)
  OBVIOUS
<1>4. CASE k = 0
  <2>1. PICK f : f = [j \in 0 .. 0 |-> s] OBVIOUS
  <2>2. \A j \in 0 .. 0 : j = 0 OBVIOUS
  <2>3. [j \in 0 .. 0 |-> IF j = 0 THEN s ELSE EmptyOne(f[j - 1], v, listed[j])] = f
    BY <2>1, <2>2
  <2> QED BY <1>3, <1>4, <2>3 DEF Unfolded
<1>5. CASE k # 0
  <2>1. k - 1 \in Nat /\ k - 1 < k BY <1>3, <1>5
  <2>2. k - 1 \notin S BY <1>2, <2>1
  <2>3. PICK g : Unfolded(g, s, v, listed, k - 1) BY <2>1, <2>2
  <2>4. PICK f : f = [j \in 0 .. k |-> IF j = k THEN EmptyOne(g[k - 1], v, listed[k]) ELSE g[j]]
    OBVIOUS
  <2>5. ASSUME NEW j \in 0 .. k
        PROVE  f[j] = IF j = 0 THEN s ELSE EmptyOne(f[j - 1], v, listed[j])
    <3>1. CASE j = k
      <4>1. k - 1 \in 0 .. k /\ k - 1 # k BY <2>1
      <4>2. f[k - 1] = g[k - 1] BY <2>4, <4>1
      <4>3. f[j] = EmptyOne(g[k - 1], v, listed[k]) BY <2>4, <3>1
      <4> QED BY <1>5, <3>1, <4>2, <4>3
    <3>2. CASE j # k
      <4>1. j \in 0 .. k - 1 BY <1>3, <3>2
      <4>2. f[j] = g[j] BY <2>4, <3>2
      <4>3. g[j] = IF j = 0 THEN s ELSE EmptyOne(g[j - 1], v, listed[j])
        BY <2>3, <4>1 DEF Unfolded
      <4>4. CASE j = 0 BY <4>2, <4>3, <4>4
      <4>5. CASE j # 0
        <5>1. j - 1 \in 0 .. k /\ j - 1 # k BY <1>3, <4>1, <4>5
        <5>2. f[j - 1] = g[j - 1] BY <2>4, <5>1
        <5> QED BY <4>2, <4>3, <4>5, <5>2
      <4> QED BY <4>4, <4>5
    <3> QED BY <3>1, <3>2
  <2>6. DOMAIN f = 0 .. k /\ f = [j \in 0 .. k |-> f[j]] BY <2>4
  <2>7. Unfolded(f, s, v, listed, k)
    BY <2>5, <2>6 DEF Unfolded
  <2> QED BY <1>3, <2>7
<1> QED BY <1>4, <1>5

(* The loop of `clear' is that function.                                   *)
LEMMA EmptyingUnfolds ==
    ASSUME NEW s, NEW v, Len(ListedAt(s, v)) \in Nat
    PROVE  Unfolded(Emptying(s, v), s, v, ListedAt(s, v), Len(ListedAt(s, v)))
<1>1. \E f : Unfolded(f, s, v, ListedAt(s, v), Len(ListedAt(s, v)))
  BY UnfoldedExists
<1>2. Emptying(s, v) = CHOOSE f : Unfolded(f, s, v, ListedAt(s, v), Len(ListedAt(s, v)))
  BY DEF Emptying, Unfolded, EmptyOne
<1> QED BY <1>1, <1>2

CopyParts(v, S) == UNION {PoolParts(CopyAt(v, p)) : p \in S}

(* A difference in some parts is one in more parts.                        *)
LEMMA DifferMore ==
    ASSUME NEW s, NEW t, NEW C, NEW D, Differ(s, t, C), C \subseteq D
    PROVE  Differ(s, t, D)
BY DEF Differ

(* A copy in a set is a pool a caller can have.                            *)
LEMMA CopiesAreHandles ==
    ASSUME NEW v \in {0, 1}, NEW p \in Operators
    PROVE  CopyAt(v, p) \in Handles
BY DEF Handles, ValidatorSets, PrevValidatorPools, ValidatorPools

(* Copies of other pools, or in the other set, are in other places.        *)
LEMMA CopiesDiffer ==
    ASSUME NEW v \in {0, 1}, NEW w \in {0, 1}, NEW p, NEW q, CopyAt(v, p) = CopyAt(w, q)
    PROVE  v = w /\ p = q
BY DEF CopyAt

(* The pools are emptied one by one.                                       *)
LEMMA EmptyingDoes ==
    ASSUME NEW s, StoreOK(s), NEW v \in {0, 1}, NEW L, L = ListedAt(s, v),
           NEW n \in 0 .. Len(L), NEW t, t = Emptying(s, v)[n]
    PROVE  /\ StoreOK(t) /\ Differ(s, t, CopyParts(v, ToSet(L)))
           /\ \A j \in 1 .. n : PoolIn(t, CopyAt(v, L[j])) = BlankPool
<1> DEFINE f == Emptying(s, v)
           C == CopyParts(v, ToSet(L))
           Done(k) == /\ StoreOK(f[k]) /\ Differ(s, f[k], C)
                      /\ \A j \in 1 .. k : PoolIn(f[k], CopyAt(v, L[j])) = BlankPool
           S == {k \in 0 .. Len(L) : ~Done(k)}
<1>1. Len(L) \in Nat /\ DOMAIN L = 1 .. Len(L) /\ \A j \in 1 .. Len(L) : L[j] \in Operators
  <2>1. PICK m : m = AddressesOf(s, v) OBVIOUS
  <2>2. /\ m.len \in 0 .. N /\ L = [j \in 1 .. m.len |-> m.iv[j - 1].key] /\ Len(L) = m.len
        /\ \A j \in 1 .. m.len : L[j] \in Operators
    BY <2>1, ListedAre
  <2>3. Len(L) \in Nat /\ DOMAIN L = 1 .. Len(L) BY <2>2, SizesArePositive
  <2>4. \A j \in 1 .. Len(L) : L[j] \in Operators BY <2>2
  <2> QED BY <2>3, <2>4
<1>2. f = [k \in 0 .. Len(L) |-> IF k = 0 THEN s ELSE EmptyOne(f[k - 1], v, L[k])]
  BY <1>1, EmptyingUnfolds DEF Unfolded
<1> HIDE DEF f, C
<1>3. Done(0)
  <2>1. f[0] = s BY <1>1, <1>2
  <2>2. Differ(s, s, C) BY DEF Differ, Same, SameRow
  <2> QED BY <2>1, <2>2
<1>4. ASSUME NEW k \in 1 .. Len(L), Done(k - 1) PROVE Done(k)
  <2> DEFINE x == CopyAt(v, L[k])
  <2>1. PICK a, b : a = f[k - 1] /\ b = f[k] OBVIOUS
  <2>2. k \in 0 .. Len(L) /\ k # 0 /\ L[k] \in Operators /\ L[k] \in ToSet(L)
    BY <1>1 DEF ToSet
  <2>3. b = WithoutPool(a, x)
    BY <1>2, <2>1, <2>2 DEF EmptyOne
  <2>4. x \in Handles BY <2>2, CopiesAreHandles
  <2>5. PoolParts(x) \subseteq C BY <2>2 DEF C, CopyParts
  <2> HIDE DEF x
  <2>6. StoreOK(a) /\ Differ(s, a, C) BY <1>4, <2>1
  <2>7. StoreOK(b) /\ Differ(a, b, PoolParts(x)) /\ PoolIn(b, x) = BlankPool
    BY <2>3, <2>4, <2>6, PoolDeleted
  <2>8. Differ(s, b, C)
    <3>1. Differ(s, b, C \cup PoolParts(x)) BY <2>6, <2>7, DifferTwice
    <3> QED BY <3>1, <2>5, DifferMore
  <2>9. ASSUME NEW j \in 1 .. k PROVE PoolIn(b, CopyAt(v, L[j])) = BlankPool
    <3>1. CASE L[j] = L[k] BY <3>1, <2>7 DEF x
    <3>2. CASE L[j] # L[k]
      <4> DEFINE y == CopyAt(v, L[j])
      <4>1. j \in 1 .. Len(L) BY <1>1
      <4>2. y \in Handles BY <1>1, <4>1, CopiesAreHandles
      <4>3. j \in 1 .. k - 1 BY <3>2, <1>1
      <4>4. PoolIn(a, y) = BlankPool BY <1>4, <2>1, <4>3
      <4>5. x # y BY <3>2, CopiesDiffer DEF x
      <4> HIDE DEF y
      <4>6. PoolParts(y) \cap PoolParts(x) = {} BY <4>5 DEF PoolParts
      <4>7. PoolIn(b, y) = PoolIn(a, y) BY <2>7, <4>2, <4>6, SamePool
      <4> QED BY <4>4, <4>7 DEF y
    <3> QED BY <3>1, <3>2
  <2> QED BY <2>1, <2>7, <2>8, <2>9
<1> HIDE DEF Done
<1>5. S = {}
  <2> SUFFICES ASSUME S # {} PROVE FALSE
    OBVIOUS
  <2>1. S \subseteq Nat OBVIOUS
  <2> HIDE DEF S
  <2>2. PICK k \in S : \A j \in S : ~(j < k) BY <2>1, SmallestNumber
  <2> USE DEF S
  <2>3. k \in 0 .. Len(L) /\ ~Done(k) OBVIOUS
  <2>4. k # 0 BY <1>3, <2>3
  <2>5. k \in 1 .. Len(L) /\ k - 1 \in 0 .. Len(L) /\ k - 1 < k BY <1>1, <2>3, <2>4
  <2>6. k - 1 \notin S BY <2>2, <2>5
  <2>7. Done(k - 1) BY <2>5, <2>6
  <2> QED BY <1>4, <2>3, <2>5, <2>7
<1>6. Done(n) BY <1>5
<1> QED BY <1>6 DEF Done, f, C

(* `clear': the pools that are listed are blank, the list is empty, and no *)
(* index is touched.                                                       *)
LEMMA ClearDoes ==
    ASSUME IInv, NEW v \in {0, 1}, Clear(v), NEW L, L = ListedAt(store, v)
    PROVE  /\ IInv' /\ Differ(store, store', {<<"set", v>>} \cup CopyParts(v, ToSet(L)))
           /\ \A p \in ToSet(L) : PoolIn(store', CopyAt(v, p)) = BlankPool
           /\ AddressesOf(store', v).len = 0
           /\ AddressesOf(store', v).ki = AddressesOf(store, v).ki
           /\ AddressesOf(store', v).iv = AddressesOf(store, v).iv
<1> DEFINE C == CopyParts(v, ToSet(L))
           P == <<"set", v>>
<1>1. PICK s, u : s = store /\ u = store' OBVIOUS
<1>2. StoreOK(s) BY <1>1 DEF IInv
<1>3. Len(L) \in Nat /\ DOMAIN L = 1 .. Len(L)
  <2>1. PICK m : m = AddressesOf(s, v) OBVIOUS
  <2>2. /\ m.len \in 0 .. N /\ L = [j \in 1 .. m.len |-> m.iv[j - 1].key] /\ Len(L) = m.len
    BY <1>1, <1>2, <2>1, ListedAre
  <2> QED BY <2>2, SizesArePositive
<1>4. PICK t : t = Emptying(s, v)[Len(L)] OBVIOUS
<1>5. u = Written(t, [r \in {LengthRow(<<v>>)} |-> 0])
  BY <1>1, <1>4 DEF Clear
<1>6. /\ StoreOK(t) /\ Differ(s, t, C)
      /\ \A j \in 1 .. Len(L) : PoolIn(t, CopyAt(v, L[j])) = BlankPool
  <2>1. L = ListedAt(s, v) /\ Len(L) \in 0 .. Len(L) BY <1>1, <1>3
  <2>2. PICK n \in 0 .. Len(L) : n = Len(L) BY <2>1
  <2>3. t = Emptying(s, v)[n] BY <1>4, <2>2
  <2>4. /\ StoreOK(t) /\ Differ(s, t, CopyParts(v, ToSet(L)))
        /\ \A j \in 1 .. n : PoolIn(t, CopyAt(v, L[j])) = BlankPool
    BY <1>2, <2>1, <2>3, EmptyingDoes
  <2> QED BY <2>2, <2>4
<1>7. P \in Part BY PartsAre
<1>8. SetRight(t, v) BY <1>6, <1>7, RightOfParts DEF StoreOK
<1>9. /\ Differ(t, u, {P}) /\ SetRight(u, v) /\ AddressesOf(u, v).len = 0
      /\ AddressesOf(u, v).ki = AddressesOf(t, v).ki
      /\ AddressesOf(u, v).iv = AddressesOf(t, v).iv
  BY <1>5, <1>8, LengthWritten
<1>10. P \notin C BY DEF CopyParts, PoolParts
<1> HIDE DEF C
<1>11. AddressesOf(t, v) = AddressesOf(s, v)
  <2>1. Same(s, t, SetRows(v))
    BY <1>6, <1>7, <1>10, RowsOfParts DEF Differ
  <2> QED BY <2>1, SameSet
<1>12. StoreOK(u)
  <2>1. Right(u, P) BY <1>9, RightOfParts
  <2>2. \A Q \in Part \cap {P} : Right(u, Q) BY <2>1
  <2> QED BY <1>6, <1>9, <2>2, StoreChanges
<1>13. Differ(s, u, {P} \cup C)
  <2>1. Differ(s, u, C \cup {P}) BY <1>6, <1>9, DifferTwice
  <2> QED BY <2>1, DifferMore
<1>14. ASSUME NEW p \in ToSet(L) PROVE PoolIn(u, CopyAt(v, p)) = BlankPool
  <2>1. PICK j \in 1 .. Len(L) : p = L[j] BY <1>3 DEF ToSet
  <2>2. PoolIn(t, CopyAt(v, p)) = BlankPool BY <1>6, <2>1
  <2>3. p \in Operators BY <1>1, <1>2, <2>1, <1>3, ListedAre
  <2>4. CopyAt(v, p) \in Handles BY <2>3, CopiesAreHandles
  <2>5. PoolParts(CopyAt(v, p)) \cap {P} = {} BY DEF PoolParts
  <2>6. PoolIn(u, CopyAt(v, p)) = PoolIn(t, CopyAt(v, p))
    BY <1>9, <2>4, <2>5, SamePool
  <2> QED BY <2>2, <2>6
<1> QED BY <1>1, <1>9, <1>11, <1>12, <1>13, <1>14 DEF IInv, C

-----------------------------------------------------------------------------
(* Pushing a pool. *)

(* `push' of an address: where it led before does not matter.              *)
LEMMA AddressPushed ==
    ASSUME NEW m \in AddressMap!IndexMaps, Traced(m), NEW p \in Operators, m.len < N,
           NEW n, n = AddressMap!MapPush(m, [key |-> p])
    PROVE  /\ n \in AddressMap!IndexMaps /\ Traced(n) /\ n.len = m.len + 1
           /\ \A q \in Operators : n.ki[q] = IF q = p THEN m.len ELSE m.ki[q]
           /\ \A i \in 0 .. N - 1 : n.iv[i] = IF i = m.len THEN [key |-> p] ELSE m.iv[i]
<1> DEFINE a == [key |-> p]
<1>1. a \in PoolAddress /\ a.key = p /\ a # None
  BY NoneIsNoIndex DEF PoolAddress
<1> HIDE DEF a
<1>2. /\ m.len \in 0 .. N - 1 /\ m.len \in Nat /\ m.len + 1 \in 0 .. N /\ m.len \in 0 .. N
      /\ m.ki \in [Operators -> 0 .. N - 1 \cup {None}]
      /\ m.iv \in [0 .. N - 1 -> PoolAddress \cup {None}]
  BY SizesArePositive DEF AddressMap!IndexMaps, AddressMap!Index
<1>3. n = [len |-> m.len + 1, ki |-> [m.ki EXCEPT ![p] = m.len],
           iv |-> [m.iv EXCEPT ![m.len] = a]]
  BY <1>1 DEF AddressMap!MapPush, AddressMap!WithLength, AddressMap!MapSet, a
<1>4. \A q \in Operators : n.ki[q] = IF q = p THEN m.len ELSE m.ki[q]
  BY <1>2, <1>3
<1>5. \A i \in 0 .. N - 1 : n.iv[i] = IF i = m.len THEN a ELSE m.iv[i]
  <2>1. n.iv = [m.iv EXCEPT ![m.len] = a] BY <1>3
  <2> QED BY <1>2, <2>1
<1>6. n \in AddressMap!IndexMaps
  <2>1. [m.ki EXCEPT ![p] = m.len] \in [Operators -> 0 .. N - 1 \cup {None}]
    BY <1>2
  <2>2. [m.iv EXCEPT ![m.len] = a] \in [0 .. N - 1 -> PoolAddress \cup {None}]
    BY <1>1, <1>2
  <2>3. PICK K, V : K = [m.ki EXCEPT ![p] = m.len] /\ V = [m.iv EXCEPT ![m.len] = a]
    OBVIOUS
  <2>4. n = [len |-> m.len + 1, ki |-> K, iv |-> V] BY <1>3, <2>3
  <2>5. n \in [len : 0 .. N, ki : [Operators -> 0 .. N - 1 \cup {None}],
               iv : [0 .. N - 1 -> PoolAddress \cup {None}]]
    <3>1. K \in [Operators -> 0 .. N - 1 \cup {None}] BY <2>1, <2>3
    <3>2. V \in [0 .. N - 1 -> PoolAddress \cup {None}] BY <2>2, <2>3
    <3>3. m.len + 1 \in 0 .. N BY <1>2
    <3> QED BY ONLY <2>4, <3>1, <3>2, <3>3
  <2> QED BY <2>5 DEF AddressMap!IndexMaps, AddressMap!Index
<1>7. n.len = m.len + 1 BY <1>3
<1>8. m.len # None BY <1>2, NoneIsNoIndex
<1>9. ASSUME NEW i \in 0 .. n.len - 1
      PROVE  /\ n.iv[i] # None /\ n.ki[n.iv[i].key] # None
             /\ n.ki[n.iv[i].key] < n.len /\ n.iv[n.ki[n.iv[i].key]] = n.iv[i]
  <2>1. CASE i = m.len
    <3>1. n.iv[i] = a BY <1>2, <1>5, <2>1
    <3>2. n.ki[p] = m.len BY <1>4
    <3> QED BY <1>1, <1>2, <1>7, <1>8, <2>1, <3>1, <3>2
  <2>2. CASE i # m.len
    <3> DEFINE q == m.iv[i].key
               e == m.ki[q]
    <3>0. i \in Nat /\ i <= m.len BY <1>2, <1>7
    <3>1. i \in 0 .. m.len - 1 /\ i \in 0 .. N - 1 BY <1>2, <2>2, <3>0, SizesArePositive
    <3>2. n.iv[i] = m.iv[i] BY <1>5, <2>2, <3>1
    <3>3. m.iv[i] # None /\ e # None /\ e < m.len /\ m.iv[e] = m.iv[i]
      BY <3>1 DEF Traced
    <3>4. m.iv[i] \in PoolAddress BY <1>2, <3>1, <3>3
    <3>5. q \in Operators /\ m.iv[i] = [key |-> q] BY <3>4 DEF PoolAddress
    <3>6. e \in 0 .. N - 1 BY <1>2, <3>3, <3>5
    <3>7. CASE q = p
      <4>1. n.ki[q] = m.len BY <1>4, <3>5, <3>7
      <4>2. n.iv[m.len] = a BY <1>2, <1>5
      <4>3. m.iv[i] = a BY <3>5, <3>7 DEF a
      <4> QED BY <1>1, <1>2, <1>7, <1>8, <3>2, <3>7, <4>1, <4>2, <4>3
    <3>8. CASE q # p
      <4>1. n.ki[q] = e BY <1>4, <3>5, <3>8
      <4>2. n.iv[e] = m.iv[e] BY <1>5, <3>3, <3>6, <1>2
      <4>3. e < n.len BY <1>2, <1>7, <3>3, <3>6
      <4> QED BY <3>2, <3>3, <4>1, <4>2, <4>3
    <3> QED BY <3>7, <3>8
  <2> QED BY <2>1, <2>2
<1>10. ASSUME NEW q \in Operators, n.ki[q] # None PROVE n.iv[n.ki[q]] # None
  <2>1. CASE q = p BY <1>1, <1>2, <1>4, <1>5, <2>1
  <2>2. CASE q # p
    <3>1. n.ki[q] = m.ki[q] /\ m.ki[q] # None BY <1>4, <1>10, <2>2
    <3>2. m.iv[m.ki[q]] # None BY <3>1 DEF Traced
    <3>3. m.ki[q] \in 0 .. N - 1 BY <1>2, <3>1
    <3>4. n.iv[m.ki[q]] = a \/ n.iv[m.ki[q]] = m.iv[m.ki[q]] BY <1>5, <3>3
    <3> QED BY <1>1, <3>1, <3>2, <3>4
  <2> QED BY <2>1, <2>2
<1>11. Traced(n) BY <1>9, <1>10 DEF Traced
<1> QED BY <1>4, <1>5, <1>6, <1>7, <1>11 DEF a

(* A pool with its four fields.                                            *)
LEMMA PoolRecordFields ==
    ASSUME NEW pool \in PoolRecord
    PROVE  /\ pool = [f \in PoolField |-> pool[f]] /\ pool[Operator] \in Operators
           /\ \A f \in PoolField : pool[f] \in PoolValue[f]
<1>1. PICK p \in Operators, w \in Powers, r \in Rates, s \in OwnStakes :
          pool = [f \in PoolField |-> CASE f = Operator -> p [] f = Power -> w
                                        [] f = CommissionRate -> r [] OTHER -> s]
  BY DEF PoolRecord
<1>2. pool[0] = p /\ pool[1] = w /\ pool[2] = r /\ pool[3] = s
  BY <1>1 DEF PoolField, Operator, Power, CommissionRate, OperatorStake
<1>3. /\ PoolValue[0] = Operators /\ PoolValue[1] = Powers /\ PoolValue[2] = Rates
      /\ PoolValue[3] = OwnStakes
  BY DEF PoolValue, PoolField, Operator, Power, CommissionRate, OperatorStake
<1>4. pool = [f \in PoolField |-> pool[f]]
  BY <1>1
<1> QED BY <1>2, <1>3, <1>4 DEF PoolField, Operator, Power, CommissionRate, OperatorStake

(* `push', where there is room.                                            *)
HasPushed(s, t, v, pool, list) ==
    LET p == pool[Operator]
        x == CopyAt(v, p)
    IN  /\ Differ(s, t, {<<"set", v>>} \cup PoolParts(x))
        /\ AddressesOf(t, v) = AddressMap!MapPush(AddressesOf(s, v), [key |-> p])
        /\ PoolIn(t, x) =
             [fields |-> pool,
              stakes |-> IF Len(list) > M THEN PoolIn(s, x).stakes ELSE ToSet(list)]

(* `push' changes the set and the copy, and both are right.                *)
LEMMA PushDoes ==
    ASSUME IInv, NEW v \in {0, 1}, NEW pool \in PoolRecord, NEW list \in Lists,
           AddressesOf(store, v).len < N, Push(v, pool, list)
    PROVE  IInv' /\ HasPushed(store, store', v, pool, list)
<1> PICK m, p, x : /\ m = AddressesOf(store, v) /\ p = pool[Operator] /\ x = CopyAt(v, p)
                   /\ m.len < N
  OBVIOUS
<1> DEFINE P == <<"set", v>>
           F == <<"fields", x>>
           G == <<"stakes", x>>
           Done == /\ IInv' /\ Differ(store, store', {P} \cup PoolParts(x))
                   /\ AddressesOf(store', v) = AddressMap!MapPush(m, [key |-> p])
                   /\ PoolIn(store', x) =
                        [fields |-> pool,
                         stakes |-> IF Len(list) > M THEN PoolIn(store, x).stakes ELSE ToSet(list)]
<1>1. PICK s, u : s = store /\ u = store' OBVIOUS
<1>2. StoreOK(s) BY <1>1 DEF IInv
<1>3. m \in AddressMap!IndexMaps /\ Traced(m) /\ m.len \in 0 .. N
  BY <1>1, <1>2, ListedAre
<1>4. /\ p \in Operators /\ pool = [f \in PoolField |-> pool[f]]
      /\ \A f \in PoolField : pool[f] \in PoolValue[f]
  BY PoolRecordFields
<1>5. x \in Handles BY <1>4, CopiesAreHandles
<1>6. PICK n : n = AddressMap!MapPush(m, [key |-> p]) OBVIOUS
<1>7. n \in AddressMap!IndexMaps /\ Traced(n)
  BY <1>3, <1>4, <1>6, AddressPushed
<1>8. PICK t : t = Saved(s, <<v>>, n) OBVIOUS
<1>9. PICK rows : rows = [r \in {Append(x, f) : f \in PoolField} |-> pool[Last(r)]] OBVIOUS
<1>10. PICK w : w = Written(t, rows) OBVIOUS
<1>11. u = StakesReset(w, x, list)
  <2>1. m.len \in Nat /\ ~(m.len >= N) BY <1>3, SizesArePositive
  <2> QED BY <1>1, <1>6, <1>8, <1>9, <1>10, <2>1 DEF Push
<1>12. P \in Part /\ F \in Part /\ G \in Part
  BY <1>5, PartsAre
<1>13. P # F /\ P # G /\ F # G OBVIOUS
<1>14. Differ(s, t, {P}) /\ AddressesOf(t, v) = n /\ SetRight(t, v)
  BY <1>7, <1>8, SetSaved
<1>15. /\ DOMAIN rows = {Append(x, f) : f \in PoolField}
       /\ \A f \in PoolField : rows[Append(x, f)] = pool[f]
  <2>1. DOMAIN rows = {Append(x, f) : f \in PoolField} BY <1>9
  <2>2. ASSUME NEW f \in PoolField PROVE rows[Append(x, f)] = pool[f]
    <3>1. Last(Append(x, f)) = f
      <4>1. x \in Seq(Symbol) BY <1>5, HandleShape
      <4>2. f \in Symbol
        BY DEF PoolField, Operator, Power, CommissionRate, OperatorStake, Symbol
      <4>3. Len(Append(x, f)) = Len(x) + 1 /\ Append(x, f)[Len(x) + 1] = f
        BY <4>1, <4>2
      <4> QED BY <4>3 DEF Last
    <3> QED BY <1>9, <3>1
  <2> QED BY <2>1, <2>2
<1>16. Differ(t, w, {F}) /\ \A f \in PoolField : Read(w, Append(x, f)) = pool[f]
  <2>1. PICK A : A = PoolField OBVIOUS
  <2>2. /\ Differ(t, w, {<<"fields", x>>})
        /\ \A f \in A : Read(w, Append(x, f)) = rows[Append(x, f)]
    <3>1. A \subseteq PoolField /\ DOMAIN rows = RowsOfFields(x, A)
      BY <1>15, <2>1 DEF RowsOfFields
    <3>2. x \in Handles /\ w = Written(t, rows) BY <1>5, <1>10
    <3> QED BY ONLY <3>1, <3>2, FieldsWritten
  <2> QED BY <1>15, <2>1, <2>2
<1> HIDE DEF P, F, G
<1>17. StoreOK(t)
  <2>1. Right(t, P) BY <1>14, RightOfParts DEF P
  <2>2. \A Q \in Part \cap {P} : Right(t, Q) BY <2>1
  <2> QED BY <1>2, <1>14, <2>2, StoreChanges
<1>18. StoreOK(w)
  <2>1. FieldsRight(w, x) BY <1>4, <1>16 DEF FieldsRight
  <2>2. Right(w, F) BY <2>1, RightOfParts DEF F
  <2>3. \A Q \in Part \cap {F} : Right(w, Q) BY <2>2
  <2> QED BY <1>16, <1>17, <2>3, StoreChanges
<1>19. AddressesOf(w, v) = n
  <2>1. P \in Part \ {F} BY <1>12, <1>13
  <2>2. Same(t, w, SetRows(v)) BY <1>16, <2>1, RowsOfParts DEF Differ, P
  <2> QED BY <1>14, <2>2, SameSet
<1>20. Differ(s, w, {P} \cup {F})
  BY <1>14, <1>16, DifferTwice
<1>21. StakesOf(w, x) = StakesOf(s, x)
  <2>1. G \in Part \ ({P} \cup {F}) BY <1>12, <1>13
  <2>2. Same(s, w, StakesRows(x)) BY <1>20, <2>1, RowsOfParts DEF Differ, G
  <2> QED BY <2>2, SameStakes
<1>22. PoolParts(x) = {F, G} BY DEF PoolParts, F, G
<1>23. ASSUME Len(list) > M PROVE Done
  <2>1. u = w BY <1>11, <1>23 DEF StakesReset
  <2>2. Differ(s, u, {P} \cup PoolParts(x))
    BY <1>20, <1>22, <2>1, DifferMore
  <2>3. PoolIn(u, x) = [fields |-> pool, stakes |-> PoolIn(s, x).stakes]
    BY <1>4, <1>16, <1>21, <2>1 DEF PoolIn
  <2> QED BY <1>1, <1>6, <1>18, <1>19, <1>23, <2>1, <2>2, <2>3 DEF IInv
<1>24. ASSUME ~(Len(list) > M) PROVE Done
  <2>1. list \in Seq(Stake) /\ Len(list) <= M
    <3>1. list \in Seq(Stake) BY ListsOfStakes DEF Stake
    <3>2. Len(list) \in Nat BY <3>1
    <3> QED BY <1>24, <3>1, <3>2, SizesArePositive
  <2>2. StakesOf(w, x) \in StakeMap!IndexMaps
    BY <1>12, <1>18, RightOfParts DEF StoreOK, StakesRight, G
  <2>3. PICK c : c = StakeMap!MapClear(StakesOf(w, x)) OBVIOUS
  <2>4. c \in StakeMap!IndexMaps BY <2>2, <2>3, StakesCleared
  <2>5. PICK k : k = StakeMap!MapFill(c, list) OBVIOUS
  <2>6. k \in StakeMap!IndexMaps /\ StakeMap!ValuesIn(k) = ToSet(list)
    BY <2>1, <2>4, <2>5, StakesFilled
  <2>7. u = Saved(w, StakesAt(x), k)
    BY <1>11, <1>24, <2>3, <2>5 DEF StakesReset
  <2>8. Differ(w, u, {G}) /\ StakesOf(u, x) = k /\ StakesRight(u, x)
    BY <1>5, <2>6, <2>7, StakesSaved DEF G
  <2>9. StoreOK(u)
    <3>1. Right(u, G) BY <2>8, RightOfParts DEF G
    <3>2. \A Q \in Part \cap {G} : Right(u, Q) BY <3>1
    <3> QED BY <1>18, <2>8, <3>2, StoreChanges
  <2>10. Differ(s, u, {P} \cup PoolParts(x))
    <3>1. Differ(s, u, ({P} \cup {F}) \cup {G}) BY <1>20, <2>8, DifferTwice
    <3> QED BY <1>22, <3>1, DifferMore
  <2>11. AddressesOf(u, v) = n
    <3>1. P \in Part \ {G} BY <1>12, <1>13
    <3>2. Same(w, u, SetRows(v)) BY <2>8, <3>1, RowsOfParts DEF Differ, P
    <3> QED BY <1>19, <3>2, SameSet
  <2>12. PoolIn(u, x) = [fields |-> pool, stakes |-> ToSet(list)]
    <3>1. F \in Part \ {G} BY <1>12, <1>13
    <3>2. Same(w, u, FieldRows(x)) BY <2>8, <3>1, RowsOfParts DEF Differ, F
    <3>3. \A f \in PoolField : Read(u, Append(x, f)) = pool[f]
      BY <1>16, <3>2, SameFields
    <3> QED BY <1>4, <2>6, <2>8, <3>3 DEF PoolIn
  <2> QED BY <1>1, <1>6, <1>24, <2>9, <2>10, <2>11, <2>12 DEF IInv
<1>25. Done BY <1>23, <1>24
<1> QED BY <1>25 DEF HasPushed, P

-----------------------------------------------------------------------------
(* What the other calls do. *)

NoDeposit == [f \in DepositField |-> None]

(* One part has changed and is right.                                      *)
LEMMA OnePartIsRight ==
    ASSUME IInv, NEW P \in Part, Differ(store, store', {P}), Right(store', P)
    PROVE  IInv'
<1>1. \A Q \in Part \cap {P} : Right(store', Q) OBVIOUS
<1>2. PICK s, u : s = store /\ u = store' OBVIOUS
<1>3. StoreOK(u) BY <1>1, <1>2, StoreChanges DEF IInv
<1> QED BY <1>2, <1>3 DEF IInv

(* `set_current_epoch'.                                                    *)
LEMMA EpochDoes ==
    ASSUME IInv, NEW e \in Epochs, SetCurrentEpoch(e)
    PROVE  /\ IInv' /\ Differ(store, store', {<<"epoch", 0>>})
           /\ EpochIn(store') = e
<1>1. PICK s, t : s = store /\ t = store' OBVIOUS
<1>2. PICK rows : rows = [r \in {<<CurrentEpoch>>} |-> e] OBVIOUS
<1>3. t = Written(s, rows) BY <1>1, <1>2 DEF SetCurrentEpoch
<1>4. DOMAIN rows = {<<CurrentEpoch>>} /\ rows[<<CurrentEpoch>>] = e BY <1>2
<1>5. Differ(s, t, {<<"epoch", 0>>})
  BY <1>3, <1>4, WrittenPart, PartsAre, RowsOfParts
<1>6. <<CurrentEpoch>> \in DOMAIN t /\ t[<<CurrentEpoch>>] = e
  BY <1>3, <1>4 DEF Written
<1>7. Right(t, <<"epoch", 0>>)
  BY <1>6, RightOfParts DEF EpochRight, Read
<1>8. IInv' BY <1>1, <1>5, <1>7, OnePartIsRight, PartsAre
<1> QED BY <1>1, <1>5, <1>6, <1>8 DEF EpochIn

(* A deposit's rows are told apart by their field.                         *)
LEMMA DepositFieldsDiffer ==
    ASSUME NEW d \in Operators \X Owners, NEW f \in DepositField, NEW g \in DepositField,
           Append(DepositAt(d[1], d[2]), f) = Append(DepositAt(d[1], d[2]), g)
    PROVE  f = g
<1>1. PICK b : b = DepositAt(d[1], d[2]) OBVIOUS
<1>2. b \in Seq(Symbol) BY <1>1 DEF DepositAt, Deposits, Symbol
<1>3. f \in Symbol /\ g \in Symbol BY DEF DepositField, Balance, AutoStakeRewards, Symbol
<1>4. Append(b, f)[Len(b) + 1] = f /\ Append(b, g)[Len(b) + 1] = g BY <1>2, <1>3
<1> QED BY <1>1, <1>4

(* The setters of `DepositDict'.                                           *)
LEMMA SetDepositDoes ==
    ASSUME IInv, NEW p \in Operators, NEW o \in Owners, NEW f \in DepositField,
           NEW x \in DepositValue[f], SetDeposit(p, o, f, x), NEW d, d = <<p, o>>
    PROVE  /\ IInv' /\ Differ(store, store', {<<"deposit", d>>})
           /\ DepositIn(store', d) = [DepositIn(store, d) EXCEPT ![f] = x]
<1>1. PICK s, t : s = store /\ t = store' OBVIOUS
<1>2. PICK b : b = DepositAt(p, o) OBVIOUS
<1>3. d[1] = p /\ d[2] = o /\ d \in Operators \X Owners OBVIOUS
<1>4. PICK rows : rows = [r \in {Append(b, f)} |-> x] OBVIOUS
<1>5. t = Written(s, rows) BY <1>1, <1>2, <1>4 DEF SetDeposit
<1>6. DOMAIN rows = {Append(b, f)} /\ rows[Append(b, f)] = x BY <1>4
<1>7. <<"deposit", d>> \in Part BY <1>3, PartsAre
<1>8. DOMAIN rows \subseteq PartRows(<<"deposit", d>>)
  <2>1. Append(b, f) \in DepositRows(d) BY <1>2, <1>3 DEF DepositRows
  <2> QED BY <1>6, <2>1, RowsOfParts
<1>9. Differ(s, t, {<<"deposit", d>>})
  BY <1>5, <1>7, <1>8, WrittenPart
<1>10. ASSUME NEW g \in DepositField
       PROVE  Read(t, Append(b, g)) = IF g = f THEN x ELSE Read(s, Append(b, g))
  <2>1. CASE g = f BY <1>5, <1>6, <2>1, WrittenRows
  <2>2. CASE g # f
    <3>1. Append(b, g) \notin DOMAIN rows
      BY <1>2, <1>3, <1>6, <2>2, DepositFieldsDiffer
    <3>2. SameRow(s, t, Append(b, g)) BY <1>5, <3>1, WrittenRows
    <3> QED BY <2>2, <3>2, SameIsRead
  <2> QED BY <2>1, <2>2
<1>11. DepositRight(s, d)
  BY <1>1, <1>7, RightOfParts DEF IInv, StoreOK
<1>12. DepositRight(t, d)
  BY <1>2, <1>3, <1>10, <1>11 DEF DepositRight
<1>13. IInv' BY <1>1, <1>7, <1>9, <1>12, RightOfParts, OnePartIsRight
<1>14. DepositIn(t, d) = [DepositIn(s, d) EXCEPT ![f] = x]
  <2>1. DepositIn(s, d) = [g \in DepositField |-> Read(s, Append(b, g))]
    BY <1>2, <1>3 DEF DepositIn
  <2>2. DepositIn(t, d) = [g \in DepositField |-> Read(t, Append(b, g))]
    BY <1>2, <1>3 DEF DepositIn
  <2>3. PICK h : h = DepositIn(s, d) OBVIOUS
  <2>4. \A g \in DepositField : h[g] = Read(s, Append(b, g)) BY <2>1, <2>3
  <2>5. DepositIn(t, d) = [g \in DepositField |-> IF g = f THEN x ELSE h[g]]
    BY <1>10, <2>2, <2>4
  <2>6. h = [g \in DepositField |-> h[g]] BY <2>1, <2>3
  <2>7. [h EXCEPT ![f] = x] = [g \in DepositField |-> IF g = f THEN x ELSE h[g]]
    BY <2>6
  <2> QED BY <2>3, <2>5, <2>7
<1> QED BY <1>1, <1>9, <1>13, <1>14

(* `DepositDict::delete'.                                                  *)
LEMMA DeleteDepositDoes ==
    ASSUME IInv, NEW p \in Operators, NEW o \in Owners, DeleteDeposit(p, o),
           NEW d, d = <<p, o>>
    PROVE  /\ IInv' /\ Differ(store, store', {<<"deposit", d>>})
           /\ DepositIn(store', d) = NoDeposit
<1>1. PICK s, t : s = store /\ t = store' OBVIOUS
<1>2. d[1] = p /\ d[2] = o /\ d \in Operators \X Owners OBVIOUS
<1>3. t = Deleted(s, DepositRows(d)) BY <1>1, <1>2 DEF DeleteDeposit, DepositRows
<1>4. <<"deposit", d>> \in Part BY <1>2, PartsAre
<1>5. Differ(s, t, {<<"deposit", d>>})
  BY <1>3, <1>4, DeletedPart, RowsOfParts
<1>6. \A r \in DepositRows(d) : Read(t, r) = None
  <2>1. \A r \in DepositRows(d) : Read(Deleted(s, DepositRows(d)), r) = None
    BY DeletedRows
  <2> QED BY <1>3, <2>1
<1>7. \A g \in DepositField : Read(t, Append(DepositAt(d[1], d[2]), g)) = None
  BY <1>6 DEF DepositRows
<1>8. DepositRight(t, d) BY <1>7 DEF DepositRight
<1>9. IInv' BY <1>1, <1>4, <1>5, <1>8, RightOfParts, OnePartIsRight
<1>10. DepositIn(t, d) = NoDeposit BY <1>7 DEF DepositIn, NoDeposit
<1> QED BY <1>1, <1>5, <1>9, <1>10

(* The setters of `PoolDict'.                                              *)
LEMMA SetPoolFieldDoes ==
    ASSUME IInv, NEW x \in Handles, NEW f \in PoolField, NEW y \in PoolValue[f],
           SetPoolField(x, f, y)
    PROVE  /\ IInv' /\ Differ(store, store', {<<"fields", x>>})
           /\ PoolIn(store', x) = [fields |-> [PoolIn(store, x).fields EXCEPT ![f] = y],
                                   stakes |-> PoolIn(store, x).stakes]
<1>1. PICK s, t : s = store /\ t = store' OBVIOUS
<1>2. PICK rows : rows = [r \in {Append(x, f)} |-> y] OBVIOUS
<1>3. t = Written(s, rows) BY <1>1, <1>2 DEF SetPoolField
<1>4. DOMAIN rows = RowsOfFields(x, {f}) /\ rows[Append(x, f)] = y
  BY <1>2 DEF RowsOfFields
<1>5. /\ Differ(s, t, {<<"fields", x>>})
      /\ \A g \in {f} : Read(t, Append(x, g)) = rows[Append(x, g)]
      /\ \A g \in PoolField \ {f} : Read(t, Append(x, g)) = Read(s, Append(x, g))
  <2>1. PICK A : A = {f} OBVIOUS
  <2>2. A \subseteq PoolField /\ DOMAIN rows = RowsOfFields(x, A) BY <1>4, <2>1
  <2>3. /\ Differ(s, t, {<<"fields", x>>})
        /\ \A g \in A : Read(t, Append(x, g)) = rows[Append(x, g)]
        /\ \A g \in PoolField \ A : Read(t, Append(x, g)) = Read(s, Append(x, g))
    <3>1. x \in Handles OBVIOUS
    <3> QED BY ONLY <3>1, <1>3, <2>2, FieldsWritten
  <2> QED BY <2>1, <2>3
<1>6. \A g \in PoolField :
          Read(t, Append(x, g)) = IF g = f THEN y ELSE Read(s, Append(x, g))
  BY <1>4, <1>5
<1>7. <<"fields", x>> \in Part /\ <<"stakes", x>> \in Part BY PartsAre
<1>8. FieldsRight(s, x) BY <1>1, <1>7, RightOfParts DEF IInv, StoreOK
<1>9. FieldsRight(t, x) BY <1>6, <1>8 DEF FieldsRight
<1>10. IInv' BY <1>1, <1>5, <1>7, <1>9, RightOfParts, OnePartIsRight
<1>11. StakesOf(t, x) = StakesOf(s, x)
  <2>1. Same(s, t, StakesRows(x)) BY <1>5, <1>7, RowsOfParts DEF Differ
  <2> QED BY <2>1, SameStakes
<1>12. PoolIn(t, x) = [fields |-> [PoolIn(s, x).fields EXCEPT ![f] = y],
                       stakes |-> PoolIn(s, x).stakes]
  <2>1. [g \in PoolField |-> Read(t, Append(x, g))]
          = [[g \in PoolField |-> Read(s, Append(x, g))] EXCEPT ![f] = y]
    BY <1>6
  <2> QED BY <1>11, <2>1 DEF PoolIn
<1> QED BY <1>1, <1>5, <1>10, <1>12

(* `PoolDict::delete'.                                                     *)
LEMMA DeletePoolDoes ==
    ASSUME IInv, NEW x \in Handles, DeletePool(x)
    PROVE  /\ IInv' /\ Differ(store, store', PoolParts(x))
           /\ PoolIn(store', x) = BlankPool
<1>1. PICK s, t : s = store /\ t = store' OBVIOUS
<1>2. t = WithoutPool(s, x) /\ StoreOK(s) BY <1>1 DEF DeletePool, IInv
<1>3. StoreOK(t) /\ Differ(s, t, PoolParts(x)) /\ PoolIn(t, x) = BlankPool
  BY <1>2, PoolDeleted
<1> QED BY <1>1, <1>3 DEF IInv

(* The lists that are heaps, and their values.                             *)
LEMMA HeapListShape ==
    ASSUME NEW V, NEW c \in Nat, NEW list \in HeapLists(V, c)
    PROVE  /\ list \in Seq(V) /\ Len(list) <= c
           /\ ToSet(list) \subseteq V
           /\ \A v, w \in ToSet(list) : v.key = w.key => v = w
           /\ IsFiniteSet(ToSet(list)) /\ Cardinality(ToSet(list)) <= c
<1>1. list \in SeqOf(V, c) /\ \A i, j \in 1 .. Len(list) : list[i].key = list[j].key => i = j
  BY DEF HeapLists
<1>2. PICK n \in 0 .. c : list \in [1 .. n -> V]
  BY <1>1 DEF SeqOf
<1>3. n \in Nat OBVIOUS
<1>4. list \in Seq(V) /\ Len(list) = n /\ DOMAIN list = 1 .. n
  BY <1>2, <1>3
<1>5. ToSet(list) = {list[i] : i \in 1 .. n}
  BY <1>4 DEF ToSet
<1>6. list \in Surjection(1 .. n, ToSet(list))
  BY <1>2, <1>5 DEF Surjection
<1>7. IsFiniteSet(1 .. n) /\ Cardinality(1 .. n) = n
  BY <1>3, FS_Interval
<1>8. IsFiniteSet(ToSet(list)) /\ Cardinality(ToSet(list)) <= n
  BY <1>6, <1>7, FS_Surjection
<1>9. Cardinality(ToSet(list)) \in Nat
  BY <1>8, FS_CardinalityType
<1> QED BY <1>1, <1>2, <1>3, <1>4, <1>5, <1>8, <1>9

(* What the operations of a heap of stakes may leave.                      *)
LEMMA ChangeStakesDoes ==
    ASSUME IInv, NEW x \in Handles, ChangeStakes(x)
    PROVE  /\ IInv' /\ Differ(store, store', {<<"stakes", x>>})
           /\ \E list \in HeapLists(Stake, M) :
                  PoolIn(store', x) = [fields |-> PoolIn(store, x).fields,
                                       stakes |-> ToSet(list)]
<1>1. PICK s, t : s = store /\ t = store' OBVIOUS
<1>2. PICK list \in HeapLists(Stake, M) :
          t = Saved(s, StakesAt(x), StakeMap!MapFill(StakeMap!EmptyMap, list))
  BY <1>1 DEF ChangeStakes
<1>3. PICK e : e = StakeMap!EmptyMap OBVIOUS
<1>4. e \in StakeMap!IndexMaps
  BY <1>3, SizesArePositive DEF StakeMap!EmptyMap, StakeMap!IndexMaps
<1>5. list \in Seq(Stake) /\ Len(list) <= M
  BY SizesArePositive, HeapListShape
<1>6. PICK k : k = StakeMap!MapFill(e, list) OBVIOUS
<1>7. k \in StakeMap!IndexMaps /\ StakeMap!ValuesIn(k) = ToSet(list)
  BY <1>4, <1>5, <1>6, StakesFilled
<1>8. t = Saved(s, StakesAt(x), k) BY <1>2, <1>3, <1>6
<1>9. Differ(s, t, {<<"stakes", x>>}) /\ StakesOf(t, x) = k /\ StakesRight(t, x)
  BY <1>7, <1>8, StakesSaved
<1>10. <<"fields", x>> \in Part /\ <<"stakes", x>> \in Part BY PartsAre
<1>11. IInv' BY <1>1, <1>9, <1>10, RightOfParts, OnePartIsRight
<1>12. \A f \in PoolField : Read(t, Append(x, f)) = Read(s, Append(x, f))
  <2>1. Same(s, t, FieldRows(x)) BY <1>9, <1>10, RowsOfParts DEF Differ
  <2> QED BY <2>1, SameFields
<1>13. PoolIn(t, x) = [fields |-> PoolIn(s, x).fields, stakes |-> ToSet(list)]
  BY <1>7, <1>9, <1>12 DEF PoolIn
<1> QED BY <1>1, <1>9, <1>11, <1>13

(* What the operations of the heap of next pools may leave.                *)
LEMMA ChangeNextPoolsDoes ==
    ASSUME IInv, ChangeNextPools
    PROVE  /\ IInv' /\ Differ(store, store', {<<"set", 2>>})
           /\ \E list \in HeapLists(PoolKey, N) :
                  NextMap!ValuesIn(NextPools(store')) = ToSet(list)
<1>1. PICK s, t : s = store /\ t = store' OBVIOUS
<1>2. PICK list \in HeapLists(PoolKey, N) :
          t = Saved(s, <<NextValidatorPools>>, NextMap!MapFill(NextMap!EmptyMap, list))
  BY <1>1 DEF ChangeNextPools
<1>3. list \in Seq(PoolKey) /\ Len(list) <= N
  BY SizesArePositive, HeapListShape
<1>4. PICK k : k = NextMap!MapFill(NextMap!EmptyMap, list) OBVIOUS
<1>5. k \in NextMap!IndexMaps /\ NextMap!ValuesIn(k) = ToSet(list)
  BY <1>3, <1>4, NextFilled
<1>6. t = Saved(s, <<NextValidatorPools>>, k) BY <1>2, <1>4
<1>7. Differ(s, t, {<<"set", 2>>}) /\ NextPools(t) = k /\ SetRight(t, 2)
  BY <1>5, <1>6, NextSaved
<1>8. <<"set", 2>> \in Part BY PartsAre
<1>9. IInv' BY <1>1, <1>7, <1>8, RightOfParts, OnePartIsRight
<1> QED BY <1>1, <1>5, <1>7, <1>9

-----------------------------------------------------------------------------
(* The invariant. *)

(* An empty store.                                                         *)
LEMMA InitEstablishes == Init => IInv
<1> SUFFICES ASSUME Init PROVE IInv
  OBVIOUS
<1>1. PICK s : s = store OBVIOUS
<1>2. DOMAIN s = {} BY <1>1 DEF Init, EmptyStore
<1>3. \A r : Read(s, r) = None BY <1>2 DEF Read
<1>4. ASSUME NEW P \in Part PROVE Right(s, P)
  <2>1. EpochRight(s) BY <1>3 DEF EpochRight
  <2>2. \A d : DepositRight(s, d) BY <1>3 DEF DepositRight
  <2>3. \A x : FieldsRight(s, x) BY <1>3 DEF FieldsRight
  <2>4. ASSUME NEW d, NEW keys, NEW c, NEW m, m = Loaded(s, d, keys, c)
        PROVE  m = [len |-> 0, ki |-> [k \in keys |-> None], iv |-> [i \in 0 .. c - 1 |-> None]]
    BY <1>2, <1>3, <2>4 DEF Loaded
  <2>5. \A x : StakesRight(s, x)
    <3> TAKE x
    <3>1. StakesOf(s, x) = [len |-> 0, ki |-> [k \in Owners |-> None],
                            iv |-> [i \in 0 .. M - 1 |-> None]]
      BY <2>4 DEF StakesOf
    <3> QED BY <3>1, SizesArePositive
            DEF StakesRight, StakeMap!IndexMaps, StakeMap!Index
  <2>6. \A v : SetRight(s, v)
    <3> TAKE v
    <3>1. PICK e : e = [len |-> 0, ki |-> [k \in Operators |-> None],
                        iv |-> [i \in 0 .. N - 1 |-> None]]
      OBVIOUS
    <3>2. NextPools(s) = e /\ AddressesOf(s, v) = e
      BY <2>4, <3>1 DEF NextPools, AddressesOf
    <3>3. e \in NextMap!IndexMaps
      BY <3>1, SizesArePositive DEF NextMap!IndexMaps, NextMap!Index
    <3>4. e \in AddressMap!IndexMaps
      BY <3>1, SizesArePositive DEF AddressMap!IndexMaps, AddressMap!Index
    <3>5. Traced(e)
      BY <3>1 DEF Traced
    <3> QED BY <3>2, <3>3, <3>4, <3>5 DEF SetRight
  <2>7. CASE P = <<"epoch", 0>>
    BY <2>1, <2>7, RightOfParts
  <2>8. ASSUME NEW d, P = <<"deposit", d>> PROVE Right(s, P)
    BY <2>2, <2>8, RightOfParts
  <2>9. ASSUME NEW x, P = <<"fields", x>> \/ P = <<"stakes", x>> PROVE Right(s, P)
    BY <2>3, <2>5, <2>9, RightOfParts
  <2>10. ASSUME NEW v, P = <<"set", v>> PROVE Right(s, P)
    BY <2>6, <2>10, RightOfParts
  <2> QED BY <2>7, <2>8, <2>9, <2>10, PartCases
<1> QED BY <1>1, <1>2, <1>4 DEF IInv, StoreOK

(* `push' where there is no room fails and changes nothing.                *)
LEMMA PushCases ==
    ASSUME IInv, NEW v \in {0, 1}, NEW pool, NEW list, Push(v, pool, list)
    PROVE  \/ /\ AddressesOf(store, v).len = N /\ out' = Failed /\ UNCHANGED store
           \/ /\ AddressesOf(store, v).len < N
              /\ out' = [set |-> v, operator |-> pool[Operator], stakes |-> ToSet(list)]
<1>1. PICK s, m : s = store /\ m = AddressesOf(store, v) OBVIOUS
<1>2. m.len \in 0 .. N
  BY <1>1, ListedAre DEF IInv
<1> QED BY <1>1, <1>2, SizesArePositive DEF Push

(* Every step keeps the invariant.                                         *)
LEMMA NextPreserves == IInv /\ [Next]_vars => IInv'
<1> SUFFICES ASSUME IInv, [Next]_vars PROVE IInv'
  OBVIOUS
<1>1. CASE UNCHANGED vars
  BY <1>1 DEF vars, IInv
<1>2. CASE \E e \in Epochs : SetCurrentEpoch(e)
  BY <1>2, EpochDoes
<1>3. CASE \E p \in Operators, owner \in Owners, f \in DepositField :
              \E x \in DepositValue[f] : SetDeposit(p, owner, f, x)
  BY <1>3, SetDepositDoes
<1>4. CASE \E p \in Operators, owner \in Owners : DeleteDeposit(p, owner)
  BY <1>4, DeleteDepositDoes
<1>5. CASE \E prefix \in Handles, f \in PoolField : \E x \in PoolValue[f] : SetPoolField(prefix, f, x)
  BY <1>5, SetPoolFieldDoes
<1>6. CASE \E prefix \in Handles : DeletePool(prefix) \/ ChangeStakes(prefix)
  BY <1>6, DeletePoolDoes, ChangeStakesDoes
<1>7. CASE ChangeNextPools
  BY <1>7, ChangeNextPoolsDoes
<1>8. CASE \E v \in ValidatorSets, pool \in PoolRecord, list \in Lists : Push(v, pool, list)
  <2>1. PICK v \in {0, 1}, pool \in PoolRecord, list \in Lists : Push(v, pool, list)
    BY <1>8 DEF ValidatorSets, PrevValidatorPools, ValidatorPools
  <2>2. CASE UNCHANGED store
    BY <2>2 DEF IInv
  <2>3. CASE AddressesOf(store, v).len < N
    BY <2>1, <2>3, PushDoes
  <2> QED BY <2>1, <2>2, <2>3, PushCases
<1>9. CASE \E v \in ValidatorSets : Clear(v)
  BY <1>9, ClearDoes DEF ValidatorSets, PrevValidatorPools, ValidatorPools
<1> QED BY <1>1, <1>2, <1>3, <1>4, <1>5, <1>6, <1>7, <1>8, <1>9 DEF Next

(* Every row is one of a part, what is there is right, and every listed    *)
(* operator is found.                                                      *)
THEOREM Invariance == Spec => []IInv
<1> QED BY InitEstablishes, NextPreserves, PTL DEF Spec

(* The rows of every part are known.                                       *)
LEMMA RowsAreKnown ==
    ASSUME NEW P \in Part, NEW r \in PartRows(P)
    PROVE  r \in KnownRows
<1>1. CASE P = <<"epoch", 0>>
  BY <1>1, RowsOfParts DEF KnownRows
<1>2. ASSUME NEW d \in Operators \X Owners, P = <<"deposit", d>> PROVE r \in KnownRows
  BY <1>2, RowsOfParts DEF KnownRows
<1>3. ASSUME NEW x \in Handles, P = <<"fields", x>> \/ P = <<"stakes", x>> PROVE r \in KnownRows
  <2>1. r \in FieldRows(x) \/ r \in StakesRows(x) BY <1>3, RowsOfParts
  <2>2. r \in PoolRows(x) BY <2>1 DEF PoolRows, FieldRows, StakesRows
  <2> QED BY <2>2 DEF KnownRows
<1>4. ASSUME NEW v \in {0, 1, 2}, P = <<"set", v>> PROVE r \in KnownRows
  <2>1. r \in MapRows(<<v>>, Operators, N) BY <1>4, RowsOfParts DEF SetRows
  <2>2. v \in ValidatorSets \cup {NextValidatorPools}
    BY DEF ValidatorSets, PrevValidatorPools, ValidatorPools, NextValidatorPools
  <2> QED BY <2>1, <2>2 DEF KnownRows
<1> QED BY <1>1, <1>2, <1>3, <1>4, PartCases

(* Every row is one of a part of the account and holds what belongs there. *)
THEOREM TypeCorrect == Spec => []TypeOK
<1>1. IInv => TypeOK
  <2> SUFFICES ASSUME IInv PROVE TypeOK
    OBVIOUS
  <2>0. \A P \in Part : Right(store, P) BY DEF IInv, StoreOK
  <2>1. DOMAIN store \subseteq AllRows BY DEF IInv, StoreOK
  <2>2. Read(store, <<CurrentEpoch>>) \in Epochs \cup {None}
    BY <2>0, PartsAre, RightOfParts DEF EpochRight
  <2>3. \A p \in Operators, o \in Owners, f \in DepositField :
            Read(store, Append(DepositAt(p, o), f)) \in DepositValue[f] \cup {None}
    <3> TAKE p \in Operators, o \in Owners, f \in DepositField
    <3>1. PICK d : d = <<p, o>> OBVIOUS
    <3>2. d \in Operators \X Owners /\ d[1] = p /\ d[2] = o BY <3>1
    <3>3. DepositRight(store, d) BY <2>0, <3>2, PartsAre, RightOfParts
    <3> QED BY <3>2, <3>3 DEF DepositRight
  <2>4. \A prefix \in Handles :
            /\ \A f \in PoolField : Read(store, Append(prefix, f)) \in PoolValue[f] \cup {None}
            /\ StakesOf(store, prefix) \in StakeMap!IndexMaps
    BY <2>0, PartsAre, RightOfParts DEF FieldsRight, StakesRight
  <2>5. \A v \in ValidatorSets : AddressesOf(store, v) \in AddressMap!IndexMaps
    BY ListedAre DEF IInv, ValidatorSets, PrevValidatorPools, ValidatorPools
  <2>6. NextPools(store) \in NextMap!IndexMaps
    <3>1. SetRight(store, 2) BY <2>0, PartsAre, RightOfParts
    <3> QED BY <3>1 DEF SetRight, NextValidatorPools
  <2>7. DOMAIN store \subseteq KnownRows
    BY <2>1, RowsAreKnown DEF AllRows
  <2> QED BY ONLY <2>2, <2>3, <2>4, <2>5, <2>6, <2>7 DEF TypeOK
<1> QED BY <1>1, Invariance, PTL

(* What `pool' finds in the map of a validator set.                        *)
LEMMA PoolIsFound ==
    ASSUME NEW s, StoreOK(s), NEW v \in {0, 1}, NEW m, m = AddressesOf(s, v), NEW p \in Operators
    PROVE  /\ m.ki[p] # None => m.ki[p] \in 0 .. N - 1 /\ Pool(s, v, p) = m.iv[m.ki[p]]
           /\ m.ki[p] = None => Pool(s, v, p) = None
           /\ Pool(s, v, p) # None <=> m.ki[p] # None
<1>1. m \in AddressMap!IndexMaps /\ Traced(m)
  BY ListedAre
<1>2. m.ki[p] \in 0 .. N - 1 \cup {None}
  BY <1>1 DEF AddressMap!IndexMaps, AddressMap!Index
<1>3. Pool(s, v, p) = IF m.ki[p] = None THEN None
                      ELSE IF m.ki[p] >= N THEN None ELSE m.iv[m.ki[p]]
  BY DEF Pool, AddressMap!ByKey, AddressMap!At
<1>4. m.ki[p] # None => m.iv[m.ki[p]] # None
  BY <1>1 DEF Traced
<1> QED BY <1>2, <1>3, <1>4, SizesArePositive

(* Every pool a validator set lists is found by its operator.              *)
THEOREM AlwaysFound == Spec => []ListedAreFound
<1>1. IInv => ListedAreFound
  <2> SUFFICES ASSUME IInv, NEW v \in {0, 1}, NEW p \in ToSet(ListedAt(store, v))
               PROVE  Pool(store, v, p) = [key |-> p]
    BY DEF ListedAreFound, ValidatorSets, PrevValidatorPools, ValidatorPools
  <2>1. PICK s, m : s = store /\ m = AddressesOf(s, v) OBVIOUS
  <2>2. StoreOK(s) BY <2>1 DEF IInv
  <2>3. /\ Traced(m) /\ m.len \in 0 .. N
        /\ \A i \in 0 .. m.len - 1 : m.iv[i] \in PoolAddress
        /\ ListedAt(s, v) = [j \in 1 .. m.len |-> m.iv[j - 1].key]
        /\ \A j \in 1 .. m.len : ListedAt(s, v)[j] \in Operators
    BY <2>1, <2>2, ListedAre
  <2>4. PICK j \in 1 .. m.len : p = m.iv[j - 1].key /\ p \in Operators
    BY <2>1, <2>3 DEF ToSet
  <2>5. j - 1 \in 0 .. m.len - 1 BY <2>3, SizesArePositive
  <2>6. m.ki[p] # None /\ m.iv[m.ki[p]] = m.iv[j - 1]
    BY <2>3, <2>4, <2>5 DEF Traced
  <2>7. m.iv[j - 1] = [key |-> p]
    BY <2>3, <2>4, <2>5 DEF PoolAddress
  <2>8. Pool(s, v, p) = m.iv[m.ki[p]]
    BY <2>1, <2>2, <2>4, <2>6, PoolIsFound
  <2> QED BY <2>1, <2>6, <2>7, <2>8
<1> QED BY <1>1, Invariance, PTL

-----------------------------------------------------------------------------
(* The parts of the abstract account. *)

(* What has not changed reads the same.                                    *)
LEMMA SetStays ==
    ASSUME NEW s, NEW t, NEW C, Differ(s, t, C), NEW v \in {0, 1}, <<"set", v>> \notin C
    PROVE  AddressesOf(t, v) = AddressesOf(s, v)
<1>1. <<"set", v>> \in Part BY PartsAre
<1>2. Same(s, t, SetRows(v)) BY <1>1, RowsOfParts DEF Differ
<1> QED BY <1>2, SameSet

(* The epoch stays while its row does.                                     *)
LEMMA EpochStays ==
    ASSUME NEW s, NEW t, NEW C, Differ(s, t, C), <<"epoch", 0>> \notin C
    PROVE  EpochIn(t) = EpochIn(s)
<1>1. Same(s, t, {<<CurrentEpoch>>}) BY PartsAre, RowsOfParts DEF Differ
<1> QED BY <1>1 DEF Same, SameRow, EpochIn

(* A deposit stays while its rows do.                                      *)
LEMMA DepositStays ==
    ASSUME NEW s, NEW t, NEW C, Differ(s, t, C), NEW d \in Operators \X Owners,
           <<"deposit", d>> \notin C
    PROVE  DepositIn(t, d) = DepositIn(s, d)
<1>1. Same(s, t, DepositRows(d)) BY PartsAre, RowsOfParts DEF Differ
<1> QED BY <1>1, SameDeposit DEF DepositIn

(* The next pools stay while their rows do.                                *)
LEMMA NextStays ==
    ASSUME NEW s, NEW t, NEW C, Differ(s, t, C), <<"set", 2>> \notin C
    PROVE  NextIn(t) = NextIn(s)
<1>1. Same(s, t, SetRows(2)) BY PartsAre, RowsOfParts DEF Differ
<1>2. NextPools(t) = NextPools(s) BY <1>1, SameSet DEF NextValidatorPools
<1> QED BY <1>2 DEF NextIn

(* Where the pools are.                                                    *)
LEMMA HandlesApart ==
    ASSUME NEW p \in Operators, NEW q \in Operators
    PROVE  /\ PoolAt(p) \in Handles
           /\ PoolAt(p) = PoolAt(q) => p = q
           /\ \A v \in {0, 1} : CopyAt(v, q) # PoolAt(p)
<1>1. PoolAt(p) \in Handles
  BY DEF Handles
<1>2. PoolAt(p) = <<3, p>> /\ PoolAt(q) = <<3, q>>
  BY DEF PoolAt, Pools
<1>3. \A v \in {0, 1} : CopyAt(v, q) = <<v, 3, q>>
  BY DEF CopyAt, NestedMap
<1>4. <<3, p>> = <<3, q>> => p = q
  OBVIOUS
<1>5. \A v \in {0, 1} : Len(<<v, 3, q>>) = 3
  OBVIOUS
<1>6. Len(<<3, p>>) = 2
  OBVIOUS
<1> QED BY <1>1, <1>2, <1>3, <1>4, <1>5, <1>6

(* The deposits, the pools and the sets that have not changed.             *)
LEMMA DepositsStay ==
    ASSUME NEW s, NEW t, NEW C, Differ(s, t, C),
           \A d \in Operators \X Owners : <<"deposit", d>> \notin C
    PROVE  DepositsIn(t) = DepositsIn(s)
BY DepositStays DEF DepositsIn

(* The dictionary of pools stays while no pool of it changes.              *)
LEMMA PoolsStay ==
    ASSUME NEW s, NEW t, NEW C, Differ(s, t, C),
           \A p \in Operators : PoolParts(PoolAt(p)) \cap C = {}
    PROVE  PoolsIn(t) = PoolsIn(s)
<1>1. \A p \in Operators : PoolIn(t, PoolAt(p)) = PoolIn(s, PoolAt(p))
  BY SamePool, HandlesApart
<1> QED BY <1>1 DEF PoolsIn

(* A set stays while neither its map nor a copy in it changes.             *)
LEMMA OneSetStays ==
    ASSUME NEW s, NEW t, NEW C, Differ(s, t, C), NEW v \in {0, 1}, <<"set", v>> \notin C,
           \A p \in Operators : PoolParts(CopyAt(v, p)) \cap C = {}
    PROVE  SetIn(t, v) = SetIn(s, v)
<1>1. AddressesOf(t, v) = AddressesOf(s, v)
  BY SetStays
<1>2. ListedAt(t, v) = ListedAt(s, v) /\ \A p : Pool(t, v, p) = Pool(s, v, p)
  BY <1>1 DEF ListedAt, Pool
<1>3. \A p \in Operators : PoolIn(t, CopyAt(v, p)) = PoolIn(s, CopyAt(v, p))
  BY SamePool, CopiesAreHandles
<1> QED BY <1>2, <1>3 DEF SetIn

(* Both sets stay while neither changes.                                   *)
LEMMA SetsStay ==
    ASSUME NEW s, NEW t, NEW C, Differ(s, t, C), \A v \in {0, 1} : <<"set", v>> \notin C,
           \A v \in {0, 1} : \A p \in Operators : PoolParts(CopyAt(v, p)) \cap C = {}
    PROVE  SetsIn(t) = SetsIn(s)
<1>1. \A v \in {0, 1} : SetIn(t, v) = SetIn(s, v)
  BY OneSetStays
<1> QED BY <1>1 DEF SetsIn, ValidatorSets, PrevValidatorPools, ValidatorPools

(* The set with these parts: what it lists and knows.                      *)
LEMMA SetIs ==
    ASSUME NEW s, StoreOK(s), NEW v \in {0, 1}, NEW m, m = AddressesOf(s, v)
    PROVE  SetIn(s, v) = [list  |-> [j \in 1 .. m.len |-> m.iv[j - 1].key],
                          known |-> {p \in Operators : m.ki[p] # None},
                          pools |-> [p \in Operators |-> PoolIn(s, CopyAt(v, p))]]
<1>1. ListedAt(s, v) = [j \in 1 .. m.len |-> m.iv[j - 1].key]
  BY ListedAre
<1>2. \A p \in Operators : Pool(s, v, p) # None <=> m.ki[p] # None
  BY PoolIsFound
<1>3. {p \in Operators : Pool(s, v, p) # None} = {p \in Operators : m.ki[p] # None}
  BY <1>2
<1> QED BY <1>1, <1>3 DEF SetIn

-----------------------------------------------------------------------------
(* Every call is a step of the promise. *)

(* The epoch is set.                                                       *)
LEMMA EpochRefines ==
    ASSUME IInv, NEW e \in Epochs, SetCurrentEpoch(e)
    PROVE  Promise!SetEpoch /\ out' = None
<1>1. PICK s, t : s = store /\ t = store' OBVIOUS
<1>2. Differ(s, t, {<<"epoch", 0>>}) /\ EpochIn(t) = e
  BY <1>1, EpochDoes
<1>3. /\ DepositsIn(t) = DepositsIn(s) /\ PoolsIn(t) = PoolsIn(s) /\ SetsIn(t) = SetsIn(s)
      /\ NextIn(t) = NextIn(s)
  BY <1>2, DepositsStay, PoolsStay, SetsStay, NextStays DEF PoolParts
<1> QED BY <1>1, <1>2, <1>3 DEF Promise!SetEpoch, SetCurrentEpoch

(* One deposit changes.                                                    *)
LEMMA DepositRefines ==
    ASSUME NEW d \in Operators \X Owners, NEW s, NEW t, s = store, t = store',
           Differ(s, t, {<<"deposit", d>>}),
           \/ \E f \in DepositField : \E x \in DepositValue[f] :
                  DepositIn(t, d) = [DepositIn(s, d) EXCEPT ![f] = x]
           \/ DepositIn(t, d) = NoDeposit
    PROVE  Promise!ChangeDeposit(d)
<1>1. /\ EpochIn(t) = EpochIn(s) /\ PoolsIn(t) = PoolsIn(s) /\ SetsIn(t) = SetsIn(s)
      /\ NextIn(t) = NextIn(s)
  BY EpochStays, PoolsStay, SetsStay, NextStays DEF PoolParts
<1>2. ASSUME NEW c \in Operators \X Owners, c # d PROVE DepositIn(t, c) = DepositIn(s, c)
  <2>1. <<"deposit", c>> # <<"deposit", d>> BY <1>2
  <2>2. <<"deposit", c>> \notin {<<"deposit", d>>} BY <2>1
  <2> QED BY <2>2, DepositStays
<1>3. DepositsIn(t) = [DepositsIn(s) EXCEPT ![d] = DepositIn(t, d)]
  BY <1>2 DEF DepositsIn
<1>4. DepositsIn(s)[d] = DepositIn(s, d)
  BY DEF DepositsIn
<1>5. \/ \E f \in DepositField : \E x \in DepositValue[f] :
             DepositsIn(t) = [DepositsIn(s) EXCEPT ![d][f] = x]
      \/ DepositsIn(t) = [DepositsIn(s) EXCEPT ![d] = Promise!NoDeposit]
  <2>1. CASE \E f \in DepositField : \E x \in DepositValue[f] :
                 DepositIn(t, d) = [DepositIn(s, d) EXCEPT ![f] = x]
    <3>1. PICK f \in DepositField : \E x \in DepositValue[f] :
              DepositIn(t, d) = [DepositIn(s, d) EXCEPT ![f] = x]
      BY <2>1
    <3>2. PICK x \in DepositValue[f] : DepositIn(t, d) = [DepositIn(s, d) EXCEPT ![f] = x]
      BY <3>1
    <3>3. DepositsIn(t) = [DepositsIn(s) EXCEPT ![d][f] = x]
      BY ONLY <1>3, <1>4, <3>2
    <3> QED BY <3>3
  <2>2. CASE DepositIn(t, d) = NoDeposit
    <3>1. NoDeposit = Promise!NoDeposit BY DEF NoDeposit, Promise!NoDeposit
    <3> QED BY <1>3, <2>2, <3>1
  <2> QED BY <2>1, <2>2
<1> QED BY <1>1, <1>5 DEF Promise!ChangeDeposit

(* One pool changes, in the dictionary or in a set.                        *)
LEMMA PoolRefines ==
    ASSUME NEW p \in Operators, NEW s, NEW t, s = store, t = store',
           Differ(s, t, PoolParts(PoolAt(p))),
           Promise!PoolStep(PoolIn(s, PoolAt(p)), PoolIn(t, PoolAt(p)))
    PROVE  Promise!ChangePool(p)
<1>1. PICK C : C = PoolParts(PoolAt(p))
  OBVIOUS
<1>2. \A P \in C : P = <<"fields", PoolAt(p)>> \/ P = <<"stakes", PoolAt(p)>>
  BY <1>1 DEF PoolParts
<1>3. \A q \in Operators : q # p => PoolParts(PoolAt(q)) \cap C = {}
  BY <1>2, HandlesApart DEF PoolParts
<1>4. \A v \in {0, 1} : \A q \in Operators : PoolParts(CopyAt(v, q)) \cap C = {}
  BY <1>2, HandlesApart DEF PoolParts
<1>5. /\ <<"epoch", 0>> \notin C /\ \A d : <<"deposit", d>> \notin C
      /\ \A v : <<"set", v>> \notin C
  BY <1>2
<1>6. /\ EpochIn(t) = EpochIn(s) /\ DepositsIn(t) = DepositsIn(s) /\ SetsIn(t) = SetsIn(s)
      /\ NextIn(t) = NextIn(s)
  BY <1>1, <1>4, <1>5, EpochStays, DepositsStay, SetsStay, NextStays
<1>7. \A q \in Operators : q # p => PoolIn(t, PoolAt(q)) = PoolIn(s, PoolAt(q))
  BY <1>1, <1>3, SamePool, HandlesApart
<1>8. PoolsIn(s)[p] = PoolIn(s, PoolAt(p)) /\ PoolsIn(t)[p] = PoolIn(t, PoolAt(p))
  BY DEF PoolsIn
<1>9. PoolsIn(t) = [PoolsIn(s) EXCEPT ![p] = PoolsIn(t)[p]]
  BY <1>7 DEF PoolsIn
<1> QED BY <1>6, <1>8, <1>9 DEF Promise!ChangePool

(* A copy in a set changes, and no other part.                             *)
LEMMA CopyRefines ==
    ASSUME IInv, NEW v \in {0, 1}, NEW p \in Operators, NEW s, NEW t, s = store, t = store',
           CanGet(CopyAt(v, p)), Differ(s, t, PoolParts(CopyAt(v, p))),
           Promise!PoolStep(PoolIn(s, CopyAt(v, p)), PoolIn(t, CopyAt(v, p)))
    PROVE  Promise!ChangeCopy(v, p)
<1>1. PICK C : C = PoolParts(CopyAt(v, p))
  OBVIOUS
<1>2. \A P \in C : P = <<"fields", CopyAt(v, p)>> \/ P = <<"stakes", CopyAt(v, p)>>
  BY <1>1 DEF PoolParts
<1>3. \A q \in Operators : PoolParts(PoolAt(q)) \cap C = {}
  BY <1>2, HandlesApart DEF PoolParts
<1>4. \A w \in {0, 1} : \A q \in Operators :
          ~(w = v /\ q = p) => PoolParts(CopyAt(w, q)) \cap C = {}
  BY <1>2, CopiesDiffer DEF PoolParts
<1>5. /\ <<"epoch", 0>> \notin C /\ \A d : <<"deposit", d>> \notin C
      /\ \A w : <<"set", w>> \notin C
  BY <1>2
<1>6. /\ EpochIn(t) = EpochIn(s) /\ DepositsIn(t) = DepositsIn(s) /\ PoolsIn(t) = PoolsIn(s)
      /\ NextIn(t) = NextIn(s)
  BY <1>1, <1>3, <1>5, EpochStays, DepositsStay, PoolsStay, NextStays
<1>7. \A w \in {0, 1} : w # v => SetIn(t, w) = SetIn(s, w)
  BY <1>1, <1>4, <1>5, OneSetStays
<1>8. SetIn(t, v).list = SetIn(s, v).list /\ SetIn(t, v).known = SetIn(s, v).known
  <2>1. AddressesOf(t, v) = AddressesOf(s, v)
    BY <1>1, <1>5, SetStays
  <2>2. ListedAt(t, v) = ListedAt(s, v) /\ \A q : Pool(t, v, q) = Pool(s, v, q)
    BY <2>1 DEF ListedAt, Pool
  <2> QED BY <2>2 DEF SetIn
<1>9. \A q \in Operators : q # p => PoolIn(t, CopyAt(v, q)) = PoolIn(s, CopyAt(v, q))
  BY <1>1, <1>4, SamePool, CopiesAreHandles
<1>10. SetIn(s, v).pools[p] = PoolIn(s, CopyAt(v, p)) /\ SetIn(t, v).pools[p] = PoolIn(t, CopyAt(v, p))
  BY DEF SetIn
<1>11. SetIn(t, v) = [SetIn(s, v) EXCEPT !.pools[p] = SetIn(t, v).pools[p]]
  <2>1. SetIn(t, v).pools = [SetIn(s, v).pools EXCEPT ![p] = SetIn(t, v).pools[p]]
    BY <1>9, <1>10 DEF SetIn
  <2>2. /\ SetIn(t, v) = [list |-> SetIn(t, v).list, known |-> SetIn(t, v).known,
                          pools |-> SetIn(t, v).pools]
        /\ SetIn(s, v) = [list |-> SetIn(s, v).list, known |-> SetIn(s, v).known,
                          pools |-> SetIn(s, v).pools]
    BY DEF SetIn
  <2> QED BY <1>8, <2>1, <2>2
<1>12. /\ SetsIn(s) = [w \in {0, 1} |-> SetIn(s, w)] /\ SetsIn(t) = [w \in {0, 1} |-> SetIn(t, w)]
  BY DEF SetsIn, ValidatorSets, PrevValidatorPools, ValidatorPools
<1>13. SetsIn(t) = [SetsIn(s) EXCEPT ![v].pools[p] = SetsIn(t)[v].pools[p]]
  <2>1. SetsIn(t)[v] = SetIn(t, v) /\ SetsIn(s)[v] = SetIn(s, v) BY <1>12
  <2>2. SetsIn(t) = [SetsIn(s) EXCEPT ![v] = SetIn(t, v)] BY <1>7, <1>12
  <2> QED BY <1>11, <2>1, <2>2
<1>14. p \in SetsIn(s)[v].known
  <2>1. CopyAt(v, p) = <<v, 3, p>> BY DEF CopyAt, NestedMap
  <2>2. Pool(s, v, p) # None BY <2>1 DEF CanGet
  <2> QED BY <1>12, <2>2 DEF SetIn
<1>15. SetsIn(s)[v].pools[p] = PoolIn(s, CopyAt(v, p)) /\ SetsIn(t)[v].pools[p] = PoolIn(t, CopyAt(v, p))
  BY <1>10, <1>12
<1> QED BY <1>6, <1>13, <1>14, <1>15 DEF Promise!ChangeCopy

(* A pool is what its fields and stakes are.                               *)
LEMMA PoolIsRecord ==
    ASSUME NEW s, NEW x
    PROVE  /\ PoolIn(s, x) = [fields |-> PoolIn(s, x).fields, stakes |-> PoolIn(s, x).stakes]
           /\ PoolIn(s, x).fields = [f \in PoolField |-> PoolIn(s, x).fields[f]]
BY DEF PoolIn

(* The promise counts as the account does.                                 *)
LEMMA SameCardinality == ASSUME NEW S PROVE Promise!Cardinality(S) = Cardinality(S)
BY DEF Cardinality, Promise!Cardinality

(* What the calls on a pool do to it.                                      *)
LEMMA PoolSteps ==
    ASSUME IInv, NEW x \in Handles, NEW s, NEW t, s = store, t = store',
           \/ \E f \in PoolField : \E y \in PoolValue[f] : SetPoolField(x, f, y)
           \/ DeletePool(x) \/ ChangeStakes(x)
    PROVE  /\ CanGet(x) /\ out' = None /\ Differ(s, t, PoolParts(x))
           /\ Promise!PoolStep(PoolIn(s, x), PoolIn(t, x))
<1>1. PICK a, b : a = PoolIn(s, x) /\ b = PoolIn(t, x)
  OBVIOUS
<1>2. /\ a = [fields |-> a.fields, stakes |-> a.stakes] /\ a.fields = [f \in PoolField |-> a.fields[f]]
      /\ b = [fields |-> b.fields, stakes |-> b.stakes]
  BY <1>1, PoolIsRecord
<1>3. CASE \E f \in PoolField : \E y \in PoolValue[f] : SetPoolField(x, f, y)
  <2>1. PICK f \in PoolField : \E y \in PoolValue[f] : SetPoolField(x, f, y) BY <1>3
  <2>2. PICK y \in PoolValue[f] : SetPoolField(x, f, y) BY <2>1
  <2>3. CanGet(x) /\ out' = None BY <2>2 DEF SetPoolField
  <2>4. /\ Differ(s, t, {<<"fields", x>>})
        /\ b = [fields |-> [a.fields EXCEPT ![f] = y], stakes |-> a.stakes]
    BY <1>1, <2>2, SetPoolFieldDoes
  <2>5. Differ(s, t, PoolParts(x)) BY <2>4, DifferMore DEF PoolParts
  <2>6. b.fields = [a.fields EXCEPT ![f] = y] /\ b.stakes = a.stakes BY <2>4
  <2>7. b.fields[f] = y BY <1>2, <2>6
  <2>8. b = [a EXCEPT !.fields[f] = b.fields[f]] BY <1>2, <2>4, <2>7
  <2>9. Promise!PoolStep(a, b) BY <2>7, <2>8 DEF Promise!PoolStep
  <2> QED BY <1>1, <2>3, <2>5, <2>9
<1>4. CASE DeletePool(x)
  <2>1. CanGet(x) /\ out' = None BY <1>4 DEF DeletePool
  <2>2. Differ(s, t, PoolParts(x)) /\ b = BlankPool BY <1>1, <1>4, DeletePoolDoes
  <2>3. b = Promise!Blank BY <2>2 DEF BlankPool, Promise!Blank
  <2> QED BY <1>1, <2>1, <2>2, <2>3 DEF Promise!PoolStep
<1>5. CASE ChangeStakes(x)
  <2>1. CanGet(x) /\ out' = None BY <1>5 DEF ChangeStakes
  <2>2. /\ Differ(s, t, {<<"stakes", x>>})
        /\ \E list \in HeapLists(Stake, M) : b = [fields |-> a.fields, stakes |-> ToSet(list)]
    BY <1>1, <1>5, ChangeStakesDoes
  <2>3. PICK list \in HeapLists(Stake, M) : b = [fields |-> a.fields, stakes |-> ToSet(list)]
    BY <2>2
  <2>4. /\ ToSet(list) \subseteq Stake /\ \A v, w \in ToSet(list) : v.key = w.key => v = w
        /\ Cardinality(ToSet(list)) <= M
    BY SizesArePositive, HeapListShape
  <2>5. b.fields = a.fields /\ b.stakes = ToSet(list) BY <2>3
  <2>6. Promise!HeapValues(b.stakes, Stake, M)
    BY <2>4, <2>5, SameCardinality DEF Promise!HeapValues, Promise!OnePerKey
  <2>7. Differ(s, t, PoolParts(x)) BY <2>2, DifferMore DEF PoolParts
  <2>8. Promise!PoolStep(a, b) BY <2>5, <2>6 DEF Promise!PoolStep
  <2> QED BY <1>1, <2>1, <2>7, <2>8
<1> QED BY <1>3, <1>4, <1>5

(* Every call on a pool changes it in the dictionary or in a set.          *)
LEMMA PoolCallRefines ==
    ASSUME IInv, NEW x \in Handles,
           \/ \E f \in PoolField : \E y \in PoolValue[f] : SetPoolField(x, f, y)
           \/ DeletePool(x) \/ ChangeStakes(x)
    PROVE  /\ out' = None
           /\ \/ \E p \in Operators : Promise!ChangePool(p)
              \/ \E v \in ValidatorSets, p \in Operators : Promise!ChangeCopy(v, p)
<1>1. PICK s, t : s = store /\ t = store' OBVIOUS
<1>2. /\ CanGet(x) /\ out' = None /\ Differ(s, t, PoolParts(x))
      /\ Promise!PoolStep(PoolIn(s, x), PoolIn(t, x))
  BY <1>1, PoolSteps
<1>3. CASE \E p \in Operators : x = PoolAt(p)
  BY <1>1, <1>2, <1>3, PoolRefines
<1>4. CASE \E v \in ValidatorSets, p \in Operators : x = CopyAt(v, p)
  <2>1. PICK v \in ValidatorSets, p \in Operators : x = CopyAt(v, p)
    BY <1>4
  <2>2. v \in {0, 1} BY DEF ValidatorSets, PrevValidatorPools, ValidatorPools
  <2>3. Promise!ChangeCopy(v, p) BY <1>1, <1>2, <2>1, <2>2, CopyRefines
  <2> QED BY <1>2, <2>3
<1> QED BY <1>2, <1>3, <1>4 DEF Handles

(* The pools that are next.                                                *)
LEMMA NextPoolsRefine ==
    ASSUME IInv, ChangeNextPools
    PROVE  Promise!ChangeNext /\ out' = None
<1>1. PICK s, t : s = store /\ t = store' OBVIOUS
<1>2. Differ(s, t, {<<"set", 2>>}) /\ \E list \in HeapLists(PoolKey, N) : NextIn(t) = ToSet(list)
  BY <1>1, ChangeNextPoolsDoes DEF NextIn
<1>3. PICK list \in HeapLists(PoolKey, N) : NextIn(t) = ToSet(list)
  BY <1>2
<1>4. /\ ToSet(list) \subseteq PoolKey /\ \A v, w \in ToSet(list) : v.key = w.key => v = w
      /\ Cardinality(ToSet(list)) <= N
  BY SizesArePositive, HeapListShape
<1>5. Promise!HeapValues(NextIn(t), PoolKey, N)
  BY <1>3, <1>4, SameCardinality DEF Promise!HeapValues, Promise!OnePerKey
<1>6. EpochIn(t) = EpochIn(s) /\ DepositsIn(t) = DepositsIn(s)
  BY <1>2, EpochStays, DepositsStay
<1>7. PoolsIn(t) = PoolsIn(s) /\ SetsIn(t) = SetsIn(s)
  BY <1>2, PoolsStay, SetsStay DEF PoolParts
<1>8. out' = None
  BY DEF ChangeNextPools
<1> QED BY <1>1, <1>5, <1>6, <1>7, <1>8 DEF Promise!ChangeNext

(* A set changes, with copies of some pools in it, and no other part.      *)
OtherParts(s, t) == /\ EpochIn(t) = EpochIn(s) /\ DepositsIn(t) = DepositsIn(s)
                    /\ PoolsIn(t) = PoolsIn(s) /\ NextIn(t) = NextIn(s)
OneSet(s, t, v, S) == /\ SetsIn(s)[v] = SetIn(s, v)
                      /\ SetsIn(t) = [SetsIn(s) EXCEPT ![v] = SetIn(t, v)]
                      /\ \A p \in Operators \ S : PoolIn(t, CopyAt(v, p)) = PoolIn(s, CopyAt(v, p))

(* What such a change leaves alone.                                        *)
LEMMA OneSetRefines ==
    ASSUME NEW v \in {0, 1}, NEW S \in SUBSET Operators, NEW s, NEW t,
           Differ(s, t, {<<"set", v>>} \cup CopyParts(v, S))
    PROVE  OtherParts(s, t) /\ OneSet(s, t, v, S)
<1>1. PICK C : C = {<<"set", v>>} \cup CopyParts(v, S)
  OBVIOUS
<1>2. \A P \in C : \/ P = <<"set", v>>
                   \/ \E p \in S : P = <<"fields", CopyAt(v, p)>> \/ P = <<"stakes", CopyAt(v, p)>>
  BY <1>1 DEF CopyParts, PoolParts
<1>3. \A q \in Operators : PoolParts(PoolAt(q)) \cap C = {}
  BY <1>2, HandlesApart DEF PoolParts
<1>4. \A w \in {0, 1} : \A q \in Operators :
          ~(w = v /\ q \in S) => PoolParts(CopyAt(w, q)) \cap C = {}
  BY <1>2, CopiesDiffer DEF PoolParts
<1>5. /\ <<"epoch", 0>> \notin C /\ \A d : <<"deposit", d>> \notin C
      /\ \A w : w # v => <<"set", w>> \notin C
  BY <1>2
<1>6. /\ EpochIn(t) = EpochIn(s) /\ DepositsIn(t) = DepositsIn(s) /\ PoolsIn(t) = PoolsIn(s)
      /\ NextIn(t) = NextIn(s)
  BY <1>1, <1>3, <1>5, EpochStays, DepositsStay, PoolsStay, NextStays
<1>7. \A w \in {0, 1} : w # v => SetIn(t, w) = SetIn(s, w)
  BY <1>1, <1>4, <1>5, OneSetStays
<1>8. /\ SetsIn(s) = [w \in {0, 1} |-> SetIn(s, w)] /\ SetsIn(t) = [w \in {0, 1} |-> SetIn(t, w)]
  BY DEF SetsIn, ValidatorSets, PrevValidatorPools, ValidatorPools
<1>9. SetsIn(t) = [SetsIn(s) EXCEPT ![v] = SetIn(t, v)]
  BY <1>7, <1>8
<1>10. \A p \in Operators \ S : PoolIn(t, CopyAt(v, p)) = PoolIn(s, CopyAt(v, p))
  BY <1>1, <1>4, SamePool, CopiesAreHandles
<1> QED BY <1>6, <1>8, <1>9, <1>10 DEF OtherParts, OneSet

(* A set is cleared, and its pools with it.                                *)
Cleared(K, v) ==
    [K EXCEPT ![v].list = <<>>,
              ![v].pools = [p \in Operators |->
                  IF p \in {K[v].list[j] : j \in 1 .. Len(K[v].list)}
                  THEN Promise!Blank ELSE @[p]]]

(* `clear' empties the list and the pools it listed.                       *)
LEMMA ClearRefines ==
    ASSUME IInv, NEW v \in {0, 1}, Clear(v)
    PROVE  Promise!Clear(v) /\ out' = None
<1>1. PICK s, t, L, m, n : /\ s = store /\ t = store' /\ L = ListedAt(s, v)
                           /\ m = AddressesOf(s, v) /\ n = AddressesOf(t, v)
  OBVIOUS
<1>2. StoreOK(s) /\ StoreOK(t)
  BY <1>1, ClearDoes DEF IInv
<1>3. /\ Differ(s, t, {<<"set", v>>} \cup CopyParts(v, ToSet(L)))
      /\ \A p \in ToSet(L) : PoolIn(t, CopyAt(v, p)) = BlankPool
      /\ n.len = 0 /\ n.ki = m.ki /\ n.iv = m.iv
  BY <1>1, ClearDoes
<1>4. DOMAIN L = 1 .. Len(L) /\ ToSet(L) \in SUBSET Operators
  <2>1. /\ L = [j \in 1 .. m.len |-> m.iv[j - 1].key] /\ Len(L) = m.len
        /\ \A j \in 1 .. m.len : L[j] \in Operators
    BY <1>1, <1>2, ListedAre
  <2> QED BY <2>1 DEF ToSet
<1>5. PICK listed : listed = {L[j] : j \in 1 .. Len(L)}
  OBVIOUS
<1>6. listed = ToSet(L)
  BY <1>4, <1>5 DEF ToSet
<1>7. SetIn(s, v) = [list |-> L, known |-> {p \in Operators : m.ki[p] # None},
                     pools |-> [p \in Operators |-> PoolIn(s, CopyAt(v, p))]]
  <2>1. L = [j \in 1 .. m.len |-> m.iv[j - 1].key]
    BY <1>1, <1>2, ListedAre
  <2>2. v \in {0, 1} /\ StoreOK(s) /\ m = AddressesOf(s, v)
    BY <1>1, <1>2
  <2>3. SetIn(s, v) = [list  |-> [j \in 1 .. m.len |-> m.iv[j - 1].key],
                       known |-> {p \in Operators : m.ki[p] # None},
                       pools |-> [p \in Operators |-> PoolIn(s, CopyAt(v, p))]]
    BY ONLY <2>2, SetIs
  <2> QED BY ONLY <2>1, <2>3
<1>8. SetIn(t, v) = [list |-> <<>>, known |-> {p \in Operators : m.ki[p] # None},
                     pools |-> [p \in Operators |-> PoolIn(t, CopyAt(v, p))]]
  <2>1. [j \in 1 .. n.len |-> n.iv[j - 1].key] = <<>>
    BY <1>3
  <2> QED BY <1>1, <1>2, <1>3, <2>1, SetIs
<1>9. OtherParts(s, t) /\ OneSet(s, t, v, listed)
  <2>1. /\ listed \in SUBSET Operators
        /\ Differ(s, t, {<<"set", v>>} \cup CopyParts(v, listed))
    BY <1>3, <1>4, <1>6
  <2> QED BY <2>1, OneSetRefines
<1>10. PICK old : old = SetsIn(s)[v] /\ old = SetIn(s, v)
  BY <1>9 DEF OneSet
<1>11. old = [list |-> old.list, known |-> old.known, pools |-> old.pools] /\ old.list = L
  BY <1>7, <1>10
<1>12. SetIn(t, v).pools = [p \in Operators |-> IF p \in listed THEN Promise!Blank ELSE old.pools[p]]
  <2>1. \A p \in Operators : old.pools[p] = PoolIn(s, CopyAt(v, p))
    BY <1>7, <1>10
  <2>2. SetIn(t, v).pools = [p \in Operators |-> PoolIn(t, CopyAt(v, p))]
    BY <1>8
  <2>3. BlankPool = Promise!Blank
    BY DEF BlankPool, Promise!Blank
  <2> QED BY <1>3, <1>6, <1>9, <2>1, <2>2, <2>3 DEF OneSet
<1>13. SetIn(t, v) = [old EXCEPT !.list = <<>>, !.pools = SetIn(t, v).pools]
  <2>1. SetIn(t, v).list = <<>> /\ SetIn(t, v).known = old.known
    BY <1>7, <1>8, <1>10
  <2>2. SetIn(t, v) = [list |-> SetIn(t, v).list, known |-> SetIn(t, v).known,
                       pools |-> SetIn(t, v).pools]
    BY <1>8
  <2> QED BY <1>11, <2>1, <2>2
<1>14. SetsIn(t) = [SetsIn(s) EXCEPT
          ![v].list = <<>>,
          ![v].pools = [p \in Operators |-> IF p \in listed THEN Promise!Blank ELSE @[p]]]
  <2>1. PICK u : u = [p \in Operators |-> IF p \in listed THEN Promise!Blank ELSE old.pools[p]]
    OBVIOUS
  <2>2. SetIn(t, v) = [old EXCEPT !.list = <<>>, !.pools = u]
    BY <1>12, <1>13, <2>1
  <2>3. PICK K : K = SetsIn(s)
    OBVIOUS
  <2>4. K = [w \in {0, 1} |-> K[w]]
    BY <2>3 DEF SetsIn, ValidatorSets, PrevValidatorPools, ValidatorPools
  <2>5. SetsIn(t) = [K EXCEPT ![v] = [old EXCEPT !.list = <<>>, !.pools = u]] /\ old = K[v]
    BY <1>9, <1>10, <2>2, <2>3 DEF OneSet
  <2>6. SetsIn(t) = [K EXCEPT ![v].list = <<>>, ![v].pools = u]
    BY ONLY <1>11, <2>4, <2>5
  <2>7. u = [p \in Operators |-> IF p \in listed THEN Promise!Blank ELSE K[v].pools[p]]
    BY <2>1, <2>5
  <2> QED BY <2>3, <2>6, <2>7
<1>15. listed = {SetsIn(s)[v].list[j] : j \in 1 .. Len(SetsIn(s)[v].list)}
  BY <1>5, <1>10, <1>11
<1>16. SetsIn(t) = Cleared(SetsIn(s), v)
  BY ONLY <1>14, <1>15, Zenon DEF Cleared
<1>17. SetsIn(store)' = Cleared(SetsIn(store), v)
  BY ONLY <1>1, <1>16
<1>18. UNCHANGED <<EpochIn(store), DepositsIn(store), PoolsIn(store), NextIn(store)>>
  BY <1>1, <1>9 DEF OtherParts
<1>19. out' = None
  BY DEF Clear
<1> QED BY ONLY <1>17, <1>18, <1>19, Zenon DEF Promise!Clear, Cleared

(* A set after a push.                                                     *)
Pushed(K, v, fields, list) ==
    LET p == fields[0]
        given == {list[j] : j \in 1 .. Len(list)}
        copy == [fields |-> fields,
                 stakes |-> IF Len(list) > M THEN K[v].pools[p].stakes ELSE given]
    IN  [K EXCEPT ![v] = [list  |-> Append(@.list, p),
                          known |-> @.known \cup {p},
                          pools |-> [@.pools EXCEPT ![p] = copy]]]

(* What is pushed is listed, known, and copied, or there is no room.       *)
LEMMA PushRefines ==
    ASSUME IInv, NEW v \in {0, 1}, NEW pool \in PoolRecord, NEW list \in Lists,
           Push(v, pool, list)
    PROVE  Promise!Push(v, pool, list)
<1>1. PICK s, t, m, n, p : /\ s = store /\ t = store' /\ p = pool[Operator]
                           /\ m = AddressesOf(s, v) /\ n = AddressesOf(t, v)
  OBVIOUS
<1>2. StoreOK(s) /\ p \in Operators /\ pool[0] = p
  BY <1>1, PoolRecordFields DEF IInv, Operator
<1>3. PICK given : given = {list[j] : j \in 1 .. Len(list)}
  OBVIOUS
<1>4. given = ToSet(list)
  <2>1. list \in Seq([key : Owners, power : Powers]) BY ListsOfStakes
  <2>2. DOMAIN list = 1 .. Len(list) BY <2>1
  <2> QED BY <1>3, <2>2 DEF ToSet
<1>5. m \in AddressMap!IndexMaps /\ Traced(m) /\ m.len \in 0 .. N /\ Len(ListedAt(s, v)) = m.len
  BY <1>1, <1>2, ListedAre
<1>6. SetsIn(s)[v].list = ListedAt(s, v)
  BY DEF SetsIn, SetIn, ValidatorSets, PrevValidatorPools, ValidatorPools
<1>7. CASE m.len = N /\ out' = Failed /\ UNCHANGED store
  <2>1. Len(SetsIn(s)[v].list) >= N BY <1>5, <1>6, <1>7, SizesArePositive
  <2>2. OtherParts(s, t) /\ SetsIn(t) = SetsIn(s) BY <1>1, <1>7 DEF OtherParts
  <2> QED BY <1>1, <1>7, <2>1, <2>2 DEF OtherParts, Promise!Push
<1>8. CASE /\ m.len < N /\ out' = [set |-> v, operator |-> p, stakes |-> ToSet(list)]
  <2>1. PICK x : x = CopyAt(v, p)
    OBVIOUS
  <2>2. /\ IInv' /\ Differ(s, t, {<<"set", v>>} \cup PoolParts(x))
        /\ n = AddressMap!MapPush(m, [key |-> p])
        /\ PoolIn(t, x) = [fields |-> pool,
                           stakes |-> IF Len(list) > M THEN PoolIn(s, x).stakes ELSE given]
    <3>1. IInv' /\ HasPushed(store, store', v, pool, list)
      BY <1>1, <1>8, PushDoes
    <3>2. HasPushed(s, t, v, pool, list)
      BY <1>1, <3>1
    <3> QED BY ONLY <1>1, <1>4, <2>1, <3>1, <3>2 DEF HasPushed
  <2>3. StoreOK(t) BY <1>1, <2>2 DEF IInv
  <2>4. /\ n.len = m.len + 1
        /\ \A q \in Operators : n.ki[q] = IF q = p THEN m.len ELSE m.ki[q]
        /\ \A i \in 0 .. N - 1 : n.iv[i] = IF i = m.len THEN [key |-> p] ELSE m.iv[i]
    BY <1>2, <1>5, <1>8, <2>2, AddressPushed
  <2>5. CopyParts(v, {p}) = PoolParts(x) BY <2>1 DEF CopyParts
  <2>6. OtherParts(s, t) /\ OneSet(s, t, v, {p})
    <3>1. {p} \in SUBSET Operators /\ Differ(s, t, {<<"set", v>>} \cup CopyParts(v, {p}))
      BY <1>2, <2>2, <2>5
    <3> QED BY <3>1, OneSetRefines
  <2>7. PICK old, new : old = SetIn(s, v) /\ new = SetIn(t, v)
    OBVIOUS
  <2>8. /\ old.list = [j \in 1 .. m.len |-> m.iv[j - 1].key]
        /\ old.known = {q \in Operators : m.ki[q] # None}
        /\ old.pools = [q \in Operators |-> PoolIn(s, CopyAt(v, q))]
    <3>1. v \in {0, 1} /\ StoreOK(s) /\ m = AddressesOf(s, v) BY <1>1, <1>2
    <3>2. old = [list |-> [j \in 1 .. m.len |-> m.iv[j - 1].key],
                 known |-> {q \in Operators : m.ki[q] # None},
                 pools |-> [q \in Operators |-> PoolIn(s, CopyAt(v, q))]]
      BY ONLY <2>7, <3>1, SetIs
    <3> QED BY ONLY <3>2
  <2>9. /\ new = [list |-> new.list, known |-> new.known, pools |-> new.pools]
        /\ new.list = [j \in 1 .. n.len |-> n.iv[j - 1].key]
        /\ new.known = {q \in Operators : n.ki[q] # None}
        /\ new.pools = [q \in Operators |-> PoolIn(t, CopyAt(v, q))]
    <3>1. v \in {0, 1} /\ StoreOK(t) /\ n = AddressesOf(t, v) BY <1>1, <2>3
    <3>2. new = [list |-> [j \in 1 .. n.len |-> n.iv[j - 1].key],
                 known |-> {q \in Operators : n.ki[q] # None},
                 pools |-> [q \in Operators |-> PoolIn(t, CopyAt(v, q))]]
      BY ONLY <2>7, <3>1, SetIs
    <3> QED BY ONLY <3>2
  <2>10. new.list = Append(old.list, p)
    <3>1. m.len \in Nat /\ n.len \in Nat BY <1>5, <2>4, SizesArePositive
    <3>2. ASSUME NEW j \in 1 .. m.len PROVE n.iv[j - 1].key = m.iv[j - 1].key
      <4>1. j - 1 \in 0 .. N - 1 /\ j - 1 # m.len BY <1>8, <3>1, SizesArePositive
      <4> QED BY <2>4, <4>1
    <3>3. n.iv[n.len - 1].key = p
      <4>1. m.len \in 0 .. N - 1 /\ n.len - 1 = m.len BY <1>8, <2>4, <3>1, SizesArePositive
      <4> QED BY <2>4, <4>1
    <3>4. Append(old.list, p) = [j \in 1 .. m.len + 1 |-> IF j = m.len + 1 THEN p ELSE m.iv[j - 1].key]
      <4>1. Len(old.list) = m.len /\ old.list = [j \in 1 .. m.len |-> m.iv[j - 1].key]
        BY <2>8, <3>1
      <4> QED BY <3>1, <4>1
    <3>5. \A j \in 1 .. n.len : n.iv[j - 1].key = IF j = m.len + 1 THEN p ELSE m.iv[j - 1].key
      BY <2>4, <3>1, <3>2, <3>3
    <3> QED BY <2>4, <2>9, <3>4, <3>5
  <2>11. new.known = old.known \cup {p}
    <3>1. m.len # None BY <1>5, NoneIsNoIndex
    <3>2. \A q \in Operators : n.ki[q] # None <=> q = p \/ m.ki[q] # None BY <2>4, <3>1
    <3> QED BY <1>2, <2>8, <2>9, <3>2
  <2>12. PICK copy : copy = [fields |-> pool, stakes |-> IF Len(list) > M THEN old.pools[p].stakes ELSE given]
    OBVIOUS
  <2>13. new.pools = [old.pools EXCEPT ![p] = copy]
    <3>1. old.pools[p] = PoolIn(s, x) BY <1>2, <2>1, <2>8
    <3>2. PoolIn(t, x) = copy BY ONLY <2>2, <2>12, <3>1
    <3>3. \A q \in Operators : PoolIn(t, CopyAt(v, q)) = IF q = p THEN copy ELSE PoolIn(s, CopyAt(v, q))
      BY <2>1, <2>6, <3>2 DEF OneSet
    <3> QED BY ONLY <2>8, <2>9, <3>3
  <2>14. new = [list |-> Append(old.list, p), known |-> old.known \cup {p},
                pools |-> [old.pools EXCEPT ![p] = copy]]
    BY <2>9, <2>10, <2>11, <2>13
  <2>15. SetsIn(t) = [SetsIn(s) EXCEPT ![v] = new] /\ SetsIn(s)[v] = old
    BY <2>6, <2>7 DEF OneSet
  <2>16. SetsIn(t) = Pushed(SetsIn(s), v, pool, list)
    <3>1. Pushed(SetsIn(s), v, pool, list) =
            [SetsIn(s) EXCEPT ![v] = [list |-> Append(old.list, pool[0]),
                                      known |-> old.known \cup {pool[0]},
                                      pools |-> [old.pools EXCEPT ![pool[0]] =
              [fields |-> pool,
               stakes |-> IF Len(list) > M THEN old.pools[pool[0]].stakes ELSE given]]]]
      <4>1. PICK K : K = SetsIn(s) OBVIOUS
      <4>2. K[v] = old BY ONLY <2>15, <4>1
      <4>3. Pushed(K, v, pool, list) =
              [K EXCEPT ![v] = [list |-> Append(K[v].list, pool[0]),
                                known |-> K[v].known \cup {pool[0]},
                                pools |-> [K[v].pools EXCEPT ![pool[0]] =
                [fields |-> pool,
                 stakes |-> IF Len(list) > M THEN K[v].pools[pool[0]].stakes ELSE given]]]]
        BY ONLY <1>3, Zenon DEF Pushed
      <4> QED BY ONLY <4>1, <4>2, <4>3, Zenon
    <3>2. pool[0] = p BY <1>2
    <3>3. Pushed(SetsIn(s), v, pool, list) =
            [SetsIn(s) EXCEPT ![v] = [list |-> Append(old.list, p), known |-> old.known \cup {p},
                                      pools |-> [old.pools EXCEPT ![p] = copy]]]
      BY ONLY <2>12, <3>1, <3>2, Zenon
    <3> QED BY ONLY <2>14, <2>15, <3>3, Zenon
  <2>17. /\ SetsIn(store)' = Pushed(SetsIn(store), v, pool, list)
         /\ Len(SetsIn(store)[v].list) < N
    BY <1>1, <1>5, <1>6, <1>8, <2>16
  <2>18. UNCHANGED <<EpochIn(store), DepositsIn(store), PoolsIn(store), NextIn(store)>>
    BY <1>1, <2>6 DEF OtherParts
  <2>19. out' = [set |-> v, operator |-> pool[0], stakes |-> {list[j] : j \in 1 .. Len(list)}]
    BY <1>2, <1>3, <1>4, <1>8
  <2> QED BY ONLY <2>17, <2>18, <2>19, Zenon DEF Promise!Push, Pushed
<1> QED BY <1>1, <1>7, <1>8, PushCases

-----------------------------------------------------------------------------
(* The refinement. *)

(* An empty store is an account where nothing is.                          *)
LEMMA InitRefines == Init => Promise!Init
<1> SUFFICES ASSUME Init PROVE Promise!Init
  OBVIOUS
<1>1. PICK s : s = store OBVIOUS
<1>2. DOMAIN s = {} /\ StoreOK(s)
  BY <1>1, InitEstablishes DEF Init, EmptyStore, IInv
<1>3. \A r : Read(s, r) = None
  BY <1>2 DEF Read
<1>4. ASSUME NEW d, NEW keys, NEW c, NEW m, m = Loaded(s, d, keys, c)
      PROVE  m.len = 0 /\ \A k \in keys : m.ki[k] = None
  BY <1>2, <1>3, <1>4 DEF Loaded
<1>5. EpochIn(s) = 0
  BY <1>2 DEF EpochIn
<1>6. DepositsIn(s) = [d \in Operators \X Owners |-> Promise!NoDeposit]
  <2>1. \A d : DepositIn(s, d) = Promise!NoDeposit
    BY <1>3 DEF DepositIn, Promise!NoDeposit
  <2> QED BY <2>1 DEF DepositsIn
<1>7. \A x : PoolIn(s, x) = Promise!Blank
  <2> TAKE x
  <2>1. StakesOf(s, x).len = 0
    BY <1>4 DEF StakesOf
  <2>2. StakeMap!ValuesIn(StakesOf(s, x)) = {}
    BY <2>1 DEF StakeMap!ValuesIn
  <2> QED BY <1>3, <2>2 DEF PoolIn, Promise!Blank
<1>8. PoolsIn(s) = [p \in Operators |-> Promise!Blank]
  BY <1>7 DEF PoolsIn
<1>9. ASSUME NEW v \in {0, 1}
      PROVE  SetIn(s, v) = [list |-> <<>>, known |-> {}, pools |-> [p \in Operators |-> Promise!Blank]]
  <2>1. PICK m : m = AddressesOf(s, v) OBVIOUS
  <2>2. m.len = 0 /\ \A p \in Operators : m.ki[p] = None
    BY <1>4, <2>1 DEF AddressesOf
  <2>3. SetIn(s, v) = [list  |-> [j \in 1 .. m.len |-> m.iv[j - 1].key],
                       known |-> {p \in Operators : m.ki[p] # None},
                       pools |-> [p \in Operators |-> PoolIn(s, CopyAt(v, p))]]
    BY <1>2, <2>1, SetIs
  <2>4. [j \in 1 .. m.len |-> m.iv[j - 1].key] = <<>> BY <2>2
  <2>5. {p \in Operators : m.ki[p] # None} = {} BY <2>2
  <2>6. [p \in Operators |-> PoolIn(s, CopyAt(v, p))] = [p \in Operators |-> Promise!Blank]
    BY <1>7
  <2> QED BY ONLY <2>3, <2>4, <2>5, <2>6
<1>10. SetsIn(s) = [v \in ValidatorSets |->
          [list |-> <<>>, known |-> {}, pools |-> [p \in Operators |-> Promise!Blank]]]
  BY <1>9 DEF SetsIn, ValidatorSets, PrevValidatorPools, ValidatorPools
<1>11. NextIn(s) = {}
  <2>1. NextPools(s).len = 0
    BY <1>4 DEF NextPools
  <2> QED BY <2>1 DEF NextIn, NextMap!ValuesIn
<1>12. out = None
  BY DEF Init
<1> QED BY ONLY <1>1, <1>5, <1>6, <1>8, <1>10, <1>11, <1>12 DEF Promise!Init

(* Every step is a step of the promise, or changes nothing of it.          *)
LEMMA NextRefines == IInv /\ [Next]_vars => [Promise!Next]_(Promise!vars)
<1> SUFFICES ASSUME IInv, [Next]_vars PROVE [Promise!Next]_(Promise!vars)
  OBVIOUS
<1>1. CASE UNCHANGED vars
  <2>1. UNCHANGED <<store, out>> BY <1>1 DEF vars
  <2>2. /\ UNCHANGED EpochIn(store) /\ UNCHANGED DepositsIn(store) /\ UNCHANGED PoolsIn(store)
        /\ UNCHANGED SetsIn(store) /\ UNCHANGED NextIn(store)
    BY <2>1
  <2> QED BY <2>1, <2>2 DEF Promise!vars
<1>2. CASE \E e \in Epochs : SetCurrentEpoch(e)
  BY <1>2, EpochRefines DEF Promise!Next
<1>3. CASE \E p \in Operators, owner \in Owners, f \in DepositField :
              \E x \in DepositValue[f] : SetDeposit(p, owner, f, x)
  <2>1. PICK p \in Operators, owner \in Owners, f \in DepositField :
            \E x \in DepositValue[f] : SetDeposit(p, owner, f, x)
    BY <1>3
  <2>2. PICK x \in DepositValue[f] : SetDeposit(p, owner, f, x) BY <2>1
  <2>3. PICK d, s, t : d = <<p, owner>> /\ s = store /\ t = store' OBVIOUS
  <2>4. Differ(s, t, {<<"deposit", d>>}) /\ DepositIn(t, d) = [DepositIn(s, d) EXCEPT ![f] = x]
    BY <2>2, <2>3, SetDepositDoes
  <2>5. d \in Operators \X Owners BY <2>3
  <2>6. Promise!ChangeDeposit(d) BY <2>3, <2>4, <2>5, DepositRefines
  <2>7. out' = None BY <2>2 DEF SetDeposit
  <2> QED BY <2>5, <2>6, <2>7 DEF Promise!Next
<1>4. CASE \E p \in Operators, owner \in Owners : DeleteDeposit(p, owner)
  <2>1. PICK p \in Operators, owner \in Owners : DeleteDeposit(p, owner) BY <1>4
  <2>2. PICK d, s, t : d = <<p, owner>> /\ s = store /\ t = store' OBVIOUS
  <2>3. Differ(s, t, {<<"deposit", d>>}) /\ DepositIn(t, d) = NoDeposit
    BY <2>1, <2>2, DeleteDepositDoes
  <2>4. d \in Operators \X Owners BY <2>2
  <2>5. Promise!ChangeDeposit(d) BY <2>2, <2>3, <2>4, DepositRefines
  <2>6. out' = None BY <2>1 DEF DeleteDeposit
  <2> QED BY <2>4, <2>5, <2>6 DEF Promise!Next
<1>5. ASSUME NEW x \in Handles,
             \/ \E f \in PoolField : \E y \in PoolValue[f] : SetPoolField(x, f, y)
             \/ DeletePool(x) \/ ChangeStakes(x)
      PROVE  Promise!Next
  BY <1>5, PoolCallRefines DEF Promise!Next
<1>6. CASE \E x \in Handles, f \in PoolField : \E y \in PoolValue[f] : SetPoolField(x, f, y)
  BY <1>5, <1>6
<1>7. CASE \E x \in Handles : DeletePool(x) \/ ChangeStakes(x)
  BY <1>5, <1>7
<1>8. CASE ChangeNextPools
  BY <1>8, NextPoolsRefine DEF Promise!Next
<1>9. CASE \E v \in ValidatorSets, pool \in PoolRecord, list \in Lists : Push(v, pool, list)
  <2>1. PICK v \in ValidatorSets, pool \in PoolRecord, list \in Lists : Push(v, pool, list)
    BY <1>9
  <2>2. v \in {0, 1} BY DEF ValidatorSets, PrevValidatorPools, ValidatorPools
  <2>3. Promise!Push(v, pool, list) BY <2>1, <2>2, PushRefines
  <2> QED BY <2>3 DEF Promise!Next
<1>10. CASE \E v \in ValidatorSets : Clear(v)
  <2>1. PICK v \in ValidatorSets : Clear(v) BY <1>10
  <2>2. v \in {0, 1} BY DEF ValidatorSets, PrevValidatorPools, ValidatorPools
  <2>3. Promise!Clear(v) /\ out' = None BY <2>1, <2>2, ClearRefines
  <2> QED BY <2>3 DEF Promise!Next
<1> QED BY <1>1, <1>2, <1>3, <1>4, <1>6, <1>7, <1>8, <1>9, <1>10 DEF Next

(* The network account keeps its promise: the rows of one store are an     *)
(* epoch, deposits, pools and three sets of pools, and a call that changes *)
(* one of them changes no other.                                           *)
THEOREM Refinement == Spec => ImplementsNetwork
<1> QED BY InitRefines, NextRefines, Invariance, PTL DEF Spec, ImplementsNetwork, Promise!Spec
=============================================================================
