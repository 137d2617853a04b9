---------------------------- MODULE MCWorldState ----------------------------
(* Small worlds for WorldState.  Symbols are numbers so that TLC can order *)
(* rows; addresses, fields and storage keys are different numbers.         *)
EXTENDS WorldState

CONSTANT MaxRows   \* rows of its own version a session buffers before it stops

(* Values by field. *)
ZeroOnly == [f \in Field |-> {Zero}]
ZeroOneOrEmpty == [f \in Field |-> IF f = ContractCode THEN {1, Empty} ELSE {Zero, 1}]

IsV2Row(r) == Len(r) > 1 /\ r[1] \in {0, 1}
Buffered(o) ==
    Cardinality({r \in DOMAIN o.inserts \cup o.deletes : IsV2Row(r) <=> o.version = V2})

(* State constraint: sessions stay short; the database, the number of      *)
(* sessions and their order stay unbounded.                                *)
ShortSession ==
    Alive => MapThenSumSet(LAMBDA a : Buffered(ws.map[a].db), DOMAIN ws.map)
               + Buffered(ws.accounts.db) <= MaxRows
=============================================================================
