------------------------ MODULE MCWorldStateRecovery ------------------------
(* Small worlds for WorldStateRecovery. *)
EXTENDS WorldStateRecovery, MCWorldState

CONSTANT MaxRest   \* rows in the database that no state needs

NeededNow == IF head = NoState THEN {} ELSE HeadRows

(* State constraint. *)
FewRest == Cardinality(DOMAIN storage \ NeededNow) <= MaxRest
=============================================================================
