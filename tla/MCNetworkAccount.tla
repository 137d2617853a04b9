-------------------------- MODULE MCNetworkAccount --------------------------
(* Small network accounts.  Operators are numbers that are tags as well.   *)
EXTENDS NetworkAccount

CONSTANTS MaxParts,   \* parts of the account that have rows at a time
          Focus,      \* the first symbol of the rows there may be
          MaxGap      \* fields a pool may lack, if it does not lack most

AllLists == SeqOf(Stake, M + 1)

(* State constraints. *)
FewParts == LET parts == {r[1] : r \in DOMAIN store}
            IN  parts \subseteq Focus /\ Cardinality(parts) <= MaxParts

FieldsOf(prefix) == {f \in PoolField : Append(prefix, f) \in DOMAIN store}
MostlyWhole == \A prefix \in Handles :
                   Cardinality(FieldsOf(prefix)) \in {0, 1} \cup (4 - MaxGap) .. 4
=============================================================================
