------------------------- MODULE TransactionalStore -------------------------
(***************************************************************************)
(* What the overlays of a session promise together, without overlays: the  *)
(* rows the database holds, the rows as the session has set them, and the  *)
(* rows as they were when they were last handed to the caller.  To hand    *)
(* over is to take all rows as they are set; to make them durable takes    *)
(* all of them in one step whose result does not depend on any order.      *)
(***************************************************************************)
CONSTANTS Rows, Values,
          None,      \* no value: not one of Values
          Nothing    \* nothing handed over

VARIABLES durable,   \* [Rows -> Values \cup {None}]
          working,   \* the same for the session
          handed     \* the same for what was handed over and is not durable, or Nothing

vars == <<durable, working, handed>>

Init == /\ durable = [r \in Rows |-> None]
        /\ working = durable
        /\ handed = Nothing

Write(r, x) == /\ UNCHANGED <<durable, handed>>
               /\ working' = [working EXCEPT ![r] = x]

HandOver == /\ handed = Nothing
            /\ handed' = working
            /\ UNCHANGED <<durable, working>>

MakeDurable == /\ handed # Nothing
               /\ durable' = handed
               /\ handed' = Nothing
               /\ UNCHANGED working

(* A session ends, or the process does, before its rows are durable. *)
Lose == /\ working' = durable
        /\ handed' = Nothing
        /\ UNCHANGED durable

Next == \/ \E r \in Rows, x \in Values \cup {None} : Write(r, x)
        \/ HandOver
        \/ MakeDurable
        \/ Lose

Spec == Init /\ [][Next]_vars
=============================================================================
