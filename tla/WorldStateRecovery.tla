------------------------- MODULE WorldStateRecovery -------------------------
(***************************************************************************)
(* A caller that does not apply a change set in one piece: it inserts, as  *)
(* tests/tests.rs does, and the process may stop before it deletes and     *)
(* moves on to the new state hash.  It starts again from the last state    *)
(* hash it recorded, on a database with rows of a session that is lost.    *)
(* ImplementsLedger still holds: no node of the last state is missing, and *)
(* no row that was left behind is taken for a node it is not.              *)
(***************************************************************************)
EXTENDS WorldState

(* Variant: the deletions first, as in README.md. *)
DeletionsOf(c) ==
    /\ storage' = Without(storage, c.deletes)
    /\ changes' = [changes EXCEPT ![1].deletes = {}]

(* The first half of `apply_changes': what is left are the deletions, and  *)
(* the state hash.                                                         *)
InsertionsOf(c) ==
    /\ storage' = Extend(storage, c.inserts)
    /\ changes' = [changes EXCEPT ![1].inserts = EmptyRows]

BeginApply == /\ changes # <<>>
              /\ InsertionsOf(Head(changes))
              /\ UNCHANGED <<head, ws>>

RecoveryNext == Next \/ BeginApply
RecoverySpec == Init /\ [][RecoveryNext]_vars
=============================================================================
