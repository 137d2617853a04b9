---------------------------- MODULE LedgerState ----------------------------
(***************************************************************************)
(* What a world state promises its caller, without tries, hashes or rows:  *)
(* accounts with fields and storages.  There is the ledger the database    *)
(* holds, the ledger a session works on, and the ledgers that were handed  *)
(* to the caller at a close and are not in the database yet.               *)
(***************************************************************************)
EXTENDS Sequences

CONSTANTS Address, Field, StorageKeys, StorageValue,
          FieldValue,   \* by field
          None,         \* a field or a storage that was never set
          Empty,        \* the value of no bytes, which is no value
          NoLedger,     \* no ledger
          IsKept(_, _)  \* the fields an upgrade carries over

VARIABLES durable, working, handed

vars == <<durable, working, handed>>

EmptyStorage == [k \in {} |-> None]
NoAccount == [fields |-> [f \in Field |-> None], storage |-> None]
EmptyLedger(v) == [version |-> v, accounts |-> [a \in Address |-> NoAccount]]

Init == /\ durable = NoLedger
        /\ working = NoLedger
        /\ handed = <<>>

Genesis(v) == /\ durable = NoLedger /\ working = NoLedger /\ handed = <<>>
              /\ working' = EmptyLedger(v)
              /\ UNCHANGED <<durable, handed>>

Open == /\ durable # NoLedger /\ working = NoLedger /\ handed = <<>>
        /\ working' = durable
        /\ UNCHANGED <<durable, handed>>

(* One account of the working ledger changes. *)
Change(a, account) == /\ working # NoLedger
                      /\ working' = [working EXCEPT !.accounts[a] = account]
                      /\ UNCHANGED <<durable, handed>>

SetField(a, f, x) ==
    Change(a, [working.accounts[a] EXCEPT !.fields[f] = IF x = Empty THEN None ELSE x])

CreateStorage(a) ==
    /\ working # NoLedger /\ working.accounts[a].storage = None
    /\ Change(a, [working.accounts[a] EXCEPT !.storage = EmptyStorage])

WriteStorage(a, data) ==
    /\ working # NoLedger /\ working.accounts[a].storage # None
    /\ LET old == working.accounts[a].storage
           erased == {k \in DOMAIN data : data[k] = Empty}
       IN  Change(a, [working.accounts[a] EXCEPT !.storage =
               [k \in (DOMAIN old \cup DOMAIN data) \ erased |->
                   IF k \in DOMAIN data THEN data[k] ELSE old[k]]])

EraseStorage(a, keys) ==
    /\ working # NoLedger /\ working.accounts[a].storage # None
    /\ LET old == working.accounts[a].storage
       IN  Change(a, [working.accounts[a] EXCEPT !.storage =
               [k \in DOMAIN old \ keys |-> old[k]]])

(* V2 takes over every storage, and every field that says something. *)
Upgrade ==
    /\ working # NoLedger /\ working.version = 1
    /\ working' = [version |-> 2,
          accounts |-> [a \in Address |->
              [working.accounts[a] EXCEPT !.fields = [f \in Field |->
                  IF @[f] # None /\ IsKept(f, @[f]) THEN @[f] ELSE None]]]]
    /\ UNCHANGED <<durable, handed>>

Close == /\ working # NoLedger
         /\ handed' = Append(handed, working)
         /\ UNCHANGED <<durable, working>>

(* In the order they were handed out. *)
Apply == /\ handed # <<>>
         /\ durable' = Head(handed)
         /\ handed' = Tail(handed)
         /\ UNCHANGED working

EndSession == /\ working' = NoLedger
              /\ UNCHANGED <<durable, handed>>

(* The session, and what it handed out, are lost. *)
Lose == /\ working' = NoLedger
        /\ handed' = <<>>
        /\ UNCHANGED durable

PartialData == UNION {[K -> StorageValue] : K \in SUBSET StorageKeys}

Next == \/ \E v \in {1, 2} : Genesis(v)
        \/ Open
        \/ \E a \in Address, f \in Field : \E x \in FieldValue[f] : SetField(a, f, x)
        \/ \E a \in Address : CreateStorage(a)
        \/ \E a \in Address, data \in PartialData : WriteStorage(a, data)
        \/ \E a \in Address, keys \in SUBSET StorageKeys : EraseStorage(a, keys)
        \/ Upgrade
        \/ Close
        \/ Apply
        \/ EndSession
        \/ Lose

Spec == Init /\ [][Next]_vars
=============================================================================
