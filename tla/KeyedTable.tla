----------------------------- MODULE KeyedTable -----------------------------
(***************************************************************************)
(* What include/cc_hash_table.h promises its callers: an association of    *)
(* keys with values, whatever the buckets.  CcHashTable implements it.     *)
(***************************************************************************)
EXTENDS Functions

CONSTANTS Keys, Values, NULL

VARIABLES map,      \* the values of the keys in the table
          returned  \* the last operation and what it returned

vars == <<map, returned>>

Empty == [k \in {} |-> NULL]
ValueOf(m, k) == IF k \in DOMAIN m THEN m[k] ELSE NULL
With(m, k, v) == [x \in DOMAIN m \cup {k} |-> IF x = k THEN v ELSE m[x]]
Without(m, k) == Restrict(m, DOMAIN m \ {k})

Answer(op, v) == [op |-> op, value |-> v]

Init == map = Empty /\ returned = NULL

\* "If the key already exists in the hash_table its current value is replaced
\* with the new value", and the old value is returned.
Insert(k, v) == /\ map' = With(map, k, v)
                /\ returned' = Answer("insert", ValueOf(map, k))
Lookup(k) == returned' = Answer("lookup", ValueOf(map, k)) /\ UNCHANGED map
Delete(k) == /\ map' = Without(map, k)
             /\ returned' = Answer("delete", ValueOf(map, k))
DeleteAll == map' = Empty /\ returned' = NULL

Next == \/ \E k \in Keys : Lookup(k) \/ Delete(k) \/ \E v \in Values : Insert(k, v)
        \/ DeleteAll

Spec == Init /\ [][Next]_vars
=============================================================================
