---------------------------- MODULE MCHashTable ----------------------------
(* CcHashTable for TLC: two keys share a bucket, and values and these two    *)
(* keys are interchangeable.                                                 *)
EXTENDS CcHashTable, TLC

CONSTANTS k1, k2, k3, b1, b2, b3

MCBucketOf == [k \in Keys |-> CASE k \in {k1, k2} -> b1
                                [] k = k3 -> b2
                                [] OTHER -> b3]

Symmetry == Permutations(Values) \cup Permutations({k1, k2})
=============================================================================
