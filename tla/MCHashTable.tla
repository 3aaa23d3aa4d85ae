---------------------------- MODULE MCHashTable ----------------------------
(***************************************************************************)
(* A table that starts with four slots.  Three keys share the last slot of *)
(* the array and one has the first: probes collide and wrap around, and    *)
(* the keys part again when the array doubles.                             *)
(***************************************************************************)
EXTENDS HashTable

CONSTANTS k1, k2, k3, k4, v1, v2

FourKeys == {k1, k2, k3, k4}
TwoValues == {v1, v2}
Colliding == [k \in FourKeys |-> IF k = k1 THEN 3 ELSE IF k = k2 THEN 7 ELSE IF k = k3 THEN 11 ELSE 0]
=============================================================================
