---------------------------- MODULE KeyValueMap ----------------------------
(***************************************************************************)
(* What ht.h promises of the table: a map from keys to values that are not *)
(* NULL, where a call that runs out of memory changes nothing.  After a    *)
(* call that takes an entry away, for which ht.h has no function, nothing  *)
(* is promised any more.                                                   *)
(***************************************************************************)
CONSTANTS Keys, Values, None

VARIABLES
    map,        \* map[k]: the value of k, None when k is not in the table
    reply,      \* what the last call returned
    promised    \* only calls that ht.h declares have changed the table

Init == map = [k \in Keys |-> None] /\ reply = None /\ promised = TRUE

Set(k, v) == map' = [map EXCEPT ![k] = v] /\ reply' = k

SetFails == map' = map /\ reply' = None

Get(k) == map' = map /\ reply' = map[k]

RemoveFails == map' = map /\ reply' = FALSE

Call ==
    \/ SetFails \/ RemoveFails
    \/ \E k \in Keys : Get(k) \/ \E v \in Values : Set(k, v)

Next == promised' => promised /\ Call

Spec == Init /\ [][Next]_<<map, reply, promised>>

=============================================================================
