----------------------------- MODULE RedisLists -----------------------------
(***************************************************************************)
(* The lists of Redis, as the watcher uses them: RPUSH is Append.          *)
(***************************************************************************)
EXTENDS Naturals, Sequences, FiniteSets

(* LREM list 0 x: every copy of x goes.  kept[n] is what is left of the    *)
(* first n elements.                                                       *)
Without(list, x) ==
    LET kept[n \in 0 .. Len(list)] ==
            IF n = 0 THEN <<>>
            ELSE IF list[n] = x THEN kept[n - 1] ELSE Append(kept[n - 1], list[n])
    IN  kept[Len(list)]

Copies(list, x) == Cardinality({n \in DOMAIN list : list[n] = x})
=============================================================================
