----------------------------- MODULE HashTable -----------------------------
(***************************************************************************)
(* The hash table of the nginx module (ht.c): open addressing with linear  *)
(* probing in a power-of-two array that doubles when it is half full.      *)
(***************************************************************************)
EXTENDS Naturals, FiniteSets

CONSTANTS
    Keys, Values,
    Hash,               \* hash_key, any function from keys to numbers
    InitialCapacity,    \* INITIAL_CAPACITY
    MaxCapacity,        \* bound: a larger array overflows size_t
    None                \* NULL

ASSUME HashOfKeys == Hash \in [Keys -> Nat]

ASSUME PowerOfTwo == \E n \in 1 .. InitialCapacity : InitialCapacity = 2 ^ n

ASSUME CapacitiesAreOrdered ==
    InitialCapacity \in Nat \ {0} /\ MaxCapacity \in Nat /\ InitialCapacity <= MaxCapacity

ASSUME NoneIsNoValue == None \notin Keys \cup Values

VARIABLES entries, capacity, length,
          iterator,     \* [index, seen] of the iteration under way, or None
          reply,        \* what the last set, get or remove returned
          removed       \* ht_remove has removed an entry

table == <<entries, capacity, length>>
vars == <<table, iterator, reply, removed>>

Entries == [key : Keys \cup {None}, value : Values \cup {None}]

TypeOK ==
    /\ entries \in [0 .. capacity - 1 -> Entries]
    /\ capacity \in InitialCapacity .. MaxCapacity
    /\ length \in Nat
    /\ iterator \in [index : 0 .. capacity, seen : SUBSET Keys] \cup {None}
    /\ reply \in Keys \cup Values \cup BOOLEAN \cup {None}
    /\ removed \in BOOLEAN

Empty == [key |-> None, value |-> None]

Vacant(c) == [i \in 0 .. c - 1 |-> Empty]

(* hash & (capacity - 1), the capacity being a power of two *)
Home(k, c) == Hash[k] % c

(* Linear probing from the home slot of k, wrapping around: the distances  *)
(* at which the loop may stop, at the key or at an empty slot.  The loop   *)
(* of the code does not end when there are none.                           *)
Stops(e, c, k) == {d \in 0 .. c - 1 : e[(Home(k, c) + d) % c].key \in {k, None}}

Probe(e, c, k) ==
    (Home(k, c) + CHOOSE d \in Stops(e, c, k) : \A x \in Stops(e, c, k) : d <= x) % c

ht_set_entry(e, c, k, v) == [e EXCEPT ![Probe(e, c, k)] = [key |-> k, value |-> v]]

(* A mutant of Rehash: an entry keeps its index in the larger array.       *)
RehashSameIndex(e, c) == [i \in 0 .. 2 * c - 1 |-> IF i < c THEN e[i] ELSE Empty]

(* One round of the loop of ht_expand: an entry in use is set again. *)
Reinsert(f, c, entry) ==
    IF entry.key = None THEN f ELSE ht_set_entry(f, c, entry.key, entry.value)

(* The rehash of ht_expand: moved[n] is the larger array when the first n  *)
(* slots of the old one were seen.                                         *)
Rehash(e, c) ==
    LET moved[n \in 0 .. c] == IF n = 0 THEN Vacant(2 * c)
                               ELSE Reinsert(moved[n - 1], 2 * c, e[n - 1])
    IN  moved[c]

Init ==
    /\ entries = Vacant(InitialCapacity)
    /\ capacity = InitialCapacity /\ length = 0
    /\ iterator = None /\ reply = None /\ removed = FALSE

(* ht_set with a value that is NULL, or when ht_expand cannot get memory.  *)
SetRefused ==
    /\ reply' = None
    /\ UNCHANGED <<table, iterator, removed>>

(* A mutant of NeedsExpand: the array grows only when it is full.          *)
NeedsExpandWhenFull == length >= capacity

(* If length will exceed half of current capacity, expand it.              *)
NeedsExpand == length >= capacity \div 2

NewCapacity == IF NeedsExpand THEN 2 * capacity ELSE capacity

NewEntries == IF NeedsExpand THEN Rehash(entries, capacity) ELSE entries

(* ht_expand: the array ht_set goes on with. *)
ht_expand == NewCapacity <= MaxCapacity /\ capacity' = NewCapacity

IsPresent(k) == NewEntries[Probe(NewEntries, NewCapacity, k)].key = k

(* strdup fails: the expansion stays, the key is not added. *)
SetOutOfMemory(k) ==
    /\ ht_expand
    /\ ~IsPresent(k)
    /\ entries' = NewEntries
    /\ iterator' = None
    /\ reply' = None
    /\ UNCHANGED <<length, removed>>

(* A mutant of NewLength: *plength is incremented on an update, too.       *)
NewLengthAlways(k) == length + 1

NewLength(k) == IF IsPresent(k) THEN length ELSE length + 1

(* A call of ht_set ends the iteration ("Don't call ht_set during          *)
(* iteration").                                                            *)
ht_set(k, v) ==
    /\ ht_expand
    /\ entries' = ht_set_entry(NewEntries, NewCapacity, k, v)
    /\ length' = NewLength(k)
    /\ iterator' = None
    /\ reply' = k
    /\ UNCHANGED removed

Lookup(k) ==
    LET i == Probe(entries, capacity, k) IN
    IF entries[i].key = k THEN entries[i].value ELSE None

ht_get(k) ==
    /\ reply' = Lookup(k)
    /\ UNCHANGED <<table, iterator, removed>>

(* ht_remove: its probe stops at the end of the array, the slot becomes    *)
(* empty, the length is left alone.                                        *)
Reaches(k, i) ==
    /\ i >= Home(k, capacity)
    /\ entries[i].key = k
    /\ \A j \in Home(k, capacity) .. i - 1 : entries[j].key \notin {k, None}

ht_remove(k) ==
    \/ \E i \in 0 .. capacity - 1 :
          /\ Reaches(k, i)
          /\ entries' = [entries EXCEPT ![i] = Empty]
          /\ reply' = TRUE
          /\ removed' = TRUE
          /\ UNCHANGED <<capacity, length, iterator>>
    \/ /\ \A i \in 0 .. capacity - 1 : ~Reaches(k, i)
       /\ reply' = FALSE
       /\ UNCHANGED <<table, iterator, removed>>

(* A mutant of FirstIndex: the iteration starts at the second slot.        *)
FirstIndexOne == 1

FirstIndex == 0

ht_iterator ==
    /\ iterator' = [index |-> FirstIndex, seen |-> {}]
    /\ UNCHANGED <<table, reply, removed>>

Occupied == {i \in 0 .. capacity - 1 : entries[i].key # None}

(* A mutant of EndIndex: the loop runs one slot past the array.            *)
EndIndexBeyond == capacity + 1

EndIndex == capacity

(* ht_next: the next entry in use *)
ht_next ==
    /\ iterator # None
    /\ \E i \in Occupied :
          /\ i >= iterator.index
          /\ \A j \in Occupied : j < i => j < iterator.index
          /\ iterator' = [index |-> i + 1, seen |-> iterator.seen \cup {entries[i].key}]
    /\ UNCHANGED <<table, reply, removed>>

(* ... or there is none, and ht_next returns false. *)
ht_next_ends ==
    /\ iterator # None
    /\ \A i \in Occupied : i < iterator.index
    /\ iterator' = [iterator EXCEPT !.index = EndIndex]
    /\ UNCHANGED <<table, reply, removed>>

Next ==
    \/ SetRefused \/ ht_iterator \/ ht_next \/ ht_next_ends
    \/ \E k \in Keys :
          ht_get(k) \/ SetOutOfMemory(k) \/ ht_remove(k) \/ \E v \in Values : ht_set(k, v)

Spec == Init /\ [][Next]_vars

-----------------------------------------------------------------------------
(* Every probe ends, for whatever key: an empty slot is left, however keys *)
(* were set and removed.  The loops of ht_get and ht_set have no other way *)
(* out for a key that is not in the table.                                 *)
ProbesEnd == \E i \in 0 .. capacity - 1 : entries[i].key = None

(* ht_length is the number of items (ht.h:28), until ht_remove, which      *)
(* leaves the length alone, has removed one.                               *)
LengthIsCount == removed \/ length = Cardinality({k \in Keys : Lookup(k) # None})

(* An iteration that has come to its end has shown every key of the table. *)
IterationIsComplete ==
    iterator # None /\ (\A i \in Occupied : i < iterator.index)
        => {entries[i].key : i \in Occupied} \subseteq iterator.seen

(* What ht.h says of ht_get and ht_set: the table is a map, through         *)
(* collisions, growth and failed calls.  ht.h does not declare ht_remove,  *)
(* and nothing is promised once it has removed an entry: the empty slot    *)
(* hides the keys that were probed past it.                                *)
Map == INSTANCE KeyValueMap WITH map <- [k \in Keys |-> Lookup(k)], promised <- ~removed

IsMap == Map!Spec
=============================================================================
