-------------------------- MODULE HashTableProofs --------------------------
(***************************************************************************)
(* Theorems about the hash table of ht.c, for every set of keys, every     *)
(* hash and every capacity, with their proofs.                             *)
(***************************************************************************)
EXTENDS HashTable, DataLemmas

-----------------------------------------------------------------------------
(* The order in which a probe visits the slots.                            *)

(* How far slot i is from the home slot of k, going round the array. *)
Distance(k, c, i) ==
    IF i >= Home(k, c) THEN i - Home(k, c) ELSE i + c - Home(k, c)

(* A home slot is a slot. *)
LEMMA HomeIsSlot ==
    ASSUME NEW k \in Keys, NEW c \in Nat \ {0}
    PROVE  Home(k, c) \in 0 .. c - 1
<1>1. Hash[k] \in Nat
  BY HashOfKeys
<1> QED
  BY <1>1 DEF Home

(* A step past the end of the array goes on at its start. *)
LEMMA WrapAround ==
    ASSUME NEW c \in Nat \ {0}, NEW h \in 0 .. c - 1, NEW d \in 0 .. c - 1
    PROVE  (h + d) % c = IF h + d < c THEN h + d ELSE h + d - c
OBVIOUS

(* Every slot has a distance below the number of slots, ... *)
LEMMA DistanceOfSlot ==
    ASSUME NEW k \in Keys, NEW c \in Nat \ {0}, NEW i \in 0 .. c - 1
    PROVE  /\ Distance(k, c, i) \in 0 .. c - 1
           /\ (Home(k, c) + Distance(k, c, i)) % c = i
<1>1. Home(k, c) \in 0 .. c - 1
  BY HomeIsSlot
<1>2. Distance(k, c, i) \in 0 .. c - 1
  BY <1>1 DEF Distance
<1>3. (Home(k, c) + Distance(k, c, i)) % c
        = IF Home(k, c) + Distance(k, c, i) < c THEN Home(k, c) + Distance(k, c, i)
                                               ELSE Home(k, c) + Distance(k, c, i) - c
  BY <1>1, <1>2, WrapAround
<1> QED
  BY <1>1, <1>2, <1>3 DEF Distance

(* ... and every such distance is that of the slot reached by it. *)
LEMMA SlotOfDistance ==
    ASSUME NEW k \in Keys, NEW c \in Nat \ {0}, NEW d \in 0 .. c - 1
    PROVE  /\ (Home(k, c) + d) % c \in 0 .. c - 1
           /\ Distance(k, c, (Home(k, c) + d) % c) = d
<1>1. Home(k, c) \in 0 .. c - 1
  BY HomeIsSlot
<1>2. (Home(k, c) + d) % c
        = IF Home(k, c) + d < c THEN Home(k, c) + d ELSE Home(k, c) + d - c
  BY <1>1, WrapAround
<1> QED
  BY <1>1, <1>2 DEF Distance

(* The probe for k stops at slot i, and at no slot that it visits before.  *)
StopsAt(e, c, k, i) ==
    /\ e[i].key \in {k, None}
    /\ \A j \in 0 .. c - 1 : Distance(k, c, j) < Distance(k, c, i) => e[j].key \notin {k, None}

(* A slot that is empty: the probe for any key ends. *)
HasRoom(e, c) == \E i \in 0 .. c - 1 : e[i].key = None

(* A probe ends at the slot it stops at. *)
LEMMA ProbeStops ==
    ASSUME NEW e, NEW c \in Nat \ {0}, NEW k \in Keys, HasRoom(e, c)
    PROVE  Probe(e, c, k) \in 0 .. c - 1 /\ StopsAt(e, c, k, Probe(e, c, k))
<1> DEFINE first == CHOOSE d \in Stops(e, c, k) : \A x \in Stops(e, c, k) : d <= x
<1>1. Stops(e, c, k) # {}
  <2>1. PICK i \in 0 .. c - 1 : e[i].key = None
    BY DEF HasRoom
  <2>2. Distance(k, c, i) \in Stops(e, c, k)
    BY <2>1, DistanceOfSlot DEF Stops
  <2> QED
    BY <2>2
<1>2. Stops(e, c, k) \in SUBSET Nat
  BY DEF Stops
<1>3. \E d \in Stops(e, c, k) : \A x \in Stops(e, c, k) : d <= x
  BY <1>1, <1>2, Least
<1>4. first \in Stops(e, c, k) /\ \A x \in Stops(e, c, k) : first <= x
  BY <1>3
<1>5. Probe(e, c, k) = (Home(k, c) + first) % c
  BY DEF Probe
<1> HIDE DEF first
<1>6. first \in 0 .. c - 1 /\ e[Probe(e, c, k)].key \in {k, None}
  BY <1>4, <1>5 DEF Stops
<1>7. Probe(e, c, k) \in 0 .. c - 1 /\ Distance(k, c, Probe(e, c, k)) = first
  BY <1>5, <1>6, SlotOfDistance
<1>8. ASSUME NEW j \in 0 .. c - 1, Distance(k, c, j) < first
      PROVE  e[j].key \notin {k, None}
  <2>1. Distance(k, c, j) \in 0 .. c - 1 /\ (Home(k, c) + Distance(k, c, j)) % c = j
    BY DistanceOfSlot
  <2>2. Distance(k, c, j) \notin Stops(e, c, k)
    BY <1>4, <1>6, <1>8, <2>1
  <2> QED
    BY <2>1, <2>2 DEF Stops
<1> QED
  BY <1>6, <1>7, <1>8 DEF StopsAt

(* It stops at one slot only. *)
LEMMA StopIsUnique ==
    ASSUME NEW e, NEW c \in Nat \ {0}, NEW k \in Keys,
           NEW i \in 0 .. c - 1, StopsAt(e, c, k, i),
           NEW j \in 0 .. c - 1, StopsAt(e, c, k, j)
    PROVE  i = j
<1>1. /\ Distance(k, c, i) \in 0 .. c - 1 /\ (Home(k, c) + Distance(k, c, i)) % c = i
      /\ Distance(k, c, j) \in 0 .. c - 1 /\ (Home(k, c) + Distance(k, c, j)) % c = j
  BY DistanceOfSlot
<1>2. ~(Distance(k, c, i) < Distance(k, c, j)) /\ ~(Distance(k, c, j) < Distance(k, c, i))
  BY DEF StopsAt
<1>3. Distance(k, c, i) = Distance(k, c, j)
  BY <1>1, <1>2
<1> QED
  BY <1>1, <1>3

(* A slot the probe stops at is where it ends. *)
LEMMA ProbeIs ==
    ASSUME NEW e, NEW c \in Nat \ {0}, NEW k \in Keys, HasRoom(e, c),
           NEW i \in 0 .. c - 1, StopsAt(e, c, k, i)
    PROVE  Probe(e, c, k) = i
BY ProbeStops, StopIsUnique

-----------------------------------------------------------------------------
(* Arrays: what they hold, and what setting an entry does to it.           *)

(* A slot is empty or has a key and a value. *)
Slots == {x \in Entries : x.key # None => x.value \in Values}

InUse(e, c) == {i \in 0 .. c - 1 : e[i].key # None}

(* What the array has for key k. *)
Find(e, c, k) ==
    IF e[Probe(e, c, k)].key = k THEN e[Probe(e, c, k)].value ELSE None

(* Every entry is where the probe for its key ends: no key is hidden.      *)
IsProbed(e, c) == \A i \in InUse(e, c) : Probe(e, c, e[i].key) = i

(* A new array: nothing in it. *)
LEMMA VacantArray ==
    ASSUME NEW c \in Nat \ {0}
    PROVE  /\ Vacant(c) \in [0 .. c - 1 -> Slots]
           /\ HasRoom(Vacant(c), c)
           /\ InUse(Vacant(c), c) = {}
           /\ IsProbed(Vacant(c), c)
           /\ \A k \in Keys : Find(Vacant(c), c, k) = None
<1>1. Vacant(c) \in [0 .. c - 1 -> Slots]
  BY DEF Vacant, Empty, Slots, Entries
<1>2. \A i \in 0 .. c - 1 : Vacant(c)[i].key = None
  BY DEF Vacant, Empty
<1>3. HasRoom(Vacant(c), c) /\ InUse(Vacant(c), c) = {}
  <2>1. 0 \in 0 .. c - 1
    OBVIOUS
  <2> QED
    BY <1>2, <2>1 DEF HasRoom, InUse
<1>4. ASSUME NEW k \in Keys
      PROVE  Find(Vacant(c), c, k) = None
  <2>1. Probe(Vacant(c), c, k) \in 0 .. c - 1
    BY <1>3, ProbeStops
  <2>2. Vacant(c)[Probe(Vacant(c), c, k)].key # k
    BY <1>2, <2>1, NoneIsNoValue
  <2> QED
    BY <2>2 DEF Find
<1> QED
  BY <1>1, <1>3, <1>4 DEF IsProbed

(* Fewer entries than slots: some slot is empty. *)
LEMMA RoomLeft ==
    ASSUME NEW e, NEW c \in Nat \ {0}, Cardinality(InUse(e, c)) < c
    PROVE  HasRoom(e, c)
<1>1. Cardinality(0 .. c - 1) = c
  BY FS_Interval
<1>2. InUse(e, c) # 0 .. c - 1
  BY <1>1
<1> QED
  BY <1>2 DEF HasRoom, InUse

(* There are finitely many entries. *)
LEMMA FiniteInUse ==
    ASSUME NEW e, NEW c \in Nat
    PROVE  IsFiniteSet(InUse(e, c)) /\ Cardinality(InUse(e, c)) \in Nat
<1>1. IsFiniteSet(0 .. c - 1)
  BY FS_Interval
<1>2. IsFiniteSet(InUse(e, c))
  BY <1>1, FS_Subset DEF InUse
<1> QED
  BY <1>2, FS_CardinalityType

(* A slot that a probe looks for is in use when it has the key. *)
LEMMA Found ==
    ASSUME NEW c \in Nat \ {0}, NEW e \in [0 .. c - 1 -> Slots], NEW k \in Keys, HasRoom(e, c)
    PROVE  /\ e[Probe(e, c, k)].key = k <=> Find(e, c, k) # None
           /\ e[Probe(e, c, k)].key = k <=> Probe(e, c, k) \in InUse(e, c)
           /\ Find(e, c, k) \in Values \cup {None}
<1>1. Probe(e, c, k) \in 0 .. c - 1 /\ e[Probe(e, c, k)].key \in {k, None}
  BY ProbeStops DEF StopsAt
<1>2. e[Probe(e, c, k)] \in Slots
  BY <1>1
<1>3. k # None /\ None \notin Values
  BY NoneIsNoValue
<1>4. e[Probe(e, c, k)].key = k => e[Probe(e, c, k)].value \in Values
  BY <1>2, <1>3 DEF Slots
<1>5. e[Probe(e, c, k)].key = k <=> Probe(e, c, k) \in InUse(e, c)
  BY <1>1, <1>3 DEF InUse
<1> QED
  BY <1>3, <1>4, <1>5 DEF Find

(* Setting an entry writes the slot that the probe ends at, ... *)
LEMMA SetEntryWrites ==
    ASSUME NEW c \in Nat \ {0}, NEW e \in [0 .. c - 1 -> Slots], HasRoom(e, c),
           NEW k \in Keys, NEW v \in Values
    PROVE  /\ ht_set_entry(e, c, k, v) \in [0 .. c - 1 -> Slots]
           /\ ht_set_entry(e, c, k, v)[Probe(e, c, k)].key = k
           /\ ht_set_entry(e, c, k, v)[Probe(e, c, k)].value = v
           /\ \A i \in 0 .. c - 1 :
                 i # Probe(e, c, k) => ht_set_entry(e, c, k, v)[i] = e[i]
<1>1. Probe(e, c, k) \in 0 .. c - 1
  BY ProbeStops
<1>2. [key |-> k, value |-> v] \in Slots
  BY DEF Slots, Entries
<1> QED
  BY <1>1, <1>2 DEF ht_set_entry

(* ... which adds at most one entry, and none when the key is there. *)
LEMMA SetEntryCount ==
    ASSUME NEW c \in Nat \ {0}, NEW e \in [0 .. c - 1 -> Slots], HasRoom(e, c),
           NEW k \in Keys, NEW v \in Values
    PROVE  /\ InUse(ht_set_entry(e, c, k, v), c) = InUse(e, c) \cup {Probe(e, c, k)}
           /\ Cardinality(InUse(ht_set_entry(e, c, k, v), c))
                = IF e[Probe(e, c, k)].key = k THEN Cardinality(InUse(e, c))
                                               ELSE Cardinality(InUse(e, c)) + 1
<1> DEFINE f == ht_set_entry(e, c, k, v)
<1> DEFINE p == Probe(e, c, k)
<1>1. p \in 0 .. c - 1 /\ k # None
  BY ProbeStops, NoneIsNoValue
<1>2. f[p].key = k /\ \A i \in 0 .. c - 1 : i # p => f[i] = e[i]
  BY SetEntryWrites
<1> HIDE DEF f, p
<1>3. InUse(f, c) = InUse(e, c) \cup {p}
  BY <1>1, <1>2 DEF InUse
<1>4. e[p].key = k <=> p \in InUse(e, c)
  BY Found DEF p
<1>5. Cardinality(InUse(f, c))
        = IF e[p].key = k THEN Cardinality(InUse(e, c)) ELSE Cardinality(InUse(e, c)) + 1
  BY <1>3, <1>4, FiniteInUse, FS_AddElement
<1> QED
  BY <1>3, <1>5 DEF f, p

(* The slot that the probe for another key ends at stays that slot, unless *)
(* it is the one that is written.                                          *)
LEMMA OtherProbes ==
    ASSUME NEW c \in Nat \ {0}, NEW e \in [0 .. c - 1 -> Slots], HasRoom(e, c),
           NEW k \in Keys, NEW v \in Values, HasRoom(ht_set_entry(e, c, k, v), c),
           NEW x \in Keys, x # k, Probe(e, c, x) # Probe(e, c, k)
    PROVE  Probe(ht_set_entry(e, c, k, v), c, x) = Probe(e, c, x)
<1> DEFINE f == ht_set_entry(e, c, k, v)
<1>1. f[Probe(e, c, k)].key = k /\ \A i \in 0 .. c - 1 : i # Probe(e, c, k) => f[i] = e[i]
  BY SetEntryWrites
<1>2. Probe(e, c, x) \in 0 .. c - 1 /\ StopsAt(e, c, x, Probe(e, c, x))
  BY ProbeStops
<1>3. k \notin {x, None}
  BY NoneIsNoValue
<1> HIDE DEF f
<1>4. StopsAt(f, c, x, Probe(e, c, x))
  <2>1. f[Probe(e, c, x)].key \in {x, None}
    BY <1>1, <1>2 DEF StopsAt
  <2>2. ASSUME NEW j \in 0 .. c - 1, Distance(x, c, j) < Distance(x, c, Probe(e, c, x))
        PROVE  f[j].key \notin {x, None}
    BY <1>1, <1>2, <1>3, <2>2 DEF StopsAt
  <2> QED
    BY <2>1, <2>2 DEF StopsAt
<1>5. HasRoom(f, c)
  BY DEF f
<1> QED
  BY <1>2, <1>4, <1>5, ProbeIs DEF f

(* So does the probe for the key that is set. *)
LEMMA SameProbe ==
    ASSUME NEW c \in Nat \ {0}, NEW e \in [0 .. c - 1 -> Slots], HasRoom(e, c),
           NEW k \in Keys, NEW v \in Values, HasRoom(ht_set_entry(e, c, k, v), c)
    PROVE  Probe(ht_set_entry(e, c, k, v), c, k) = Probe(e, c, k)
<1> DEFINE f == ht_set_entry(e, c, k, v)
<1>1. f[Probe(e, c, k)].key = k /\ \A i \in 0 .. c - 1 : i # Probe(e, c, k) => f[i] = e[i]
  BY SetEntryWrites
<1>2. Probe(e, c, k) \in 0 .. c - 1 /\ StopsAt(e, c, k, Probe(e, c, k))
  BY ProbeStops
<1> HIDE DEF f
<1>3. StopsAt(f, c, k, Probe(e, c, k))
  BY <1>1, <1>2 DEF StopsAt
<1>4. HasRoom(f, c)
  BY DEF f
<1> QED
  BY <1>2, <1>3, <1>4, ProbeIs DEF f

(* Setting an entry hides no key. *)
LEMMA SetEntryKeepsProbed ==
    ASSUME NEW c \in Nat \ {0}, NEW e \in [0 .. c - 1 -> Slots], HasRoom(e, c),
           NEW k \in Keys, NEW v \in Values, HasRoom(ht_set_entry(e, c, k, v), c),
           IsProbed(e, c)
    PROVE  IsProbed(ht_set_entry(e, c, k, v), c)
<1> DEFINE f == ht_set_entry(e, c, k, v)
<1>1. f[Probe(e, c, k)].key = k /\ \A i \in 0 .. c - 1 : i # Probe(e, c, k) => f[i] = e[i]
  BY SetEntryWrites
<1> SUFFICES ASSUME NEW i \in InUse(f, c)
             PROVE  Probe(f, c, f[i].key) = i
  BY DEF IsProbed
<1>2. i \in 0 .. c - 1 /\ f[i].key # None
  BY DEF InUse
<1>3. CASE i = Probe(e, c, k)
  BY <1>1, <1>3, SameProbe
<1>4. CASE i # Probe(e, c, k)
  <2>1. f[i] = e[i] /\ i \in InUse(e, c)
    BY <1>1, <1>2, <1>4 DEF InUse
  <2>2. Probe(e, c, e[i].key) = i
    BY <2>1 DEF IsProbed
  <2>3. e[i].key \in Keys
    BY <1>2, <2>1 DEF Slots, Entries
  <2>4. e[i].key # k
    BY <1>4, <2>2
  <2>5. Probe(f, c, e[i].key) = i
    BY <1>4, <2>2, <2>3, <2>4, OtherProbes
  <2> QED
    BY <2>1, <2>5
<1> QED
  BY <1>3, <1>4

(* The value that was set is found, ... *)
LEMMA SetEntryFinds ==
    ASSUME NEW c \in Nat \ {0}, NEW e \in [0 .. c - 1 -> Slots], HasRoom(e, c),
           NEW k \in Keys, NEW v \in Values, HasRoom(ht_set_entry(e, c, k, v), c)
    PROVE  Find(ht_set_entry(e, c, k, v), c, k) = v
<1> DEFINE f == ht_set_entry(e, c, k, v)
<1>1. f[Probe(e, c, k)].key = k /\ f[Probe(e, c, k)].value = v
  BY SetEntryWrites
<1>2. Probe(f, c, k) = Probe(e, c, k)
  BY SameProbe
<1> QED
  BY <1>1, <1>2 DEF Find

(* ... and every other key has the value it had. *)
LEMMA SetEntryLeavesOthers ==
    ASSUME NEW c \in Nat \ {0}, NEW e \in [0 .. c - 1 -> Slots], HasRoom(e, c),
           NEW k \in Keys, NEW v \in Values, HasRoom(ht_set_entry(e, c, k, v), c),
           IsProbed(e, c),
           NEW x \in Keys, x # k
    PROVE  Find(ht_set_entry(e, c, k, v), c, x) = Find(e, c, x)
<1> DEFINE f == ht_set_entry(e, c, k, v)
<1> DEFINE p == Probe(e, c, k)
<1>1. f[p].key = k /\ \A i \in 0 .. c - 1 : i # p => f[i] = e[i]
  BY SetEntryWrites
<1>2. Probe(e, c, x) \in 0 .. c - 1 /\ e[Probe(e, c, x)].key \in {x, None}
  BY ProbeStops DEF StopsAt
<1>3. e[p].key \in {k, None} /\ None \notin Keys
  BY ProbeStops, NoneIsNoValue DEF StopsAt
<1>4. CASE Probe(e, c, x) # p
  <2>1. Probe(f, c, x) = Probe(e, c, x)
    BY <1>4, OtherProbes
  <2>2. f[Probe(e, c, x)] = e[Probe(e, c, x)]
    BY <1>1, <1>2, <1>4
  <2> QED
    BY <2>1, <2>2 DEF Find
<1>5. CASE Probe(e, c, x) = p
  <2>1. e[Probe(e, c, x)].key # x
    BY <1>3, <1>5
  <2>2. Probe(f, c, x) \in 0 .. c - 1
    BY ProbeStops
  <2>3. f[Probe(f, c, x)].key # x
    <3>1. SUFFICES ASSUME f[Probe(f, c, x)].key = x
                   PROVE  FALSE
      OBVIOUS
    <3>2. Probe(f, c, x) # p /\ f[Probe(f, c, x)] = e[Probe(f, c, x)]
      BY <1>1, <2>2, <3>1
    <3>3. Probe(f, c, x) \in InUse(e, c)
      BY <1>3, <2>2, <3>1, <3>2 DEF InUse
    <3>4. Probe(e, c, x) = Probe(f, c, x)
      BY <3>1, <3>2, <3>3 DEF IsProbed
    <3> QED
      BY <1>5, <3>2, <3>4
  <2> QED
    BY <2>1, <2>3 DEF Find
<1> QED
  BY <1>4, <1>5

-----------------------------------------------------------------------------
(* Growing: ht_expand sets every entry again, in an array twice as large.  *)

(* m is what ht_expand has moved: m[n] after it has seen n slots. *)
IsMove(m, e, c, last) ==
    m = [n \in 0 .. last |-> IF n = 0 THEN Vacant(2 * c)
                             ELSE Reinsert(m[n - 1], 2 * c, e[n - 1])]

(* The recursive definition of Rehash has a solution. *)
LEMMA MoveExists ==
    ASSUME NEW e, NEW c \in Nat
    PROVE  \E m : IsMove(m, e, c, c)
<1> DEFINE S == {n \in Nat : \E m : IsMove(m, e, c, n)}
<1>1. 0 \in S
  <2>1. IsMove([n \in 0 .. 0 |-> Vacant(2 * c)], e, c, 0)
    BY DEF IsMove
  <2> QED
    BY <2>1
<1>2. ASSUME NEW n \in Nat, n \in S
      PROVE  n + 1 \in S
  <2>1. PICK m : IsMove(m, e, c, n)
    BY <1>2
  <2> DEFINE w == [i \in 0 .. n + 1 |-> IF i = n + 1 THEN Reinsert(m[n], 2 * c, e[n]) ELSE m[i]]
  <2>2. \A i \in 0 .. n : m[i] = IF i = 0 THEN Vacant(2 * c) ELSE Reinsert(m[i - 1], 2 * c, e[i - 1])
    BY <2>1 DEF IsMove
  <2>3. ASSUME NEW i \in 0 .. n + 1
        PROVE  w[i] = IF i = 0 THEN Vacant(2 * c) ELSE Reinsert(w[i - 1], 2 * c, e[i - 1])
    <3>1. CASE i = n + 1
      <4>1. w[i] = Reinsert(m[n], 2 * c, e[n]) /\ w[n] = m[n] /\ i - 1 = n /\ i # 0
        BY <3>1
      <4> QED
        BY <4>1
    <3>2. CASE i = 0
      BY <2>2, <3>2
    <3>3. CASE i \in 1 .. n
      <4>1. w[i] = m[i] /\ w[i - 1] = m[i - 1] /\ i # 0 /\ i \in 0 .. n
        BY <3>3
      <4> HIDE DEF w
      <4> QED
        BY <2>2, <4>1
    <3> QED
      BY <3>1, <3>2, <3>3
  <2>4. w = [i \in 0 .. n + 1 |-> w[i]]
    OBVIOUS
  <2> HIDE DEF w
  <2>5. IsMove(w, e, c, n + 1)
    BY <2>3, <2>4 DEF IsMove
  <2> QED
    BY <2>5
<1>3. c \in S
  <2> HIDE DEF S
  <2> QED
    BY <1>1, <1>2, SetInduction
<1> QED
  BY <1>3

(* Rehash is the end of such a move. *)
LEMMA RehashMoves ==
    ASSUME NEW e, NEW c \in Nat
    PROVE  \E m : IsMove(m, e, c, c) /\ Rehash(e, c) = m[c]
<1> DEFINE m == CHOOSE x : IsMove(x, e, c, c)
<1>1. IsMove(m, e, c, c)
  BY MoveExists
<1>2. Rehash(e, c) = m[c]
  BY DEF Rehash, IsMove
<1> QED
  BY <1>1, <1>2

(* The entries among the first n slots. *)
SeenInUse(e, c, n) == {i \in InUse(e, c) : i < n}

(* f is a fair copy of the first n slots of e: no more entries than these, *)
(* and, when no key was hidden in e, the same values for the same keys.    *)
CopyOf(f, e, c, n) ==
    /\ f \in [0 .. 2 * c - 1 -> Slots]
    /\ Cardinality(InUse(f, 2 * c)) <= Cardinality(SeenInUse(e, c, n))
    /\ IsProbed(e, c) =>
          /\ IsProbed(f, 2 * c)
          /\ \A k \in Keys : Find(f, 2 * c, k) = IF Probe(e, c, k) < n THEN Find(e, c, k) ELSE None

(* n slots have at most n entries, and slot n adds one when it is in use. *)
LEMMA SeenCount ==
    ASSUME NEW e, NEW c \in Nat, NEW n \in 0 .. c
    PROVE  /\ Cardinality(SeenInUse(e, c, n)) \in 0 .. n
           /\ n \in InUse(e, c) =>
                 Cardinality(SeenInUse(e, c, n + 1)) = Cardinality(SeenInUse(e, c, n)) + 1
           /\ n \notin InUse(e, c) => SeenInUse(e, c, n + 1) = SeenInUse(e, c, n)
<1>1. IsFiniteSet(0 .. n - 1) /\ Cardinality(0 .. n - 1) = n
  BY FS_Interval
<1>2. SeenInUse(e, c, n) \in SUBSET (0 .. n - 1)
  BY DEF SeenInUse, InUse
<1>3. IsFiniteSet(SeenInUse(e, c, n)) /\ Cardinality(SeenInUse(e, c, n)) <= n
  BY <1>1, <1>2, FS_Subset
<1>4. Cardinality(SeenInUse(e, c, n)) \in Nat
  BY <1>3, FS_CardinalityType
<1>5. ASSUME n \in InUse(e, c)
      PROVE  Cardinality(SeenInUse(e, c, n + 1)) = Cardinality(SeenInUse(e, c, n)) + 1
  <2>1. SeenInUse(e, c, n + 1) = SeenInUse(e, c, n) \cup {n} /\ n \notin SeenInUse(e, c, n)
    BY <1>5 DEF SeenInUse, InUse
  <2> QED
    BY <1>3, <2>1, FS_AddElement
<1>6. n \notin InUse(e, c) => SeenInUse(e, c, n + 1) = SeenInUse(e, c, n)
  BY DEF SeenInUse, InUse
<1> QED
  BY <1>3, <1>4, <1>5, <1>6

(* The new array starts as a copy of no slot, ... *)
LEMMA CopyStarts ==
    ASSUME NEW c \in Nat \ {0}, NEW e \in [0 .. c - 1 -> Slots], HasRoom(e, c)
    PROVE  CopyOf(Vacant(2 * c), e, c, 0)
<1>1. 2 * c \in Nat \ {0}
  OBVIOUS
<1>2. Cardinality(InUse(Vacant(2 * c), 2 * c)) = 0
  BY <1>1, VacantArray, FS_EmptySet
<1>3. 0 <= Cardinality(SeenInUse(e, c, 0))
  BY SeenCount
<1>4. \A k \in Keys : ~(Probe(e, c, k) < 0)
  BY ProbeStops
<1> QED
  BY <1>1, <1>2, <1>3, <1>4, VacantArray DEF CopyOf

(* ... has room as long as it is the copy of some slots, ... *)
LEMMA CopyHasRoom ==
    ASSUME NEW c \in Nat \ {0}, NEW e, NEW n \in 0 .. c, NEW f,
           Cardinality(InUse(f, 2 * c)) <= Cardinality(SeenInUse(e, c, n))
    PROVE  HasRoom(f, 2 * c)
<1>0. c \in Nat /\ n \in Nat /\ n <= c /\ 2 * c \in Nat \ {0}
  OBVIOUS
<1>1. Cardinality(SeenInUse(e, c, n)) \in 0 .. n
  BY <1>0, SeenCount, Zenon
<1>2. Cardinality(InUse(f, 2 * c)) \in Nat
  BY <1>0, FiniteInUse
<1>3. Cardinality(InUse(f, 2 * c)) < 2 * c
  BY <1>0, <1>1, <1>2
<1> QED
  BY <1>0, <1>3, RoomLeft

(* ... and is a copy of one slot more after each round of the loop. *)
LEMMA CopyGrows ==
    ASSUME NEW c \in Nat \ {0}, NEW e \in [0 .. c - 1 -> Slots], HasRoom(e, c),
           NEW n \in 0 .. c - 1, NEW f, CopyOf(f, e, c, n)
    PROVE  CopyOf(Reinsert(f, 2 * c, e[n]), e, c, n + 1)
<1> DEFINE g == Reinsert(f, 2 * c, e[n])
<1>1. /\ f \in [0 .. 2 * c - 1 -> Slots]
      /\ Cardinality(InUse(f, 2 * c)) <= Cardinality(SeenInUse(e, c, n))
      /\ Cardinality(InUse(f, 2 * c)) \in Nat
      /\ HasRoom(f, 2 * c)
      /\ 2 * c \in Nat \ {0}
      /\ n \in 0 .. c /\ n + 1 \in 0 .. c
  BY CopyHasRoom, FiniteInUse DEF CopyOf
<1>2. ASSUME NEW k \in Keys
      PROVE  Probe(e, c, k) \in 0 .. c - 1 /\ e[Probe(e, c, k)].key \in {k, None}
  BY ProbeStops DEF StopsAt
<1>3. CASE e[n].key = None
  <2>1. g = f /\ SeenInUse(e, c, n + 1) = SeenInUse(e, c, n)
    BY <1>1, <1>3, SeenCount DEF Reinsert, InUse
  <2>2. ASSUME NEW k \in Keys, Probe(e, c, k) = n
        PROVE  Find(e, c, k) = None
    BY <1>3, <2>2, NoneIsNoValue DEF Find
  <2>3. ASSUME NEW k \in Keys
        PROVE  (IF Probe(e, c, k) < n + 1 THEN Find(e, c, k) ELSE None)
                 = (IF Probe(e, c, k) < n THEN Find(e, c, k) ELSE None)
    BY <1>2, <2>2
  <2> HIDE DEF g
  <2>4. CopyOf(g, e, c, n + 1)
    BY <2>1, <2>3 DEF CopyOf
  <2> QED
    BY <2>4 DEF g
<1>4. CASE e[n].key # None
  <2> DEFINE k == e[n].key
  <2> DEFINE v == e[n].value
  <2>1. k \in Keys /\ v \in Values /\ n \in InUse(e, c)
    BY <1>4 DEF Slots, Entries, InUse
  <2>2. g = ht_set_entry(f, 2 * c, k, v)
    BY <1>4 DEF Reinsert
  <2> HIDE DEF g, k, v
  <2>3. g \in [0 .. 2 * c - 1 -> Slots]
    BY <1>1, <2>1, <2>2, SetEntryWrites
  <2>4. Cardinality(InUse(g, 2 * c)) <= Cardinality(SeenInUse(e, c, n + 1))
    <3>1. Cardinality(InUse(g, 2 * c)) <= Cardinality(InUse(f, 2 * c)) + 1
      BY <1>1, <2>1, <2>2, SetEntryCount
    <3>2. Cardinality(SeenInUse(e, c, n + 1)) = Cardinality(SeenInUse(e, c, n)) + 1
      BY <1>1, <2>1, SeenCount
    <3>3. Cardinality(SeenInUse(e, c, n)) \in 0 .. n
      BY <1>1, SeenCount, Zenon
    <3>4. Cardinality(InUse(g, 2 * c)) \in Nat
      BY <1>1, FiniteInUse
    <3> QED
      BY <1>1, <3>1, <3>2, <3>3, <3>4
  <2>5. HasRoom(g, 2 * c)
    BY <1>1, <2>4, CopyHasRoom
  <2>6. ASSUME IsProbed(e, c)
        PROVE  /\ IsProbed(g, 2 * c)
               /\ \A x \in Keys :
                     Find(g, 2 * c, x) = IF Probe(e, c, x) < n + 1 THEN Find(e, c, x) ELSE None
    <3>1. /\ IsProbed(f, 2 * c)
          /\ \A x \in Keys :
                Find(f, 2 * c, x) = IF Probe(e, c, x) < n THEN Find(e, c, x) ELSE None
      BY <2>6 DEF CopyOf
    <3>2. Probe(e, c, k) = n
      BY <2>1, <2>6 DEF IsProbed, k
    <3>3. IsProbed(g, 2 * c)
      BY <1>1, <2>1, <2>2, <2>5, <3>1, SetEntryKeepsProbed
    <3>4. Find(g, 2 * c, k) = v
      BY <1>1, <2>1, <2>2, <2>5, SetEntryFinds
    <3>5. Find(e, c, k) = v
      BY <3>2 DEF Find, k, v
    <3>6. ASSUME NEW x \in Keys, x # k
          PROVE  Find(g, 2 * c, x) = IF Probe(e, c, x) < n + 1 THEN Find(e, c, x) ELSE None
      <4>1. Find(g, 2 * c, x) = Find(f, 2 * c, x)
        BY <1>1, <2>1, <2>2, <2>5, <3>1, <3>6, SetEntryLeavesOthers
      <4>2. Probe(e, c, x) # n /\ Probe(e, c, x) \in 0 .. c - 1
        BY <1>2, <1>4, <3>6 DEF k
      <4> QED
        BY <3>1, <4>1, <4>2
    <3> QED
      BY <3>2, <3>3, <3>4, <3>5, <3>6
  <2>7. CopyOf(g, e, c, n + 1)
    BY <2>3, <2>4, <2>6 DEF CopyOf
  <2> QED
    BY <2>7 DEF g
<1> QED
  BY <1>3, <1>4

(* The array that ht_expand ends with has the values of the old one. *)
LEMMA RehashKeeps ==
    ASSUME NEW c \in Nat \ {0}, NEW e \in [0 .. c - 1 -> Slots], HasRoom(e, c)
    PROVE  /\ Rehash(e, c) \in [0 .. 2 * c - 1 -> Slots]
           /\ Cardinality(InUse(Rehash(e, c), 2 * c)) <= Cardinality(InUse(e, c))
           /\ IsProbed(e, c) =>
                 /\ IsProbed(Rehash(e, c), 2 * c)
                 /\ \A k \in Keys : Find(Rehash(e, c), 2 * c, k) = Find(e, c, k)
<1>1. PICK m : IsMove(m, e, c, c) /\ Rehash(e, c) = m[c]
  BY RehashMoves
<1>2. \A n \in 0 .. c : m[n] = IF n = 0 THEN Vacant(2 * c) ELSE Reinsert(m[n - 1], 2 * c, e[n - 1])
  BY <1>1 DEF IsMove
<1> DEFINE S == {n \in Nat : n <= c => CopyOf(m[n], e, c, n)}
<1>3. 0 \in S
  BY <1>2, CopyStarts
<1>4. ASSUME NEW n \in Nat, n \in S
      PROVE  n + 1 \in S
  <2> SUFFICES ASSUME n + 1 <= c
               PROVE  CopyOf(m[n + 1], e, c, n + 1)
    OBVIOUS
  <2>1. n \in 0 .. c - 1 /\ n + 1 \in 0 .. c
    OBVIOUS
  <2>2. m[n + 1] = Reinsert(m[n], 2 * c, e[n])
    BY <1>2, <2>1
  <2>3. CopyOf(m[n], e, c, n)
    BY <1>4, <2>1
  <2> QED
    BY <2>1, <2>2, <2>3, CopyGrows
<1>5. c \in S
  <2> HIDE DEF S
  <2> QED
    BY <1>3, <1>4, SetInduction
<1>6. CopyOf(Rehash(e, c), e, c, c)
  BY <1>1, <1>5
<1>7. SeenInUse(e, c, c) = InUse(e, c)
  BY DEF SeenInUse, InUse
<1>8. \A k \in Keys : Probe(e, c, k) < c
  BY ProbeStops
<1> QED
  BY <1>6, <1>7, <1>8 DEF CopyOf

-----------------------------------------------------------------------------
(* The inductive invariant.                                                *)

(* The array has proper slots and at most length of them in use, length    *)
(* being half of the capacity at most: a slot is left to stop at.          *)
ArrayOK ==
    /\ entries \in [0 .. capacity - 1 -> Slots]
    /\ capacity \in InitialCapacity .. MaxCapacity
    /\ length \in 0 .. capacity \div 2
    /\ Cardinality(InUse(entries, capacity)) <= length

Contents == {k \in Keys : Find(entries, capacity, k) # None}

(* As long as nothing was removed no key is hidden, and length counts the  *)
(* keys that are found.                                                    *)
ContentsOK ==
    /\ removed \in BOOLEAN
    /\ ~removed => /\ IsProbed(entries, capacity)
                   /\ IsFiniteSet(Contents)
                   /\ length = Cardinality(Contents)

(* An iteration has shown the keys of all entries below its index. *)
IterationOK ==
    /\ iterator \in [index : 0 .. capacity, seen : SUBSET Keys] \cup {None}
    /\ iterator # None =>
          \A i \in InUse(entries, capacity) : i < iterator.index => entries[i].key \in iterator.seen

ReplyOK == reply \in Keys \cup Values \cup BOOLEAN \cup {None}

TableInv == ArrayOK /\ ContentsOK /\ IterationOK /\ ReplyOK

(* What ht_get returns is what the array has for the key. *)
LEMMA LookupFinds ==
    ASSUME NEW k \in Keys
    PROVE  Lookup(k) = Find(entries, capacity, k)
BY DEF Lookup, Find

(* The same of the next state. *)
LEMMA LookupFindsNext ==
    ASSUME NEW k \in Keys
    PROVE  Lookup(k)' = Find(entries', capacity', k)
BY DEF Lookup, Find

(* The array has a slot, and one that is empty. *)
LEMMA ArrayHasRoom ==
    ASSUME ArrayOK
    PROVE  capacity \in Nat \ {0} /\ HasRoom(entries, capacity)
<1>1. capacity \in Nat \ {0}
  BY CapacitiesAreOrdered DEF ArrayOK
<1>2. length \in 0 .. capacity \div 2 /\ Cardinality(InUse(entries, capacity)) <= length
  BY DEF ArrayOK
<1>3. Cardinality(InUse(entries, capacity)) \in Nat
  BY <1>1, FiniteInUse
<1>4. Cardinality(InUse(entries, capacity)) < capacity
  BY <1>1, <1>2, <1>3
<1> QED
  BY <1>1, <1>4, RoomLeft

(* The array that ht_set goes on with, larger or not, has the values of    *)
(* the old one and room for one more entry.                                *)
LEMMA NewArray ==
    ASSUME ArrayOK
    PROVE  /\ NewEntries \in [0 .. NewCapacity - 1 -> Slots]
           /\ NewCapacity \in Nat \ {0}
           /\ InitialCapacity <= NewCapacity
           /\ Cardinality(InUse(NewEntries, NewCapacity)) <= length
           /\ length + 1 \in 0 .. NewCapacity \div 2
           /\ IsProbed(entries, capacity) =>
                 /\ IsProbed(NewEntries, NewCapacity)
                 /\ \A k \in Keys : Find(NewEntries, NewCapacity, k) = Find(entries, capacity, k)
<1>1. capacity \in Nat \ {0} /\ HasRoom(entries, capacity)
  BY ArrayHasRoom
<1>2. /\ entries \in [0 .. capacity - 1 -> Slots] /\ length \in 0 .. capacity \div 2
      /\ Cardinality(InUse(entries, capacity)) <= length
      /\ InitialCapacity \in Nat /\ InitialCapacity <= capacity
  BY CapacitiesAreOrdered DEF ArrayOK
<1>3. CASE NeedsExpand
  <2>1. NewEntries = Rehash(entries, capacity) /\ NewCapacity = 2 * capacity
    BY <1>3 DEF NewEntries, NewCapacity
  <2>2. 2 * capacity \in Nat \ {0} /\ InitialCapacity <= 2 * capacity
    BY <1>1, <1>2
  <2>3. length + 1 \in 0 .. (2 * capacity) \div 2
    BY <1>1, <1>2
  <2>4. Cardinality(InUse(Rehash(entries, capacity), 2 * capacity)) <= Cardinality(InUse(entries, capacity))
    BY <1>1, <1>2, RehashKeeps
  <2>5. Cardinality(InUse(Rehash(entries, capacity), 2 * capacity)) \in Nat
    BY <2>2, FiniteInUse
  <2>6. Cardinality(InUse(entries, capacity)) \in Nat
    BY <1>1, FiniteInUse
  <2>7. Cardinality(InUse(Rehash(entries, capacity), 2 * capacity)) <= length
    BY <1>2, <2>4, <2>5, <2>6
  <2> QED
    BY <1>1, <1>2, <2>1, <2>2, <2>3, <2>7, RehashKeeps
<1>4. CASE ~NeedsExpand
  <2>1. NewEntries = entries /\ NewCapacity = capacity
    BY <1>4 DEF NewEntries, NewCapacity
  <2>2. length + 1 \in 0 .. capacity \div 2
    BY <1>1, <1>2, <1>4 DEF NeedsExpand
  <2> QED
    BY <1>1, <1>2, <2>1, <2>2
<1> QED
  BY <1>3, <1>4

(* An array with at most one entry more than that has room. *)
LEMMA NewArrayHasRoom ==
    ASSUME ArrayOK, NEW f, Cardinality(InUse(f, NewCapacity)) <= length + 1
    PROVE  HasRoom(f, NewCapacity)
<1>1. /\ NewCapacity \in Nat \ {0} /\ length \in Nat
      /\ length + 1 \in 0 .. NewCapacity \div 2
  BY NewArray, ArrayHasRoom DEF ArrayOK
<1>2. Cardinality(InUse(f, NewCapacity)) \in Nat
  BY <1>1, FiniteInUse
<1>3. Cardinality(InUse(f, NewCapacity)) < NewCapacity
  BY <1>1, <1>2
<1> QED
  BY <1>1, <1>3, RoomLeft

(* IsPresent is about the key: it has a value in the table. *)
LEMMA PresentIsFound ==
    ASSUME ArrayOK, NEW k \in Keys
    PROVE  /\ HasRoom(NewEntries, NewCapacity)
           /\ IsPresent(k) <=> Find(NewEntries, NewCapacity, k) # None
<1>1. /\ NewCapacity \in Nat \ {0} /\ length \in Nat
      /\ NewEntries \in [0 .. NewCapacity - 1 -> Slots]
      /\ Cardinality(InUse(NewEntries, NewCapacity)) <= length
  BY NewArray, ArrayHasRoom DEF ArrayOK
<1>2. Cardinality(InUse(NewEntries, NewCapacity)) \in Nat
  BY <1>1, FiniteInUse
<1>3. HasRoom(NewEntries, NewCapacity)
  BY <1>1, <1>2, NewArrayHasRoom
<1> QED
  BY <1>1, <1>3, Found DEF IsPresent

-----------------------------------------------------------------------------
(* One lemma per call that changes the array: the invariant holds after    *)
(* it, and the table has changed as the map of ht.h does.                  *)

(* The invariant holds of a new table. *)
LEMMA InitiallyOK == Init => TableInv
<1> SUFFICES ASSUME Init
             PROVE  TableInv
  OBVIOUS
<1>1. /\ InitialCapacity \in Nat \ {0} /\ MaxCapacity \in Nat
      /\ InitialCapacity <= MaxCapacity
  BY CapacitiesAreOrdered
<1>2. /\ entries = Vacant(InitialCapacity) /\ capacity = InitialCapacity /\ length = 0
      /\ iterator = None /\ reply = None /\ removed = FALSE
  BY DEF Init
<1>3. InUse(entries, capacity) = {} /\ entries \in [0 .. capacity - 1 -> Slots]
  BY <1>1, <1>2, VacantArray
<1>4. Contents = {}
  BY <1>1, <1>2, VacantArray DEF Contents
<1>5. 0 \in 0 .. capacity \div 2
  BY <1>1, <1>2
<1>6. ArrayOK
  BY <1>1, <1>2, <1>3, <1>5, FS_EmptySet DEF ArrayOK
<1>7. ContentsOK
  BY <1>1, <1>2, <1>4, VacantArray, FS_EmptySet DEF ContentsOK
<1> QED
  BY <1>2, <1>6, <1>7 DEF TableInv, IterationOK, ReplyOK

(* ht_set: the key has the value, the others have what they had. *)
LEMMA SetChanges ==
    ASSUME TableInv, NEW k \in Keys, NEW v \in Values, ht_set(k, v)
    PROVE  /\ ArrayOK'
           /\ ~removed =>
                 /\ IsProbed(entries', capacity')
                 /\ Find(entries', capacity', k) = v
                 /\ \A x \in Keys \ {k} :
                       Find(entries', capacity', x) = Find(entries, capacity, x)
<1> DEFINE e == NewEntries
<1> DEFINE c == NewCapacity
<1>1. /\ capacity' = c /\ c <= MaxCapacity
      /\ entries' = ht_set_entry(e, c, k, v)
      /\ length' = IF IsPresent(k) THEN length ELSE length + 1
      /\ removed' = removed
  BY DEF ht_set, ht_expand, NewLength
<1>2. ArrayOK /\ length \in Nat
  BY ArrayHasRoom DEF TableInv, ArrayOK
<1>3. /\ e \in [0 .. c - 1 -> Slots] /\ c \in Nat \ {0} /\ InitialCapacity <= c
      /\ Cardinality(InUse(e, c)) <= length
      /\ length + 1 \in 0 .. c \div 2
      /\ IsProbed(entries, capacity) =>
            /\ IsProbed(e, c)
            /\ \A x \in Keys : Find(e, c, x) = Find(entries, capacity, x)
  BY <1>2, NewArray
<1>4. HasRoom(e, c)
  BY <1>2, PresentIsFound
<1>5. IsPresent(k) <=> e[Probe(e, c, k)].key = k
  BY DEF IsPresent
<1>6. ~removed => IsProbed(entries, capacity)
  BY DEF TableInv, ContentsOK
<1>7. InitialCapacity \in Nat /\ MaxCapacity \in Nat
  BY CapacitiesAreOrdered
<1> HIDE DEF e, c
<1>8. Cardinality(InUse(e, c)) \in Nat
  BY <1>3, FiniteInUse
<1>9. Cardinality(InUse(entries', c))
        = IF IsPresent(k) THEN Cardinality(InUse(e, c)) ELSE Cardinality(InUse(e, c)) + 1
  BY <1>1, <1>3, <1>4, <1>5, SetEntryCount
<1>10. Cardinality(InUse(entries', c)) <= length' /\ Cardinality(InUse(entries', c)) <= length + 1
  BY <1>1, <1>2, <1>3, <1>8, <1>9
<1>11. HasRoom(entries', c)
  BY <1>2, <1>10, NewArrayHasRoom DEF c
<1>12. ArrayOK'
  <2>1. entries' \in [0 .. c - 1 -> Slots]
    BY <1>1, <1>3, <1>4, SetEntryWrites
  <2>2. length' \in 0 .. c \div 2
    BY <1>1, <1>2, <1>3
  <2>3. c \in InitialCapacity .. MaxCapacity
    BY <1>1, <1>3, <1>7
  <2> QED
    BY <1>1, <1>10, <2>1, <2>2, <2>3 DEF ArrayOK
<1>13. ASSUME ~removed
       PROVE  /\ IsProbed(entries', c)
              /\ Find(entries', c, k) = v
              /\ \A x \in Keys \ {k} : Find(entries', c, x) = Find(entries, capacity, x)
  <2>1. IsProbed(e, c) /\ \A x \in Keys : Find(e, c, x) = Find(entries, capacity, x)
    BY <1>3, <1>6, <1>13
  <2>2. HasRoom(ht_set_entry(e, c, k, v), c)
    BY <1>1, <1>11
  <2>3. IsProbed(entries', c)
    BY <1>1, <1>3, <1>4, <2>1, <2>2, SetEntryKeepsProbed
  <2>4. Find(entries', c, k) = v
    BY <1>1, <1>3, <1>4, <2>2, SetEntryFinds
  <2>5. ASSUME NEW x \in Keys, x # k
        PROVE  Find(entries', c, x) = Find(entries, capacity, x)
    BY <1>1, <1>3, <1>4, <2>1, <2>2, <2>5, SetEntryLeavesOthers
  <2> QED
    BY <2>3, <2>4, <2>5
<1> QED
  BY <1>1, <1>12, <1>13

(* ... and length goes on counting the keys. *)
LEMMA SetCounts ==
    ASSUME TableInv, NEW k \in Keys, NEW v \in Values, ht_set(k, v)
    PROVE  ContentsOK'
<1>1. /\ removed' = removed /\ removed \in BOOLEAN
      /\ length' = IF IsPresent(k) THEN length ELSE length + 1
  BY DEF ht_set, NewLength, TableInv, ContentsOK
<1> SUFFICES ASSUME ~removed
             PROVE  /\ IsProbed(entries', capacity')
                    /\ IsFiniteSet(Contents') /\ length' = Cardinality(Contents')
  BY <1>1 DEF ContentsOK
<1>2. /\ IsProbed(entries', capacity')
      /\ Find(entries', capacity', k) = v
      /\ \A x \in Keys \ {k} : Find(entries', capacity', x) = Find(entries, capacity, x)
  BY SetChanges
<1>3. IsFiniteSet(Contents) /\ length = Cardinality(Contents) /\ IsProbed(entries, capacity)
  BY DEF TableInv, ContentsOK
<1>4. Contents' = Contents \cup {k}
  BY <1>2, NoneIsNoValue DEF Contents
<1>5. IsPresent(k) <=> k \in Contents
  BY <1>3, NewArray, PresentIsFound DEF TableInv, Contents
<1> QED
  BY <1>1, <1>2, <1>3, <1>4, <1>5, FS_AddElement

(* ht_set without memory for the key: the array may have grown, the table  *)
(* is what it was.                                                         *)
LEMMA OutOfMemoryChanges ==
    ASSUME TableInv, NEW k \in Keys, SetOutOfMemory(k)
    PROVE  /\ ArrayOK' /\ ContentsOK'
           /\ ~removed => \A x \in Keys : Find(entries', capacity', x) = Find(entries, capacity, x)
<1>1. /\ capacity' = NewCapacity /\ NewCapacity <= MaxCapacity
      /\ entries' = NewEntries /\ length' = length /\ removed' = removed
  BY DEF SetOutOfMemory, ht_expand
<1>2. ArrayOK /\ ContentsOK /\ length \in Nat
  BY ArrayHasRoom DEF TableInv, ArrayOK
<1>3. /\ NewEntries \in [0 .. NewCapacity - 1 -> Slots] /\ NewCapacity \in Nat \ {0}
      /\ InitialCapacity <= NewCapacity
      /\ Cardinality(InUse(NewEntries, NewCapacity)) <= length
      /\ length + 1 \in 0 .. NewCapacity \div 2
      /\ IsProbed(entries, capacity) =>
            /\ IsProbed(NewEntries, NewCapacity)
            /\ \A x \in Keys : Find(NewEntries, NewCapacity, x) = Find(entries, capacity, x)
  BY <1>2, NewArray
<1>4. ArrayOK'
  <2>1. length \in 0 .. NewCapacity \div 2
    BY <1>2, <1>3
  <2>2. NewCapacity \in InitialCapacity .. MaxCapacity
    BY <1>1, <1>3, CapacitiesAreOrdered
  <2> QED
    BY <1>1, <1>3, <2>1, <2>2 DEF ArrayOK
<1>5. ~removed => \A x \in Keys : Find(entries', capacity', x) = Find(entries, capacity, x)
  BY <1>1, <1>2, <1>3 DEF ContentsOK
<1>6. ~removed => Contents' = Contents
  BY <1>5 DEF Contents
<1>7. ContentsOK'
  BY <1>1, <1>2, <1>3, <1>6 DEF ContentsOK
<1> QED
  BY <1>4, <1>5, <1>7

(* ht_remove empties a slot: no entry is added and nothing is promised of  *)
(* the contents from then on.                                              *)
LEMMA RemoveChanges ==
    ASSUME TableInv, NEW i \in 0 .. capacity - 1,
           entries' = [entries EXCEPT ![i] = Empty], removed' = TRUE,
           UNCHANGED <<capacity, length, iterator>>
    PROVE  ArrayOK' /\ ContentsOK' /\ IterationOK'
<1>1. ArrayOK /\ IterationOK /\ capacity \in Nat
  BY ArrayHasRoom DEF TableInv
<1>2. entries \in [0 .. capacity - 1 -> Slots]
  BY <1>1 DEF ArrayOK
<1>3. Empty \in Slots
  BY DEF Empty, Slots, Entries
<1>4. entries' \in [0 .. capacity - 1 -> Slots]
  BY <1>2, <1>3
<1>5. InUse(entries', capacity) \subseteq InUse(entries, capacity)
  BY <1>2 DEF InUse, Empty
<1>6. Cardinality(InUse(entries', capacity)) <= Cardinality(InUse(entries, capacity))
  BY <1>1, <1>5, FiniteInUse, FS_Subset
<1>7. /\ Cardinality(InUse(entries', capacity)) \in Nat
      /\ Cardinality(InUse(entries, capacity)) \in Nat
  BY <1>1, FiniteInUse
<1>8. ArrayOK'
  BY <1>1, <1>4, <1>6, <1>7 DEF ArrayOK
<1>9. \A j \in InUse(entries', capacity) : entries'[j].key = entries[j].key
  BY <1>2 DEF InUse, Empty
<1>10. IterationOK'
  BY <1>1, <1>5, <1>9 DEF IterationOK
<1> QED
  BY <1>8, <1>10 DEF ContentsOK

(* A step of the iteration adds the key it shows to those that were seen.  *)
LEMMA IterationAdvances ==
    ASSUME TableInv, ht_next
    PROVE  IterationOK'
<1>1. PICK i \in Occupied :
         /\ i >= iterator.index
         /\ \A j \in Occupied : j < i => j < iterator.index
         /\ iterator' = [index |-> i + 1, seen |-> iterator.seen \cup {entries[i].key}]
  BY DEF ht_next
<1>2. iterator # None /\ UNCHANGED <<entries, capacity>>
  BY DEF ht_next, table
<1>3. /\ iterator \in [index : 0 .. capacity, seen : SUBSET Keys]
      /\ \A j \in InUse(entries, capacity) : j < iterator.index => entries[j].key \in iterator.seen
  BY <1>2 DEF TableInv, IterationOK
<1>4. Occupied = InUse(entries, capacity)
  BY DEF Occupied, InUse
<1>5. /\ capacity \in Nat /\ i \in 0 .. capacity - 1 /\ entries[i].key \in Keys
  <2>1. capacity \in Nat /\ entries \in [0 .. capacity - 1 -> Slots]
    BY ArrayHasRoom DEF TableInv, ArrayOK
  <2>2. i \in 0 .. capacity - 1 /\ entries[i].key # None
    BY DEF Occupied
  <2> QED
    BY <2>1, <2>2 DEF Slots, Entries
<1>6. iterator' \in [index : 0 .. capacity, seen : SUBSET Keys]
  BY <1>1, <1>3, <1>5
<1>7. ASSUME NEW j \in InUse(entries, capacity), j < i + 1
      PROVE  entries[j].key \in iterator.seen \cup {entries[i].key}
  <2>1. j \in 0 .. capacity - 1
    BY DEF InUse
  <2>2. CASE j = i
    BY <2>2
  <2>3. CASE j < i
    BY <1>1, <1>3, <1>4, <2>3
  <2> QED
    BY <1>5, <1>7, <2>1, <2>2, <2>3
<1> QED
  BY <1>1, <1>2, <1>6, <1>7 DEF IterationOK

(* Every step keeps the invariant. *)
LEMMA StepOK == TableInv /\ [Next]_vars => TableInv'
<1> SUFFICES ASSUME TableInv, [Next]_vars
             PROVE  TableInv'
  OBVIOUS
<1>1. ArrayOK /\ ContentsOK /\ IterationOK /\ ReplyOK
  BY DEF TableInv
<1>2. ASSUME UNCHANGED table, UNCHANGED removed
      PROVE  ArrayOK' /\ ContentsOK'
  BY <1>1, <1>2 DEF table, ArrayOK, ContentsOK, Contents
<1>3. ASSUME UNCHANGED table, UNCHANGED iterator
      PROVE  IterationOK'
  BY <1>1, <1>3 DEF table, IterationOK
<1>4. ASSUME iterator' = None
      PROVE  IterationOK'
  BY <1>4 DEF IterationOK
<1>5. CASE SetRefused
  BY <1>2, <1>3, <1>5 DEF SetRefused, TableInv, ReplyOK
<1>6. ASSUME NEW k \in Keys, SetOutOfMemory(k)
      PROVE  TableInv'
  BY <1>4, <1>6, OutOfMemoryChanges DEF SetOutOfMemory, TableInv, ReplyOK
<1>7. ASSUME NEW k \in Keys, NEW v \in Values, ht_set(k, v)
      PROVE  TableInv'
  BY <1>4, <1>7, SetChanges, SetCounts DEF ht_set, TableInv, ReplyOK
<1>8. ASSUME NEW k \in Keys, ht_get(k)
      PROVE  TableInv'
  <2>1. reply' = Lookup(k) /\ UNCHANGED <<table, iterator, removed>>
    BY <1>8 DEF ht_get
  <2>2. Lookup(k) \in Values \cup {None}
    BY <1>1, ArrayHasRoom, Found, LookupFinds DEF ArrayOK
  <2> QED
    BY <1>2, <1>3, <2>1, <2>2 DEF TableInv, ReplyOK
<1>9. ASSUME NEW k \in Keys, ht_remove(k)
      PROVE  TableInv'
  <2>1. CASE reply' = FALSE /\ UNCHANGED <<table, iterator, removed>>
    BY <1>2, <1>3, <2>1 DEF TableInv, ReplyOK
  <2>2. ASSUME NEW i \in 0 .. capacity - 1,
               entries' = [entries EXCEPT ![i] = Empty], reply' = TRUE, removed' = TRUE,
               UNCHANGED <<capacity, length, iterator>>
        PROVE  TableInv'
    BY <2>2, RemoveChanges DEF TableInv, ReplyOK
  <2> QED
    BY <1>9, <2>1, <2>2 DEF ht_remove
<1>10. CASE ht_iterator
  <2>1. /\ iterator' = [index |-> 0, seen |-> {}]
        /\ UNCHANGED <<table, reply, removed>>
    BY <1>10 DEF ht_iterator, FirstIndex
  <2>2. capacity \in Nat /\ UNCHANGED <<entries, capacity>>
    BY <1>1, <2>1, ArrayHasRoom DEF table
  <2>3. IterationOK'
    <3>1. iterator' \in [index : 0 .. capacity', seen : SUBSET Keys]
      BY <2>1, <2>2
    <3>2. \A i \in InUse(entries', capacity') : ~(i < iterator'.index)
      BY <2>1 DEF InUse
    <3> QED
      BY <3>1, <3>2 DEF IterationOK
  <2> QED
    BY <1>1, <1>2, <2>1, <2>3 DEF TableInv, ReplyOK
<1>11. CASE ht_next
  BY <1>1, <1>2, <1>11, IterationAdvances DEF ht_next, TableInv, ReplyOK
<1>12. CASE ht_next_ends
  <2>1. /\ iterator # None /\ \A i \in Occupied : i < iterator.index
        /\ iterator' = [iterator EXCEPT !.index = capacity]
        /\ UNCHANGED <<table, reply, removed>>
    BY <1>12 DEF ht_next_ends, EndIndex
  <2>2. capacity \in Nat /\ UNCHANGED <<entries, capacity>>
    BY <1>1, <2>1, ArrayHasRoom DEF table
  <2>3. /\ iterator \in [index : 0 .. capacity, seen : SUBSET Keys]
        /\ \A i \in InUse(entries, capacity) : entries[i].key \in iterator.seen
    BY <1>1, <2>1 DEF IterationOK, InUse, Occupied
  <2>4. /\ iterator' \in [index : 0 .. capacity, seen : SUBSET Keys]
        /\ iterator'.seen = iterator.seen
    BY <2>1, <2>2, <2>3
  <2>5. IterationOK'
    BY <2>2, <2>3, <2>4 DEF IterationOK
  <2> QED
    BY <1>1, <1>2, <2>1, <2>5 DEF TableInv, ReplyOK
<1>13. CASE UNCHANGED vars
  BY <1>1, <1>2, <1>3, <1>13 DEF vars, TableInv, ReplyOK
<1> QED
  BY <1>5, <1>6, <1>7, <1>8, <1>9, <1>10, <1>11, <1>12, <1>13 DEF Next

-----------------------------------------------------------------------------
(* The theorems about every run.                                           *)

(* The invariant holds in every state of a run. *)
LEMMA InvariantHolds == Spec => []TableInv
<1>1. Init => TableInv
  BY InitiallyOK
<1>2. TableInv /\ [Next]_vars => TableInv'
  BY StepOK
<1> QED
  BY <1>1, <1>2, PTL DEF Spec

(* The array, its capacity and its length, the iteration and the replies   *)
(* of ht.c have the values they are declared for.                          *)
THEOREM TypeCorrect == Spec => []TypeOK
<1>1. TableInv => TypeOK
  <2> SUFFICES ASSUME TableInv
               PROVE  TypeOK
    OBVIOUS
  <2>1. entries \in [0 .. capacity - 1 -> Entries] /\ length \in Nat
    BY ArrayHasRoom DEF TableInv, ArrayOK, Slots
  <2> QED
    BY <2>1 DEF TableInv, ArrayOK, ContentsOK, IterationOK, ReplyOK, TypeOK
<1> QED
  BY <1>1, InvariantHolds, PTL

(* The loops of ht_get and ht_set end for every key, in a table of any     *)
(* size and after any calls: there is always an empty slot (ht.c:70-82).   *)
THEOREM EveryProbeEnds == Spec => []ProbesEnd
<1>1. TableInv => ProbesEnd
  BY ArrayHasRoom DEF TableInv, HasRoom, ProbesEnd
<1> QED
  BY <1>1, InvariantHolds, PTL

(* ht_length counts the keys that ht_get finds, until a removal. *)
THEOREM LengthCounts == Spec => []LengthIsCount
<1>1. TableInv => LengthIsCount
  <2>1. {k \in Keys : Lookup(k) # None} = Contents
    BY LookupFinds DEF Contents
  <2> QED
    BY <2>1 DEF TableInv, ContentsOK, LengthIsCount
<1> QED
  BY <1>1, InvariantHolds, PTL

(* An iteration that ht_next has ended has shown every key of the array.   *)
THEOREM IterationShowsAll == Spec => []IterationIsComplete
<1>1. TableInv => IterationIsComplete
  BY DEF TableInv, IterationOK, IterationIsComplete, Occupied, InUse
<1> QED
  BY <1>1, InvariantHolds, PTL

(* The table seen through ht_get. *)
seenAs == [k \in Keys |-> Lookup(k)]

(* A new table is the empty map. *)
LEMMA InitIsMap == Init => Map!Init
<1> SUFFICES ASSUME Init
             PROVE  Map!Init
  OBVIOUS
<1>1. \A k \in Keys : Lookup(k) = None
  BY CapacitiesAreOrdered, VacantArray, LookupFinds DEF Init
<1> QED
  BY <1>1 DEF Map!Init, Init

(* A call that leaves the array alone leaves the map alone. *)
LEMMA MapUnchanged ==
    ASSUME UNCHANGED table
    PROVE  seenAs' = seenAs
BY DEF table, seenAs, Lookup

(* A call of the table is a call of the map, as long as nothing has been   *)
(* removed; a step of an iteration is none.                                *)
LEMMA StepIsMap == TableInv /\ [Next]_vars => [Map!Next]_<<seenAs, reply, ~removed>>
<1> SUFFICES ASSUME TableInv, [Next]_vars
             PROVE  Map!Next \/ UNCHANGED <<seenAs, reply, ~removed>>
  OBVIOUS
<1>1. ASSUME removed' = removed, ~removed => Map!Call
      PROVE  Map!Next
  BY <1>1 DEF Map!Next
<1>2. CASE SetRefused
  <2>1. reply' = None /\ removed' = removed /\ seenAs' = seenAs
    BY <1>2, MapUnchanged DEF SetRefused
  <2> QED
    BY <1>1, <2>1 DEF Map!Call, Map!SetFails, seenAs
<1>3. ASSUME NEW k \in Keys, SetOutOfMemory(k)
      PROVE  Map!Next
  <2>1. reply' = None /\ removed' = removed
    BY <1>3 DEF SetOutOfMemory
  <2>2. ~removed => \A x \in Keys : Lookup(x)' = Lookup(x)
    BY <1>3, OutOfMemoryChanges, LookupFinds, LookupFindsNext
  <2>3. ~removed => seenAs' = seenAs
    BY <2>2 DEF seenAs
  <2> QED
    BY <1>1, <2>1, <2>3 DEF Map!Call, Map!SetFails, seenAs
<1>4. ASSUME NEW k \in Keys, NEW v \in Values, ht_set(k, v)
      PROVE  Map!Next
  <2>1. reply' = k /\ removed' = removed
    BY <1>4 DEF ht_set
  <2>2. ~removed => /\ Lookup(k)' = v
                    /\ \A x \in Keys \ {k} : Lookup(x)' = Lookup(x)
    BY <1>4, SetChanges, LookupFinds, LookupFindsNext
  <2>3. ~removed => seenAs' = [seenAs EXCEPT ![k] = v]
    BY <2>2 DEF seenAs
  <2>4. ~removed => Map!Set(k, v)
    BY <2>1, <2>3 DEF Map!Set, seenAs
  <2> QED
    BY <1>1, <2>1, <2>4 DEF Map!Call
<1>5. ASSUME NEW k \in Keys, ht_get(k)
      PROVE  Map!Next
  <2>1. reply' = Lookup(k) /\ removed' = removed /\ seenAs' = seenAs
    BY <1>5, MapUnchanged DEF ht_get
  <2>2. Map!Get(k)
    BY <2>1 DEF Map!Get, seenAs
  <2> QED
    BY <1>1, <2>1, <2>2 DEF Map!Call
<1>6. ASSUME NEW k \in Keys, ht_remove(k)
      PROVE  Map!Next
  <2>1. CASE reply' = FALSE /\ UNCHANGED <<table, iterator, removed>>
    BY <1>1, <2>1, MapUnchanged DEF Map!Call, Map!RemoveFails, seenAs
  <2>2. CASE removed' = TRUE
    BY <2>2 DEF Map!Next
  <2> QED
    BY <1>6, <2>1, <2>2 DEF ht_remove
<1>7. CASE ht_iterator \/ ht_next \/ ht_next_ends
  BY <1>7, MapUnchanged DEF ht_iterator, ht_next, ht_next_ends
<1>8. CASE UNCHANGED vars
  BY <1>8, MapUnchanged DEF vars
<1> QED
  BY <1>2, <1>3, <1>4, <1>5, <1>6, <1>7, <1>8 DEF Next

(* The table is the map that ht.h promises: through collisions, growth and *)
(* calls that run out of memory, ht_get returns what was set last.         *)
THEOREM TableIsMap == Spec => IsMap
<1>1. Init => Map!Init
  BY InitIsMap
<1>2. TableInv /\ [Next]_vars => [Map!Next]_<<seenAs, reply, ~removed>>
  BY StepIsMap
<1>3. TableInv /\ [Next]_vars => [Map!Next]_<<[k \in Keys |-> Lookup(k)], reply, ~removed>>
  BY <1>2 DEF seenAs
<1> QED
  BY <1>1, <1>3, InvariantHolds, PTL DEF Spec, IsMap, Map!Spec

=============================================================================
