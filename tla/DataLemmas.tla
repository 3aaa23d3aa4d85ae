---------------------------- MODULE DataLemmas ----------------------------
(***************************************************************************)
(* Facts about numbers and lists that the proofs of several components     *)
(* rest on.                                                                *)
(***************************************************************************)
EXTENDS RedisLists, FiniteSetTheorems, WellFoundedInduction, TLAPS

-----------------------------------------------------------------------------
(* Induction over the natural numbers, in the form the provers can use:    *)
(* with a set in place of a predicate.                                     *)

(* A set of natural numbers that is not empty has a least member. *)
LEMMA Least ==
    ASSUME NEW T \in SUBSET Nat, T # {}
    PROVE  \E n \in T : \A m \in T : n <= m
<1>1. PICK n \in T : \A m \in T : ~(<<m, n>> \in OpToRel(<, Nat))
  BY WFMin, NatLessThanWellFounded
<1>2. \A m \in T : ~(m < n)
  BY <1>1 DEF OpToRel
<1> QED
  BY <1>2

(* A set that has zero, and n + 1 with each n, has every natural number. *)
LEMMA SetInduction ==
    ASSUME NEW S, 0 \in S, \A n \in Nat : n \in S => n + 1 \in S
    PROVE  \A n \in Nat : n \in S
<1> SUFFICES ASSUME NEW k \in Nat, k \notin S
             PROVE  FALSE
  OBVIOUS
<1>1. PICK n \in Nat \ S : \A m \in Nat \ S : n <= m
  BY Least
<1>2. n # 0 /\ n - 1 \in Nat /\ n - 1 \in S
  BY <1>1
<1> QED
  BY <1>2

-----------------------------------------------------------------------------
(* Without: what LREM leaves of a list.                                    *)

(* m is the way to the list without x: m[n] is what is left of the first n *)
(* elements.                                                               *)
IsSieve(m, list, x, last) ==
    m = [n \in 0 .. last |->
            IF n = 0 THEN <<>>
            ELSE IF list[n] = x THEN m[n - 1] ELSE Append(m[n - 1], list[n])]

(* The recursive definition of Without has a solution. *)
LEMMA SieveExists ==
    ASSUME NEW list, NEW x, NEW c \in Nat
    PROVE  \E m : IsSieve(m, list, x, c)
<1> DEFINE S == {n \in Nat : \E m : IsSieve(m, list, x, n)}
<1>1. 0 \in S
  <2>1. IsSieve([n \in 0 .. 0 |-> <<>>], list, x, 0)
    BY DEF IsSieve
  <2> QED
    BY <2>1
<1>2. ASSUME NEW n \in Nat, n \in S
      PROVE  n + 1 \in S
  <2>1. PICK m : IsSieve(m, list, x, n)
    BY <1>2
  <2> DEFINE next == IF list[n + 1] = x THEN m[n] ELSE Append(m[n], list[n + 1])
  <2> DEFINE w == [i \in 0 .. n + 1 |-> IF i = n + 1 THEN next ELSE m[i]]
  <2>2. \A i \in 0 .. n : m[i] = IF i = 0 THEN <<>>
                               ELSE IF list[i] = x THEN m[i - 1] ELSE Append(m[i - 1], list[i])
    BY <2>1 DEF IsSieve
  <2>3. ASSUME NEW i \in 0 .. n + 1
        PROVE  w[i] = IF i = 0 THEN <<>>
                      ELSE IF list[i] = x THEN w[i - 1] ELSE Append(w[i - 1], list[i])
    <3>1. CASE i = n + 1
      <4>1. w[i] = next /\ w[n] = m[n] /\ i - 1 = n /\ i # 0
        BY <3>1
      <4> QED
        BY <3>1, <4>1
    <3>2. CASE i = 0
      BY <2>2, <3>2
    <3>3. CASE i \in 1 .. n
      <4>1. w[i] = m[i] /\ w[i - 1] = m[i - 1] /\ i # 0 /\ i \in 0 .. n
        BY <3>3
      <4> HIDE DEF w
      <4> QED
        BY <2>2, <4>1
    <3> QED
      BY <3>1, <3>2, <3>3
  <2>4. w = [i \in 0 .. n + 1 |-> w[i]]
    OBVIOUS
  <2> HIDE DEF w
  <2>5. IsSieve(w, list, x, n + 1)
    BY <2>3, <2>4 DEF IsSieve
  <2> QED
    BY <2>5
<1>3. c \in S
  <2> HIDE DEF S
  <2> QED
    BY <1>1, <1>2, SetInduction
<1> QED
  BY <1>3

(* Without is the end of such a way. *)
LEMMA WithoutSieves ==
    ASSUME NEW E, NEW list \in Seq(E), NEW x
    PROVE  \E m : IsSieve(m, list, x, Len(list)) /\ Without(list, x) = m[Len(list)]
<1> DEFINE m == CHOOSE y : IsSieve(y, list, x, Len(list))
<1>1. IsSieve(m, list, x, Len(list))
  BY SieveExists
<1>2. Without(list, x) = m[Len(list)]
  BY DEF Without, IsSieve
<1> QED
  BY <1>1, <1>2

(* The copies of y among the first n elements. *)
CopiesIn(list, y, n) == {i \in 1 .. n : list[i] = y}

(* The copies in a list are those in all of it, and finite in number. *)
LEMMA CopiesAreFinite ==
    ASSUME NEW E, NEW list \in Seq(E), NEW y
    PROVE  /\ Copies(list, y) = Cardinality(CopiesIn(list, y, Len(list)))
           /\ \A n \in Nat : IsFiniteSet(CopiesIn(list, y, n)) /\ Cardinality(CopiesIn(list, y, n)) \in Nat
           /\ Copies(list, y) \in Nat
<1>1. DOMAIN list = 1 .. Len(list) /\ Len(list) \in Nat
  OBVIOUS
<1>2. {n \in DOMAIN list : list[n] = y} = CopiesIn(list, y, Len(list))
  BY <1>1 DEF CopiesIn
<1>3. ASSUME NEW n \in Nat
      PROVE  IsFiniteSet(CopiesIn(list, y, n)) /\ Cardinality(CopiesIn(list, y, n)) \in Nat
  <2>1. IsFiniteSet(1 .. n)
    BY FS_Interval
  <2>2. IsFiniteSet(CopiesIn(list, y, n))
    BY <2>1, FS_Subset DEF CopiesIn
  <2> QED
    BY <2>2, FS_CardinalityType
<1>4. Copies(list, y) = Cardinality(CopiesIn(list, y, Len(list)))
  BY <1>2 DEF Copies
<1>5. Copies(list, y) \in Nat
  BY <1>1, <1>3, <1>4
<1> QED
  BY <1>3, <1>4, <1>5

(* One more element: one more copy, of this element. *)
LEMMA CopiesOfNext ==
    ASSUME NEW E, NEW list \in Seq(E), NEW y, NEW n \in Nat
    PROVE  Cardinality(CopiesIn(list, y, n + 1))
             = IF list[n + 1] = y THEN Cardinality(CopiesIn(list, y, n)) + 1
                                  ELSE Cardinality(CopiesIn(list, y, n))
<1>1. IsFiniteSet(CopiesIn(list, y, n))
  BY CopiesAreFinite
<1>2. n + 1 \notin CopiesIn(list, y, n)
  BY DEF CopiesIn
<1>3. CASE list[n + 1] = y
  <2>1. CopiesIn(list, y, n + 1) = CopiesIn(list, y, n) \cup {n + 1}
    BY <1>3 DEF CopiesIn
  <2> QED
    BY <1>1, <1>2, <1>3, <2>1, FS_AddElement
<1>4. CASE list[n + 1] # y
  <2>1. CopiesIn(list, y, n + 1) = CopiesIn(list, y, n)
    BY <1>4 DEF CopiesIn
  <2> QED
    BY <1>4, <2>1
<1> QED
  BY <1>3, <1>4

(* RPUSH adds a copy of its element and of no other. *)
LEMMA AppendCopies ==
    ASSUME NEW E, NEW list \in Seq(E), NEW x \in E, NEW y
    PROVE  /\ Append(list, x) \in Seq(E)
           /\ Copies(Append(list, x), y) = IF x = y THEN Copies(list, y) + 1 ELSE Copies(list, y)
<1> DEFINE l == Append(list, x)
<1>1. l \in Seq(E) /\ Len(l) = Len(list) + 1 /\ l[Len(list) + 1] = x /\ Len(list) \in Nat
  OBVIOUS
<1>2. \A n \in 1 .. Len(list) : l[n] = list[n]
  OBVIOUS
<1> HIDE DEF l
<1>3. CopiesIn(l, y, Len(list)) = CopiesIn(list, y, Len(list))
  BY <1>2 DEF CopiesIn
<1>4. Copies(l, y) = IF x = y THEN Cardinality(CopiesIn(list, y, Len(list))) + 1
                              ELSE Cardinality(CopiesIn(list, y, Len(list)))
  <2>1. Copies(l, y) = Cardinality(CopiesIn(l, y, Len(list) + 1))
    BY <1>1, CopiesAreFinite
  <2>2. Cardinality(CopiesIn(l, y, Len(list) + 1))
          = IF l[Len(list) + 1] = y THEN Cardinality(CopiesIn(l, y, Len(list))) + 1
                                    ELSE Cardinality(CopiesIn(l, y, Len(list)))
    BY <1>1, CopiesOfNext
  <2> QED
    BY <1>1, <1>3, <2>1, <2>2
<1>5. Copies(l, y) = IF x = y THEN Copies(list, y) + 1 ELSE Copies(list, y)
  BY <1>4, CopiesAreFinite
<1> QED
  BY <1>1, <1>5 DEF l

(* An empty list has no copies. *)
LEMMA EmptyCopies ==
    ASSUME NEW y
    PROVE  Copies(<<>>, y) = 0
<1>1. {n \in DOMAIN <<>> : <<>>[n] = y} = {}
  OBVIOUS
<1> QED
  BY <1>1, FS_EmptySet DEF Copies

(* LREM leaves no copy of its element, and all the copies of the others.   *)
LEMMA WithoutCopies ==
    ASSUME NEW E, NEW list \in Seq(E), NEW x, NEW y
    PROVE  /\ Without(list, x) \in Seq(E)
           /\ Copies(Without(list, x), y) = IF x = y THEN 0 ELSE Copies(list, y)
<1>1. PICK m : IsSieve(m, list, x, Len(list)) /\ Without(list, x) = m[Len(list)]
  BY WithoutSieves
<1>2. \A n \in 0 .. Len(list) :
         m[n] = IF n = 0 THEN <<>> ELSE IF list[n] = x THEN m[n - 1] ELSE Append(m[n - 1], list[n])
  BY <1>1 DEF IsSieve
<1> DEFINE Left(n) == IF x = y THEN 0 ELSE Cardinality(CopiesIn(list, y, n))
<1> DEFINE S == {n \in Nat : n <= Len(list) => m[n] \in Seq(E) /\ Copies(m[n], y) = Left(n)}
<1>3. Len(list) \in Nat /\ \A n \in 1 .. Len(list) : list[n] \in E
  OBVIOUS
<1>4. 0 \in S
  <2>1. CopiesIn(list, y, 0) = {}
    BY DEF CopiesIn
  <2>2. Left(0) = 0
    BY <2>1, FS_EmptySet
  <2>3. m[0] = <<>> /\ <<>> \in Seq(E)
    BY <1>2, <1>3
  <2> QED
    BY <2>2, <2>3, EmptyCopies
<1>5. ASSUME NEW n \in Nat, n \in S
      PROVE  n + 1 \in S
  <2> SUFFICES ASSUME n + 1 <= Len(list)
               PROVE  m[n + 1] \in Seq(E) /\ Copies(m[n + 1], y) = Left(n + 1)
    OBVIOUS
  <2>1. m[n] \in Seq(E) /\ Copies(m[n], y) = Left(n)
    BY <1>3, <1>5
  <2>2. m[n + 1] = IF list[n + 1] = x THEN m[n] ELSE Append(m[n], list[n + 1])
    BY <1>2, <1>3
  <2>3. list[n + 1] \in E
    BY <1>3
  <2>4. Cardinality(CopiesIn(list, y, n + 1))
          = IF list[n + 1] = y THEN Cardinality(CopiesIn(list, y, n)) + 1
                               ELSE Cardinality(CopiesIn(list, y, n))
    BY CopiesOfNext
  <2>5. CASE list[n + 1] = x
    BY <2>1, <2>2, <2>4, <2>5
  <2>6. CASE list[n + 1] # x
    <3>1. /\ m[n + 1] \in Seq(E)
          /\ Copies(m[n + 1], y) = IF list[n + 1] = y THEN Copies(m[n], y) + 1 ELSE Copies(m[n], y)
      BY <2>1, <2>2, <2>3, <2>6, AppendCopies
    <3> QED
      BY <2>1, <2>4, <2>6, <3>1
  <2> QED
    BY <2>5, <2>6
<1>6. Len(list) \in S
  <2> HIDE DEF S
  <2> QED
    BY <1>3, <1>4, <1>5, SetInduction
<1>7. Without(list, x) \in Seq(E) /\ Copies(Without(list, x), y) = Left(Len(list))
  BY <1>1, <1>3, <1>6
<1> QED
  BY <1>7, CopiesAreFinite

(* l has the first n elements of the list, and no more. *)
IsStart(l, list, n) == Len(l) = n /\ \A i \in 1 .. n : l[i] = list[i]

(* LREM leaves a list alone that has no copy of its element. *)
LEMMA WithoutAbsent ==
    ASSUME NEW E, NEW list \in Seq(E), NEW x, \A n \in 1 .. Len(list) : list[n] # x
    PROVE  Without(list, x) = list
<1>1. PICK m : IsSieve(m, list, x, Len(list)) /\ Without(list, x) = m[Len(list)]
  BY WithoutSieves
<1>2. \A n \in 0 .. Len(list) :
         m[n] = IF n = 0 THEN <<>> ELSE IF list[n] = x THEN m[n - 1] ELSE Append(m[n - 1], list[n])
  BY <1>1 DEF IsSieve
<1> DEFINE S == {n \in Nat : n <= Len(list) => m[n] \in Seq(E) /\ IsStart(m[n], list, n)}
<1>3. Len(list) \in Nat /\ \A n \in 1 .. Len(list) : list[n] \in E
  OBVIOUS
<1>4. 0 \in S
  <2>1. m[0] = <<>>
    BY <1>2, <1>3
  <2>2. <<>> \in Seq(E) /\ IsStart(<<>>, list, 0)
    BY DEF IsStart
  <2> QED
    BY <2>1, <2>2
<1>5. ASSUME NEW n \in Nat, n \in S
      PROVE  n + 1 \in S
  <2> SUFFICES ASSUME n + 1 <= Len(list)
               PROVE  m[n + 1] \in Seq(E) /\ IsStart(m[n + 1], list, n + 1)
    OBVIOUS
  <2>1. m[n] \in Seq(E) /\ IsStart(m[n], list, n)
    BY <1>3, <1>5
  <2>2. m[n + 1] = Append(m[n], list[n + 1]) /\ list[n + 1] \in E
    <3>1. n + 1 \in 1 .. Len(list) /\ n + 1 \in 0 .. Len(list) /\ n + 1 # 0 /\ (n + 1) - 1 = n
      BY <1>3
    <3>2. list[n + 1] # x /\ list[n + 1] \in E
      BY <1>3, <3>1
    <3> QED
      BY <1>2, <3>1, <3>2
  <2>3. ASSUME NEW l \in Seq(E), IsStart(l, list, n)
        PROVE  IsStart(Append(l, list[n + 1]), list, n + 1)
    <3>1. Len(l) = n /\ \A i \in 1 .. n : l[i] = list[i]
      BY <2>3 DEF IsStart
    <3> DEFINE y == list[n + 1]
    <3>2. y \in E
      BY <2>2
    <3> HIDE DEF y
    <3>3. Len(Append(l, y)) = n + 1 /\ Append(l, y)[n + 1] = y
      BY <3>1, <3>2
    <3>4. \A i \in 1 .. n : Append(l, y)[i] = list[i]
      BY <3>1, <3>2
    <3> QED
      BY <3>3, <3>4 DEF IsStart, y
  <2> QED
    BY <2>1, <2>2, <2>3
<1>6. Len(list) \in S
  <2> HIDE DEF S
  <2> QED
    BY <1>3, <1>4, <1>5, SetInduction
<1>7. Without(list, x) \in Seq(E) /\ IsStart(Without(list, x), list, Len(list))
  BY <1>1, <1>3, <1>6
<1> QED
  BY <1>7 DEF IsStart

=============================================================================
