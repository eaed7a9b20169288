------------------------- MODULE CommandPagesProofs -------------------------
(***************************************************************************)
(* Proofs about CommandPages, for every set of commands, every length of   *)
(* the log and of the history, and every number of requests and visits.    *)
(***************************************************************************)
EXTENDS CommandPages, SequenceTheorems, FiniteSetTheorems, WellFoundedInduction, TLAPS

----------------------------------------------------------------------------
(* What filter() returns. *)

Below == {p \in Nat \X Nat : p[1] < p[2]}

LEMMA LeastNatural ==
  ASSUME NEW T, T \subseteq Nat, T # {}
  PROVE \E m \in T : \A k \in T : m <= k
<1>1. OpToRel(<, Nat) = Below BY DEF OpToRel, Below
<1>2. IsWellFoundedOn(Below, Nat) BY <1>1, NatLessThanWellFounded, Zenon
<1>3. PICK m \in T : \A k \in T : ~(<<k, m>> \in Below) BY <1>2, WFMin, Zenon
<1>4. ASSUME NEW k \in T PROVE m <= k
  <2>1. k \in Nat /\ m \in Nat OBVIOUS
  <2>2. k < m => <<k, m>> \in Below BY <2>1 DEF Below
  <2> QED BY <1>3, <2>1, <2>2
<1> QED BY <1>4

\* How many places there are up to i.
LEMMA UpToCounts ==
  ASSUME NEW n \in Nat, NEW S \in SUBSET (1..n)
  PROVE /\ IsFiniteSet(S) /\ Cardinality(S) \in Nat /\ UpTo(S, n) = S
        /\ Cardinality(UpTo(S, 0)) = 0
        /\ \A i : IsFiniteSet(UpTo(S, i)) /\ Cardinality(UpTo(S, i)) \in Nat
        /\ \A i \in Nat : i + 1 \in S =>
             Cardinality(UpTo(S, i + 1)) = Cardinality(UpTo(S, i)) + 1
        /\ \A i \in Nat : i + 1 \notin S => UpTo(S, i + 1) = UpTo(S, i)
<1>s. \A j \in S : j \in Nat /\ 0 < j /\ j <= n OBVIOUS
<1>1. IsFiniteSet(S)
  <2>1. IsFiniteSet(1..n) BY FS_Interval
  <2> QED BY <2>1, FS_Subset
<1>2. ASSUME NEW i PROVE IsFiniteSet(UpTo(S, i)) /\ Cardinality(UpTo(S, i)) \in Nat
  <2>1. UpTo(S, i) \in SUBSET S BY DEF UpTo
  <2> QED BY <1>1, <2>1, FS_Subset, FS_CardinalityType
<1>3. UpTo(S, n) = S BY <1>s DEF UpTo
<1>4. Cardinality(UpTo(S, 0)) = 0
  <2>1. \A j \in S : ~(j <= 0) BY <1>s
  <2>2. UpTo(S, 0) = {} BY <2>1 DEF UpTo
  <2> QED BY <2>2, FS_EmptySet
<1>5. ASSUME NEW i \in Nat, i + 1 \in S
      PROVE Cardinality(UpTo(S, i + 1)) = Cardinality(UpTo(S, i)) + 1
  <2>1. \A j \in S : j <= i + 1 <=> j <= i \/ j = i + 1 BY <1>s
  <2>2. UpTo(S, i + 1) = UpTo(S, i) \union {i + 1} BY <1>5, <2>1 DEF UpTo
  <2>3. i + 1 \notin UpTo(S, i) BY DEF UpTo
  <2> QED BY <1>2, <2>2, <2>3, FS_AddElement
<1>6. ASSUME NEW i \in Nat, i + 1 \notin S PROVE UpTo(S, i + 1) = UpTo(S, i)
  <2>1. \A j \in S : j <= i + 1 <=> j <= i BY <1>s, <1>6
  <2> QED BY <2>1 DEF UpTo
<1> QED BY <1>1, <1>2, <1>3, <1>4, <1>5, <1>6, FS_CardinalityType

\* The places are counted in their order.
LEMMA CountsIncrease ==
  ASSUME NEW n \in Nat, NEW S \in SUBSET (1..n), NEW i \in S, NEW j \in S, i < j
  PROVE Cardinality(UpTo(S, i)) < Cardinality(UpTo(S, j))
<1>1. UpTo(S, i) \in SUBSET UpTo(S, j) /\ j \in UpTo(S, j) /\ j \notin UpTo(S, i)
  <2>1. \A m \in S : m \in Nat /\ (m <= i => m <= j) OBVIOUS
  <2>2. j <= j /\ ~(j <= i) OBVIOUS
  <2> QED BY <2>1, <2>2 DEF UpTo
<1>2. /\ IsFiniteSet(UpTo(S, j)) /\ Cardinality(UpTo(S, j)) \in Nat
      /\ Cardinality(UpTo(S, i)) \in Nat
  BY UpToCounts
<1>3. Cardinality(UpTo(S, i)) <= Cardinality(UpTo(S, j)) BY <1>1, <1>2, FS_Subset
<1>4. Cardinality(UpTo(S, i)) # Cardinality(UpTo(S, j)) BY <1>1, <1>2, FS_Subset
<1> QED BY <1>2, <1>3, <1>4

\* Every place has its number,
LEMMA PlaceOfCount ==
  ASSUME NEW n \in Nat, NEW S \in SUBSET (1..n), NEW i \in S
  PROVE /\ Cardinality(UpTo(S, i)) \in 1..Cardinality(S)
        /\ Place(S, Cardinality(UpTo(S, i))) = i
<1> DEFINE k == Cardinality(UpTo(S, i))
<1>1. k \in 1..Cardinality(S)
  <2>1. k \in Nat /\ IsFiniteSet(S) /\ IsFiniteSet(UpTo(S, i)) BY UpToCounts
  <2>2. UpTo(S, i) \in SUBSET S /\ i \in UpTo(S, i) BY DEF UpTo
  <2>3. k <= Cardinality(S) BY <2>1, <2>2, FS_Subset
  <2>4. k # 0 BY <2>1, <2>2, FS_EmptySet
  <2>5. Cardinality(S) \in Nat BY UpToCounts
  <2> HIDE DEF k
  <2> QED BY <2>1, <2>3, <2>4, <2>5
<1>2. \A j \in S : Cardinality(UpTo(S, j)) = k => j = i
  <2> SUFFICES ASSUME NEW j \in S, Cardinality(UpTo(S, j)) = k, j # i PROVE FALSE
    OBVIOUS
  <2>1. j < i \/ i < j
    <3>1. i \in Nat /\ j \in Nat OBVIOUS
    <3> QED BY <3>1
  <2>2. k \in Nat BY UpToCounts
  <2>3. CASE j < i
    <3>1. Cardinality(UpTo(S, j)) < Cardinality(UpTo(S, i)) BY <2>3, CountsIncrease
    <3> QED BY <2>2, <3>1
  <2>4. CASE i < j
    <3>1. Cardinality(UpTo(S, i)) < Cardinality(UpTo(S, j)) BY <2>4, CountsIncrease
    <3> QED BY <2>2, <3>1
  <2> QED BY <2>1, <2>3, <2>4
<1>3. Place(S, k) = i BY <1>2 DEF Place
<1> QED BY <1>1, <1>3

\* and every number up to how many there are has its place.
LEMMA PlaceExists ==
  ASSUME NEW n \in Nat, NEW S \in SUBSET (1..n), NEW k \in 1..Cardinality(S)
  PROVE Place(S, k) \in S /\ Cardinality(UpTo(S, Place(S, k))) = k
<1> DEFINE T == {i \in Nat : Cardinality(UpTo(S, i)) >= k}
<1>1. n \in T BY UpToCounts
<1>2. PICK m \in T : \A i \in T : m <= i BY <1>1, LeastNatural
<1>3. m # 0 BY UpToCounts
<1>4. PICK l \in Nat : m = l + 1 BY <1>3
<1>5. Cardinality(UpTo(S, l)) < k /\ Cardinality(UpTo(S, l)) \in Nat
  <2>1. l \notin T BY <1>2, <1>4
  <2>2. Cardinality(UpTo(S, l)) \in Nat BY UpToCounts
  <2> QED BY <2>1, <2>2
<1>6. Cardinality(UpTo(S, l + 1)) >= k BY <1>4
<1>7. l + 1 \in S
  <2> SUFFICES ASSUME l + 1 \notin S PROVE FALSE OBVIOUS
  <2>1. UpTo(S, l + 1) = UpTo(S, l) BY UpToCounts
  <2>2. Cardinality(UpTo(S, l)) >= k BY <1>6, <2>1
  <2>3. k \in Int OBVIOUS
  <2> QED BY <1>5, <2>2, <2>3
<1>8. Cardinality(UpTo(S, l + 1)) = k
  <2>1. Cardinality(UpTo(S, l + 1)) = Cardinality(UpTo(S, l)) + 1
    BY <1>7, UpToCounts
  <2> QED BY <1>5, <1>6, <2>1
<1> QED BY <1>7, <1>8 DEF Place

LEMMA PlacesIncrease ==
  ASSUME NEW n \in Nat, NEW S \in SUBSET (1..n),
         NEW k \in 1..Cardinality(S), NEW m \in 1..Cardinality(S), k < m
  PROVE Place(S, k) < Place(S, m)
<1> DEFINE i == Place(S, k)
           j == Place(S, m)
<1>1. /\ i \in S /\ Cardinality(UpTo(S, i)) = k
      /\ j \in S /\ Cardinality(UpTo(S, j)) = m
  BY PlaceExists
<1> HIDE DEF i, j
<1>2. i \in Nat /\ j \in Nat BY <1>1
<1>3. i # j BY <1>1
<1>4. ~(j < i)
  <2> SUFFICES ASSUME j < i PROVE FALSE OBVIOUS
  <2>1. m < k BY <1>1, CountsIncrease
  <2> QED BY <2>1
<1>5. i < j BY <1>2, <1>3, <1>4
<1> QED BY <1>5 DEF i, j

LEMMA EntriesAreASeq ==
  ASSUME NEW T, NEW l \in Seq(T), NEW S \in SUBSET (1..Len(l))
  PROVE /\ Entries(l, S) \in Seq(T) /\ Len(Entries(l, S)) = Cardinality(S)
        /\ Cardinality(S) \in Nat
        /\ \A k \in 1..Cardinality(S) :
             Place(S, k) \in S /\ Entries(l, S)[k] = l[Place(S, k)]
<1>1. Len(l) \in Nat /\ \A i \in 1..Len(l) : l[i] \in T BY LenProperties, ElementOfSeq
<1>2. Cardinality(S) \in Nat BY <1>1, UpToCounts
<1>3. \A k \in 1..Cardinality(S) : Place(S, k) \in S BY <1>1, PlaceExists
<1>4. \A k \in 1..Cardinality(S) : l[Place(S, k)] \in T BY <1>1, <1>3
<1>5. /\ Entries(l, S) \in Seq(T) /\ Len(Entries(l, S)) = Cardinality(S)
      /\ \A k \in 1..Cardinality(S) : Entries(l, S)[k] = l[Place(S, k)]
  BY <1>2, <1>4 DEF Entries
<1> QED BY <1>2, <1>3, <1>5

\* An entry that is appended comes last, if it is among the places.
LEMMA EntriesOfAppend ==
  ASSUME NEW T, NEW l \in Seq(T), NEW e \in T, NEW S \in SUBSET (1..Len(l))
  PROVE /\ Entries(Append(l, e), S) = Entries(l, S)
        /\ Entries(Append(l, e), S \union {Len(l) + 1}) = Append(Entries(l, S), e)
<1> DEFINE n == Len(l)
           a == Append(l, e)
           U == S \union {n + 1}
<1>1. n \in Nat BY LenProperties
<1>2. /\ a \in Seq(T) /\ Len(a) = n + 1 /\ a[n + 1] = e
      /\ \A i \in 1..n : a[i] = l[i]
  BY AppendProperties
<1> HIDE DEF a, n
<1>3. S \in SUBSET (1..n) /\ S \in SUBSET (1..(n + 1)) /\ U \in SUBSET (1..(n + 1))
      /\ n + 1 \in Nat /\ n + 1 \notin S
  <2>1. S \in SUBSET (1..n) BY DEF n
  <2>2. \A j \in S : j \in 1..n BY <2>1
  <2>3. \A j \in 1..n : j \in 1..(n + 1) /\ j # n + 1 BY <1>1
  <2>4. n + 1 \in 1..(n + 1) BY <1>1
  <2> QED BY <1>1, <2>1, <2>2, <2>3, <2>4
<1>4. Cardinality(S) \in Nat /\ IsFiniteSet(S) BY <1>1, <1>3, UpToCounts
<1>5. Cardinality(U) = Cardinality(S) + 1 BY <1>3, <1>4, FS_AddElement
<1>6. \A k \in 1..Cardinality(S) : Place(S, k) \in S /\ Place(S, k) \in 1..n
  BY <1>1, <1>3, PlaceExists
<1>7. Entries(a, S) = Entries(l, S) BY <1>2, <1>6 DEF Entries
<1>8. ASSUME NEW k \in 1..Cardinality(S) PROVE Place(U, k) = Place(S, k)
  <2> DEFINE i == Place(S, k)
  <2>1. i \in S /\ Cardinality(UpTo(S, i)) = k BY <1>1, <1>3, PlaceExists
  <2> HIDE DEF i
  <2>2. i \in 1..n BY <1>3, <2>1
  <2>3. ~(n + 1 <= i) BY <1>1, <2>2
  <2>4. UpTo(U, i) = UpTo(S, i) BY <2>3 DEF UpTo
  <2>5. i \in U /\ Cardinality(UpTo(U, i)) = k BY <2>1, <2>4
  <2>6. Place(U, Cardinality(UpTo(U, i))) = i BY <1>3, <2>5, PlaceOfCount
  <2> QED BY <2>5, <2>6 DEF i
<1>9. Place(U, Cardinality(U)) = n + 1
  <2>1. \A j \in U : j <= n + 1 BY <1>1, <1>3
  <2>2. UpTo(U, n + 1) = U BY <2>1 DEF UpTo
  <2>3. Place(U, Cardinality(UpTo(U, n + 1))) = n + 1 BY <1>3, PlaceOfCount
  <2> QED BY <2>2, <2>3
<1>10. Entries(a, U) = Append(Entries(l, S), e)
  <2> DEFINE c == Cardinality(S)
             E == Entries(l, S)
             F == Entries(a, U)
  <2>1. /\ E \in Seq(T) /\ Len(E) = c /\ \A k \in 1..c : E[k] = l[Place(S, k)]
    BY EntriesAreASeq, <1>3 DEF n
  <2>2. /\ F \in Seq(T) /\ Len(F) = Cardinality(U)
        /\ \A k \in 1..Cardinality(U) : F[k] = a[Place(U, k)]
    BY <1>2, <1>3, EntriesAreASeq
  <2>3. /\ Append(E, e) \in Seq(T) /\ Len(Append(E, e)) = c + 1
        /\ \A k \in 1..c : Append(E, e)[k] = E[k]
        /\ Append(E, e)[c + 1] = e
    BY <2>1, AppendProperties
  <2>4. F[c + 1] = e
    <3>1. c + 1 \in 1..Cardinality(U) BY <1>4, <1>5
    <3>2. F[c + 1] = a[Place(U, c + 1)] BY <2>2, <3>1
    <3> QED BY <1>2, <1>5, <1>9, <3>2
  <2>5. ASSUME NEW k \in 1..c PROVE F[k] = E[k]
    <3>1. k \in 1..Cardinality(U) BY <1>4, <1>5
    <3> QED BY <1>2, <1>6, <1>8, <2>1, <2>2, <3>1
  <2> HIDE DEF E, F
  <2>6. \A k \in 1..(c + 1) : F[k] = Append(E, e)[k] BY <1>4, <2>3, <2>4, <2>5
  <2>7. F = Append(E, e) BY <1>5, <2>2, <2>3, <2>6, SeqEqual
  <2> QED BY <2>7 DEF E, F
<1> QED BY <1>7, <1>10 DEF a, n

LEMMA OfTypeOfAppend ==
  ASSUME NEW types, NEW l \in Seq(Entry), NEW e \in Entry
  PROVE OfType(types, Append(l, e)) =
          IF e.type \in types THEN Append(OfType(types, l), e) ELSE OfType(types, l)
<1> DEFINE S == {i \in DOMAIN l : l[i].type \in types}
           a == Append(l, e)
           U == {i \in DOMAIN a : a[i].type \in types}
<1>1. Len(l) \in Nat /\ DOMAIN l = 1..Len(l) BY LenProperties
<1>2. /\ DOMAIN a = 1..(Len(l) + 1) /\ a[Len(l) + 1] = e
      /\ \A i \in 1..Len(l) : a[i] = l[i]
  BY AppendProperties, LenProperties
<1>3. \A i \in 1..(Len(l) + 1) : i \in 1..Len(l) \/ i = Len(l) + 1 BY <1>1
<1>4. \A i \in 1..Len(l) : i \in 1..(Len(l) + 1) BY <1>1
<1>5. Len(l) + 1 \in 1..(Len(l) + 1) BY <1>1
<1>6. OfType(types, a) = Entries(a, U) /\ OfType(types, l) = Entries(l, S) BY DEF OfType
<1>7. S \in SUBSET (1..Len(l)) BY <1>1
<1> HIDE DEF a
<1>8. CASE e.type \in types
  <2>1. U = S \union {Len(l) + 1} BY <1>1, <1>2, <1>3, <1>4, <1>5, <1>8
  <2> HIDE DEF S, U
  <2>2. Entries(a, U) = Append(Entries(l, S), e) BY <1>7, <2>1, EntriesOfAppend DEF a
  <2> QED BY <1>6, <1>8, <2>2 DEF a
<1>9. CASE e.type \notin types
  <2>1. U = S BY <1>1, <1>2, <1>3, <1>4, <1>9
  <2> HIDE DEF S, U
  <2>2. Entries(a, U) = Entries(l, S) BY <1>7, <2>1, EntriesOfAppend DEF a
  <2> QED BY <1>6, <1>9, <2>2 DEF a
<1> QED BY <1>8, <1>9

NoRepeats(h) == \A i, j \in 1..Len(h) : h[i] = h[j] => i = j

\* A history without repeats loses at most one command.
LEMMA OthersOK ==
  ASSUME NEW T, NEW h \in Seq(T), NoRepeats(h), NEW cmd
  PROVE LET o == Others(h, cmd)
        IN /\ o \in Seq(T) /\ NoRepeats(o) /\ \A k \in 1..Len(o) : o[k] # cmd
           /\ Len(o) \in Nat /\ Len(o) <= Len(h) /\ Len(h) <= Len(o) + 1
<1> DEFINE n == Len(h)
           S == {i \in DOMAIN h : h[i] # cmd}
           o == Entries(h, S)
<1>1. n \in Nat /\ DOMAIN h = 1..n BY LenProperties
<1>2. S \in SUBSET (1..n) /\ \A i \in S : h[i] # cmd BY <1>1
<1>3. \A i \in 1..n : i \notin S => h[i] = cmd BY <1>1
<1>o. Others(h, cmd) = o BY DEF Others
<1> HIDE DEF S
<1>4. /\ o \in Seq(T) /\ Len(o) = Cardinality(S) /\ Cardinality(S) \in Nat
      /\ \A k \in 1..Cardinality(S) : Place(S, k) \in S /\ o[k] = h[Place(S, k)]
  BY <1>2, EntriesAreASeq
<1> HIDE DEF o
<1>5. \A k \in 1..Len(o) : o[k] # cmd BY <1>2, <1>4
<1>6. NoRepeats(o)
  <2> SUFFICES ASSUME NEW k \in 1..Len(o), NEW m \in 1..Len(o), o[k] = o[m], k # m
               PROVE FALSE
    BY DEF NoRepeats
  <2>1. Place(S, k) = Place(S, m) BY <1>2, <1>4 DEF NoRepeats
  <2>2. Place(S, k) \in Nat BY <1>2, <1>4
  <2>3. k < m \/ m < k BY <1>4
  <2>4. CASE k < m
    <3>1. Place(S, k) < Place(S, m) BY <1>1, <1>2, <1>4, <2>4, PlacesIncrease
    <3> QED BY <2>1, <2>2, <3>1
  <2>5. CASE m < k
    <3>1. Place(S, m) < Place(S, k) BY <1>1, <1>2, <1>4, <2>5, PlacesIncrease
    <3> QED BY <2>1, <2>2, <3>1
  <2> QED BY <2>3, <2>4, <2>5
<1>7. IsFiniteSet(1..n) /\ Cardinality(1..n) = n
  <2>1. IsFiniteSet(1..n) /\ Cardinality(1..n) = IF 1 > n THEN 0 ELSE n - 1 + 1
    BY <1>1, FS_Interval
  <2> QED BY <1>1, <2>1
<1>8. Cardinality(S) <= n BY <1>2, <1>7, FS_Subset
<1>9. n <= Cardinality(S) + 1
  <2>1. CASE 1..n \subseteq S
    <3>1. S = 1..n BY <1>2, <2>1
    <3> QED BY <1>1, <1>7, <3>1
  <2>2. CASE \E q \in 1..n : q \notin S
    <3>1. PICK q \in 1..n : q \notin S BY <2>2
    <3>2. S = (1..n) \ {q} BY <1>2, <1>3, <3>1 DEF NoRepeats
    <3>3. Cardinality((1..n) \ {q}) = Cardinality(1..n) - 1
      BY <1>7, <3>1, FS_RemoveElement
    <3>4. Cardinality(S) = n - 1 BY <1>7, <3>2, <3>3
    <3> QED BY <1>1, <3>4
  <2> QED BY <2>1, <2>2
<1> QED BY <1>o, <1>4, <1>5, <1>6, <1>8, <1>9

\* slice(-n), for n > 0.
LEMMA NewestOK ==
  ASSUME NEW T, NEW l \in Seq(T), NEW n \in Nat \ {0}
  PROVE LET r == Newest(n, l)
        IN /\ r \in Seq(T) /\ Len(r) = (IF Len(l) > n THEN n ELSE Len(l))
           /\ Len(l) <= n => r = l
           /\ \A i \in 1..Len(r) :
                /\ i + (Len(l) - Len(r)) \in 1..Len(l)
                /\ r[i] = l[i + (Len(l) - Len(r))]
<1> DEFINE m == Len(l)
           from == IF m > n THEN m - n + 1 ELSE 1
           r == SubSeq(l, from, m)
<1>1. m \in Nat /\ \A i \in 1..m : l[i] \in T BY LenProperties, ElementOfSeq
<1>2. Newest(n, l) = r BY DEF Newest
<1>3. /\ from \in Nat /\ from >= 1 /\ from <= m + 1
      /\ m - from + 1 = (IF m > n THEN n ELSE m)
  BY <1>1
<1>4. \A i \in from..m : l[i] \in T BY <1>1, <1>3
<1> HIDE DEF from, m
<1>5. /\ r \in Seq(T) /\ Len(r) = IF from <= m THEN m - from + 1 ELSE 0
      /\ \A i \in 1..(m - from + 1) : r[i] = l[from + i - 1]
  BY <1>1, <1>3, <1>4, SubSeqProperties
<1> HIDE DEF r
<1>6. Len(r) = m - from + 1 BY <1>1, <1>3, <1>5
<1>7. m - Len(r) = from - 1 BY <1>1, <1>3, <1>6
<1>8. ASSUME NEW i \in 1..Len(r)
      PROVE i + (m - Len(r)) \in 1..m /\ r[i] = l[i + (m - Len(r))]
  <2>1. r[i] = l[from + i - 1] BY <1>5, <1>6
  <2>2. from + i - 1 = i + (m - Len(r)) BY <1>3, <1>7
  <2>3. from + i - 1 \in 1..m BY <1>1, <1>3, <1>6
  <2> QED BY <2>1, <2>2, <2>3
<1>9. ASSUME m <= n PROVE r = l
  <2>1. Len(r) = m BY <1>1, <1>3, <1>6, <1>9
  <2>2. \A i \in 1..Len(r) : r[i] = l[i]
    <3>1. \A i \in 1..Len(r) : i + (m - Len(r)) = i BY <1>1, <2>1
    <3> QED BY <1>8, <3>1
  <2> QED BY <1>5, <2>1, <2>2, SeqEqual DEF m
<1> QED BY <1>1, <1>2, <1>3, <1>5, <1>6, <1>8, <1>9 DEF m

\* The history stays free of repeats and gets no shorter.
LEMMA RememberOK ==
  ASSUME NEW h \in Seq(Commands), NoRepeats(h), Len(h) <= MaxRecall,
         NEW cmd \in Commands
  PROVE LET r == Remember(h, cmd)
        IN /\ r \in Seq(Commands) /\ NoRepeats(r)
           /\ Len(r) <= MaxRecall /\ Len(h) <= Len(r)
<1> DEFINE o == Others(h, cmd)
           kept == IF MaxRecall = 1 THEN <<>> ELSE Newest(MaxRecall - 1, o)
           r == Append(kept, cmd)
<1>1. /\ o \in Seq(Commands) /\ NoRepeats(o) /\ \A k \in 1..Len(o) : o[k] # cmd
      /\ Len(o) \in Nat /\ Len(h) <= Len(o) + 1
  BY OthersOK
<1>h. Len(h) \in Nat BY LenProperties
<1> HIDE DEF o
<1>2. MaxRecall \in Nat \ {0} BY LimitAssumption
<1>3. /\ kept \in Seq(Commands) /\ NoRepeats(kept)
      /\ \A k \in 1..Len(kept) : kept[k] # cmd
      /\ Len(kept) \in Nat /\ Len(kept) + 1 <= MaxRecall /\ Len(h) <= Len(kept) + 1
  <2>1. CASE MaxRecall = 1
    <3>1. kept = <<>> BY <2>1
    <3> HIDE DEF kept
    <3> QED BY <1>h, <2>1, <3>1, EmptySeq DEF NoRepeats
  <2>2. CASE MaxRecall # 1
    <3>1. kept = Newest(MaxRecall - 1, o) /\ MaxRecall - 1 \in Nat \ {0} BY <1>2, <2>2
    <3> HIDE DEF kept
    <3> DEFINE d == Len(o) - Len(kept)
    <3>2. /\ kept \in Seq(Commands)
          /\ Len(kept) = (IF Len(o) > MaxRecall - 1 THEN MaxRecall - 1 ELSE Len(o))
          /\ \A i \in 1..Len(kept) : i + d \in 1..Len(o) /\ kept[i] = o[i + d]
      BY <1>1, <3>1, NewestOK
    <3>3. Len(kept) \in Nat /\ d \in Nat BY <1>1, <3>1, <3>2
    <3> HIDE DEF d
    <3>4. NoRepeats(kept)
      <4> SUFFICES ASSUME NEW i \in 1..Len(kept), NEW j \in 1..Len(kept), kept[i] = kept[j]
                   PROVE i = j
        BY DEF NoRepeats
      <4>1. i + d = j + d BY <1>1, <3>2 DEF NoRepeats
      <4> QED BY <3>3, <4>1
    <3>5. \A k \in 1..Len(kept) : kept[k] # cmd BY <1>1, <3>2
    <3>6. Len(kept) + 1 <= MaxRecall /\ Len(h) <= Len(kept) + 1
      BY <1>h, <1>1, <1>2, <2>2, <3>2
    <3> QED BY <3>2, <3>3, <3>4, <3>5, <3>6
  <2> QED BY <2>1, <2>2
<1>4. Remember(h, cmd) = r BY DEF Remember, kept, o
<1> HIDE DEF kept
<1>5. /\ r \in Seq(Commands) /\ Len(r) = Len(kept) + 1 /\ r[Len(kept) + 1] = cmd
      /\ \A i \in 1..Len(kept) : r[i] = kept[i]
  BY <1>3, AppendProperties
<1> HIDE DEF r
<1>6. NoRepeats(r)
  <2> SUFFICES ASSUME NEW i \in 1..Len(r), NEW j \in 1..Len(r), r[i] = r[j]
               PROVE i = j
    BY DEF NoRepeats
  <2>1. /\ i \in 1..Len(kept) \/ i = Len(kept) + 1
        /\ j \in 1..Len(kept) \/ j = Len(kept) + 1
    BY <1>3, <1>5
  <2> QED BY <1>3, <1>5, <2>1 DEF NoRepeats
<1> QED BY <1>h, <1>3, <1>4, <1>5, <1>6
----------------------------------------------------------------------------
(* The inductive invariant. *)

ParamsOK ==
  /\ params \in [DOMAIN InitialParams -> 0..99]
  /\ params.ms \in 50..95 /\ params.dur \in 1..30 /\ params.dur3 \in 1..30
  /\ params.ms2 \in 90..99 /\ params.dur2 \in 1..15

Types ==
  /\ page \in {"console", "lab"} /\ visit \in 1..MaxVisits
  /\ connected \in BOOLEAN /\ loading \in BOOLEAN
  /\ lastAck \in Commands \union Scenarios \union {Null}
  /\ lastError \in Errors \union {Null}
  /\ input \in Commands \union {Blank}
  /\ log \in Seq(Entry) /\ Len(log) <= MaxLog
  /\ cmdHistory \in Seq(Commands) /\ Len(cmdHistory) <= MaxRecall
  /\ historyIndex \in Int /\ historyIndex >= -1
  /\ running \in Scenarios \union {Null}
  /\ requests \in Seq(Request) /\ Len(requests) <= MaxRequests

\* Requests come from this visit or an earlier one; those of a console visit name
\* commands.  What only one of the pages has is at rest while the other is mounted.
Addressed ==
  /\ \A r \in DOMAIN requests :
       /\ requests[r].visit <= visit
       /\ page = "console" /\ requests[r].visit = visit => requests[r].cmd \in Commands
  /\ page = "console" => running = Null
  /\ page = "lab" => due = <<>>

\* What is due, at most the entry of an answer.
IsDue(d) == d = <<>> \/ \E e \in Entry : e.type \in {"ack", "error"} /\ d = <<e>>

\* One effect at most is due, that of an answer, and none while a request waits:
\* send() has cleared both answers, so that the next one differs from the last.
Settled ==
  /\ IsDue(due)
  /\ loading => lastAck = Null /\ lastError = Null /\ due = <<>>

\* LoadingMeansWaiting, without counting.
Waits ==
  /\ loading => \E r \in Waiting : Waiting = {r}
  /\ ~loading => Waiting = {}
  /\ page = "lab" => (running # Null <=> loading)

Recall == historyIndex < Len(cmdHistory) /\ NoRepeats(cmdHistory)

SentOf(l) == OfType({"sent"}, l)
AnswersOf(l) == OfType({"ack", "error"}, l)

\* The answers fit the commands, one being open while the console waits,
Fits(sent, answers, open) ==
  /\ Len(sent) = Len(answers) + (IF open THEN 1 ELSE 0)
  /\ \A k \in DOMAIN answers : answers[k].type = "ack" => answers[k].text = sent[k].text

\* and the request that waits is for the last command.
Answers ==
  LET sent == SentOf(log)
  IN Len(log) < MaxLog
       => /\ Fits(sent, AnswersOf(log \o due), page = "console" /\ loading)
          /\ page = "console" /\ loading =>
               \A r \in Waiting : requests[r].cmd = sent[Len(sent)].text

Inv == Types /\ ParamsOK /\ Addressed /\ Settled /\ Waits /\ Recall /\ Answers

----------------------------------------------------------------------------
(* The log. *)

LEMMA NoEntries ==
  /\ <<>> \in Seq(Entry) /\ <<>> \o <<>> = <<>>
  /\ SentOf(<<>>) = <<>> /\ AnswersOf(<<>>) = <<>>
  /\ Fits(SentOf(<<>>), AnswersOf(<<>> \o <<>>), FALSE)
<1>1. <<>> \in Seq(Entry) /\ <<>> \o <<>> = <<>> OBVIOUS
<1>2. ASSUME NEW types PROVE OfType(types, <<>>) = <<>>
  <2>1. {i \in DOMAIN <<>> : <<>>[i].type \in types} = {} OBVIOUS
  <2>2. OfType(types, <<>>) = Entries(<<>>, {}) BY <2>1 DEF OfType
  <2>3. {} \in SUBSET (1..Len(<<>>)) OBVIOUS
  <2>4. Entries(<<>>, {}) \in Seq(Entry) /\ Len(Entries(<<>>, {})) = Cardinality({})
    BY <1>1, <2>3, EntriesAreASeq
  <2>5. Cardinality({}) = 0 BY FS_EmptySet
  <2> QED BY <2>2, <2>4, <2>5, EmptySeq
<1>3. SentOf(<<>>) = <<>> /\ AnswersOf(<<>>) = <<>> BY <1>2 DEF SentOf, AnswersOf
<1> QED BY <1>1, <1>3 DEF Fits

LEMMA OfTypeIsASeq ==
  ASSUME NEW types, NEW l \in Seq(Entry)
  PROVE OfType(types, l) \in Seq(Entry)
<1> DEFINE S == {i \in DOMAIN l : l[i].type \in types}
<1>1. S \in SUBSET (1..Len(l)) BY LenProperties
<1>2. OfType(types, l) = Entries(l, S) BY DEF OfType
<1> HIDE DEF S
<1> QED BY <1>1, <1>2, EntriesAreASeq

\* The entry of a command opens an answer,
LEMMA CommandFits ==
  ASSUME NEW sent \in Seq(Entry), NEW answers \in Seq(Entry), NEW e \in Entry,
         Fits(sent, answers, FALSE)
  PROVE /\ Fits(Append(sent, e), answers, TRUE)
        /\ Append(sent, e)[Len(Append(sent, e))] = e
<1>1. /\ Len(sent) \in Nat /\ Len(answers) = Len(sent)
      /\ DOMAIN answers = 1..Len(sent)
  BY LenProperties DEF Fits
<1>2. /\ Len(Append(sent, e)) = Len(sent) + 1 /\ Append(sent, e)[Len(sent) + 1] = e
      /\ \A k \in 1..Len(sent) : Append(sent, e)[k] = sent[k]
  BY AppendProperties
<1> QED BY <1>1, <1>2 DEF Fits

\* and the answer to it closes it.
LEMMA AnswerFits ==
  ASSUME NEW sent \in Seq(Entry), NEW answers \in Seq(Entry), NEW e \in Entry,
         Fits(sent, answers, TRUE),
         e.type = "ack" => e.text = sent[Len(sent)].text
  PROVE Fits(sent, Append(answers, e), FALSE)
<1>1. /\ Len(answers) \in Nat /\ Len(sent) = Len(answers) + 1
      /\ DOMAIN answers = 1..Len(answers)
  BY LenProperties DEF Fits
<1>2. /\ Len(Append(answers, e)) = Len(answers) + 1
      /\ Append(answers, e)[Len(answers) + 1] = e
      /\ \A k \in 1..Len(answers) : Append(answers, e)[k] = answers[k]
      /\ DOMAIN Append(answers, e) = 1..(Len(answers) + 1)
  BY AppendProperties, LenProperties
<1>3. \A k \in 1..(Len(answers) + 1) : k \in 1..Len(answers) \/ k = Len(sent)
  BY <1>1
<1> QED BY <1>1, <1>2, <1>3 DEF Fits

LEMMA DueIsASeq == ASSUME NEW d, IsDue(d) PROVE d \in Seq(Entry) /\ Len(d) \in Nat
<1>1. CASE d = <<>> BY <1>1, EmptySeq
<1>2. CASE \E e \in Entry : e.type \in {"ack", "error"} /\ d = <<e>>
  <2>1. PICK e \in Entry : d = <<e>> BY <1>2
  <2> QED BY <2>1
<1> QED BY <1>1, <1>2 DEF IsDue

\* The entry of a command, with the answer that is due behind it.
LEMMA IssueFits ==
  ASSUME NEW l \in Seq(Entry), NEW d, IsDue(d), NEW s \in Entry, s.type = "sent",
         Fits(SentOf(l), AnswersOf(l \o d), FALSE)
  PROVE LET m == l \o (<<s>> \o d)
        IN /\ m \in Seq(Entry) /\ Len(l) < Len(m)
           /\ Fits(SentOf(m), AnswersOf(m \o <<>>), TRUE)
           /\ SentOf(m)[Len(SentOf(m))] = s
<1> DEFINE m == l \o (<<s>> \o d)
           a == Append(l, s)
<1>1. Len(l) \in Nat BY LenProperties
<1>2. /\ a \in Seq(Entry) /\ Len(a) = Len(l) + 1
      /\ SentOf(a) = Append(SentOf(l), s) /\ AnswersOf(a) = AnswersOf(l)
  <2>1. a \in Seq(Entry) /\ Len(a) = Len(l) + 1 BY AppendProperties
  <2>2. SentOf(a) = Append(SentOf(l), s) BY OfTypeOfAppend DEF SentOf
  <2>3. AnswersOf(a) = AnswersOf(l) BY OfTypeOfAppend DEF AnswersOf
  <2> QED BY <2>1, <2>2, <2>3
<1>3. SentOf(l) \in Seq(Entry) /\ AnswersOf(l) \in Seq(Entry)
  BY OfTypeIsASeq DEF SentOf, AnswersOf
<1>4. l \o <<s>> = a BY AppendIsConcat
<1>5. CASE d = <<>>
  <2>1. m = a /\ a \o <<>> = a /\ l \o d = l
    <3>1. <<s>> \o <<>> = <<s>> OBVIOUS
    <3>2. a \o <<>> = a BY <1>2, ConcatEmptySeq
    <3>3. l \o <<>> = l BY ConcatEmptySeq
    <3> QED BY <1>4, <1>5, <3>1, <3>2, <3>3
  <2>2. Fits(SentOf(l), AnswersOf(l), FALSE) BY <2>1
  <2>3. /\ Fits(SentOf(a), AnswersOf(a), TRUE)
        /\ SentOf(a)[Len(SentOf(a))] = s
    <3>1. /\ Fits(Append(SentOf(l), s), AnswersOf(l), TRUE)
          /\ Append(SentOf(l), s)[Len(Append(SentOf(l), s))] = s
      BY <1>3, <2>2, CommandFits
    <3> HIDE DEF a
    <3> QED BY <1>2, <3>1
  <2> HIDE DEF m, a
  <2>4. m \in Seq(Entry) /\ Len(l) < Len(m) BY <1>1, <1>2, <2>1
  <2> QED BY <2>1, <2>3, <2>4 DEF m
<1>6. CASE \E e \in Entry : e.type \in {"ack", "error"} /\ d = <<e>>
  <2>1. PICK e \in Entry : e.type \in {"ack", "error"} /\ d = <<e>> BY <1>6
  <2> DEFINE b == Append(a, e)
  <2>2. /\ b \in Seq(Entry) /\ Len(b) = Len(a) + 1
        /\ SentOf(b) = SentOf(a) /\ AnswersOf(b) = Append(AnswersOf(a), e)
    <3> HIDE DEF a
    <3>1. b \in Seq(Entry) /\ Len(b) = Len(a) + 1 BY <1>2, AppendProperties
    <3>2. SentOf(b) = SentOf(a) BY <1>2, <2>1, OfTypeOfAppend DEF SentOf
    <3>3. AnswersOf(b) = Append(AnswersOf(a), e)
      BY <1>2, <2>1, OfTypeOfAppend DEF AnswersOf
    <3> QED BY <3>1, <3>2, <3>3
  <2>3. m = b /\ b \o <<>> = b /\ l \o d = Append(l, e)
    <3>1. <<s>> \in Seq(Entry) /\ <<e>> \in Seq(Entry) OBVIOUS
    <3>2. (l \o <<s>>) \o <<e>> = l \o (<<s>> \o <<e>>) BY <3>1, ConcatAssociative
    <3>3. a \o <<e>> = b
      <4> HIDE DEF a
      <4> QED BY <1>2, AppendIsConcat
    <3>4. b \o <<>> = b
      <4> HIDE DEF b
      <4> QED BY <2>2, ConcatEmptySeq
    <3>5. l \o <<e>> = Append(l, e) BY AppendIsConcat
    <3> HIDE DEF a, b
    <3> QED BY <1>4, <2>1, <3>2, <3>3, <3>4, <3>5
  <2>4. AnswersOf(l \o d) = Append(AnswersOf(l), e)
    <3>1. AnswersOf(Append(l, e)) = Append(AnswersOf(l), e)
      BY <2>1, OfTypeOfAppend DEF AnswersOf
    <3> HIDE DEF m, a, b
    <3> QED BY <2>3, <3>1
  <2> HIDE DEF m, a, b
  <2>5. Append(AnswersOf(l), e) \in Seq(Entry) BY <1>3, AppendProperties
  <2>6. Fits(SentOf(l), Append(AnswersOf(l), e), FALSE) BY <2>4
  <2>7. /\ Fits(Append(SentOf(l), s), Append(AnswersOf(l), e), TRUE)
        /\ Append(SentOf(l), s)[Len(Append(SentOf(l), s))] = s
    BY <1>3, <2>5, <2>6, CommandFits
  <2>8. m \in Seq(Entry) /\ Len(l) < Len(m) BY <1>1, <1>2, <2>2, <2>3
  <2> QED BY <1>2, <2>2, <2>3, <2>7, <2>8 DEF m
<1> QED BY <1>5, <1>6 DEF IsDue

\* The answer that an effect will log.
LEMMA ResolveFits ==
  ASSUME NEW l \in Seq(Entry), NEW e \in Entry, e.type \in {"ack", "error"},
         Fits(SentOf(l), AnswersOf(l \o <<>>), TRUE),
         e.type = "ack" => e.text = SentOf(l)[Len(SentOf(l))].text
  PROVE Fits(SentOf(l), AnswersOf(l \o <<e>>), FALSE)
<1>1. l \o <<>> = l BY ConcatEmptySeq
<1>2. l \o <<e>> = Append(l, e) BY AppendIsConcat
<1>3. AnswersOf(Append(l, e)) = Append(AnswersOf(l), e)
  BY OfTypeOfAppend DEF AnswersOf
<1>4. SentOf(l) \in Seq(Entry) /\ AnswersOf(l) \in Seq(Entry)
  BY OfTypeIsASeq DEF SentOf, AnswersOf
<1>5. Fits(SentOf(l), Append(AnswersOf(l), e), FALSE) BY <1>1, <1>4, AnswerFits
<1> QED BY <1>2, <1>3, <1>5

\* The effects run.
LEMMA EffectsFit ==
  ASSUME NEW l \in Seq(Entry), NEW d, IsDue(d), NEW open,
         Fits(SentOf(l), AnswersOf(l \o d), open)
  PROVE LET m == l \o d
        IN /\ m \in Seq(Entry) /\ Len(l) <= Len(m) /\ SentOf(m) = SentOf(l)
           /\ Fits(SentOf(m), AnswersOf(m \o <<>>), open)
<1> DEFINE m == l \o d
<1>1. Len(l) \in Nat BY LenProperties
<1>2. m \in Seq(Entry) /\ Len(l) <= Len(m) /\ SentOf(m) = SentOf(l)
  <2>1. CASE d = <<>>
    <3>1. m = l BY <2>1, ConcatEmptySeq
    <3> HIDE DEF m
    <3> QED BY <1>1, <3>1
  <2>2. CASE \E e \in Entry : e.type \in {"ack", "error"} /\ d = <<e>>
    <3>1. PICK e \in Entry : e.type \in {"ack", "error"} /\ d = <<e>> BY <2>2
    <3>2. m = Append(l, e) BY <3>1, AppendIsConcat
    <3>3. Append(l, e) \in Seq(Entry) /\ Len(Append(l, e)) = Len(l) + 1
      BY AppendProperties
    <3>4. SentOf(Append(l, e)) = SentOf(l) BY <3>1, OfTypeOfAppend DEF SentOf
    <3> HIDE DEF m
    <3> QED BY <1>1, <3>2, <3>3, <3>4
  <2> QED BY <2>1, <2>2 DEF IsDue
<1>3. Fits(SentOf(m), AnswersOf(m), open) BY <1>2
<1> HIDE DEF m
<1>4. m \o <<>> = m BY <1>2, ConcatEmptySeq
<1> QED BY <1>2, <1>3, <1>4 DEF m

----------------------------------------------------------------------------
(* Every step keeps the invariant. *)

LEMMA InitInv == Init => Inv
<1> SUFFICES ASSUME Init PROVE Inv OBVIOUS
<1> USE DEF Init
<1>1. /\ <<>> \in Seq(Entry) /\ <<>> \in Seq(Commands) /\ <<>> \in Seq(Request)
      /\ Len(<<>>) = 0
  OBVIOUS
<1>l. /\ Len(<<>>) <= MaxLog /\ Len(<<>>) <= MaxRecall /\ Len(<<>>) <= MaxRequests
      /\ 1 \in 1..MaxVisits /\ -1 \in Int /\ -1 >= -1
  BY <1>1, LimitAssumption
<1>2. Types BY <1>1, <1>l DEF Types
<1>3. ParamsOK BY DEF ParamsOK, InitialParams
<1>4. Addressed BY <1>1 DEF Addressed
<1>5. Settled BY DEF Settled, IsDue
<1>6. Waiting = {} BY <1>1 DEF Waiting
<1>7. Waits BY <1>6, CommandAssumption DEF Waits
<1>8. Recall BY <1>1 DEF Recall, NoRepeats
<1>9. Answers BY NoEntries DEF Answers
<1> QED BY <1>2, <1>3, <1>4, <1>5, <1>7, <1>8, <1>9 DEF Inv

LEMMA NavigateInv == ASSUME Inv, Navigate PROVE Inv'
<1> USE DEF Navigate
<1>1. /\ <<>> \in Seq(Entry) /\ <<>> \in Seq(Commands) /\ Len(<<>>) = 0
  OBVIOUS
<1>t. visit \in Nat /\ visit' = visit + 1 /\ visit + 1 \in 1..MaxVisits
  BY LimitAssumption DEF Inv, Types
<1>l. Len(<<>>) <= MaxLog /\ Len(<<>>) <= MaxRecall /\ -1 \in Int /\ -1 >= -1
  BY <1>1, LimitAssumption
<1>2. Types' BY <1>1, <1>t, <1>l DEF Inv, Types
<1>3. ParamsOK' BY DEF ParamsOK, InitialParams
<1>4. \A r \in DOMAIN requests' : requests'[r].visit < visit'
  <2> SUFFICES ASSUME NEW r \in DOMAIN requests PROVE requests[r].visit < visit + 1
    BY <1>t
  <2>1. requests[r].visit <= visit BY DEF Inv, Addressed
  <2>2. requests[r] \in Request BY LenProperties, ElementOfSeq DEF Inv, Types
  <2>3. requests[r].visit \in Int BY <2>2 DEF Request
  <2> QED BY <1>t, <2>1, <2>3
<1>5. \A r \in DOMAIN requests' :
        requests'[r].visit <= visit' /\ requests'[r].visit # visit'
  <2> SUFFICES ASSUME NEW r \in DOMAIN requests
               PROVE requests[r].visit <= visit + 1 /\ requests[r].visit # visit + 1
    BY <1>t
  <2>1. requests[r].visit < visit + 1 BY <1>4, <1>t
  <2>2. requests[r] \in Request BY LenProperties, ElementOfSeq DEF Inv, Types
  <2>3. requests[r].visit \in Int BY <2>2 DEF Request
  <2> QED BY <1>t, <2>1, <2>3
<1>6. Addressed' BY <1>5 DEF Addressed
<1>7. Settled' BY DEF Settled, IsDue
<1>8. Waiting' = {} BY <1>5 DEF Waiting
<1>9. Waits' BY <1>8 DEF Waits
<1>10. Recall' BY <1>1 DEF Recall, NoRepeats
<1>11. Answers' BY NoEntries DEF Answers
<1> QED BY <1>2, <1>3, <1>6, <1>7, <1>9, <1>10, <1>11 DEF Inv

LEMMA LinkChangesInv == ASSUME Inv, LinkChanges PROVE Inv'
<1> USE DEF LinkChanges, where, hook, console, lab
<1>1. Types' BY DEF Inv, Types
<1>2. ParamsOK' /\ Addressed' /\ Settled' /\ Recall'
  BY DEF Inv, ParamsOK, Addressed, Settled, Recall
<1>3. Waiting' = Waiting BY DEF Waiting
<1>4. Waits' BY <1>3 DEF Inv, Waits
<1>5. Answers' BY <1>3 DEF Inv, Answers
<1> QED BY <1>1, <1>2, <1>4, <1>5 DEF Inv

\* send() adds the one request that waits.
LEMMA SendWaits ==
  ASSUME Inv, ~loading, NEW cmd \in Commands \union Scenarios, Send(cmd),
         page' = page, visit' = visit, page = "console" => cmd \in Commands
  PROVE /\ requests' \in Seq(Request) /\ Len(requests') <= MaxRequests
        /\ \A r \in DOMAIN requests' :
             /\ requests'[r].visit <= visit'
             /\ page' = "console" /\ requests'[r].visit = visit'
                  => requests'[r].cmd \in Commands
        /\ \E r \in Waiting' : Waiting' = {r} /\ requests'[r].cmd = cmd
<1> DEFINE n == Len(requests)
           e == [visit |-> visit, cmd |-> cmd, answer |-> "none", done |-> FALSE]
<1>1. n \in Nat /\ DOMAIN requests = 1..n /\ requests \in Seq(Request)
  BY LenProperties DEF Inv, Types
<1>2. e \in Request BY DEF Inv, Types, Request
<1>3. requests' = Append(requests, e) /\ n < MaxRequests BY DEF Send
<1>e. e.visit = visit /\ e.cmd = cmd /\ e.done = FALSE OBVIOUS
<1>v. visit \in Int BY DEF Inv, Types
<1> HIDE DEF e, n
<1>4. /\ requests' \in Seq(Request) /\ Len(requests') = n + 1
      /\ requests'[n + 1] = e /\ \A r \in 1..n : requests'[r] = requests[r]
      /\ DOMAIN requests' = 1..(n + 1)
  <2>1. /\ requests' \in Seq(Request) /\ Len(requests') = n + 1
        /\ requests'[n + 1] = e /\ \A r \in 1..n : requests'[r] = requests[r]
    BY <1>1, <1>2, <1>3, AppendProperties DEF n
  <2> QED BY <2>1, LenProperties
<1>5. \A r \in 1..(n + 1) : r \in 1..n \/ r = n + 1 BY <1>1
<1>6. Len(requests') <= MaxRequests BY <1>1, <1>3, <1>4, LimitAssumption
<1>7. \A r \in DOMAIN requests' :
        /\ requests'[r].visit <= visit'
        /\ page' = "console" /\ requests'[r].visit = visit'
             => requests'[r].cmd \in Commands
  <2> SUFFICES ASSUME NEW r \in 1..(n + 1)
               PROVE /\ requests'[r].visit <= visit
                     /\ page = "console" /\ requests'[r].visit = visit
                          => requests'[r].cmd \in Commands
    BY <1>4
  <2>1. CASE r \in 1..n BY <1>1, <1>4, <2>1 DEF Inv, Addressed
  <2>2. CASE r = n + 1 BY <1>4, <1>e, <1>v, <2>2
  <2> QED BY <1>5, <2>1, <2>2
<1>8. \A r \in 1..n : ~(requests[r].visit = visit /\ ~requests[r].done)
  BY <1>1 DEF Inv, Waits, Waiting
<1>9. n + 1 \in 1..(n + 1) BY <1>1
<1>10. Waiting' = {n + 1}
  BY <1>4, <1>5, <1>8, <1>9, <1>e DEF Waiting
<1> QED BY <1>4, <1>6, <1>7, <1>10, <1>e

LEMMA RunScenarioInv ==
  ASSUME Inv, NEW s \in Scenarios, RunScenario(s) PROVE Inv'
<1> USE DEF RunScenario, Enabled, where, console
<1>u. /\ page = "lab" /\ page' = page /\ visit' = visit /\ ~loading /\ loading' = TRUE
      /\ lastAck' = Null /\ lastError' = Null
      /\ running' = s /\ Send(s) /\ s \in Commands \union Scenarios
      /\ UNCHANGED <<connected, input, log, cmdHistory, historyIndex, due, params>>
  BY DEF Send
<1>w. Inv BY DEF Inv
<1>1. /\ requests' \in Seq(Request) /\ Len(requests') <= MaxRequests
      /\ \A r \in DOMAIN requests' : requests'[r].visit <= visit'
      /\ \E r \in Waiting' : Waiting' = {r}
  BY <1>u, <1>w, SendWaits
<1>2. Types' BY <1>u, <1>1 DEF Inv, Types
<1>3. ParamsOK' /\ Recall' BY <1>u DEF Inv, ParamsOK, Recall
<1>4. Addressed' BY <1>u, <1>1 DEF Inv, Addressed
<1>5. Settled' BY <1>u DEF Inv, Addressed, Settled, IsDue
<1>6. Waits' BY <1>u, <1>1, CommandAssumption DEF Waits
<1>7. Answers' BY <1>u DEF Inv, Answers
<1> QED BY <1>2, <1>3, <1>4, <1>5, <1>6, <1>7 DEF Inv

LEMMA MoveSliderInv ==
  ASSUME Inv, NEW s \in Scenarios, NEW k \in DOMAIN Slider(s), MoveSlider(s, k)
  PROVE Inv'
<1> USE DEF MoveSlider, where, hook, console
<1>1. PICK end \in Ends : params' = [params EXCEPT ![Param(s, k)] = Slider(s)[k][end]]
  OBVIOUS
<1>2. end \in {1, 2} BY LimitAssumption
<1>3. ParamsOK'
  <2>p. /\ params \in [DOMAIN InitialParams -> 0..99]
        /\ params.ms \in 50..95 /\ params.dur \in 1..30 /\ params.dur3 \in 1..30
        /\ params.ms2 \in 90..99 /\ params.dur2 \in 1..15
    BY DEF Inv, ParamsOK
  <2>d. DOMAIN InitialParams = {"ms", "dur", "ms2", "dur2", "dur3"}
    BY DEF InitialParams
  <2>1. CASE s = "cpu-overload" /\ k = "ms"
    <3>1. Param(s, k) = "ms" /\ Slider(s)[k] = <<50, 95>> BY <2>1 DEF Param, Slider
    <3> QED BY <1>1, <1>2, <2>p, <2>d, <3>1 DEF ParamsOK
  <2>2. CASE s = "cpu-overload" /\ k = "dur"
    <3>1. Param(s, k) = "dur" /\ Slider(s)[k] = <<1, 30>> BY <2>2 DEF Param, Slider
    <3> QED BY <1>1, <1>2, <2>p, <2>d, <3>1 DEF ParamsOK
  <2>3. CASE s = "star-tracker-dropout" /\ k = "dur"
    <3>1. Param(s, k) = "dur3" /\ Slider(s)[k] = <<1, 30>> BY <2>3 DEF Param, Slider
    <3> QED BY <1>1, <1>2, <2>p, <2>d, <3>1 DEF ParamsOK
  <2>4. CASE s = "watchdog" /\ k = "ms"
    <3>1. Param(s, k) = "ms2" /\ Slider(s)[k] = <<90, 99>> BY <2>4 DEF Param, Slider
    <3> QED BY <1>1, <1>2, <2>p, <2>d, <3>1 DEF ParamsOK
  <2>5. CASE s = "watchdog" /\ k = "dur"
    <3>1. Param(s, k) = "dur2" /\ Slider(s)[k] = <<1, 15>> BY <2>5 DEF Param, Slider
    <3> QED BY <1>1, <1>2, <2>p, <2>d, <3>1 DEF ParamsOK
  <2>6. \/ s = "cpu-overload" /\ k \in {"ms", "dur"}
        \/ s = "star-tracker-dropout" /\ k = "dur"
        \/ s = "watchdog" /\ k \in {"ms", "dur"}
    <3>1. CASE s = "cpu-overload" BY <3>1 DEF Slider
    <3>2. CASE s = "star-tracker-dropout" BY <3>2 DEF Slider
    <3>3. CASE s = "watchdog" BY <3>3 DEF Slider
    <3> QED BY <3>1, <3>2, <3>3 DEF Scenarios
  <2> QED BY <2>1, <2>2, <2>3, <2>4, <2>5, <2>6
<1>4. Types' BY DEF Inv, Types
<1>5. Addressed' /\ Settled' /\ Recall' BY DEF Inv, Addressed, Settled, Recall
<1>6. Waiting' = Waiting BY DEF Waiting
<1>7. Waits' BY <1>6 DEF Inv, Waits
<1>8. Answers' BY <1>6 DEF Inv, Answers
<1> QED BY <1>3, <1>4, <1>5, <1>7, <1>8 DEF Inv

LEMMA IssueInv ==
  ASSUME Inv, NEW cmd \in Commands, Issue(cmd), historyIndex' \in {-1, historyIndex}
  PROVE Inv'
<1> USE DEF Issue, Enabled, where, lab
<1> DEFINE e == [type |-> "sent", text |-> cmd]
           m == log \o (<<e>> \o due)
<1>u. /\ page = "console" /\ page' = page /\ visit' = visit /\ ~loading
      /\ loading' = TRUE /\ lastAck' = Null /\ lastError' = Null
      /\ running' = running /\ due' = <<>> /\ input' = Blank
      /\ cmdHistory' = Remember(cmdHistory, cmd)
      /\ log' = Newest(MaxLog, m) /\ Send(cmd)
      /\ UNCHANGED <<connected, params>>
  BY DEF Send, AddLog
<1>w. Inv /\ cmd \in Commands \union Scenarios OBVIOUS
<1>1. /\ requests' \in Seq(Request) /\ Len(requests') <= MaxRequests
      /\ \A r \in DOMAIN requests' :
           /\ requests'[r].visit <= visit'
           /\ page' = "console" /\ requests'[r].visit = visit'
                => requests'[r].cmd \in Commands
      /\ \E r \in Waiting' : Waiting' = {r} /\ requests'[r].cmd = cmd
  BY <1>u, <1>w, SendWaits
<1>2. /\ cmdHistory' \in Seq(Commands) /\ NoRepeats(cmdHistory')
      /\ Len(cmdHistory') <= MaxRecall /\ Len(cmdHistory) <= Len(cmdHistory')
  <2>1. /\ cmdHistory \in Seq(Commands) /\ NoRepeats(cmdHistory)
        /\ Len(cmdHistory) <= MaxRecall
    BY DEF Inv, Types, Recall
  <2> QED BY <1>u, <2>1, RememberOK
<1>3. e \in Entry /\ e.type = "sent" /\ e.text = cmd BY DEF Entry
<1>4. /\ log \in Seq(Entry) /\ Len(log) \in Nat /\ IsDue(due)
      /\ MaxLog \in Nat \ {0}
  BY LenProperties, LimitAssumption DEF Inv, Types, Settled
<1> HIDE DEF e, m
<1>5. m \in Seq(Entry) /\ Len(m) \in Nat
  <2>1. due \in Seq(Entry) BY <1>4, DueIsASeq
  <2>2. <<e>> \in Seq(Entry) BY <1>3
  <2> QED BY <1>4, <2>1, <2>2, ConcatProperties, LenProperties DEF m
<1>6. /\ log' \in Seq(Entry) /\ Len(log') = (IF Len(m) > MaxLog THEN MaxLog ELSE Len(m))
      /\ Len(m) <= MaxLog => log' = m
  BY <1>u, <1>4, <1>5, NewestOK
<1>7. Types'
  <2>1. Len(log') <= MaxLog BY <1>4, <1>5, <1>6
  <2>2. historyIndex' \in Int /\ historyIndex' >= -1 BY DEF Inv, Types
  <2> QED BY <1>u, <1>1, <1>2, <1>6, <2>1, <2>2 DEF Inv, Types
<1>8. ParamsOK' BY <1>u DEF Inv, ParamsOK
<1>9. Addressed' BY <1>u, <1>1 DEF Inv, Addressed
<1>10. Settled' BY <1>u DEF Settled, IsDue
<1>11. Waits' BY <1>u, <1>1 DEF Waits
<1>12. Recall'
  <2>1. Len(cmdHistory) \in Nat /\ Len(cmdHistory') \in Nat
    BY <1>2, LenProperties DEF Inv, Types
  <2>2. historyIndex \in Int /\ historyIndex < Len(cmdHistory) BY DEF Inv, Types, Recall
  <2>3. historyIndex' < Len(cmdHistory') BY <1>2, <2>1, <2>2
  <2> QED BY <1>2, <2>3 DEF Recall
<1>13. ASSUME Len(log') < MaxLog
       PROVE /\ Fits(SentOf(log'), AnswersOf(log' \o due'), TRUE)
             /\ SentOf(log')[Len(SentOf(log'))] = e
  <2>1. log' = m /\ Len(m) < MaxLog BY <1>4, <1>5, <1>6, <1>13
  <2>2. Len(log) < Len(m)
    <3>1. CASE due = <<>>
      <4>1. m = Append(log, e)
        <5>1. <<e>> \o due = <<e>> BY <3>1
        <5> QED BY <1>3, <1>4, <5>1, AppendIsConcat DEF m
      <4>2. Len(Append(log, e)) = Len(log) + 1 BY <1>3, <1>4, AppendProperties
      <4> QED BY <1>4, <4>1, <4>2
    <3>2. CASE \E d \in Entry : d.type \in {"ack", "error"} /\ due = <<d>>
      <4>1. PICK d \in Entry : due = <<d>> BY <3>2
      <4>2. <<e>> \o due \in Seq(Entry) /\ Len(<<e>> \o due) = 2 BY <1>3, <4>1
      <4>3. Len(m) = Len(log) + 2 BY <1>4, <4>2, ConcatProperties DEF m
      <4> QED BY <1>4, <4>3
    <3> QED BY <1>4, <3>1, <3>2 DEF IsDue
  <2>3. Fits(SentOf(log), AnswersOf(log \o due), FALSE)
    BY <1>4, <1>5, <1>u, <2>1, <2>2 DEF Inv, Answers, Fits
  <2>4. /\ Fits(SentOf(m), AnswersOf(m \o <<>>), TRUE)
        /\ SentOf(m)[Len(SentOf(m))] = e
    BY <1>3, <1>4, <2>3, IssueFits DEF m
  <2> QED BY <1>u, <2>1, <2>4
<1>14. Answers' BY <1>u, <1>1, <1>3, <1>13 DEF Answers, Fits
<1> QED BY <1>7, <1>8, <1>9, <1>10, <1>11, <1>12, <1>14 DEF Inv

LEMMA SubmitInv == ASSUME Inv, Submit PROVE Inv'
<1>1. input \in Commands BY DEF Inv, Types, Submit
<1> QED BY <1>1, IssueInv DEF Submit

LEMMA RunQuickInv == ASSUME Inv, NEW cmd \in Quick, RunQuick(cmd) PROVE Inv'
<1>1. cmd \in Commands BY DEF Commands
<1> QED BY <1>1, IssueInv DEF RunQuick

LEMMA EditInv ==
  ASSUME Inv, NEW text \in Commands \union {Blank}, NEW index \in Int,
         index >= -1, index < Len(cmdHistory), Edit(text, index)
  PROVE Inv'
<1> USE DEF Edit, where, hook, lab
<1>1. Types' BY DEF Inv, Types
<1>2. ParamsOK' /\ Addressed' /\ Settled' BY DEF Inv, ParamsOK, Addressed, Settled
<1>3. Waiting' = Waiting BY DEF Waiting
<1>4. Waits' BY <1>3 DEF Inv, Waits
<1>5. Recall' BY DEF Inv, Recall
<1>6. Answers' BY <1>3 DEF Inv, Answers
<1> QED BY <1>1, <1>2, <1>4, <1>5, <1>6 DEF Inv

LEMMA TypeInv == ASSUME Inv, Type PROVE Inv'
<1>1. PICK text \in Typed \union {Blank} : Edit(text, historyIndex) BY DEF Type
<1>2. text \in Commands \union {Blank} BY DEF Commands
<1>3. historyIndex \in Int /\ historyIndex >= -1 /\ historyIndex < Len(cmdHistory)
  BY DEF Inv, Types, Recall
<1> QED BY <1>1, <1>2, <1>3, EditInv

LEMMA ArrowUpInv == ASSUME Inv, ArrowUp PROVE Inv'
<1> DEFINE index == IF historyIndex = -1 THEN Len(cmdHistory) - 1 ELSE historyIndex
<1>1. /\ cmdHistory \in Seq(Commands) /\ Len(cmdHistory) \in Nat
      /\ historyIndex \in Int /\ historyIndex >= -1
      /\ historyIndex < Len(cmdHistory) - 1
      /\ Edit(cmdHistory[index + 1], index)
  BY LenProperties DEF Inv, Types, ArrowUp
<1>2. index \in Int /\ index >= 0 /\ index < Len(cmdHistory) BY <1>1
<1> HIDE DEF index
<1>3. index + 1 \in 1..Len(cmdHistory) BY <1>1, <1>2
<1>4. cmdHistory[index + 1] \in Commands \union {Blank} BY <1>1, <1>3, ElementOfSeq
<1>5. index >= -1 BY <1>2
<1> QED BY <1>1, <1>2, <1>4, <1>5, EditInv

LEMMA ArrowDownInv == ASSUME Inv, ArrowDown PROVE Inv'
<1> DEFINE next == historyIndex - 1
           text == IF next >= 0 THEN cmdHistory[next + 1] ELSE Blank
<1>1. /\ cmdHistory \in Seq(Commands) /\ Len(cmdHistory) \in Nat
      /\ historyIndex \in Int /\ historyIndex >= 0
      /\ historyIndex < Len(cmdHistory)
      /\ Edit(text, next)
  BY LenProperties DEF Inv, Types, Recall, ArrowDown
<1>2. next \in Int /\ next >= -1 /\ next < Len(cmdHistory) BY <1>1
<1>3. text \in Commands \union {Blank}
  <2>1. CASE next >= 0
    <3>1. next + 1 \in 1..Len(cmdHistory) BY <1>1, <2>1
    <3> QED BY <1>1, <2>1, <3>1, ElementOfSeq
  <2>2. CASE ~(next >= 0) BY <2>2
  <2> QED BY <2>1, <2>2
<1> HIDE DEF next, text
<1> QED BY <1>1, <1>2, <1>3, EditInv

LEMMA RunEffectsInv == ASSUME Inv, RunEffects PROVE Inv'
<1> USE DEF RunEffects, where, hook, lab
<1> DEFINE m == log \o due
           open == page = "console" /\ loading
<1>u. /\ page' = page /\ visit' = visit /\ loading' = loading /\ requests' = requests
      /\ due' = <<>> /\ log' = Newest(MaxLog, m)
  BY DEF AddLog
<1>1. /\ log \in Seq(Entry) /\ Len(log) \in Nat /\ IsDue(due)
      /\ MaxLog \in Nat \ {0}
  BY LenProperties, LimitAssumption DEF Inv, Types, Settled
<1>2. m \in Seq(Entry) /\ Len(m) \in Nat
  <2>1. due \in Seq(Entry) BY <1>1, DueIsASeq
  <2> QED BY <1>1, <2>1, ConcatProperties, LenProperties
<1>3. Len(log) <= Len(m)
  <2>1. due \in Seq(Entry) /\ Len(due) \in Nat BY <1>1, DueIsASeq
  <2>2. Len(m) = Len(log) + Len(due) BY <1>1, <2>1, ConcatProperties
  <2> HIDE DEF m
  <2> QED BY <1>1, <2>1, <2>2
<1> HIDE DEF m, open
<1>4. /\ log' \in Seq(Entry) /\ Len(log') = (IF Len(m) > MaxLog THEN MaxLog ELSE Len(m))
      /\ Len(m) <= MaxLog => log' = m
  BY <1>u, <1>1, <1>2, NewestOK
<1>5. Types'
  <2>1. Len(log') <= MaxLog BY <1>1, <1>2, <1>4
  <2> QED BY <1>4, <2>1 DEF Inv, Types
<1>6. ParamsOK' /\ Recall' BY DEF Inv, ParamsOK, Recall
<1>7. Addressed' BY DEF Inv, Addressed
<1>8. Settled' BY DEF Inv, Settled, IsDue
<1>9. Waiting' = Waiting BY DEF Waiting
<1>10. Waits' BY <1>9 DEF Inv, Waits
<1>11. ASSUME Len(log') < MaxLog
       PROVE /\ Len(log) < MaxLog /\ SentOf(log') = SentOf(log)
             /\ Fits(SentOf(log'), AnswersOf(log' \o due'), open)
  <2>1. log' = m /\ Len(log) < MaxLog BY <1>1, <1>2, <1>3, <1>4, <1>11
  <2>2. Fits(SentOf(log), AnswersOf(log \o due), open) BY <2>1 DEF Inv, Answers, open
  <2>3. SentOf(m) = SentOf(log) /\ Fits(SentOf(m), AnswersOf(m \o <<>>), open)
    BY <1>1, <2>2, EffectsFit DEF m
  <2> QED BY <1>u, <2>1, <2>3
<1>12. Answers' BY <1>u, <1>9, <1>11 DEF Inv, Answers, open
<1> QED BY <1>5, <1>6, <1>7, <1>8, <1>10, <1>12 DEF Inv

\* A request that is changed keeps its visit and its command.
LEMMA RequestsKept ==
  ASSUME Inv, NEW r \in DOMAIN requests, NEW q \in Request,
         q.visit = requests[r].visit, q.cmd = requests[r].cmd,
         requests' = [requests EXCEPT ![r] = q]
  PROVE /\ requests' \in Seq(Request) /\ Len(requests') = Len(requests)
        /\ DOMAIN requests' = DOMAIN requests /\ requests'[r] = q
        /\ \A k \in DOMAIN requests \ {r} : requests'[k] = requests[k]
        /\ \A k \in DOMAIN requests : /\ requests'[k].visit = requests[k].visit
                                      /\ requests'[k].cmd = requests[k].cmd
<1>1. requests \in Seq(Request) /\ DOMAIN requests = 1..Len(requests)
  BY LenProperties DEF Inv, Types
<1>2. /\ requests' \in Seq(Request) /\ Len(requests') = Len(requests)
      /\ \A k \in 1..Len(requests) : requests'[k] = IF k = r THEN q ELSE requests[k]
  BY <1>1, ExceptSeq
<1>3. DOMAIN requests' = DOMAIN requests BY <1>1, <1>2, LenProperties
<1> QED BY <1>1, <1>2, <1>3

LEMMA HandleInv == ASSUME Inv, NEW r \in DOMAIN requests, Handle(r) PROVE Inv'
<1> USE DEF where, hook, console, lab
<1>1. PICK answer \in {"ack", "invalid", "undelivered"} :
        requests' = [requests EXCEPT ![r].answer = answer]
  BY DEF Handle
<1> DEFINE q == [requests[r] EXCEPT !.answer = answer]
<1>2. requests[r] \in Request BY LenProperties, ElementOfSeq DEF Inv, Types
<1>3. /\ q \in Request /\ q.visit = requests[r].visit /\ q.cmd = requests[r].cmd
      /\ q.done = requests[r].done
  BY <1>2 DEF Request
<1>4. requests' = [requests EXCEPT ![r] = q] BY <1>1
<1> HIDE DEF q
<1>5. /\ requests' \in Seq(Request) /\ Len(requests') = Len(requests)
      /\ DOMAIN requests' = DOMAIN requests /\ requests'[r] = q
      /\ \A k \in DOMAIN requests \ {r} : requests'[k] = requests[k]
      /\ \A k \in DOMAIN requests : /\ requests'[k].visit = requests[k].visit
                                    /\ requests'[k].cmd = requests[k].cmd
  BY <1>3, <1>4, RequestsKept
<1>6. Types' BY <1>5 DEF Inv, Types, Handle
<1>7. ParamsOK' /\ Settled' /\ Recall'
  BY DEF Inv, ParamsOK, Settled, Recall, Handle
<1>8. Addressed' BY <1>5 DEF Inv, Addressed, Handle
<1>9. Waiting' = Waiting BY <1>3, <1>5 DEF Waiting, Handle
<1>w. \A k \in Waiting : requests'[k].cmd = requests[k].cmd BY <1>5 DEF Waiting
<1>10. Waits' BY <1>9 DEF Inv, Waits, Handle
<1>11. Answers' BY <1>9, <1>w DEF Inv, Answers, Handle
<1> QED BY <1>6, <1>7, <1>8, <1>10, <1>11 DEF Inv

\* An answer or an error, not both.
Outcome(r, ack, error) == \/ ack = requests[r].cmd /\ error = Null
                          \/ ack = Null /\ error \in Errors

LEMMA ResolveInv ==
  ASSUME Inv, NEW r \in DOMAIN requests, NEW ack, NEW error,
         Outcome(r, ack, error), Resolve(r, ack, error)
  PROVE Inv'
<1> USE DEF where
<1>u. /\ ~requests[r].done /\ requests' = [requests EXCEPT ![r].done = TRUE]
      /\ UNCHANGED <<page, visit, connected, input, log, cmdHistory, historyIndex, params>>
  BY DEF Resolve
<1> DEFINE q == [requests[r] EXCEPT !.done = TRUE]
<1>2. requests[r] \in Request BY LenProperties, ElementOfSeq DEF Inv, Types
<1>3. /\ q \in Request /\ q.visit = requests[r].visit /\ q.cmd = requests[r].cmd
      /\ q.done = TRUE
  BY <1>2 DEF Request
<1>4. requests' = [requests EXCEPT ![r] = q] BY <1>u
<1> HIDE DEF q
<1>5. /\ requests' \in Seq(Request) /\ Len(requests') = Len(requests)
      /\ DOMAIN requests' = DOMAIN requests /\ requests'[r] = q
      /\ \A k \in DOMAIN requests \ {r} : requests'[k] = requests[k]
      /\ \A k \in DOMAIN requests : /\ requests'[k].visit = requests[k].visit
                                    /\ requests'[k].cmd = requests[k].cmd
  BY <1>3, <1>4, RequestsKept
<1>o. /\ ack \in Commands \union Scenarios \union {Null} /\ error \in Errors \union {Null}
      /\ ack # Null <=> error = Null
  BY <1>2, CommandAssumption DEF Outcome, Request
<1>6. ParamsOK' /\ Recall' BY <1>u DEF Inv, ParamsOK, Recall
<1>7. Waiting' = Waiting \ {r}
  BY <1>u, <1>3, <1>5 DEF Waiting
<1>8. CASE requests[r].visit = visit
  <2>1. r \in Waiting BY <1>u, <1>8 DEF Waiting
  <2>2. loading /\ Waiting = {r} BY <2>1 DEF Inv, Waits
  <2>3. lastAck = Null /\ lastError = Null /\ due = <<>> BY <2>2 DEF Inv, Settled
  <2>4. Waiting' = {} BY <1>7, <2>2
  <2>5. /\ loading' = FALSE /\ running' = Null
        /\ lastAck' = (IF ack = Null THEN lastAck ELSE ack)
        /\ lastError' = (IF error = Null THEN lastError ELSE error)
        /\ due' = IF page = "console" THEN due \o Effects(ack, error) ELSE due
    BY <1>8 DEF Resolve, Settle
  <2> DEFINE e == IF ack # Null THEN [type |-> "ack", text |-> ack]
                  ELSE [type |-> "error", text |-> error]
  <2>6. ASSUME page = "console"
        PROVE /\ e \in Entry /\ e.type \in {"ack", "error"} /\ due' = <<e>>
              /\ e.type = "ack" => e.text = requests[r].cmd
    <3>1. requests[r].cmd \in Commands BY <1>8, <2>6 DEF Inv, Addressed
    <3>2. CASE ack # Null
      <4>1. ack = requests[r].cmd /\ error = Null BY <1>o, <3>2 DEF Outcome
      <4>2. e = [type |-> "ack", text |-> ack] BY <3>2
      <4>3. Effects(ack, error) = <<[type |-> "ack", text |-> ack]>> \o <<>>
        BY <2>3, <3>2, <4>1 DEF Effects
      <4>4. Effects(ack, error) = <<e>> BY <4>2, <4>3
      <4>5. due' = <<>> \o <<e>> BY <2>3, <2>5, <2>6, <4>4
      <4>6. due' = <<e>> BY <4>5
      <4> QED BY <3>1, <4>1, <4>2, <4>6 DEF Entry
    <3>3. CASE ack = Null
      <4>1. error \in Errors /\ error # Null BY <1>o, <3>3
      <4>2. e = [type |-> "error", text |-> error] BY <3>3
      <4>3. Effects(ack, error) = <<>> \o <<[type |-> "error", text |-> error]>>
        BY <2>3, <3>3, <4>1 DEF Effects
      <4>4. Effects(ack, error) = <<e>> BY <4>2, <4>3
      <4>5. due' = <<>> \o <<e>> BY <2>3, <2>5, <2>6, <4>4
      <4>6. due' = <<e>> BY <4>5
      <4> QED BY <4>1, <4>2, <4>6 DEF Entry
    <3> QED BY <3>2, <3>3
  <2> HIDE DEF e
  <2>7. page # "console" => page = "lab" /\ due' = <<>> BY <2>3, <2>5 DEF Inv, Types
  <2>8. Types'
    <3>1. lastAck' \in Commands \union Scenarios \union {Null}
      BY <1>o, <2>3, <2>5
    <3>2. lastError' \in Errors \union {Null} BY <1>o, <2>3, <2>5
    <3> QED BY <1>u, <1>5, <2>5, <3>1, <3>2 DEF Inv, Types
  <2>9. Addressed' BY <1>u, <1>5, <2>5, <2>7 DEF Inv, Addressed
  <2>10. Settled' BY <2>5, <2>6, <2>7 DEF Settled, IsDue
  <2>11. Waits' BY <2>4, <2>5 DEF Waits
  <2>12. Answers'
    <3>1. CASE page = "console"
      <4>1. ASSUME Len(log) < MaxLog PROVE Fits(SentOf(log), AnswersOf(log \o <<e>>), FALSE)
        <5>1. /\ Fits(SentOf(log), AnswersOf(log \o <<>>), TRUE)
              /\ requests[r].cmd = SentOf(log)[Len(SentOf(log))].text
          BY <2>1, <2>2, <2>3, <3>1, <4>1 DEF Inv, Answers, Fits
        <5>2. e.type = "ack" => e.text = SentOf(log)[Len(SentOf(log))].text
          BY <2>6, <3>1, <5>1
        <5>3. log \in Seq(Entry) BY DEF Inv, Types
        <5> QED BY <2>6, <3>1, <5>1, <5>2, <5>3, ResolveFits
      <4> QED BY <1>u, <2>5, <2>6, <3>1, <4>1 DEF Answers, Fits
    <3>2. CASE page # "console"
      BY <1>u, <2>3, <2>7, <3>2 DEF Inv, Answers, Fits
    <3> QED BY <3>1, <3>2
  <2> QED BY <1>6, <2>8, <2>9, <2>10, <2>11, <2>12 DEF Inv
<1>9. CASE requests[r].visit # visit
  <2>1. UNCHANGED <<hook, due, running>> BY <1>9 DEF Resolve
  <2> USE DEF hook
  <2>2. Waiting' = Waiting BY <1>7, <1>9 DEF Waiting
  <2>3. Types' BY <1>u, <1>5, <2>1 DEF Inv, Types
  <2>4. Addressed' BY <1>u, <1>5, <2>1 DEF Inv, Addressed
  <2>5. Settled' BY <2>1 DEF Inv, Settled
  <2>6. Waits' BY <1>u, <2>1, <2>2 DEF Inv, Waits
  <2>w. \A k \in Waiting : requests'[k].cmd = requests[k].cmd BY <1>5 DEF Waiting
  <2>7. Answers' BY <1>u, <2>1, <2>2, <2>w DEF Inv, Answers
  <2> QED BY <1>6, <2>3, <2>4, <2>5, <2>6, <2>7 DEF Inv
<1> QED BY <1>8, <1>9

LEMMA AnsweredInv == ASSUME Inv, NEW r \in DOMAIN requests, Answered(r) PROVE Inv'
<1>1. requests[r] \in Request BY LenProperties, ElementOfSeq DEF Inv, Types
<1>2. CASE requests[r].answer = "ack"
  <2>1. Resolve(r, requests[r].cmd, Null) BY <1>2 DEF Answered
  <2>2. Outcome(r, requests[r].cmd, Null) BY DEF Outcome
  <2> QED BY <2>1, <2>2, ResolveInv
<1>3. CASE requests[r].answer # "ack"
  <2>1. Resolve(r, Null, requests[r].answer) BY <1>3 DEF Answered
  <2>2. requests[r].answer \in Errors BY <1>1, <1>3 DEF Answered, Request, Errors
  <2>3. Outcome(r, Null, requests[r].answer) BY <2>2 DEF Outcome
  <2> QED BY <2>1, <2>3, ResolveInv
<1> QED BY <1>2, <1>3

LEMMA NetworkFailsInv == ASSUME Inv, NEW r \in DOMAIN requests, NetworkFails(r) PROVE Inv'
<1>1. Outcome(r, Null, "network") BY DEF Outcome, Errors
<1> QED BY <1>1, ResolveInv DEF NetworkFails

LEMMA NextInv == Inv /\ [Next]_vars => Inv'
<1> SUFFICES ASSUME Inv, [Next]_vars PROVE Inv' OBVIOUS
<1>1. CASE UNCHANGED vars
  <2> USE <1>1 DEF vars, where, hook, console, lab
  <2>1. Types' /\ ParamsOK' BY DEF Inv, Types, ParamsOK
  <2>2. Addressed' /\ Settled' /\ Recall' BY DEF Inv, Addressed, Settled, Recall
  <2>3. Waiting' = Waiting BY DEF Waiting
  <2>4. Waits' BY <2>3 DEF Inv, Waits
  <2>5. Answers' BY <2>3 DEF Inv, Answers
  <2> QED BY <2>1, <2>2, <2>4, <2>5 DEF Inv
<1>2. CASE Navigate BY <1>2, NavigateInv
<1>3. CASE Console
  BY <1>3, SubmitInv, TypeInv, ArrowUpInv, ArrowDownInv, RunQuickInv DEF Console
<1>4. CASE FaultLab BY <1>4, RunScenarioInv, MoveSliderInv DEF FaultLab
<1>5. CASE LinkChanges BY <1>5, LinkChangesInv
<1>6. CASE RunEffects BY <1>6, RunEffectsInv
<1>7. CASE \E r \in DOMAIN requests : Handle(r) \/ Answered(r) \/ NetworkFails(r)
  BY <1>7, HandleInv, AnsweredInv, NetworkFailsInv
<1> QED BY <1>1, <1>2, <1>3, <1>4, <1>5, <1>6, <1>7 DEF Next

----------------------------------------------------------------------------

\* In every reachable state the inductive invariant holds.
THEOREM PagesInvariant == Spec => []Inv
<1>1. Init => Inv BY InitInv
<1>2. Inv /\ [Next]_vars => Inv' BY NextInv
<1> QED BY <1>1, <1>2, PTL DEF Spec

\* The state of the pages has its type, and the sliders of the fault lab (five
\* parameters for three scenarios) never leave the ranges of their scenario.
THEOREM PagesTyped == Spec => []TypeOK
<1>1. ASSUME Inv PROVE TypeOK
  <2> USE <1>1 DEF Inv
  <2>1. historyIndex \in -1..MaxRecall - 1
    <3>1. /\ historyIndex \in Int /\ historyIndex >= -1 /\ Len(cmdHistory) \in Nat
          /\ historyIndex < Len(cmdHistory) /\ Len(cmdHistory) <= MaxRecall
      BY LenProperties DEF Types, Recall
    <3> QED BY <3>1, LimitAssumption
  <2>2. due \in Seq(Entry) BY DueIsASeq DEF Settled
  <2>3. ASSUME NEW s \in Scenarios, NEW k \in DOMAIN Slider(s)
        PROVE BuildCmd(s)[k] \in Slider(s)[k][1] .. Slider(s)[k][2]
    <3>1. CASE s = "cpu-overload" BY <3>1 DEF ParamsOK, BuildCmd, Slider
    <3>2. CASE s = "star-tracker-dropout" BY <3>2 DEF ParamsOK, BuildCmd, Slider
    <3>3. CASE s = "watchdog" BY <3>3 DEF ParamsOK, BuildCmd, Slider
    <3> QED BY <3>1, <3>2, <3>3 DEF Scenarios
  <2> QED BY <2>1, <2>2, <2>3 DEF Types, ParamsOK, TypeOK
<1> QED BY <1>1, PagesInvariant, PTL

\* A page waits for one request at most, exactly while it shows that it does.
THEOREM OneRequestWaits == Spec => []LoadingMeansWaiting
<1>1. ASSUME Inv PROVE LoadingMeansWaiting
  <2>1. Waits /\ loading \in BOOLEAN BY <1>1 DEF Inv, Types
  <2>2. CASE loading
    <3>1. PICK r \in Waiting : Waiting = {r} BY <2>1, <2>2 DEF Waits
    <3>2. Cardinality({r}) = 1 BY FS_Singleton
    <3> QED BY <2>1, <2>2, <3>1, <3>2 DEF Waits, LoadingMeansWaiting
  <2>3. CASE ~loading
    <3>1. Cardinality({}) = 0 BY FS_EmptySet
    <3> QED BY <2>1, <2>3, <3>1 DEF Waits, LoadingMeansWaiting
  <2> QED BY <2>2, <2>3
<1> QED BY <1>1, PagesInvariant, PTL

\* The arrow keys walk a history without repeats and never off its ends, although
\* quick actions rewrite it under the index.
THEOREM RecallStays == Spec => []RecallInRange
<1>1. ASSUME Inv PROVE RecallInRange
  <2>1. DOMAIN cmdHistory = 1..Len(cmdHistory)
    BY <1>1, LenProperties DEF Inv, Types
  <2> QED BY <1>1, <2>1 DEF Inv, Recall, NoRepeats, RecallInRange
<1> QED BY <1>1, PagesInvariant, PTL

\* The console logs one answer per command, in the order of the commands, however
\* late the effects run that log them.
THEOREM AnswersMatch == Spec => []AnswersMatchCommands
<1>1. ASSUME Inv PROVE AnswersMatchCommands
  BY <1>1 DEF Inv, Answers, Fits, SentOf, AnswersOf, AnswersMatchCommands
<1> QED BY <1>1, PagesInvariant, PTL
=============================================================================
