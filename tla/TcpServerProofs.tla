--------------------------- MODULE TcpServerProofs ---------------------------
(***************************************************************************)
(* Proofs about TcpServer, for every number of clients and every text they *)
(* write.                                                                  *)
(***************************************************************************)
EXTENDS TcpServer, SequenceTheorems, FiniteSetTheorems, WellFoundedInduction, TLAPS

----------------------------------------------------------------------------
(* The inductive invariant. *)

\* A connection waits once, before it is served, and nothing of it is received.
Waits ==
  /\ \A i, j \in DOMAIN backlog : backlog[i] = backlog[j] => i = j
  /\ \A i \in DOMAIN backlog : served # <<backlog[i]>> /\ read[backlog[i]] = 0

Cuts == thread = "cutting" => Positions(line, Newline) # {}

\* The lines of a text that end up to place p.
LinesUpTo(t, p) ==
  [k \in 1..Cardinality(UpTo(LineEnds(t), p)) |-> LineAt(t, Place(LineEnds(t), k))]

\* Of what has been received of a client, the lines up to some newline have been
\* pushed; while it is served, the rest is what `line` holds.
Framed(c, p) ==
  /\ p = 0 \/ text[c][p] = Newline
  /\ pushed[c] = LinesUpTo(text[c], p)
  /\ served = <<c>> => line = SubSeq(text[c], p + 1, read[c])

Frames == \A c \in Clients : IsClean(c) => \E p \in 0..read[c] : Framed(c, p)

Inv == TypeOK /\ Waits /\ Cuts /\ Frames
----------------------------------------------------------------------------
(* The first of some places, and the number of a place. *)

Below == {p \in Nat \X Nat : p[1] < p[2]}

LEMMA FirstPlace ==
  ASSUME NEW S, S \subseteq Nat, S # {}
  PROVE Min(S) \in S /\ \A k \in S : Min(S) <= k
<1>1. OpToRel(<, Nat) = Below BY DEF OpToRel, Below
<1>2. IsWellFoundedOn(Below, Nat) BY <1>1, NatLessThanWellFounded, Zenon
<1>3. PICK m \in S : \A k \in S : ~(<<k, m>> \in Below) BY <1>2, WFMin, Zenon
<1>4. ASSUME NEW k \in S PROVE m <= k
  <2>1. k \in Nat /\ m \in Nat OBVIOUS
  <2>2. k < m => <<k, m>> \in Below BY <2>1 DEF Below
  <2> QED BY <1>3, <2>1, <2>2
<1>5. \E x \in S : \A y \in S : x <= y BY <1>4
<1> QED BY <1>5 DEF Min

LEMMA UpToCounts ==
  ASSUME NEW n \in Nat, NEW S \in SUBSET (1..n)
  PROVE /\ IsFiniteSet(S) /\ Cardinality(S) \in Nat
        /\ \A i : /\ IsFiniteSet(UpTo(S, i)) /\ Cardinality(UpTo(S, i)) \in Nat
                  /\ Cardinality(UpTo(S, i)) <= Cardinality(S)
<1>1. IsFiniteSet(S)
  <2>1. IsFiniteSet(1..n) BY FS_Interval
  <2> QED BY <2>1, FS_Subset
<1>2. ASSUME NEW i
      PROVE /\ IsFiniteSet(UpTo(S, i)) /\ Cardinality(UpTo(S, i)) \in Nat
            /\ Cardinality(UpTo(S, i)) <= Cardinality(S)
  <2>1. UpTo(S, i) \in SUBSET S BY DEF UpTo
  <2> QED BY <1>1, <2>1, FS_Subset, FS_CardinalityType
<1> QED BY <1>1, <1>2, FS_CardinalityType

LEMMA CountsDiffer ==
  ASSUME NEW n \in Nat, NEW S \in SUBSET (1..n), NEW i \in S, NEW j \in S, i < j
  PROVE Cardinality(UpTo(S, i)) # Cardinality(UpTo(S, j))
<1>1. UpTo(S, i) \in SUBSET UpTo(S, j) /\ j \in UpTo(S, j) /\ j \notin UpTo(S, i)
  <2>1. \A m \in S : m \in Nat /\ (m <= i => m <= j) OBVIOUS
  <2>2. j <= j /\ ~(j <= i) OBVIOUS
  <2> QED BY <2>1, <2>2 DEF UpTo
<1>2. IsFiniteSet(UpTo(S, j)) BY UpToCounts
<1> QED BY <1>1, <1>2, FS_Subset

LEMMA NumberOfPlace ==
  ASSUME NEW n \in Nat, NEW S \in SUBSET (1..n), NEW i \in S
  PROVE Place(S, Cardinality(UpTo(S, i))) = i
<1> DEFINE k == Cardinality(UpTo(S, i))
<1>1. ASSUME NEW j \in S, Cardinality(UpTo(S, j)) = k PROVE j = i
  <2>1. ~(j < i) BY <1>1, CountsDiffer
  <2>2. ~(i < j) BY <1>1, CountsDiffer
  <2>3. i \in Nat /\ j \in Nat OBVIOUS
  <2> QED BY <2>1, <2>2, <2>3
<1> QED BY <1>1 DEF Place

----------------------------------------------------------------------------
(* The lines of a text. *)

\* Behind place p, where a line ends or the text begins, the next newline is at e.
NextNewline(t, p, e) ==
  /\ p \in 0..Len(t) /\ e \in p + 1..Len(t)
  /\ p = 0 \/ t[p] = Newline
  /\ t[e] = Newline /\ \A i \in p + 1..e - 1 : t[i] # Newline

LEMMA LineAtNewline ==
  ASSUME NEW t \in Seq(Bytes), NEW p, NEW e, NextNewline(t, p, e)
  PROVE LineAt(t, e) = SubSeq(t, p + 1, e - 1)
<1> DEFINE Start(s) == /\ s = 1 \/ t[s - 1] = Newline
                       /\ \A i \in s..e - 1 : t[i] # Newline
<1>1. Len(t) \in Nat BY LenProperties
<1>2. p \in Nat /\ e \in Nat /\ p + 1 \in 1..e
  BY <1>1 DEF NextNewline
<1>3. Start(p + 1) BY <1>2 DEF NextNewline
<1>4. ASSUME NEW s \in 1..e, Start(s) PROVE s = p + 1
  <2>1. ~(s < p + 1)
    <3> SUFFICES ASSUME s < p + 1 PROVE FALSE OBVIOUS
    <3>1. p \in s..e - 1 /\ p # 0 BY <1>2
    <3> QED BY <1>4, <3>1 DEF NextNewline
  <2>2. ~(p + 1 < s)
    <3> SUFFICES ASSUME p + 1 < s PROVE FALSE OBVIOUS
    <3>1. s - 1 \in p + 1..e - 1 /\ s # 1 BY <1>2
    <3> QED BY <1>4, <3>1 DEF NextNewline
  <2> QED BY <1>2, <2>1, <2>2
<1>5. (CHOOSE s \in 1..e : Start(s)) = p + 1
  <2> HIDE DEF Start
  <2> QED BY <1>2, <1>3, <1>4
<1> QED BY <1>5 DEF LineAt

LEMMA LineEndsOK ==
  ASSUME NEW t \in Seq(Bytes)
  PROVE Len(t) \in Nat /\ LineEnds(t) \in SUBSET (1..Len(t))
<1>1. Len(t) \in Nat BY LenProperties
<1> QED BY <1>1 DEF LineEnds

\* The next newline ends one line more, if that is not blank.
LEMMA NextLine ==
  ASSUME NEW t \in Seq(Bytes), NEW p, NEW e, NextNewline(t, p, e)
  PROVE LinesUpTo(t, e) =
          IF e = p + 1 THEN LinesUpTo(t, p)
          ELSE Append(LinesUpTo(t, p), SubSeq(t, p + 1, e - 1))
<1> DEFINE S == LineEnds(t)
           L == LinesUpTo(t, p)
           c == Cardinality(UpTo(S, p))
           l == SubSeq(t, p + 1, e - 1)
<1>1. Len(t) \in Nat /\ S \in SUBSET (1..Len(t)) BY LineEndsOK
<1>2. p \in Nat /\ e \in Nat /\ e >= p + 1 /\ e <= Len(t)
  BY <1>1 DEF NextNewline
<1>3. ASSUME NEW j \in S PROVE j <= e <=> j <= p \/ j = e
  <2>1. j \in Nat /\ t[j] = Newline BY <1>1 DEF LineEnds
  <2>2. j \notin p + 1..e - 1 BY <2>1 DEF NextNewline
  <2> QED BY <1>2, <2>1, <2>2
<1>4. CASE e = p + 1
  <2>1. e \notin S
    <3>1. CASE p = 0 BY <1>4, <3>1 DEF LineEnds
    <3>2. CASE p # 0
      <4>1. t[e - 1] = Newline
        <5>1. e - 1 = p BY <1>2, <1>4
        <5> QED BY <3>2, <5>1 DEF NextNewline
      <4> QED BY <4>1 DEF LineEnds
    <3> QED BY <3>1, <3>2
  <2>2. UpTo(S, e) = UpTo(S, p) BY <1>3, <2>1 DEF UpTo
  <2> QED BY <1>4, <2>2 DEF LinesUpTo
<1>5. CASE e # p + 1
  <2>1. e \in S
    <3>1. e - 1 \in p + 1..e - 1 BY <1>2, <1>5
    <3>2. e \in 2..Len(t) BY <1>2, <1>5
    <3> QED BY <3>1, <3>2 DEF NextNewline, LineEnds
  <2>2. e \notin UpTo(S, p) /\ UpTo(S, e) = UpTo(S, p) \union {e}
    <3>1. ~(e <= p) BY <1>2
    <3> QED BY <1>2, <1>3, <2>1, <3>1 DEF UpTo
  <2>3. c \in Nat /\ IsFiniteSet(UpTo(S, p)) BY <1>1, UpToCounts
  <2>4. Cardinality(UpTo(S, e)) = c + 1 BY <2>2, <2>3, FS_AddElement
  <2>5. Place(S, c + 1) = e BY <1>1, <2>1, <2>4, NumberOfPlace
  <2>6. LineAt(t, e) = l BY LineAtNewline
  <2>7. /\ L = [k \in 1..c |-> LineAt(t, Place(S, k))]
        /\ LinesUpTo(t, e) = [k \in 1..c + 1 |-> LineAt(t, Place(S, k))]
    BY <2>4 DEF LinesUpTo
  <2> DEFINE T == {LineAt(t, Place(S, k)) : k \in 1..c + 1}
             M == LinesUpTo(t, e)
  <2> HIDE DEF S, c, L, M, l
  <2>8. /\ \A k \in 1..c : k \in 1..c + 1 /\ LineAt(t, Place(S, k)) \in T
        /\ \A k \in 1..c + 1 : LineAt(t, Place(S, k)) \in T
        /\ c + 1 \in 1..c + 1
    BY <2>3
  <2>t. l \in T BY <2>5, <2>6, <2>8
  <2> HIDE DEF T
  <2>9. /\ L \in Seq(T) /\ Len(L) = c
        /\ \A k \in 1..c : L[k] = LineAt(t, Place(S, k))
    BY <2>3, <2>7, <2>8
  <2>10. /\ M \in Seq(T) /\ Len(M) = c + 1
         /\ \A k \in 1..c + 1 : M[k] = LineAt(t, Place(S, k))
    BY <2>3, <2>7, <2>8 DEF M
  <2>11. /\ Append(L, l) \in Seq(T) /\ Len(Append(L, l)) = c + 1
         /\ \A k \in 1..c : Append(L, l)[k] = L[k]
         /\ Append(L, l)[c + 1] = l
    BY <2>t, <2>9, AppendProperties
  <2>12. M[c + 1] = l BY <2>5, <2>6, <2>8, <2>10
  <2>13. \A k \in 1..c + 1 : M[k] = Append(L, l)[k]
    <3>1. \A k \in 1..c + 1 : k \in 1..c \/ k = c + 1 BY <2>3
    <3> QED BY <2>8, <2>9, <2>10, <2>11, <2>12, <3>1
  <2>14. M = Append(L, l) BY <2>10, <2>11, <2>13, SeqEqual
  <2> QED BY <1>5, <2>14 DEF M, L, l
<1> QED BY <1>4, <1>5

LEMMA NoLines ==
  ASSUME NEW t \in Seq(Bytes) PROVE LinesUpTo(t, 0) = <<>>
<1>1. \A i \in LineEnds(t) : ~(i <= 0) BY LineEndsOK
<1>2. UpTo(LineEnds(t), 0) = {} BY <1>1 DEF UpTo
<1>3. Cardinality({}) = 0 BY FS_EmptySet
<1> DEFINE L == LinesUpTo(t, 0)
<1>4. L = [k \in 1..0 |-> LineAt(t, Place(LineEnds(t), k))]
  BY <1>2, <1>3 DEF LinesUpTo
<1> HIDE DEF L
<1>5. L \in Seq(Bytes) /\ Len(L) = 0 BY <1>4
<1> QED BY <1>5, EmptySeq DEF L

LEMMA LinesPrefix ==
  ASSUME NEW t \in Seq(Bytes), NEW p
  PROVE IsPrefix(LinesUpTo(t, p), LinesOf(t))
<1> DEFINE S == LineEnds(t)
           c == Cardinality(UpTo(S, p))
           d == Cardinality(S)
           L == LinesUpTo(t, p)
           A == LinesOf(t)
           T == {LineAt(t, Place(S, k)) : k \in 1..d}
<1>1. c \in Nat /\ d \in Nat /\ c <= d
  <2>1. Len(t) \in Nat /\ S \in SUBSET (1..Len(t)) BY LineEndsOK
  <2> HIDE DEF S
  <2> QED BY <2>1, UpToCounts
<1>2. /\ L = [k \in 1..c |-> LineAt(t, Place(S, k))]
      /\ A = [k \in 1..d |-> LineAt(t, Place(S, k))]
  BY DEF LinesUpTo, LinesOf
<1> HIDE DEF S, c, d, L, A
<1>3. /\ \A k \in 1..c : k \in 1..d /\ LineAt(t, Place(S, k)) \in T
      /\ \A k \in 1..d : LineAt(t, Place(S, k)) \in T
  BY <1>1
<1> HIDE DEF T
<1>4. /\ L \in Seq(T) /\ Len(L) = c /\ \A k \in 1..c : L[k] = LineAt(t, Place(S, k))
  BY <1>1, <1>2, <1>3
<1>5. /\ A \in Seq(T) /\ Len(A) = d /\ \A k \in 1..d : A[k] = LineAt(t, Place(S, k))
  BY <1>1, <1>2, <1>3
<1>6. /\ SubSeq(L, 1, c) \in Seq(T) /\ SubSeq(A, 1, c) \in Seq(T)
      /\ Len(SubSeq(L, 1, c)) = c /\ Len(SubSeq(A, 1, c)) = c
      /\ \A k \in 1..c : SubSeq(L, 1, c)[k] = L[k] /\ SubSeq(A, 1, c)[k] = A[k]
  BY <1>1, <1>3, <1>4, <1>5
<1>7. SubSeq(L, 1, c) = SubSeq(A, 1, c)
  <2>1. \A k \in 1..c : SubSeq(L, 1, c)[k] = SubSeq(A, 1, c)[k]
    BY <1>3, <1>4, <1>5, <1>6
  <2> QED BY <1>6, <2>1, SeqEqual
<1> QED BY <1>1, <1>4, <1>5, <1>7 DEF IsPrefix, L, A

\* The bytes of a text behind place p, up to place n.
LEMMA SliceOK ==
  ASSUME NEW t \in Seq(Bytes), NEW p \in Nat, NEW n \in p..Len(t)
  PROVE /\ SubSeq(t, p + 1, n) \in Seq(Bytes) /\ Len(SubSeq(t, p + 1, n)) = n - p
        /\ \A i \in 1..n - p : SubSeq(t, p + 1, n)[i] = t[p + i]
<1> DEFINE u == SubSeq(t, p + 1, n)
<1>1. Len(t) \in Nat /\ n \in Nat /\ p <= n BY LenProperties
<1>2. \A i \in p + 1..n : i \in 1..Len(t) BY <1>1
<1>3. \A i \in p + 1..n : t[i] \in Bytes BY <1>2, ElementOfSeq
<1>4. p + 1 \in Int /\ n \in Int BY <1>1
<1>5. /\ u \in Seq(Bytes) /\ Len(u) = IF p + 1 <= n THEN n - (p + 1) + 1 ELSE 0
      /\ \A i \in 1..n - (p + 1) + 1 : u[i] = t[(p + 1) + i - 1]
  BY <1>3, <1>4, SubSeqProperties
<1> HIDE DEF u
<1>6. \A i \in Int : (p + 1) + i - 1 = p + i OBVIOUS
<1>7. n - (p + 1) + 1 = n - p BY <1>1
<1>8. Len(u) = n - p BY <1>1, <1>5
<1>9. ASSUME NEW i \in 1..n - p PROVE u[i] = t[p + i]
  <2>1. u[i] = t[(p + 1) + i - 1] BY <1>5, <1>7
  <2>2. (p + 1) + i - 1 = p + i BY <1>6
  <2> QED BY <2>1, <2>2
<1> QED BY <1>5, <1>8, <1>9 DEF u

\* `line` with more of the text behind it.
LEMMA LineGrows ==
  ASSUME NEW t \in Seq(Bytes), NEW r \in 0..Len(t), NEW n \in r..Len(t), NEW p \in 0..r
  PROVE SubSeq(t, p + 1, r) \o SubSeq(t, r + 1, n) = SubSeq(t, p + 1, n)
<1>1. Len(t) \in Nat BY LenProperties
<1>2. /\ p + 1 \in 1..Len(t) + 1 /\ r \in (p + 1) - 1..Len(t) /\ n \in r..Len(t)
  BY <1>1
<1> QED BY <1>2, ConcatAdjacentSubSeq

\* A chunk without a Nul is appended as it is,
LEMMA CleanChunk ==
  ASSUME NEW t \in Seq(Bytes), \A i \in DOMAIN t : t[i] # Nul,
         NEW r \in 0..Len(t), NEW n \in r..Len(t)
  PROVE CString(SubSeq(t, r + 1, n)) = SubSeq(t, r + 1, n)
<1> DEFINE u == SubSeq(t, r + 1, n)
<1>1. Len(t) \in Nat /\ DOMAIN t = 1..Len(t) BY LenProperties
<1>2. /\ u \in Seq(Bytes) /\ Len(u) = n - r
      /\ \A i \in 1..n - r : u[i] = t[r + i]
  BY <1>1, SliceOK
<1> HIDE DEF u
<1>3. \A i \in DOMAIN u : u[i] # Nul
  <2>1. DOMAIN u = 1..n - r BY <1>2, LenProperties
  <2>2. \A i \in 1..n - r : r + i \in 1..Len(t) BY <1>1
  <2> QED BY <1>1, <1>2, <2>1, <2>2
<1> QED BY <1>3 DEF CString, Positions, u

\* and any other one is appended in part.
LEMMA ChunkIsASeq ==
  ASSUME NEW u \in Seq(Bytes) PROVE CString(u) \in Seq(Bytes)
<1>1. CASE Positions(u, Nul) = {} BY <1>1 DEF CString
<1>2. CASE Positions(u, Nul) # {}
  <2>1. Len(u) \in Nat /\ Positions(u, Nul) \subseteq 1..Len(u)
    BY LenProperties DEF Positions
  <2>2. Min(Positions(u, Nul)) \in Positions(u, Nul) BY <1>2, <2>1, FirstPlace
  <2> DEFINE m == Min(Positions(u, Nul)) - 1
  <2>3. m \in Int /\ m <= Len(u) BY <2>1, <2>2
  <2>4. CString(u) = SubSeq(u, 1, m) BY <1>2 DEF CString
  <2> HIDE DEF m
  <2>5. \A i \in 1..m : u[i] \in Bytes
    <3>1. \A i \in 1..m : i \in 1..Len(u) BY <2>1, <2>3
    <3> QED BY <3>1, ElementOfSeq
  <2> QED BY <2>3, <2>4, <2>5, SubSeqProperties
<1> QED BY <1>1, <1>2

\* Cutting off the first line.
LEMMA CutsFirstLine ==
  ASSUME NEW l \in Seq(Bytes), Positions(l, Newline) # {}
  PROVE LET pos == Min(Positions(l, Newline))
        IN /\ Len(l) \in Nat /\ pos \in 1..Len(l) /\ l[pos] = Newline
           /\ \A i \in 1..pos - 1 : l[i] # Newline
           /\ SubSeq(l, pos + 1, Len(l)) \in Seq(Bytes)
           /\ SubSeq(l, 1, pos - 1) \in Seq(Bytes)
           /\ pos # 1 => SubSeq(l, 1, pos - 1) # <<>>
<1> DEFINE P == Positions(l, Newline)
           pos == Min(P)
<1>1. Len(l) \in Nat /\ P \subseteq 1..Len(l) /\ DOMAIN l = 1..Len(l)
  BY LenProperties DEF Positions
<1>2. pos \in P /\ \A i \in P : pos <= i BY <1>1, FirstPlace
<1>3. pos \in 1..Len(l) /\ l[pos] = Newline BY <1>1, <1>2 DEF Positions
<1>4. \A i \in 1..Len(l) : l[i] = Newline => i \in P BY <1>1 DEF Positions
<1> HIDE DEF P, pos
<1>5. \A i \in 1..pos - 1 : l[i] # Newline
  <2> SUFFICES ASSUME NEW i \in 1..pos - 1, l[i] = Newline PROVE FALSE OBVIOUS
  <2>1. i \in 1..Len(l) /\ ~(pos <= i) BY <1>1, <1>3
  <2> QED BY <1>2, <1>4, <2>1
<1>6. /\ \A i \in pos + 1..Len(l) : l[i] \in Bytes
      /\ \A i \in 1..pos - 1 : l[i] \in Bytes
  <2>1. /\ \A i \in pos + 1..Len(l) : i \in 1..Len(l)
        /\ \A i \in 1..pos - 1 : i \in 1..Len(l)
    BY <1>1, <1>3
  <2> QED BY <2>1, ElementOfSeq
<1>7. SubSeq(l, pos + 1, Len(l)) \in Seq(Bytes)
  <2>1. pos + 1 \in Int /\ Len(l) \in Int BY <1>1, <1>3
  <2> QED BY <1>6, <2>1, SubSeqProperties
<1>8. /\ SubSeq(l, 1, pos - 1) \in Seq(Bytes)
      /\ pos # 1 => Len(SubSeq(l, 1, pos - 1)) = pos - 1
  <2>1. pos - 1 \in Int /\ (pos # 1 => 1 <= pos - 1) BY <1>1, <1>3
  <2>2. /\ SubSeq(l, 1, pos - 1) \in Seq(Bytes)
        /\ Len(SubSeq(l, 1, pos - 1)) = IF 1 <= pos - 1 THEN pos - 1 - 1 + 1 ELSE 0
    BY <1>6, <2>1, SubSeqProperties
  <2>3. pos - 1 - 1 + 1 = pos - 1 BY <2>1
  <2> QED BY <2>1, <2>2, <2>3
<1>9. pos # 1 => SubSeq(l, 1, pos - 1) # <<>>
  <2>1. Len(<<>>) = 0 /\ (pos # 1 => pos - 1 # 0) BY <1>3
  <2> QED BY <1>8, <2>1
<1> QED BY <1>1, <1>3, <1>5, <1>7, <1>8, <1>9 DEF pos, P

\* What `line` and the text have to do with each other when the first line of the
\* rest of the text is cut off.
LEMMA CutsText ==
  ASSUME NEW t \in Seq(Bytes), NEW n \in 0..Len(t), NEW p \in 0..n,
         p = 0 \/ t[p] = Newline,
         Positions(SubSeq(t, p + 1, n), Newline) # {}
  PROVE LET l == SubSeq(t, p + 1, n)
            pos == Min(Positions(l, Newline))
        IN /\ p + pos \in 1..n /\ NextNewline(t, p, p + pos)
           /\ SubSeq(l, 1, pos - 1) = SubSeq(t, p + 1, p + pos - 1)
           /\ SubSeq(l, pos + 1, Len(l)) = SubSeq(t, p + pos + 1, n)
<1> DEFINE l == SubSeq(t, p + 1, n)
           pos == Min(Positions(l, Newline))
<1>1. Len(t) \in Nat /\ DOMAIN t = 1..Len(t) /\ n \in Nat /\ p \in Nat
  BY LenProperties
<1>2. /\ l \in Seq(Bytes) /\ Len(l) = n - p
      /\ \A i \in 1..n - p : l[i] = t[p + i]
  BY <1>1, SliceOK
<1> HIDE DEF l
<1>3. /\ pos \in 1..Len(l) /\ l[pos] = Newline
      /\ \A i \in 1..pos - 1 : l[i] # Newline
  BY <1>2, CutsFirstLine DEF l
<1> HIDE DEF pos
<1>4. pos \in 1..n - p /\ p + pos \in 1..n BY <1>1, <1>2, <1>3
<1>5. NextNewline(t, p, p + pos)
  <2> DEFINE e == p + pos
  <2>e. e - p = pos /\ e \in p + 1..Len(t) /\ e \in Nat /\ p \in 0..Len(t) BY <1>1, <1>4
  <2>1. t[e] = Newline BY <1>2, <1>3, <1>4
  <2> HIDE DEF e
  <2>2. ASSUME NEW i \in p + 1..e - 1 PROVE t[i] # Newline
    <3>1. i - p \in 1..pos - 1 /\ i - p \in 1..n - p /\ p + (i - p) = i
      BY <1>1, <1>4, <2>e
    <3>2. l[i - p] = t[p + (i - p)] BY <1>2, <3>1
    <3>3. l[i - p] # Newline BY <1>3, <3>1
    <3> QED BY <3>1, <3>2, <3>3
  <2>3. NextNewline(t, p, e) BY <2>e, <2>1, <2>2 DEF NextNewline
  <2> QED BY <2>3 DEF e
<1>6. SubSeq(l, 1, pos - 1) = SubSeq(t, p + 1, p + pos - 1)
  <2>1. /\ SubSeq(l, 1, pos - 1) \in Seq(Bytes) /\ Len(SubSeq(l, 1, pos - 1)) = pos - 1
        /\ \A i \in 1..pos - 1 : SubSeq(l, 1, pos - 1)[i] = l[0 + i]
    <3>1. 0 \in Nat /\ pos - 1 \in 0..Len(l) /\ (pos - 1) - 0 = pos - 1 BY <1>2, <1>3
    <3>2. 0 + 1 = 1 OBVIOUS
    <3> QED BY <1>2, <3>1, <3>2, SliceOK
  <2> DEFINE b == SubSeq(t, p + 1, p + pos - 1)
  <2>2. /\ b \in Seq(Bytes) /\ Len(b) = pos - 1
        /\ \A i \in 1..pos - 1 : b[i] = t[p + i]
    <3> DEFINE q == p + pos - 1
    <3>1. q \in p..Len(t) /\ q - p = pos - 1 BY <1>1, <1>4
    <3> HIDE DEF q
    <3>2. /\ SubSeq(t, p + 1, q) \in Seq(Bytes) /\ Len(SubSeq(t, p + 1, q)) = q - p
          /\ \A i \in 1..q - p : SubSeq(t, p + 1, q)[i] = t[p + i]
      BY <1>1, <3>1, SliceOK
    <3> QED BY <3>1, <3>2, Zenon DEF q
  <2> HIDE DEF b
  <2>3. \A i \in 1..pos - 1 : i \in 1..n - p /\ 0 + i = i BY <1>1, <1>4
  <2>4. \A i \in 1..pos - 1 : SubSeq(l, 1, pos - 1)[i] = b[i] BY <1>2, <2>1, <2>2, <2>3
  <2>5. SubSeq(l, 1, pos - 1) = b BY <2>1, <2>2, <2>4, SeqEqual
  <2> QED BY <2>5 DEF b
<1>7. SubSeq(l, pos + 1, Len(l)) = SubSeq(t, p + pos + 1, n)
  <2> DEFINE a == SubSeq(l, pos + 1, Len(l))
             b == SubSeq(t, (p + pos) + 1, n)
             m == n - p - pos
  <2>1. m \in Nat /\ Len(l) - pos = m /\ n - (p + pos) = m BY <1>1, <1>2, <1>4
  <2>2. a \in Seq(Bytes) /\ Len(a) = m /\ \A i \in 1..m : a[i] = l[pos + i]
    <3>1. pos \in Nat /\ Len(l) \in pos..Len(l) BY <1>1, <1>2, <1>3
    <3> HIDE DEF m
    <3> QED BY <1>2, <2>1, <3>1, SliceOK
  <2>3. b \in Seq(Bytes) /\ Len(b) = m /\ \A i \in 1..m : b[i] = t[(p + pos) + i]
    <3>1. p + pos \in Nat /\ n \in p + pos..Len(t) BY <1>1, <1>4
    <3> HIDE DEF m
    <3> QED BY <2>1, <3>1, SliceOK
  <2> HIDE DEF a, b
  <2>4. ASSUME NEW i \in 1..m PROVE a[i] = b[i]
    <3>1. pos + i \in 1..n - p /\ p + (pos + i) = (p + pos) + i BY <1>1, <1>4, <2>1
    <3>2. l[pos + i] = t[p + (pos + i)] BY <1>2, <3>1
    <3> HIDE DEF m
    <3> QED BY <2>2, <2>3, <3>1, <3>2
  <2>5. a = b
    <3> HIDE DEF m
    <3> QED BY <2>2, <2>3, <2>4, SeqEqual
  <2> QED BY <2>5 DEF a, b
<1> QED BY <1>4, <1>5, <1>6, <1>7 DEF pos, l

----------------------------------------------------------------------------
(* Every step keeps the invariant. *)

\* Where the three threads are.
Control ==
  /\ main \in {"starting", "looping", "stopping", "closing", "joining",
               "joiningWatchdog", "exited", "aborted"}
  /\ g_running \in BOOLEAN /\ running \in BOOLEAN /\ listening \in BOOLEAN
  /\ thread \in {"head", "polling", "accepting", "check", "receiving",
                 "cutting", "done"}
  /\ watchdog \in {"notStarted", "running", "done"}

\* What is received, cut and pushed, and for whom.
Data ==
  /\ text \in [Clients -> Texts]
  /\ read \in [Clients -> Nat] /\ written \in [Clients -> Nat]
  /\ \A c \in Clients : read[c] <= written[c] /\ written[c] <= Len(text[c])
  /\ closed \subseteq Clients
  /\ backlog \in Seq(Clients)
  /\ served \in {<<>>} \union {<<c>> : c \in Clients}
  /\ line \in Seq(Bytes)
  /\ pushed \in [Clients -> Seq(Seq(Bytes) \ {<<>>})]

LEMMA TypeParts == TypeOK <=> Control /\ Data
BY DEF TypeOK, Control, Data

LEMMA InitInv == Init => Inv
<1> SUFFICES ASSUME Init PROVE Inv OBVIOUS
<1> USE DEF Init
<1>1. Control BY DEF Control
<1>2. Data
  <2>1. \A c \in Clients : text[c] \in Seq(Bytes) /\ Len(text[c]) \in Nat
    BY TextsAssumption, LenProperties
  <2>2. /\ <<>> \in Seq(Clients) /\ <<>> \in Seq(Bytes)
        /\ <<>> \in Seq(Seq(Bytes) \ {<<>>})
    BY EmptySeq
  <2> QED BY <2>1, <2>2 DEF Data
<1>3. Waits BY DEF Waits
<1>4. Cuts BY DEF Cuts
<1>5. Frames
  <2> SUFFICES ASSUME NEW c \in Clients PROVE \E p \in 0..read[c] : Framed(c, p)
    BY DEF Frames
  <2>1. text[c] \in Seq(Bytes) BY TextsAssumption
  <2>2. LinesUpTo(text[c], 0) = <<>> BY <2>1, NoLines
  <2>3. served # <<c>>
    <3>1. Len(<<c>>) = 1 /\ Len(<<>>) = 0 OBVIOUS
    <3> QED BY <3>1
  <2>4. Framed(c, 0) BY <2>2, <2>3 DEF Framed
  <2>5. 0 \in 0..read[c] OBVIOUS
  <2> QED BY <2>4, <2>5
<1> QED BY <1>1, <1>2, <1>3, <1>4, <1>5, TypeParts DEF Inv

\* Nothing is received, cut or pushed; a client may be closed, and those that wait
\* may be reset.
LEMMA QuietStep ==
  ASSUME Inv, Control', UNCHANGED <<text, written, closed, read, line, pushed>>,
         backlog' \in {backlog, <<>>}, served' \in {served, <<>>},
         thread' \in {thread} \union {"head", "polling", "accepting", "check",
                                      "receiving", "done"}
  PROVE Inv'
<1>d. Data BY TypeParts DEF Inv
<1>1. Data'
  <2>1. backlog' \in Seq(Clients) BY <1>d, EmptySeq DEF Data
  <2>2. served' \in {<<>>} \union {<<c>> : c \in Clients} BY <1>d DEF Data
  <2> QED BY <1>d, <2>1, <2>2 DEF Data
<1>2. Waits'
  <2>1. \A c : <<>> # <<c>> OBVIOUS
  <2>2. CASE backlog' = backlog BY <2>1, <2>2 DEF Inv, Waits
  <2>3. CASE backlog' = <<>> BY <2>3 DEF Waits
  <2> QED BY <2>2, <2>3
<1>3. Cuts' BY DEF Inv, Cuts
<1>4. Frames'
  <2> SUFFICES ASSUME NEW c \in Clients, IsClean(c)'
               PROVE (\E p \in 0..read[c] : Framed(c, p))'
    BY DEF Frames
  <2>1. IsClean(c) BY DEF IsClean
  <2>2. PICK p \in 0..read[c] : Framed(c, p) BY <2>1 DEF Inv, Frames
  <2>3. served' = <<c>> => served = <<c>>
    <3>1. <<>> # <<c>> OBVIOUS
    <3> QED BY <3>1
  <2>4. Framed(c, p)' BY <2>2, <2>3 DEF Framed
  <2> QED BY <2>2, <2>4
<1> QED BY <1>1, <1>2, <1>3, <1>4 DEF Inv, TypeOK, Control, Data

LEMMA MainInv == ASSUME Inv, Main \/ Signal \/ WatchdogEnds PROVE Inv'
<1> USE DEF clientVars, serverVars, mainVars
<1>c. Control BY TypeParts DEF Inv
<1>1. /\ Control' /\ UNCHANGED <<text, written, closed, read, line, pushed>>
      /\ backlog' \in {backlog, <<>>} /\ served' = served /\ thread' = thread
  <2>1. CASE UdpReady BY <1>c, <2>1 DEF UdpReady, Control
  <2>2. CASE UdpFails BY <1>c, <2>2 DEF UdpFails, Control
  <2>3. CASE LeaveLoop BY <1>c, <2>3 DEF LeaveLoop, Control
  <2>4. CASE ClearRunning BY <1>c, <2>4 DEF ClearRunning, Control
  <2>5. CASE CloseListener BY <1>c, <2>5 DEF CloseListener, Control
  <2>6. CASE JoinServer BY <1>c, <2>6 DEF JoinServer, Control
  <2>7. CASE JoinWatchdog BY <1>c, <2>7 DEF JoinWatchdog, Control
  <2>8. CASE Signal BY <1>c, <2>8 DEF Signal, Control
  <2>9. CASE WatchdogEnds BY <1>c, <2>9 DEF WatchdogEnds, Control
  <2> QED BY <2>1, <2>2, <2>3, <2>4, <2>5, <2>6, <2>7, <2>8, <2>9 DEF Main
<1> QED BY <1>1, QuietStep

LEMMA LoopInv ==
  ASSUME Inv,
         \/ EnterPoll \/ Poll \/ PollFails \/ CheckRunning
         \/ (\E c \in Clients : ReceiveEnd(c))
         \/ (Accept /\ backlog = <<>>)
  PROVE Inv'
<1> USE DEF clientVars, mainVars
<1>c. Control BY TypeParts DEF Inv
<1>1. /\ Control' /\ UNCHANGED <<text, written, closed, read, line, pushed>>
      /\ backlog' = backlog /\ served' \in {served, <<>>}
      /\ thread' \in {"head", "polling", "accepting", "check", "receiving", "done"}
  <2>1. CASE EnterPoll BY <1>c, <2>1 DEF EnterPoll, Unserved, Control
  <2>2. CASE Poll \/ PollFails
    BY <1>c, <2>2 DEF Poll, PollFails, Unserved, Control
  <2>3. CASE CheckRunning BY <1>c, <2>3 DEF CheckRunning, CloseClient, Control
  <2>4. CASE \E c \in Clients : ReceiveEnd(c)
    BY <1>c, <2>4 DEF ReceiveEnd, CloseClient, Control
  <2>5. CASE Accept /\ backlog = <<>> BY <1>c, <2>5 DEF Accept, Control
  <2> QED BY <2>1, <2>2, <2>3, <2>4, <2>5
<1> QED BY <1>1, QuietStep

LEMMA AcceptInv == ASSUME Inv, Accept, backlog # <<>> PROVE Inv'
<1> USE DEF clientVars, mainVars
<1> DEFINE c == Head(backlog)
<1>u. /\ served' = <<c>> /\ backlog' = Tail(backlog) /\ line' = <<>> /\ thread' = "check"
      /\ UNCHANGED <<main, running, listening, g_running, watchdog, text, written,
                     closed, read, pushed>>
  BY DEF Accept
<1>t. Control /\ Data BY TypeParts DEF Inv
<1>1. /\ backlog \in Seq(Clients) /\ Len(backlog) \in Nat
      /\ DOMAIN backlog = 1..Len(backlog) /\ 1 \in 1..Len(backlog)
      /\ c = backlog[1] /\ c \in Clients
      /\ backlog' \in Seq(Clients) /\ DOMAIN backlog' = 1..Len(backlog) - 1
      /\ \A i \in 1..Len(backlog) - 1 : /\ i + 1 \in 1..Len(backlog) /\ i + 1 # 1
                                        /\ backlog'[i] = backlog[i + 1]
  <2>1. backlog \in Seq(Clients) /\ backlog # <<>> BY <1>t DEF Data
  <2>2. /\ Len(backlog) \in Nat \ {0} /\ DOMAIN backlog = 1..Len(backlog)
    BY <2>1, EmptySeq, LenProperties
  <2>3. /\ Tail(backlog) \in Seq(Clients) /\ Len(Tail(backlog)) = Len(backlog) - 1
        /\ \A i \in 1..Len(Tail(backlog)) : Tail(backlog)[i] = backlog[i + 1]
        /\ DOMAIN Tail(backlog) = 1..Len(Tail(backlog))
    BY <2>1, HeadTailProperties, LenProperties
  <2>4. c = backlog[1] /\ c \in Clients BY <2>1, HeadTailProperties
  <2>5. 1 \in 1..Len(backlog) BY <2>2
  <2>6. \A i \in 1..Len(backlog) - 1 : i + 1 \in 1..Len(backlog) /\ i + 1 # 1 BY <2>2
  <2> HIDE DEF c
  <2> QED BY <1>u, <2>1, <2>2, <2>3, <2>4, <2>5, <2>6
<1> HIDE DEF c
<1>2. Control' BY <1>u, <1>t DEF Control
<1>3. Data' BY <1>u, <1>t, <1>1, EmptySeq DEF Data
<1>4. Waits'
  <2>1. \A i, j \in 1..Len(backlog) : backlog[i] = backlog[j] => i = j
    BY <1>1 DEF Inv, Waits
  <2>2. ASSUME NEW i \in DOMAIN backlog', NEW j \in DOMAIN backlog',
               backlog'[i] = backlog'[j]
        PROVE i = j
    <3>1. i + 1 = j + 1 BY <1>1, <2>1, <2>2
    <3>2. i \in Int /\ j \in Int BY <1>1
    <3> QED BY <3>1, <3>2
  <2>3. ASSUME NEW i \in DOMAIN backlog'
        PROVE <<c>> # <<backlog'[i]>> /\ read[backlog'[i]] = 0
    <3>1. backlog'[i] = backlog[i + 1] /\ i + 1 \in DOMAIN backlog /\ i + 1 # 1 BY <1>1
    <3>2. backlog'[i] # c BY <1>1, <2>1, <3>1
    <3>3. read[backlog[i + 1]] = 0 BY <3>1 DEF Inv, Waits
    <3> QED BY <3>1, <3>2, <3>3
  <2> QED BY <1>u, <2>2, <2>3 DEF Waits
<1>5. Cuts' BY <1>u DEF Cuts
<1>6. Frames'
  <2> SUFFICES ASSUME NEW d \in Clients, IsClean(d)'
               PROVE (\E p \in 0..read[d] : Framed(d, p))'
    BY DEF Frames
  <2>1. IsClean(d) BY <1>u DEF IsClean
  <2>2. PICK p \in 0..read[d] : Framed(d, p) BY <2>1 DEF Inv, Frames
  <2>3. CASE d = c
    <3>1. read[c] = 0 BY <1>1 DEF Inv, Waits
    <3>2. p = 0 BY <2>2, <2>3, <3>1
    <3>3. text[d] \in Seq(Bytes) BY <1>t, TextsAssumption DEF Data
    <3>4. SubSeq(text[d], 0 + 1, 0) = <<>> BY <3>3, SubSeqEmpty
    <3>5. Framed(d, 0)' BY <1>u, <2>2, <2>3, <3>1, <3>2, <3>4 DEF Framed
    <3> QED BY <1>u, <2>3, <3>1, <3>5
  <2>4. CASE d # c
    <3>1. served' # <<d>> BY <1>u, <2>4
    <3>2. Framed(d, p)' BY <1>u, <2>2, <3>1 DEF Framed
    <3> QED BY <1>u, <2>2, <3>2
  <2> QED BY <2>3, <2>4
<1> QED BY <1>2, <1>3, <1>4, <1>5, <1>6 DEF Inv, TypeOK, Control, Data

LEMMA ClientInv == ASSUME Inv, NEW c \in Clients, Client(c) PROVE Inv'
<1> USE DEF clientVars, mainVars, serverVars
<1>t. Control /\ Data BY TypeParts DEF Inv
<1>u. /\ UNCHANGED <<main, running, listening, g_running, watchdog, thread, text, read,
                     served, line, pushed>>
      /\ \/ /\ UNCHANGED <<closed, written>> /\ read[c] = 0 /\ served # <<c>>
            /\ \A i \in DOMAIN backlog : backlog[i] # c
            /\ backlog' = Append(backlog, c)
         \/ /\ UNCHANGED <<closed, backlog>>
            /\ \E n \in written[c] + 1..Len(text[c]) : written' = [written EXCEPT ![c] = n]
         \/ UNCHANGED <<written, backlog>> /\ closed' = closed \union {c}
  BY DEF Client, Connect, Write, Close
<1>1. Control' BY <1>t, <1>u DEF Control
<1>2. Cuts' BY <1>u DEF Inv, Cuts
<1>3. Frames' BY <1>u DEF Inv, Frames, Framed, IsClean
<1>4. Data' /\ Waits'
  <2>1. CASE /\ UNCHANGED <<closed, written>> /\ read[c] = 0 /\ served # <<c>>
             /\ \A i \in DOMAIN backlog : backlog[i] # c
             /\ backlog' = Append(backlog, c)
    <3> DEFINE n == Len(backlog)
    <3>1. backlog \in Seq(Clients) /\ n \in Nat /\ DOMAIN backlog = 1..n
      BY <1>t, LenProperties DEF Data
    <3>2. /\ Append(backlog, c) \in Seq(Clients)
          /\ DOMAIN Append(backlog, c) = 1..n + 1
          /\ \A i \in 1..n : Append(backlog, c)[i] = backlog[i]
          /\ Append(backlog, c)[n + 1] = c
      BY <3>1, AppendProperties, LenProperties
    <3> HIDE DEF n
    <3>3. \A i \in 1..n + 1 : i \in 1..n \/ i = n + 1 BY <3>1
    <3>4. Data' BY <1>t, <1>u, <2>1, <3>2 DEF Data
    <3>5. \A d : <<c>> = <<d>> => c = d OBVIOUS
    <3>6. \A i \in DOMAIN backlog' : served # <<backlog'[i]>> /\ read[backlog'[i]] = 0
      BY <2>1, <3>1, <3>2, <3>3, <3>5 DEF Inv, Waits
    <3>7. \A i, j \in DOMAIN backlog' : backlog'[i] = backlog'[j] => i = j
      BY <2>1, <3>1, <3>2, <3>3 DEF Inv, Waits
    <3> QED BY <1>u, <3>4, <3>6, <3>7 DEF Waits
  <2>2. CASE /\ UNCHANGED <<closed, backlog>>
             /\ \E n \in written[c] + 1..Len(text[c]) : written' = [written EXCEPT ![c] = n]
    <3>1. PICK n \in written[c] + 1..Len(text[c]) : written' = [written EXCEPT ![c] = n]
      BY <2>2
    <3>2. text[c] \in Seq(Bytes) /\ Len(text[c]) \in Nat /\ written[c] \in Nat
      BY <1>t, TextsAssumption, LenProperties DEF Data
    <3>3. n \in Nat /\ written[c] < n /\ n <= Len(text[c]) BY <3>2
    <3>4. Data'
      <4>1. written' \in [Clients -> Nat] BY <1>t, <3>1, <3>3 DEF Data
      <4>2. ASSUME NEW d \in Clients
            PROVE read[d] <= written'[d] /\ written'[d] <= Len(text[d])
        <5>1. read[d] \in Nat /\ written[d] \in Nat /\ read[d] <= written[d]
              /\ written[d] <= Len(text[d])
          BY <1>t DEF Data
        <5>2. CASE d = c
          <6>1. written'[d] = n BY <1>t, <3>1, <5>2 DEF Data
          <6> QED BY <3>2, <3>3, <5>1, <5>2, <6>1
        <5>3. CASE d # c
          <6>1. written'[d] = written[d] BY <1>t, <3>1, <5>3 DEF Data
          <6> QED BY <5>1, <6>1
        <5> QED BY <5>2, <5>3
      <4> QED BY <1>t, <1>u, <2>2, <4>1, <4>2 DEF Data
    <3> QED BY <1>u, <2>2, <3>4 DEF Inv, Waits
  <2>3. CASE UNCHANGED <<written, backlog>> /\ closed' = closed \union {c}
    BY <1>t, <1>u, <2>3 DEF Inv, Data, Waits
  <2> QED BY <1>u, <2>1, <2>2, <2>3
<1> QED BY <1>1, <1>2, <1>3, <1>4 DEF Inv, TypeOK, Control, Data

LEMMA CutOrCheckOK ==
  ASSUME NEW l
  PROVE /\ CutOrCheck(l) \in {"cutting", "check"}
        /\ CutOrCheck(l) = "cutting" => Positions(l, Newline) # {}
BY DEF CutOrCheck

LEMMA ReceiveInv == ASSUME Inv, NEW c \in Clients, Receive(c) PROVE Inv'
<1> USE DEF clientVars, mainVars
<1>t. Control /\ Data BY TypeParts DEF Inv
<1>1. PICK n \in read[c] + 1..written[c] :
        /\ read' = [read EXCEPT ![c] = n]
        /\ line' = line \o CString(SubSeq(text[c], read[c] + 1, n))
  BY DEF Receive
<1>u. /\ served = <<c>> /\ served' = served /\ thread' = CutOrCheck(line')
      /\ UNCHANGED <<main, running, listening, g_running, watchdog, text, written,
                     closed, backlog, pushed>>
  BY DEF Receive
<1>2. /\ text[c] \in Seq(Bytes) /\ Len(text[c]) \in Nat
      /\ read[c] \in Nat /\ n \in Nat /\ n <= written[c] /\ read[c] <= n
      /\ read[c] \in 0..Len(text[c]) /\ n \in read[c]..Len(text[c])
  <2>1. text[c] \in Seq(Bytes) BY <1>t, TextsAssumption DEF Data
  <2>2. Len(text[c]) \in Nat BY <2>1, LenProperties
  <2>3. /\ read[c] \in Nat /\ written[c] \in Nat
        /\ read[c] <= written[c] /\ written[c] <= Len(text[c])
    BY <1>t DEF Data
  <2> QED BY <2>1, <2>2, <2>3
<1>r. /\ read'[c] = n /\ \A d \in Clients \ {c} : read'[d] = read[d]
      /\ read' \in [Clients -> Nat]
  BY <1>t, <1>1, <1>2 DEF Data
<1>3. Control' BY <1>u, <1>t, CutOrCheckOK DEF Control
<1>4. Data'
  <2>1. line' \in Seq(Bytes)
    <3>1. SubSeq(text[c], read[c] + 1, n) \in Seq(Bytes) BY <1>2, SliceOK
    <3>2. CString(SubSeq(text[c], read[c] + 1, n)) \in Seq(Bytes) BY <3>1, ChunkIsASeq
    <3> QED BY <1>t, <1>1, <3>2, ConcatProperties DEF Data
  <2>2. \A d \in Clients : read'[d] <= written[d]
    <3> SUFFICES ASSUME NEW d \in Clients PROVE read'[d] <= written[d] OBVIOUS
    <3>1. CASE d = c BY <1>2, <1>r, <3>1
    <3>2. CASE d # c BY <1>t, <1>r, <3>2 DEF Data
    <3> QED BY <3>1, <3>2
  <2> QED BY <1>t, <1>u, <1>r, <2>1, <2>2 DEF Data
<1>5. Waits'
  <2>1. \A i \in DOMAIN backlog : backlog[i] \in Clients
    BY <1>t, LenProperties, ElementOfSeq DEF Data
  <2>2. \A i \in DOMAIN backlog : backlog[i] # c BY <1>u DEF Inv, Waits
  <2> QED BY <1>u, <1>r, <2>1, <2>2 DEF Inv, Waits
<1>6. Cuts' BY <1>u, CutOrCheckOK DEF Cuts
<1>7. Frames'
  <2> SUFFICES ASSUME NEW d \in Clients, IsClean(d)'
               PROVE (\E p \in 0..read[d] : Framed(d, p))'
    BY DEF Frames
  <2>1. IsClean(d) BY <1>u DEF IsClean
  <2>2. PICK p \in 0..read[d] : Framed(d, p) BY <2>1 DEF Inv, Frames
  <2>3. CASE d = c
    <3>1. p \in 0..read[c] /\ p \in 0..n BY <1>2, <2>2, <2>3
    <3>2. line = SubSeq(text[c], p + 1, read[c]) BY <1>u, <2>2, <2>3 DEF Framed
    <3>3. CString(SubSeq(text[c], read[c] + 1, n)) = SubSeq(text[c], read[c] + 1, n)
      <4>1. \A i \in DOMAIN text[c] : text[c][i] # Nul BY <2>1, <2>3 DEF IsClean
      <4> QED BY <1>2, <4>1, CleanChunk
    <3>4. SubSeq(text[c], p + 1, read[c]) \o SubSeq(text[c], read[c] + 1, n)
            = SubSeq(text[c], p + 1, n)
      BY <1>2, <3>1, LineGrows
    <3>5. line' = SubSeq(text[c], p + 1, n) BY <1>1, <3>2, <3>3, <3>4
    <3>6. Framed(c, p)' BY <1>u, <1>r, <2>2, <2>3, <3>5 DEF Framed
    <3> QED BY <1>r, <2>3, <3>1, <3>6
  <2>4. CASE d # c
    <3>1. served' # <<d>>
      <4>1. <<c>> = <<d>> => c = d OBVIOUS
      <4> QED BY <1>u, <2>4, <4>1
    <3>2. read'[d] = read[d] BY <1>r, <2>4
    <3>3. Framed(d, p)' BY <1>u, <2>2, <3>1 DEF Framed
    <3> QED BY <2>2, <3>2, <3>3
  <2> QED BY <2>3, <2>4
<1> QED BY <1>3, <1>4, <1>5, <1>6, <1>7 DEF Inv, TypeOK, Control, Data

LEMMA CutLineInv == ASSUME Inv, NEW c \in Clients, CutLine(c) PROVE Inv'
<1> USE DEF clientVars, mainVars
<1> DEFINE pos == Min(Positions(line, Newline))
           cmd_line == SubSeq(line, 1, pos - 1)
<1>t. Control /\ Data BY TypeParts DEF Inv
<1>u. /\ thread = "cutting" /\ served = <<c>> /\ thread' = CutOrCheck(line')
      /\ line' = SubSeq(line, pos + 1, Len(line))
      /\ pushed' = IF pos = 1 THEN pushed
                   ELSE [pushed EXCEPT ![c] = Append(pushed[c], cmd_line)]
      /\ UNCHANGED <<main, running, listening, g_running, watchdog, text, written,
                     closed, backlog, read, served>>
  BY DEF CutLine
<1>1. /\ line \in Seq(Bytes) /\ Positions(line, Newline) # {}
      /\ pushed \in [Clients -> Seq(Seq(Bytes) \ {<<>>})]
  BY <1>t, <1>u DEF Inv, Cuts, Data
<1>2. /\ line' \in Seq(Bytes) /\ cmd_line \in Seq(Bytes)
      /\ pos # 1 => cmd_line # <<>>
  BY <1>u, <1>1, CutsFirstLine
<1> HIDE DEF pos, cmd_line
<1>3. Control' BY <1>u, <1>t, CutOrCheckOK DEF Control
<1>4. Data'
  <2>1. pushed' \in [Clients -> Seq(Seq(Bytes) \ {<<>>})]
    <3>1. CASE pos = 1 BY <1>u, <1>1, <3>1
    <3>2. CASE pos # 1
      <4>1. cmd_line \in Seq(Bytes) \ {<<>>} BY <1>2, <3>2
      <4>2. Append(pushed[c], cmd_line) \in Seq(Seq(Bytes) \ {<<>>})
        BY <1>1, <4>1, AppendProperties
      <4> QED BY <1>u, <1>1, <3>2, <4>2
    <3> QED BY <3>1, <3>2
  <2> QED BY <1>t, <1>u, <1>2, <2>1 DEF Data
<1>5. Waits' BY <1>u DEF Inv, Waits
<1>6. Cuts' BY <1>u, CutOrCheckOK DEF Cuts
<1>7. Frames'
  <2> SUFFICES ASSUME NEW d \in Clients, IsClean(d)'
               PROVE (\E p \in 0..read[d] : Framed(d, p))'
    BY DEF Frames
  <2>1. IsClean(d) BY <1>u DEF IsClean
  <2>2. PICK p \in 0..read[d] : Framed(d, p) BY <2>1 DEF Inv, Frames
  <2>3. CASE d = c
    <3> DEFINE t == text[c]
               n == read[c]
    <3>1. t \in Seq(Bytes) /\ n \in 0..Len(t) /\ n \in Nat /\ p \in 0..n
      <4>1. t \in Seq(Bytes) BY <1>t, TextsAssumption DEF Data
      <4>2. Len(t) \in Nat BY <4>1, LenProperties
      <4>3. /\ read[c] \in Nat /\ written[c] \in Nat
            /\ read[c] <= written[c] /\ written[c] <= Len(text[c])
        BY <1>t DEF Data
      <4>4. p \in 0..n BY <2>2, <2>3
      <4> HIDE DEF t
      <4> QED BY <4>1, <4>2, <4>3, <4>4 DEF t
    <3>2. /\ p = 0 \/ t[p] = Newline
          /\ pushed[c] = LinesUpTo(t, p) /\ line = SubSeq(t, p + 1, n)
      BY <1>u, <2>2, <2>3 DEF Framed
    <3> HIDE DEF t, n
    <3>3. /\ p + pos \in 1..n /\ NextNewline(t, p, p + pos)
          /\ cmd_line = SubSeq(t, p + 1, p + pos - 1)
          /\ line' = SubSeq(t, p + pos + 1, n)
      BY <1>u, <1>1, <3>1, <3>2, CutsText DEF pos, cmd_line
    <3>e. PICK e : e = p + pos OBVIOUS
    <3>4. e \in 1..n /\ NextNewline(t, p, e) /\ line' = SubSeq(t, e + 1, n)
          /\ cmd_line = SubSeq(t, p + 1, e - 1)
      <4>1. p \in Int /\ pos \in Int BY <1>1, <3>1, CutsFirstLine DEF pos
      <4>2. e - 1 = p + pos - 1 BY <3>e, <4>1
      <4> QED BY <3>3, <3>e, <4>2
    <3>5. e = p + 1 <=> pos = 1
      <4>1. p \in Int /\ pos \in Int BY <1>1, <3>1, CutsFirstLine DEF pos
      <4> QED BY <3>e, <4>1
    <3>6. pushed'[c] = LinesUpTo(t, e)
      <4>1. LinesUpTo(t, e) = IF e = p + 1 THEN LinesUpTo(t, p)
                              ELSE Append(LinesUpTo(t, p), SubSeq(t, p + 1, e - 1))
        BY <3>1, <3>4, NextLine
      <4>2. CASE pos = 1 BY <1>u, <3>2, <3>5, <4>1, <4>2
      <4>3. CASE pos # 1
        <5>1. pushed'[c] = Append(pushed[c], cmd_line) BY <1>u, <1>1, <4>3
        <5> QED BY <3>2, <3>4, <3>5, <4>1, <4>3, <5>1
      <4> QED BY <4>2, <4>3
    <3>7. t[e] = Newline BY <3>4 DEF NextNewline
    <3>8. text'[c] = t /\ read'[c] = n BY <1>u DEF t, n
    <3>9. Framed(c, e)' BY <1>u, <3>4, <3>6, <3>7, <3>8 DEF Framed
    <3>10. e \in 0..read[c] BY <3>1, <3>4 DEF n
    <3> QED BY <1>u, <2>3, <3>9, <3>10
  <2>4. CASE d # c
    <3>1. served' # <<d>>
      <4>1. <<c>> = <<d>> => c = d OBVIOUS
      <4> QED BY <1>u, <2>4, <4>1
    <3>2. pushed'[d] = pushed[d] BY <1>u, <1>1, <2>4
    <3>3. Framed(d, p)' BY <1>u, <2>2, <3>1, <3>2 DEF Framed
    <3> QED BY <1>u, <2>2, <3>3
  <2> QED BY <2>3, <2>4
<1> QED BY <1>3, <1>4, <1>5, <1>6, <1>7 DEF Inv, TypeOK, Control, Data

LEMMA NextInv == Inv /\ [Next]_vars => Inv'
<1> SUFFICES ASSUME Inv, [Next]_vars PROVE Inv' OBVIOUS
<1>1. CASE UNCHANGED vars
  <2> USE <1>1 DEF vars
  <2>1. TypeOK' BY DEF Inv, TypeOK
  <2>2. Waits' /\ Cuts' BY DEF Inv, Waits, Cuts
  <2>3. Frames' BY DEF Inv, Frames, Framed, IsClean
  <2> QED BY <2>1, <2>2, <2>3 DEF Inv
<1>2. CASE Main \/ Signal \/ WatchdogEnds BY <1>2, MainInv
<1>3. CASE Server
  <2>1. CASE EnterPoll \/ Poll \/ PollFails \/ CheckRunning BY <2>1, LoopInv
  <2>2. CASE Accept BY <2>2, LoopInv, AcceptInv
  <2>3. CASE \E c \in Clients : Receive(c) \/ CutLine(c) \/ ReceiveEnd(c)
    BY <2>3, ReceiveInv, CutLineInv, LoopInv
  <2> QED BY <1>3, <2>1, <2>2, <2>3 DEF Server
<1>4. CASE \E c \in Clients : Client(c) BY <1>4, ClientInv
<1> QED BY <1>1, <1>2, <1>3, <1>4 DEF Next

----------------------------------------------------------------------------

\* In every reachable state the inductive invariant holds.
THEOREM ServerInvariant == Spec => []Inv
<1>1. Init => Inv BY InitInv
<1>2. Inv /\ [Next]_vars => Inv' BY NextInv
<1> QED BY <1>1, <1>2, PTL DEF Spec

\* The state has its type: no blank line is ever pushed.
THEOREM ServerTyped == Spec => []TypeOK
<1>1. Inv => TypeOK BY DEF Inv
<1> QED BY <1>1, ServerInvariant, PTL

\* The lines of a client that writes no Nul arrive whole, in order and once,
\* however recv chunks them and whoever was served before.
THEOREM LinesWhole == Spec => []LinesArriveWhole
<1>1. ASSUME Inv PROVE LinesArriveWhole
  <2> SUFFICES ASSUME NEW c \in Clients, IsClean(c)
               PROVE IsPrefix(pushed[c], LinesOf(text[c]))
    BY DEF LinesArriveWhole
  <2>1. PICK p \in 0..read[c] : Framed(c, p) BY <1>1 DEF Inv, Frames
  <2>2. text[c] \in Seq(Bytes) BY <1>1, TextsAssumption DEF Inv, TypeOK
  <2>3. IsPrefix(LinesUpTo(text[c], p), LinesOf(text[c])) BY <2>2, LinesPrefix
  <2> QED BY <2>1, <2>3 DEF Framed
<1> QED BY <1>1, ServerInvariant, PTL
=============================================================================
