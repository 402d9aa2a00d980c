--------------------------- MODULE AnalysisProofs ---------------------------
(***************************************************************************)
(* What the offline tools promise, for every input.                         *)
(*                                                                          *)
(* Events: whatever the activity masks and the gaps, they are clear of the  *)
(* gaps of both channels, disjoint, and around all the activity that is     *)
(* long enough.  Sorted_spans is an enumeration by rank, Merge_spans joins  *)
(* what touches, and Cut leaves nothing across a gap.                       *)
(*                                                                          *)
(* Slicing: the levels of the comparator change where decisive samples do,  *)
(* every edge is between the decisive samples of its turn, so the edges are *)
(* in order and the runs follow each other.                                 *)
(*                                                                          *)
(* Comparing: the pattern of the anchor is found again in every frame, so   *)
(* its columns are fixed; and the bits that trim_common_start leaves are    *)
(* the whole bytes of what was sent, so the search sees its checksum fit.   *)
(*                                                                          *)
(* What a recursion in the model computes is proved by the least number of  *)
(* steps after which it would be wrong (LeastIn).                           *)
(***************************************************************************)
EXTENDS Analysis, FiniteSetTheorems, WellFoundedInduction, SequenceTheorems,
        TLAPS

(* A set of numbers that is not empty has a smallest one. *)
LEMMA LeastIn ==
  ASSUME NEW S, S \subseteq Nat, S # {}
  PROVE  \E n \in S : \A m \in S : n <= m
<1> DEFINE Less == {p \in Nat \X Nat : p[1] < p[2]}
<1>1. IsWellFoundedOn(Less, Nat)
  BY NatLessThanWellFounded DEF OpToRel
<1> HIDE DEF Less
<1>2. \E n \in S : \A m \in S : <<m, n>> \notin Less
  BY <1>1, WFMin
<1>3. \A m, n \in S : <<m, n>> \notin Less => n <= m
  BY DEF Less
<1> QED BY <1>2, <1>3

(* The greatest of the elements up to p, and the least of those from p on.  *)
LEMMA GreatestUpTo ==
  ASSUME NEW B, B \subseteq Int, NEW p \in Int, NEW b \in B, b <= p
  PROVE  \E x \in B : x <= p /\ \A c \in B : c <= p => c <= x
<1> DEFINE S == {p - c : c \in {y \in B : y <= p}}
<1>1. S \subseteq Nat /\ S # {}
  OBVIOUS
<1>2. PICK n \in S : \A m \in S : n <= m
  <2> HIDE DEF S
  <2> QED BY <1>1, LeastIn
<1>3. PICK x \in B : x <= p /\ n = p - x
  BY <1>2
<1>4. \A c \in B : c <= p => c <= x
  <2> SUFFICES ASSUME NEW c \in B, c <= p PROVE c <= x
    OBVIOUS
  <2>1. p - c \in S
    OBVIOUS
  <2>2. n <= p - c
    BY <1>2, <2>1
  <2>3. c \in Int /\ x \in Int
    OBVIOUS
  <2> HIDE DEF S
  <2> QED BY <1>3, <2>2, <2>3
<1> HIDE DEF S
<1> QED BY <1>3, <1>4

(* The least of the numbers from p on. *)
LEMMA LeastFrom ==
  ASSUME NEW B, B \subseteq Int, NEW p \in Int, NEW b \in B, b >= p
  PROVE  \E x \in B : x >= p /\ \A c \in B : c >= p => c >= x
<1> DEFINE S == {c - p : c \in {y \in B : y >= p}}
<1>1. S \subseteq Nat /\ S # {}
  OBVIOUS
<1>2. PICK n \in S : \A m \in S : n <= m
  <2> HIDE DEF S
  <2> QED BY <1>1, LeastIn
<1>3. PICK x \in B : x >= p /\ n = x - p
  BY <1>2
<1>4. \A c \in B : c >= p => c >= x
  <2> SUFFICES ASSUME NEW c \in B, c >= p PROVE c >= x
    OBVIOUS
  <2>1. c - p \in S
    OBVIOUS
  <2>2. n <= c - p
    BY <1>2, <2>1
  <2>3. c \in Int /\ x \in Int
    OBVIOUS
  <2> HIDE DEF S
  <2> QED BY <1>3, <2>2, <2>3
<1> HIDE DEF S
<1> QED BY <1>3, <1>4

(* Max and Min of two numbers. *)
LEMMA MaxOfTwo ==
  ASSUME NEW a \in Int, NEW b \in Int
  PROVE  Max({a, b}) = IF a >= b THEN a ELSE b
<1> DEFINE m == IF a >= b THEN a ELSE b
<1>1. m \in {a, b} /\ \A y \in {a, b} : m >= y
  OBVIOUS
<1>2. \A x \in {a, b} : (\A y \in {a, b} : x >= y) => x = m
  OBVIOUS
<1>3. Max({a, b}) \in {a, b} /\ \A y \in {a, b} : Max({a, b}) >= y
  <2> HIDE DEF m
  <2> QED BY <1>1 DEF Max
<1> QED BY <1>2, <1>3

(* The lesser of two numbers. *)
LEMMA MinOfTwo ==
  ASSUME NEW a \in Int, NEW b \in Int
  PROVE  Min({a, b}) = IF a <= b THEN a ELSE b
<1> DEFINE m == IF a <= b THEN a ELSE b
<1>1. m \in {a, b} /\ \A y \in {a, b} : m <= y
  OBVIOUS
<1>2. \A x \in {a, b} : (\A y \in {a, b} : x <= y) => x = m
  OBVIOUS
<1>3. Min({a, b}) \in {a, b} /\ \A y \in {a, b} : Min({a, b}) <= y
  <2> HIDE DEF m
  <2> QED BY <1>1 DEF Min
<1> QED BY <1>2, <1>3

-----------------------------------------------------------------------------
(* Cutting a span. *)

Span == {p \in Int \X Int : p[1] < p[2]}

Within(p, e) == e[1] <= p[1] /\ p[2] <= e[2]
Clear(e, gaps) == \A g \in gaps : g <= e[1] \/ g >= e[2]
Disjoint(e, f) == e[2] <= f[1] \/ f[2] <= e[1]

Bounds(span, gaps) ==
  {span[1], span[2]} \cup {g \in gaps : span[1] < g /\ g < span[2]}

(* _split_at_gaps with its bounds named. *)
LEMMA CutIs ==
  ASSUME NEW span, NEW gaps
  PROVE  Cut(span, gaps) =
           {p \in Bounds(span, gaps) \X Bounds(span, gaps) :
              p[1] < p[2]
                /\ \A c \in Bounds(span, gaps) : c <= p[1] \/ c >= p[2]}
BY DEF Cut, Bounds

(* Its pieces are parts of it, no gap is inside one, and no two overlap.    *)
LEMMA PiecesAreClear ==
  ASSUME NEW span \in Span, NEW gaps, gaps \subseteq Int,
         NEW e \in Cut(span, gaps)
  PROVE  /\ e \in Span /\ Within(e, span) /\ Clear(e, gaps)
         /\ \A f \in Cut(span, gaps) : e = f \/ Disjoint(e, f)
<1> DEFINE B == Bounds(span, gaps)
<1>1. /\ B \subseteq Int /\ span[1] \in Int /\ span[2] \in Int
      /\ \A b \in B : span[1] <= b /\ b <= span[2]
      /\ \A g \in gaps : span[1] < g /\ g < span[2] => g \in B
  <2>1. span[1] \in Int /\ span[2] \in Int /\ span[1] < span[2]
    BY DEF Span
  <2>2. \A b \in B : b = span[1] \/ b = span[2]
                      \/ (b \in gaps /\ span[1] < b /\ b < span[2])
    BY DEF Bounds
  <2>3. \A g \in gaps : span[1] < g /\ g < span[2] => g \in B
    BY DEF Bounds
  <2> HIDE DEF B
  <2>4. \A b \in B : b \in Int
    BY <2>1, <2>2
  <2>5. ASSUME NEW b \in B PROVE span[1] <= b /\ b <= span[2]
    <3>1. b \in Int /\ span[1] \in Int /\ span[2] \in Int
      BY <2>1, <2>4
    <3>2. b = span[1] \/ b = span[2] \/ (span[1] < b /\ b < span[2])
      BY <2>2
    <3> QED BY <2>1, <3>1, <3>2
  <2> QED BY <2>1, <2>3, <2>4, <2>5
<1>2. \A f \in Cut(span, gaps) :
        /\ f \in B \X B /\ f[1] < f[2]
        /\ \A c \in B : c <= f[1] \/ c >= f[2]
  BY CutIs
<1> HIDE DEF B
<1>3. \A f \in Cut(span, gaps) :
        /\ f = <<f[1], f[2]>> /\ f[1] \in B /\ f[2] \in B
        /\ f[1] \in Int /\ f[2] \in Int
  BY <1>1, <1>2
<1>4. e \in Span /\ Within(e, span)
  BY <1>1, <1>2, <1>3 DEF Span, Within
<1>5. Clear(e, gaps)
  <2> SUFFICES ASSUME NEW g \in gaps, ~(g <= e[1] \/ g >= e[2])
               PROVE  FALSE
    BY DEF Clear
  <2>1. g \in Int /\ span[1] <= e[1] /\ e[2] <= span[2]
    BY <1>1, <1>3
  <2>2. span[1] < g /\ g < span[2]
    BY <1>1, <1>3, <2>1
  <2>3. g \in B
    BY <1>1, <2>2
  <2> QED BY <1>2, <2>3
<1>6. ASSUME NEW f \in Cut(span, gaps), ~Disjoint(e, f) PROVE e = f
  <2>1. e[1] < f[2] /\ f[1] < e[2]
    BY <1>3, <1>6 DEF Disjoint
  <2>2. f[1] <= e[1] /\ f[2] >= e[2]
    BY <1>2, <1>3, <2>1
  <2>3. e[1] <= f[1] /\ e[2] >= f[2]
    BY <1>2, <1>3, <2>1
  <2>4. e[1] = f[1] /\ e[2] = f[2]
    BY <1>3, <2>2, <2>3
  <2> QED BY <1>3, <2>4
<1> QED BY <1>4, <1>5, <1>6

(* What is clear of the gaps is in one piece. *)
LEMMA ClearIsInOnePiece ==
  ASSUME NEW span \in Span, NEW gaps, gaps \subseteq Int,
         NEW p \in Span, Within(p, span), Clear(p, gaps)
  PROVE  \E e \in Cut(span, gaps) : Within(p, e)
<1> DEFINE B == Bounds(span, gaps)
<1>1. /\ B \subseteq Int /\ span[1] \in B /\ span[2] \in B
      /\ \A b \in B : b = span[1] \/ b = span[2] \/ b \in gaps
  BY DEF Bounds, Span
<1>2. /\ p[1] \in Int /\ p[2] \in Int /\ p[1] < p[2]
      /\ span[1] <= p[1] /\ p[2] <= span[2]
  BY DEF Span, Within
<1>3. Cut(span, gaps) = {q \in B \X B :
                            q[1] < q[2] /\ \A c \in B : c <= q[1] \/ c >= q[2]}
  BY CutIs
<1> HIDE DEF B
<1>4. PICK lo \in B : lo <= p[1] /\ \A c \in B : c <= p[1] => c <= lo
  <2>1. B \subseteq Int /\ p[1] \in Int /\ span[1] \in B /\ span[1] <= p[1]
    BY <1>1, <1>2
  <2> QED BY <2>1, GreatestUpTo
<1>5. PICK hi \in B : hi >= p[2] /\ \A c \in B : c >= p[2] => c >= hi
  <2>1. span[1] \in Int /\ span[2] \in Int
    BY <1>1
  <2>2. B \subseteq Int /\ p[2] \in Int /\ span[2] \in B /\ span[2] >= p[2]
    BY <1>1, <1>2, <2>1
  <2> QED BY <2>2, LeastFrom
<1>6. lo \in Int /\ hi \in Int
  BY <1>1
<1>7. \A c \in B : c <= lo \/ c >= hi
  <2> SUFFICES ASSUME NEW c \in B PROVE c <= lo \/ c >= hi
    OBVIOUS
  <2>1. c \in Int /\ span[1] \in Int /\ span[2] \in Int
    BY <1>1
  <2>2. c <= p[1] \/ c >= p[2]
    BY <1>1, <1>2, <2>1 DEF Clear
  <2> QED BY <1>4, <1>5, <2>2
<1>8. <<lo, hi>> \in Cut(span, gaps)
  BY <1>2, <1>3, <1>4, <1>5, <1>6, <1>7
<1>9. Within(p, <<lo, hi>>)
  BY <1>4, <1>5 DEF Within
<1> QED BY <1>8, <1>9

-----------------------------------------------------------------------------
(* Sorting spans. *)

SortsBefore(p, q) == p[1] < q[1] \/ (p[1] = q[1] /\ p[2] < q[2])
Earlier(S, p) == {q \in S : SortsBefore(q, p)}
RankIn(S, p) == Cardinality(Earlier(S, p))

(* sorted: a span is at the place of its rank. *)
LEMMA SortedIs ==
  ASSUME NEW S
  PROVE  Sorted_spans(S) = [n \in 1..Cardinality(S) |->
                              CHOOSE p \in S : RankIn(S, p) = n - 1]
BY DEF Sorted_spans, RankIn, Earlier, SortsBefore

(* The order is a strict total order, and ranks follow it. *)
LEMMA BeforeIsTotal ==
  ASSUME NEW p \in Int \X Int, NEW q \in Int \X Int, p # q
  PROVE  SortsBefore(p, q) \/ SortsBefore(q, p)
<1>1. /\ p = <<p[1], p[2]>> /\ q = <<q[1], q[2]>>
      /\ p[1] \in Int /\ p[2] \in Int /\ q[1] \in Int /\ q[2] \in Int
  OBVIOUS
<1>2. p[1] # q[1] \/ p[2] # q[2]
  BY <1>1
<1> QED BY <1>1, <1>2 DEF SortsBefore

(* What sorts before has the lower rank. *)
LEMMA RankRises ==
  ASSUME NEW S, IsFiniteSet(S), S \subseteq Int \X Int,
         NEW p \in S, NEW q \in S, SortsBefore(p, q)
  PROVE  RankIn(S, p) < RankIn(S, q)
<1>1. \A r \in S : r[1] \in Int /\ r[2] \in Int
  OBVIOUS
<1>2. Earlier(S, p) \subseteq Earlier(S, q)
  <2> SUFFICES ASSUME NEW r \in S, SortsBefore(r, p) PROVE SortsBefore(r, q)
    BY DEF Earlier
  <2> QED BY <1>1 DEF SortsBefore
<1>3. p \in Earlier(S, q) /\ p \notin Earlier(S, p)
  BY <1>1 DEF Earlier, SortsBefore
<1>4. Earlier(S, q) \subseteq S /\ Earlier(S, p) # Earlier(S, q)
  BY <1>3 DEF Earlier
<1>5. IsFiniteSet(Earlier(S, q))
  BY <1>4, FS_Subset
<1>6. IsFiniteSet(Earlier(S, p))
        /\ RankIn(S, p) <= RankIn(S, q) /\ RankIn(S, p) # RankIn(S, q)
  BY <1>2, <1>4, <1>5, FS_Subset DEF RankIn
<1>7. RankIn(S, p) \in Nat /\ RankIn(S, q) \in Nat
  BY <1>5, <1>6, FS_CardinalityType DEF RankIn
<1> QED BY <1>6, <1>7

(* Ranks count from 0 to less than the number of spans. *)
LEMMA RankIsIndex ==
  ASSUME NEW S, IsFiniteSet(S), S \subseteq Int \X Int, NEW p \in S
  PROVE  RankIn(S, p) \in 0..(Cardinality(S) - 1)
<1>1. p \notin Earlier(S, p)
  <2>1. p[1] \in Int /\ p[2] \in Int
    OBVIOUS
  <2> QED BY <2>1 DEF Earlier, SortsBefore
<1>2. Earlier(S, p) \subseteq S /\ Earlier(S, p) # S
  BY <1>1 DEF Earlier
<1>3. IsFiniteSet(Earlier(S, p))
        /\ RankIn(S, p) <= Cardinality(S) /\ RankIn(S, p) # Cardinality(S)
  BY <1>2, FS_Subset DEF RankIn
<1>4. RankIn(S, p) \in Nat /\ Cardinality(S) \in Nat
  BY <1>3, FS_CardinalityType DEF RankIn
<1> QED BY <1>3, <1>4

(* No two spans have the same rank. *)
LEMMA RankIsUnique ==
  ASSUME NEW S, IsFiniteSet(S), S \subseteq Int \X Int,
         NEW p \in S, NEW q \in S, RankIn(S, p) = RankIn(S, q)
  PROVE  p = q
<1> SUFFICES ASSUME p # q PROVE FALSE
  OBVIOUS
<1>1. SortsBefore(p, q) \/ SortsBefore(q, p)
  BY BeforeIsTotal
<1>2. RankIn(S, p) < RankIn(S, q) \/ RankIn(S, q) < RankIn(S, p)
  BY <1>1, RankRises
<1>3. RankIn(S, p) \in Int /\ RankIn(S, q) \in Int
  BY RankIsIndex
<1> QED BY <1>2, <1>3

(* Every rank is taken: with one missing, two spans would share a rank.     *)
LEMMA RankIsTaken ==
  ASSUME NEW S, IsFiniteSet(S), S \subseteq Int \X Int,
         NEW m \in 0..(Cardinality(S) - 1)
  PROVE  \E p \in S : RankIn(S, p) = m
<1> SUFFICES ASSUME \A p \in S : RankIn(S, p) # m PROVE FALSE
  OBVIOUS
<1> DEFINE N == Cardinality(S)
           T == (0..(N - 1)) \ {m}
           f == [p \in S |-> RankIn(S, p)]
<1>1. N \in Nat
  BY FS_CardinalityType
<1>2. IsFiniteSet(0..(N - 1)) /\ Cardinality(0..(N - 1)) = N
  <2>1. 0 \in Int /\ N - 1 \in Int
    BY <1>1
  <2> HIDE DEF N
  <2>2. IsFiniteSet(0..(N - 1))
          /\ Cardinality(0..(N - 1)) = IF 0 > N - 1 THEN 0 ELSE N - 1 - 0 + 1
    BY <2>1, FS_Interval, Zenon
  <2> QED BY <1>1, <2>2
<1>3. IsFiniteSet(T) /\ Cardinality(T) = N - 1
  <2>1. m \in 0..(N - 1)
    OBVIOUS
  <2> DEFINE I == 0..(N - 1)
  <2>2. IsFiniteSet(I) /\ Cardinality(I) = N /\ m \in I
    BY <1>2, <2>1
  <2> HIDE DEF I
  <2>3. IsFiniteSet(I \ {m}) /\ Cardinality(I \ {m}) = N - 1
    <3> HIDE DEF N
    <3> QED BY <2>2, FS_RemoveElement
  <2> QED BY <2>3 DEF I
<1>4. f \in [S -> T]
  BY RankIsIndex
<1>5. Cardinality(T) < Cardinality(S)
  BY <1>1, <1>3
<1> HIDE DEF T
<1>6. \E x, y \in S : x # y /\ f[x] = f[y]
  <2> HIDE DEF f, N
  <2> QED BY <1>3, <1>4, <1>5, FS_PigeonHole
<1> QED BY <1>6, RankIsUnique

(* Sorted_spans lists every span of S, by their starts. *)
LEMMA SortedEnumerates ==
  ASSUME NEW S, IsFiniteSet(S), S \subseteq Int \X Int
  PROVE  /\ Sorted_spans(S) \in Seq(S)
         /\ \A p \in S : \E n \in DOMAIN Sorted_spans(S) :
              Sorted_spans(S)[n] = p
         /\ \A i, j \in DOMAIN Sorted_spans(S) :
              i < j => Sorted_spans(S)[i][1] <= Sorted_spans(S)[j][1]
<1> DEFINE N == Cardinality(S)
           s == Sorted_spans(S)
<1>1. N \in Nat
  BY FS_CardinalityType
<1>2. s = [n \in 1..N |-> CHOOSE p \in S : RankIn(S, p) = n - 1]
  BY SortedIs
<1> HIDE DEF s
<1>3. \A n \in 1..N : s[n] \in S /\ RankIn(S, s[n]) = n - 1
  <2> SUFFICES ASSUME NEW n \in 1..N
               PROVE  s[n] \in S /\ RankIn(S, s[n]) = n - 1
    OBVIOUS
  <2>1. n - 1 \in 0..(N - 1)
    BY <1>1
  <2>2. \E p \in S : RankIn(S, p) = n - 1
    BY <2>1, RankIsTaken
  <2> QED BY <1>2, <2>2
<1>4. s \in Seq(S) /\ DOMAIN s = 1..N
  <2> HIDE DEF N
  <2>1. s \in [1..N -> S]
    BY <1>2, <1>3
  <2> QED BY <1>1, <2>1
<1>5. \A p \in S : \E n \in 1..N : s[n] = p
  <2> SUFFICES ASSUME NEW p \in S PROVE \E n \in 1..N : s[n] = p
    OBVIOUS
  <2>1. RankIn(S, p) \in 0..(N - 1)
    BY RankIsIndex
  <2> DEFINE n == RankIn(S, p) + 1
  <2>2. n \in 1..N /\ n - 1 = RankIn(S, p)
    BY <1>1, <2>1
  <2> HIDE DEF n, N
  <2>3. s[n] \in S /\ RankIn(S, s[n]) = RankIn(S, p)
    BY <1>3, <2>2
  <2> QED BY <2>2, <2>3, RankIsUnique
<1>6. \A i, j \in 1..N : i < j => s[i][1] <= s[j][1]
  <2> SUFFICES ASSUME NEW i \in 1..N, NEW j \in 1..N, i < j,
                      ~(s[i][1] <= s[j][1])
               PROVE  FALSE
    OBVIOUS
  <2> HIDE DEF N
  <2>1. s[i] \in S /\ s[j] \in S
    BY <1>3
  <2>2. s[i][1] \in Int /\ s[j][1] \in Int
    BY <2>1
  <2>3. SortsBefore(s[j], s[i])
    BY <2>2 DEF SortsBefore
  <2>4. RankIn(S, s[j]) < RankIn(S, s[i])
    BY <2>1, <2>3, RankRises
  <2> QED BY <1>1, <1>3, <2>4
<1> QED BY <1>4, <1>5, <1>6 DEF s

-----------------------------------------------------------------------------
(* Merging sorted spans. *)

MergeStep(spans, gap, out, n) ==
  IF n = 0 THEN <<>>
  ELSE LET o == out[n - 1]  s == spans[n]
       IN  IF o # <<>> /\ s[1] - Last(o)[2] <= gap
           THEN Append(Front(o), <<Last(o)[1], Max({Last(o)[2], s[2]})>>)
           ELSE Append(o, s)

(* out has merged the first n spans. *)
Merges(spans, gap, out, n) ==
  out = [k \in 0..n |-> MergeStep(spans, gap, out, k)]

(* There is a function that the recursion of Merge_spans describes. *)
LEMMA MergeExists ==
  ASSUME NEW spans, NEW gap, NEW n \in Nat
  PROVE  \E out : Merges(spans, gap, out, n)
<1> DEFINE Bad == {m \in Nat : ~ \E out : Merges(spans, gap, out, m)}
<1> SUFFICES ASSUME n \in Bad PROVE FALSE
  OBVIOUS
<1>1. PICK m \in Bad : \A k \in Bad : m <= k
  <2>1. Bad \subseteq Nat /\ Bad # {}
    OBVIOUS
  <2> HIDE DEF Bad
  <2> QED BY <2>1, LeastIn
<1>2. m \in Nat /\ ~ \E out : Merges(spans, gap, out, m)
  OBVIOUS
<1>3. CASE m = 0
  <2> DEFINE out == [k \in 0..0 |-> <<>>]
  <2>1. Merges(spans, gap, out, 0)
    BY DEF Merges, MergeStep
  <2> QED BY <1>2, <1>3, <2>1
<1>4. CASE m # 0
  <2>1. m - 1 \in Nat /\ m - 1 \notin Bad
    BY <1>1, <1>2, <1>4
  <2>2. PICK old : Merges(spans, gap, old, m - 1)
    BY <2>1
  <2> DEFINE out == [k \in 0..m |-> IF k < m THEN old[k]
                                    ELSE MergeStep(spans, gap, old, m)]
  <2>3. \A k \in 0..m : out[k] = MergeStep(spans, gap, out, k)
    <3> SUFFICES ASSUME NEW k \in 0..m
                 PROVE  out[k] = MergeStep(spans, gap, out, k)
      OBVIOUS
    <3>1. k # 0 => k - 1 \in 0..m /\ k - 1 < m
      BY <1>2
    <3>2. k # 0 => out[k - 1] = old[k - 1]
      BY <3>1
    <3>3. MergeStep(spans, gap, old, k) = MergeStep(spans, gap, out, k)
      <4> HIDE DEF out
      <4> QED BY <3>2 DEF MergeStep
    <3>4. k < m => k \in 0..(m - 1)
      BY <1>2
    <3>5. k < m => old[k] = MergeStep(spans, gap, old, k)
      BY <2>2, <3>4 DEF Merges
    <3>6. ~(k < m) => k = m
      BY <1>2
    <3> QED BY <3>3, <3>5, <3>6
  <2>4. Merges(spans, gap, out, m)
    BY <2>3 DEF Merges
  <2> QED BY <1>2, <2>4
<1> QED BY <1>3, <1>4

(* Merge_spans is the last value of such a function. *)
LEMMA MergeIs ==
  ASSUME NEW spans, Len(spans) \in Nat, NEW gap
  PROVE  \E out : /\ Merges(spans, gap, out, Len(spans))
                  /\ Merge_spans(spans, gap) = out[Len(spans)]
<1> DEFINE out == CHOOSE f : Merges(spans, gap, f, Len(spans))
<1>1. Merges(spans, gap, out, Len(spans))
  BY MergeExists, Zenon
<1>2. Merge_spans(spans, gap) = out[Len(spans)]
  BY DEF Merge_spans, Merges, MergeStep
<1> QED BY <1>1, <1>2

ByStart(spans) ==
  \A i, j \in DOMAIN spans : i < j => spans[i][1] <= spans[j][1]

(* o is the merger of the first k spans: what it lists is apart, contains   *)
(* each of them, and does not begin behind those to come.                   *)
Merged(spans, k, o) ==
  /\ o \in Seq(Span)
  /\ \A i, j \in 1..Len(o) : i < j => o[i][2] < o[j][1]
  /\ \A m \in 1..k : \E i \in 1..Len(o) : Within(spans[m], o[i])
  /\ \A i \in 1..Len(o), m \in 1..Len(spans) : k <= m => o[i][1] <= spans[m][1]

(* A further span begins a new one. *)
LEMMA MergeAppends ==
  ASSUME NEW spans \in Seq(Span), ByStart(spans), NEW k \in 1..Len(spans),
         NEW o, Merged(spans, k - 1, o),
         o # <<>> => Last(o)[2] < spans[k][1]
  PROVE  Merged(spans, k, Append(o, spans[k]))
<1> DEFINE n == Len(o)
           t == Append(o, spans[k])
<1>1. o \in Seq(Span) /\ n \in Nat /\ spans[k] \in Span
      /\ \A i \in 1..n : o[i] \in Span
  BY DEF Merged
<1>2. /\ t \in Seq(Span) /\ Len(t) = n + 1 /\ t[n + 1] = spans[k]
      /\ \A i \in 1..n : t[i] = o[i]
  BY <1>1
<1> HIDE DEF t
<1>3. \A i \in 1..(n + 1) : i \in 1..n \/ i = n + 1
  BY <1>1
<1>4. \A p \in Span : p[1] \in Int /\ p[2] \in Int /\ p[1] < p[2]
  BY DEF Span
<1>5. k - 1 <= k /\ \A m \in 1..k : m \in 1..(k - 1) \/ m = k
  OBVIOUS
<1>6. \A i \in 1..n : o[i][2] < spans[k][1]
  <2> SUFFICES ASSUME NEW i \in 1..n PROVE o[i][2] < spans[k][1]
    OBVIOUS
  <2>1. n \in 1..n /\ Last(o) = o[n] /\ o # <<>>
    BY <1>1 DEF Last
  <2>2. o[n][2] < spans[k][1]
    BY <2>1
  <2>3. i < n => o[i][2] < o[n][1]
    BY <2>1 DEF Merged
  <2>4. o[i] \in Span /\ o[n] \in Span
    BY <1>1, <2>1
  <2>5. CASE i = n
    BY <2>2, <2>5
  <2>6. CASE i < n
    BY <1>1, <1>4, <2>2, <2>3, <2>4, <2>6
  <2> QED BY <1>1, <2>5, <2>6
<1>7. \A i, j \in 1..(n + 1) : i < j => t[i][2] < t[j][1]
  <2> SUFFICES ASSUME NEW i \in 1..(n + 1), NEW j \in 1..(n + 1), i < j
               PROVE  t[i][2] < t[j][1]
    OBVIOUS
  <2>1. i \in 1..n
    BY <1>1
  <2>2. CASE j \in 1..n
    BY <1>2, <2>1, <2>2 DEF Merged
  <2>3. CASE j = n + 1
    BY <1>2, <1>6, <2>1, <2>3
  <2> QED BY <1>3, <2>2, <2>3
<1>8. \A m \in 1..k : \E i \in 1..(n + 1) : Within(spans[m], t[i])
  <2> SUFFICES ASSUME NEW m \in 1..k
               PROVE  \E i \in 1..(n + 1) : Within(spans[m], t[i])
    OBVIOUS
  <2>1. CASE m = k
    <3>1. n + 1 \in 1..(n + 1) /\ Within(spans[k], t[n + 1])
      BY <1>1, <1>2, <1>4 DEF Within
    <3> QED BY <2>1, <3>1
  <2>2. CASE m \in 1..(k - 1)
    <3>1. PICK i \in 1..n : Within(spans[m], o[i])
      BY <2>2 DEF Merged
    <3>2. i \in 1..(n + 1) /\ t[i] = o[i]
      BY <1>1, <1>2
    <3> QED BY <3>1, <3>2
  <2> QED BY <1>5, <2>1, <2>2
<1>9. \A i \in 1..(n + 1), m \in 1..Len(spans) :
        k <= m => t[i][1] <= spans[m][1]
  <2> SUFFICES ASSUME NEW i \in 1..(n + 1), NEW m \in 1..Len(spans), k <= m
               PROVE  t[i][1] <= spans[m][1]
    OBVIOUS
  <2>1. CASE i \in 1..n
    <3>1. k - 1 <= m
      OBVIOUS
    <3>2. o[i][1] <= spans[m][1]
      BY <2>1, <3>1 DEF Merged
    <3> QED BY <1>2, <2>1, <3>2
  <2>2. CASE i = n + 1
    <3>1. CASE k < m
      BY <1>2, <2>2, <3>1 DEF ByStart
    <3>2. CASE k = m
      BY <1>1, <1>2, <1>4, <2>2, <3>2
    <3> QED BY <3>1, <3>2
  <2> QED BY <1>3, <2>1, <2>2
<1> QED BY <1>2, <1>7, <1>8, <1>9 DEF Merged, t

(* Or it is joined to the last. *)
LEMMA MergeJoins ==
  ASSUME NEW spans \in Seq(Span), ByStart(spans), NEW k \in 1..Len(spans),
         NEW o, Merged(spans, k - 1, o), o # <<>>
  PROVE  Merged(spans, k, Append(Front(o), <<Last(o)[1],
                                   Max({Last(o)[2], spans[k][2]})>>))
<1> DEFINE n == Len(o)
           l == Last(o)
           j == <<l[1], Max({l[2], spans[k][2]})>>
           t == Append(Front(o), j)
<1>1. /\ o \in Seq(Span) /\ n \in Nat \ {0} /\ spans[k] \in Span
      /\ \A i \in 1..n : o[i] \in Span
  BY DEF Merged
<1>2. \A p \in Span : p[1] \in Int /\ p[2] \in Int /\ p[1] < p[2]
  BY DEF Span
<1>3. n \in 1..n /\ l = o[n] /\ l \in Span
  BY <1>1 DEF Last
<1>4. /\ j \in Span /\ j[1] = o[n][1] /\ j[2] >= o[n][2]
      /\ j[2] >= spans[k][2]
  <2>1. l[2] \in Int /\ spans[k][2] \in Int /\ l[1] \in Int /\ l[1] < l[2]
    BY <1>1, <1>2, <1>3
  <2>2. Max({l[2], spans[k][2]}) = IF l[2] >= spans[k][2] THEN l[2]
                                   ELSE spans[k][2]
    BY <2>1, MaxOfTwo
  <2> HIDE DEF l
  <2>3. j \in Span
    BY <2>1, <2>2 DEF Span
  <2> QED BY <1>3, <2>1, <2>2, <2>3
<1> HIDE DEF j
<1>5. /\ t \in Seq(Span) /\ Len(t) = n /\ t[n] = j
      /\ \A i \in 1..(n - 1) : t[i] = o[i]
  <2>1. Front(o) = [i \in 1..(n - 1) |-> o[i]]
    BY <1>1 DEF Front
  <2>2. Front(o) \in Seq(Span) /\ Len(Front(o)) = n - 1
    BY <1>1, <2>1
  <2> QED BY <1>1, <1>4, <2>1, <2>2
<1> HIDE DEF t, l
<1>6. \A i \in 1..n : i \in 1..(n - 1) \/ i = n
  BY <1>1
<1>7. \A i \in 1..n : t[i][1] = o[i][1] /\ t[i][2] >= o[i][2]
  <2> SUFFICES ASSUME NEW i \in 1..n
               PROVE  t[i][1] = o[i][1] /\ t[i][2] >= o[i][2]
    OBVIOUS
  <2>1. CASE i = n
    BY <1>4, <1>5, <2>1
  <2>2. CASE i \in 1..(n - 1)
    <3>1. t[i] = o[i] /\ o[i] \in Span
      BY <1>1, <1>5, <2>2
    <3>2. o[i][2] \in Int
      BY <1>2, <3>1
    <3> QED BY <3>1, <3>2
  <2> QED BY <1>6, <2>1, <2>2
<1>8. \A a, b \in 1..n : a < b => t[a][2] < t[b][1]
  <2> SUFFICES ASSUME NEW a \in 1..n, NEW b \in 1..n, a < b
               PROVE  t[a][2] < t[b][1]
    OBVIOUS
  <2>1. a \in 1..(n - 1)
    BY <1>1
  <2>2. o[a][2] < o[b][1]
    BY DEF Merged
  <2> QED BY <1>5, <1>7, <2>1, <2>2
<1>9. \A m \in 1..k : \E i \in 1..n : Within(spans[m], t[i])
  <2> SUFFICES ASSUME NEW m \in 1..k
               PROVE  \E i \in 1..n : Within(spans[m], t[i])
    OBVIOUS
  <2>1. CASE m = k
    <3>1. k - 1 <= k
      OBVIOUS
    <3>2. o[n][1] <= spans[k][1]
      BY <1>3, <3>1 DEF Merged
    <3>3. Within(spans[k], t[n])
      BY <1>4, <1>5, <3>2 DEF Within
    <3> QED BY <1>3, <2>1, <3>3
  <2>2. CASE m \in 1..(k - 1)
    <3>1. PICK i \in 1..n : Within(spans[m], o[i])
      BY <2>2 DEF Merged
    <3>2. /\ o[i] \in Span /\ t[i] \in Span /\ spans[m] \in Span
          /\ t[i][1] = o[i][1] /\ t[i][2] >= o[i][2]
      BY <1>1, <1>5, <1>7
    <3> QED BY <1>2, <3>1, <3>2 DEF Within
  <2>3. m \in 1..(k - 1) \/ m = k
    OBVIOUS
  <2> QED BY <2>1, <2>2, <2>3
<1>10. \A i \in 1..n, m \in 1..Len(spans) :
         k <= m => t[i][1] <= spans[m][1]
  <2> SUFFICES ASSUME NEW i \in 1..n, NEW m \in 1..Len(spans), k <= m
               PROVE  t[i][1] <= spans[m][1]
    OBVIOUS
  <2>1. k - 1 <= m
    OBVIOUS
  <2>2. o[i][1] <= spans[m][1]
    BY <2>1 DEF Merged
  <2> QED BY <1>7, <2>2
<1>11. Merged(spans, k, t)
  BY <1>5, <1>8, <1>9, <1>10 DEF Merged
<1> QED BY <1>11 DEF t, l, j

(* What Merge_spans returns. *)
LEMMA MergeSeparates ==
  ASSUME NEW spans \in Seq(Span), ByStart(spans), NEW gap \in Nat
  PROVE  Merged(spans, Len(spans), Merge_spans(spans, gap))
<1> DEFINE n == Len(spans)
<1>1. n \in Nat
  OBVIOUS
<1>2. PICK out : Merges(spans, gap, out, n) /\ Merge_spans(spans, gap) = out[n]
  BY <1>1, MergeIs
<1> DEFINE Bad == {k \in 0..n : ~Merged(spans, k, out[k])}
<1>3. SUFFICES ASSUME Bad # {} PROVE FALSE
  BY <1>1, <1>2
<1>4. PICK k \in Bad : \A m \in Bad : k <= m
  <2>1. Bad \subseteq Nat
    BY <1>1
  <2> HIDE DEF Bad
  <2> QED BY <1>3, <2>1, LeastIn
<1>5. k \in 0..n /\ ~Merged(spans, k, out[k])
  OBVIOUS
<1>6. out[k] = MergeStep(spans, gap, out, k)
  BY <1>2, <1>5 DEF Merges
<1>7. CASE k = 0
  <2>1. out[0] = <<>>
    BY <1>6, <1>7 DEF MergeStep
  <2>2. Merged(spans, 0, <<>>)
    BY DEF Merged
  <2> QED BY <1>5, <1>7, <2>1, <2>2
<1>8. CASE k # 0
  <2>1. k \in 1..n /\ k - 1 \in 0..n /\ k - 1 \notin Bad
    BY <1>1, <1>4, <1>5, <1>8
  <2> DEFINE o == out[k - 1]
  <2>2. Merged(spans, k - 1, o)
    BY <2>1
  <2> HIDE DEF o
  <2>3. CASE o # <<>> /\ spans[k][1] - Last(o)[2] <= gap
    <3>1. out[k] = Append(Front(o), <<Last(o)[1],
                                      Max({Last(o)[2], spans[k][2]})>>)
      BY <1>6, <1>8, <2>3 DEF MergeStep, o
    <3>2. Merged(spans, k, out[k])
      BY <2>1, <2>2, <2>3, <3>1, MergeJoins
    <3> QED BY <1>5, <3>2
  <2>4. CASE ~(o # <<>> /\ spans[k][1] - Last(o)[2] <= gap)
    <3>1. out[k] = Append(o, spans[k])
      BY <1>6, <1>8, <2>4 DEF MergeStep, o
    <3>2. ASSUME o # <<>> PROVE Last(o)[2] < spans[k][1]
      <4>1. o \in Seq(Span) /\ spans[k] \in Span
        BY <2>1, <2>2 DEF Merged
      <4>2. Last(o) \in Span
        BY <3>2, <4>1 DEF Last
      <4>3. Last(o)[2] \in Int /\ spans[k][1] \in Int
        BY <4>1, <4>2 DEF Span
      <4> QED BY <2>4, <3>2, <4>3
    <3>3. Merged(spans, k, out[k])
      BY <2>1, <2>2, <3>1, <3>2, MergeAppends
    <3> QED BY <1>5, <3>3
  <2> QED BY <2>3, <2>4
<1> QED BY <1>7, <1>8

-----------------------------------------------------------------------------
(* The events of one channel, and of several. *)

(* A union of finitely many finite sets. *)
LEMMA UnionIsFinite ==
  ASSUME NEW J, IsFiniteSet(J), NEW f, \A x \in J : IsFiniteSet(f[x])
  PROVE  IsFiniteSet(UNION {f[x] : x \in J})
<1> DEFINE T == {f[x] : x \in J}
           g == [x \in J |-> f[x]]
<1>1. g \in Surjection(J, T)
  BY DEF Surjection
<1>2. IsFiniteSet(T)
  <2> HIDE DEF T, g
  <2> QED BY <1>1, FS_Surjection
<1>3. \A t \in T : IsFiniteSet(t)
  OBVIOUS
<1> HIDE DEF T
<1>4. IsFiniteSet(UNION T)
  BY <1>2, <1>3, FS_UNION
<1> QED BY <1>4 DEF T

(* Cutting a span gives finitely many spans. *)
LEMMA CutIsFinite ==
  ASSUME NEW span \in Int \X Int, NEW gaps, gaps \subseteq Int
  PROVE  IsFiniteSet(Cut(span, gaps)) /\ Cut(span, gaps) \subseteq Span
<1> DEFINE B == Bounds(span, gaps)
           I == {g \in gaps : span[1] < g /\ g < span[2]}
<1>1. span[1] \in Int /\ span[2] \in Int
  OBVIOUS
<1>2. IsFiniteSet(I)
  <2>1. IsFiniteSet(span[1]..span[2])
    BY <1>1, FS_Interval, Zenon
  <2>2. I \subseteq span[1]..span[2]
    <3> SUFFICES ASSUME NEW g \in gaps, span[1] < g, g < span[2]
                 PROVE  g \in span[1]..span[2]
      OBVIOUS
    <3>1. g \in Int
      OBVIOUS
    <3> QED BY <1>1, <3>1
  <2> HIDE DEF I
  <2> QED BY <2>1, <2>2, FS_Subset
<1>3. B = (I \cup {span[1]}) \cup {span[2]}
  BY DEF Bounds
<1>4. B \subseteq Int
  BY <1>1 DEF Bounds
<1> HIDE DEF I
<1>5. IsFiniteSet(B)
  <2>1. IsFiniteSet(I \cup {span[1]})
    BY <1>2, FS_AddElement
  <2>2. IsFiniteSet((I \cup {span[1]}) \cup {span[2]})
    BY <2>1, FS_AddElement
  <2> QED BY <1>3, <2>2
<1>6. Cut(span, gaps) \subseteq B \X B
        /\ \A e \in Cut(span, gaps) : e[1] < e[2]
  BY CutIs
<1> HIDE DEF B
<1>7. IsFiniteSet(B \X B)
  BY <1>5, FS_Product
<1>8. IsFiniteSet(Cut(span, gaps))
  BY <1>6, <1>7, FS_Subset
<1>9. Cut(span, gaps) \subseteq Span
  BY <1>4, <1>6 DEF Span
<1> QED BY <1>8, <1>9

(* The stretches of a mask are finitely many spans within it. *)
LEMMA StretchesAreSpans ==
  ASSUME NEW mask \in Seq(BOOLEAN)
  PROVE  /\ IsFiniteSet(Stretches(mask)) /\ Stretches(mask) \subseteq Span
         /\ \A s \in Stretches(mask) : 1 <= s[1] /\ s[2] <= Len(mask) + 1
<1> DEFINE n == Len(mask)
           A == 1..n
           B == 2..(n + 1)
<1>1. n \in Nat /\ 1 \in Int /\ 2 \in Int /\ n \in Int /\ n + 1 \in Int
  OBVIOUS
<1>2. IsFiniteSet(A) /\ IsFiniteSet(B)
  BY <1>1, FS_Interval, Zenon
<1>3. Stretches(mask) \subseteq A \X B
        /\ \A s \in Stretches(mask) : s[1] < s[2]
  BY DEF Stretches
<1>4. \A s \in A \X B : /\ s \in Int \X Int
                        /\ 1 <= s[1] /\ s[2] <= n + 1
  BY <1>1
<1> HIDE DEF A, B, n
<1>5. IsFiniteSet(A \X B)
  BY <1>2, FS_Product
<1>6. IsFiniteSet(Stretches(mask))
  BY <1>3, <1>5, FS_Subset
<1>7. Stretches(mask) \subseteq Span
  BY <1>3, <1>4 DEF Span
<1> QED BY <1>3, <1>4, <1>6, <1>7 DEF n

(* Sorting and merging a finite set of spans. *)
MergedSpans(S, gap) == Merge_spans(Sorted_spans(S), gap)

(* Merged spans are sorted, apart, and around all that were merged. *)
LEMMA MergedSpansAre ==
  ASSUME NEW S, IsFiniteSet(S), S \subseteq Span, NEW gap \in Nat
  PROVE  LET M == MergedSpans(S, gap)
         IN  /\ M \in Seq(Span)
             /\ \A i, j \in DOMAIN M : i < j => M[i][2] < M[j][1]
             /\ \A p \in S : \E i \in DOMAIN M : Within(p, M[i])
<1> DEFINE s == Sorted_spans(S)
           M == MergedSpans(S, gap)
<1>1. S \subseteq Int \X Int
  BY DEF Span
<1>2. /\ s \in Seq(S)
      /\ \A p \in S : \E n \in DOMAIN s : s[n] = p
      /\ \A i, j \in DOMAIN s : i < j => s[i][1] <= s[j][1]
  BY <1>1, SortedEnumerates
<1> HIDE DEF s
<1>3. s \in Seq(Span) /\ DOMAIN s = 1..Len(s)
  BY <1>2
<1>4. ByStart(s)
  BY <1>2 DEF ByStart
<1>5. Merged(s, Len(s), M)
  BY <1>3, <1>4, MergeSeparates DEF MergedSpans, s
<1> HIDE DEF M
<1>6. M \in Seq(Span) /\ DOMAIN M = 1..Len(M)
  BY <1>5 DEF Merged
<1>7. ASSUME NEW p \in S PROVE \E i \in DOMAIN M : Within(p, M[i])
  <2>1. PICK n \in DOMAIN s : s[n] = p
    BY <1>2
  <2>2. PICK i \in 1..Len(M) : Within(s[n], M[i])
    BY <1>3, <1>5, <2>1 DEF Merged
  <2> QED BY <1>6, <2>1, <2>2
<1>8. \A i, j \in DOMAIN M : i < j => M[i][2] < M[j][1]
  BY <1>5, <1>6 DEF Merged
<1> QED BY <1>6, <1>7, <1>8 DEF M

(* The parts of find_events. *)
Long(s) == s[2] - s[1] >= Max({1, MinLen})
Padded(n, s) == <<Max({1, s[1] - Pad}), Min({n + 1, s[2] + Pad})>>
Inside(mask, gaps) == {g \in gaps : g \in 2..Len(mask)}
LongPieces(mask, gaps, s) ==
  {e \in Cut(Padded(Len(mask), s), Inside(mask, gaps)) : Long(e)}

(* find_events with its steps named. *)
LEMMA FindEventsIs ==
  ASSUME NEW mask, NEW gaps
  PROVE  LET M == MergedSpans(Stretches(mask), MergeGap)
         IN  find_events(mask, gaps) =
               UNION {LongPieces(mask, gaps, M[i]) :
                        i \in {j \in DOMAIN M : Long(M[j])}}
BY DEF find_events, MergedSpans, LongPieces, Long, Padded, Inside

(* The lengths that find_events works with. *)
LEMMA Numbers == MergeGap \in Nat /\ MinLen \in Nat /\ Pad \in Nat
BY SlicingAssumption

(* A channel has finitely many events, and they are spans. *)
LEMMA FindEventsAreSpans ==
  ASSUME NEW mask \in Seq(BOOLEAN), NEW gaps, gaps \subseteq Int
  PROVE  /\ IsFiniteSet(find_events(mask, gaps))
         /\ find_events(mask, gaps) \subseteq Span
<1> DEFINE M == MergedSpans(Stretches(mask), MergeGap)
           J == {j \in DOMAIN M : Long(M[j])}
           f == [i \in J |-> LongPieces(mask, gaps, M[i])]
<1>1. M \in Seq(Span)
  BY StretchesAreSpans, MergedSpansAre, Numbers
<1>2. find_events(mask, gaps) = UNION {LongPieces(mask, gaps, M[i]) : i \in J}
  BY FindEventsIs
<1> HIDE DEF M
<1>3. IsFiniteSet(J)
  <2>1. Len(M) \in Int /\ 1 \in Int
    BY <1>1
  <2>2. IsFiniteSet(1..Len(M))
    BY <2>1, FS_Interval, Zenon
  <2>3. J \subseteq 1..Len(M)
    BY <1>1
  <2> HIDE DEF J
  <2> QED BY <2>2, <2>3, FS_Subset
<1>4. \A i \in J : IsFiniteSet(LongPieces(mask, gaps, M[i]))
                     /\ LongPieces(mask, gaps, M[i]) \subseteq Span
  <2> SUFFICES ASSUME NEW i \in J
               PROVE  /\ IsFiniteSet(LongPieces(mask, gaps, M[i]))
                      /\ LongPieces(mask, gaps, M[i]) \subseteq Span
    OBVIOUS
  <2> DEFINE q == Padded(Len(mask), M[i])
             C == Cut(q, Inside(mask, gaps))
  <2>1. M[i][1] \in Int /\ M[i][2] \in Int
    BY <1>1 DEF Span
  <2>2. Len(mask) + 1 \in Int /\ M[i][1] - Pad \in Int /\ M[i][2] + Pad \in Int
    BY <2>1, Numbers
  <2>3. Max({1, M[i][1] - Pad}) \in Int
        /\ Min({Len(mask) + 1, M[i][2] + Pad}) \in Int
    BY <2>2, MaxOfTwo, MinOfTwo
  <2>4. q \in Int \X Int
    BY <2>3 DEF Padded
  <2>5. Inside(mask, gaps) \subseteq Int
    BY DEF Inside
  <2> HIDE DEF q
  <2>6. IsFiniteSet(C) /\ C \subseteq Span
    BY <2>4, <2>5, CutIsFinite
  <2>7. LongPieces(mask, gaps, M[i]) \subseteq C
    BY DEF LongPieces, q
  <2> HIDE DEF C
  <2> QED BY <2>6, <2>7, FS_Subset
<1>5. IsFiniteSet(UNION {f[i] : i \in J})
  <2>1. \A i \in J : IsFiniteSet(f[i])
    BY <1>4
  <2> HIDE DEF f, J
  <2> QED BY <1>3, <2>1, UnionIsFinite
<1>6. {f[i] : i \in J} = {LongPieces(mask, gaps, M[i]) : i \in J}
  OBVIOUS
<1>7. IsFiniteSet(find_events(mask, gaps))
  <2> HIDE DEF f, J
  <2> QED BY <1>2, <1>5, <1>6
<1>8. find_events(mask, gaps) \subseteq Span
  BY <1>2, <1>4
<1> QED BY <1>7, <1>8

(* A stretch that is long enough, but for what the channel's own gaps cut   *)
(* off it, is in an event of the channel.                                   *)
LEMMA StretchIsInEvent ==
  ASSUME NEW mask \in Seq(BOOLEAN), NEW gaps, gaps \subseteq Int,
         NEW s \in Stretches(mask), s[2] - s[1] >= MinLen,
         NEW p \in Span, Within(p, s), Clear(p, gaps), p[2] - p[1] > MinLen
  PROVE  \E e \in find_events(mask, gaps) : Within(p, e)
<1> DEFINE M == MergedSpans(Stretches(mask), MergeGap)
           n == Len(mask)
<1>1. PICK i \in DOMAIN M : Within(s, M[i])
  BY StretchesAreSpans, MergedSpansAre, Numbers
<1>2. M \in Seq(Span)
  BY StretchesAreSpans, MergedSpansAre, Numbers
<1> HIDE DEF M
<1> DEFINE m == M[i]
           q == Padded(n, m)
           in == Inside(mask, gaps)
<1>3. /\ m[1] \in Int /\ m[2] \in Int /\ s[1] \in Int /\ s[2] \in Int
      /\ p[1] \in Int /\ p[2] \in Int
      /\ p[1] < p[2] /\ s[1] < s[2] /\ 1 <= s[1] /\ s[2] <= n + 1
      /\ n \in Nat
  <2>1. m \in Span /\ s \in Span
    BY <1>2, StretchesAreSpans
  <2>2. 1 <= s[1] /\ s[2] <= n + 1
    BY StretchesAreSpans
  <2> HIDE DEF m
  <2> QED BY <2>1, <2>2 DEF Span
<1>4. /\ m[1] <= s[1] /\ s[2] <= m[2] /\ s[1] <= p[1] /\ p[2] <= s[2]
  BY <1>1 DEF Within
<1> HIDE DEF m
<1>5. Long(m)
  <2>1. Max({1, MinLen}) = IF 1 >= MinLen THEN 1 ELSE MinLen
    BY MaxOfTwo, Numbers
  <2> QED BY <1>3, <1>4, <2>1, Numbers DEF Long
<1>6. /\ q[1] \in Int /\ q[2] \in Int /\ q = <<q[1], q[2]>>
      /\ q[1] <= s[1] /\ s[2] <= q[2]
  <2>1. /\ m[1] - Pad \in Int /\ m[2] + Pad \in Int /\ n + 1 \in Int
        /\ m[1] - Pad <= s[1] /\ s[2] <= m[2] + Pad
    BY <1>3, <1>4, Numbers, SMTT(40)
  <2>2. /\ q[1] = IF 1 >= m[1] - Pad THEN 1 ELSE m[1] - Pad
        /\ q[2] = IF n + 1 <= m[2] + Pad THEN n + 1 ELSE m[2] + Pad
        /\ q = <<q[1], q[2]>>
    BY <2>1, MaxOfTwo, MinOfTwo DEF Padded
  <2> HIDE DEF q
  <2> QED BY <1>3, <2>1, <2>2
<1> HIDE DEF q
<1>7. q \in Span /\ Within(p, q)
  BY <1>3, <1>4, <1>6 DEF Span, Within
<1>8. in \subseteq Int /\ Clear(p, in)
  BY DEF Inside, Clear
<1> HIDE DEF in
<1>9. PICK e \in Cut(q, in) : Within(p, e)
  BY <1>7, <1>8, ClearIsInOnePiece
<1>10. Long(e)
  <2>1. e \in Span
    BY <1>7, <1>8, PiecesAreClear
  <2>2. e[1] \in Int /\ e[2] \in Int /\ e[1] <= p[1] /\ p[2] <= e[2]
    BY <1>9, <2>1 DEF Span, Within
  <2>3. Max({1, MinLen}) = IF 1 >= MinLen THEN 1 ELSE MinLen
    BY MaxOfTwo, Numbers
  <2> QED BY <1>3, <2>2, <2>3, Numbers, SMTT(40) DEF Long
<1>11. e \in LongPieces(mask, gaps, m)
  BY <1>9, <1>10 DEF LongPieces, q, in
<1>12. e \in find_events(mask, gaps)
  BY <1>1, <1>5, <1>11, FindEventsIs DEF M, m
<1> QED BY <1>9, <1>12

(* The channels of a capture. *)
GapsOf(gaps) == UNION {gaps[c] : c \in DOMAIN gaps}
FoundEvents(masks, gaps) ==
  UNION {find_events(masks[c], gaps[c]) : c \in DOMAIN masks}

(* _events_s with its steps named. *)
LEMMA EventsAre ==
  ASSUME NEW masks, NEW gaps
  PROVE  LET M == MergedSpans(FoundEvents(masks, gaps), 0)
         IN  events_s(masks, gaps) =
               UNION {{e \in Cut(M[i], GapsOf(gaps)) : e[2] - e[1] > MinLen} :
                        i \in DOMAIN M}
BY DEF events_s, MergedSpans, FoundEvents, GapsOf

(* So have the channels of a capture together. *)
LEMMA FoundAreSpans ==
  ASSUME NEW a \in Activity
  PROVE  /\ IsFiniteSet(FoundEvents(a.masks, a.gaps))
         /\ FoundEvents(a.masks, a.gaps) \subseteq Span
         /\ GapsOf(a.gaps) \subseteq Int
<1> DEFINE D == DOMAIN a.masks
           f == [c \in D |-> find_events(a.masks[c], a.gaps[c])]
<1>1. /\ IsFiniteSet(D) /\ DOMAIN a.gaps = D
      /\ \A c \in D : a.masks[c] \in Seq(BOOLEAN) /\ a.gaps[c] \subseteq Nat
  BY ActivityAssumption
<1> HIDE DEF D
<1>2. \A c \in D : /\ IsFiniteSet(find_events(a.masks[c], a.gaps[c]))
                   /\ find_events(a.masks[c], a.gaps[c]) \subseteq Span
  BY <1>1, FindEventsAreSpans
<1>3. {f[c] : c \in D} = {find_events(a.masks[c], a.gaps[c]) : c \in D}
  OBVIOUS
<1>4. \A c \in D : IsFiniteSet(f[c])
  BY <1>2
<1> HIDE DEF f
<1>5. IsFiniteSet(UNION {f[c] : c \in D})
  <2>1. IsFiniteSet(D) /\ \A c \in D : IsFiniteSet(f[c])
    BY <1>1, <1>4
  <2> QED BY <2>1, UnionIsFinite
<1>6. IsFiniteSet(FoundEvents(a.masks, a.gaps))
  BY <1>3, <1>5 DEF FoundEvents, D
<1>7. FoundEvents(a.masks, a.gaps) \subseteq Span
  BY <1>2 DEF FoundEvents, D
<1>8. GapsOf(a.gaps) \subseteq Int
  BY <1>1 DEF GapsOf
<1> QED BY <1>6, <1>7, <1>8

(* No event contains a gap, and no two overlap. *)
LEMMA EventsAreClear ==
  ASSUME NEW a \in Activity, NEW e \in events_s(a.masks, a.gaps)
  PROVE  /\ Clear(e, GapsOf(a.gaps))
         /\ \A f \in events_s(a.masks, a.gaps) : e = f \/ Disjoint(e, f)
<1> DEFINE S == FoundEvents(a.masks, a.gaps)
           M == MergedSpans(S, 0)
           G == GapsOf(a.gaps)
<1>1. IsFiniteSet(S) /\ S \subseteq Span /\ G \subseteq Int
  BY FoundAreSpans
<1>2. events_s(a.masks, a.gaps) =
        UNION {{d \in Cut(M[i], G) : d[2] - d[1] > MinLen} : i \in DOMAIN M}
  BY EventsAre
<1> HIDE DEF S, G
<1>3. /\ M \in Seq(Span)
      /\ \A i, j \in DOMAIN M : i < j => M[i][2] < M[j][1]
  BY <1>1, MergedSpansAre
<1> HIDE DEF M
<1>4. PICK i \in DOMAIN M : e \in Cut(M[i], G)
  BY <1>2
<1>5. M[i] \in Span /\ i \in Int
  BY <1>3
<1>6. Clear(e, G) /\ e \in Span /\ Within(e, M[i])
  BY <1>1, <1>4, <1>5, PiecesAreClear
<1>7. ASSUME NEW f \in events_s(a.masks, a.gaps)
      PROVE  e = f \/ Disjoint(e, f)
  <2>1. PICK j \in DOMAIN M : f \in Cut(M[j], G)
    BY <1>2
  <2>2. M[j] \in Span /\ j \in Int
    BY <1>3
  <2>3. f \in Span /\ Within(f, M[j])
    BY <1>1, <2>1, <2>2, PiecesAreClear
  <2>4. CASE i = j
    BY <1>1, <1>4, <1>5, <2>1, <2>4, PiecesAreClear
  <2>5. CASE i < j
    <3>1. M[i][2] < M[j][1]
      BY <1>3, <2>5
    <3> QED BY <1>5, <1>6, <2>2, <2>3, <3>1 DEF Span, Within, Disjoint
  <2>6. CASE j < i
    <3>1. M[j][2] < M[i][1]
      BY <1>3, <2>6
    <3> QED BY <1>5, <1>6, <2>2, <2>3, <3>1 DEF Span, Within, Disjoint
  <2> QED BY <1>5, <2>2, <2>4, <2>5, <2>6
<1> QED BY <1>6, <1>7 DEF G

(* Every long piece of a stretch is in an event. *)
LEMMA StretchesAreFound ==
  ASSUME NEW a \in Activity, NEW c \in DOMAIN a.masks,
         NEW s \in Stretches(a.masks[c]), s[2] - s[1] >= MinLen,
         NEW p \in Cut(s, GapsOf(a.gaps)), p[2] - p[1] > MinLen
  PROVE  \E e \in events_s(a.masks, a.gaps) : Within(p, e)
<1> DEFINE S == FoundEvents(a.masks, a.gaps)
           M == MergedSpans(S, 0)
           G == GapsOf(a.gaps)
<1>1. IsFiniteSet(S) /\ S \subseteq Span /\ G \subseteq Int
  BY FoundAreSpans
<1>2. events_s(a.masks, a.gaps) =
        UNION {{d \in Cut(M[i], G) : d[2] - d[1] > MinLen} : i \in DOMAIN M}
  BY EventsAre
<1>3. /\ a.masks[c] \in Seq(BOOLEAN) /\ c \in DOMAIN a.gaps
      /\ a.gaps[c] \subseteq Int
  BY ActivityAssumption
<1>4. s \in Span
  BY <1>3, StretchesAreSpans
<1>5. p \in Span /\ Within(p, s) /\ Clear(p, G)
  <2> HIDE DEF G
  <2> QED BY <1>1, <1>4, PiecesAreClear DEF G
<1>6. Clear(p, a.gaps[c])
  BY <1>3, <1>5 DEF Clear, GapsOf
<1>7. PICK d \in find_events(a.masks[c], a.gaps[c]) : Within(p, d)
  BY <1>3, <1>5, <1>6, StretchIsInEvent
<1>8. d \in S
  BY DEF FoundEvents
<1> HIDE DEF S, G
<1>9. M \in Seq(Span) /\ \E i \in DOMAIN M : Within(d, M[i])
  BY <1>1, <1>8, MergedSpansAre
<1> HIDE DEF M
<1>10. PICK i \in DOMAIN M : Within(d, M[i])
  BY <1>9
<1>11. M[i] \in Span /\ d \in Span
  BY <1>1, <1>8, <1>9
<1>12. Within(p, M[i])
  BY <1>5, <1>7, <1>10, <1>11 DEF Within, Span
<1>13. PICK e \in Cut(M[i], G) : Within(p, e)
  BY <1>1, <1>5, <1>11, <1>12, ClearIsInOnePiece
<1>14. e[2] - e[1] > MinLen
  <2>1. e \in Span
    BY <1>1, <1>11, PiecesAreClear
  <2> QED BY <1>5, <1>13, <2>1, Numbers DEF Span, Within
<1> QED BY <1>2, <1>13, <1>14

-----------------------------------------------------------------------------
(* Where a behaviour of the analysis is, as far as its events are concerned.*)
EventsInv ==
  /\ stage = "find events" => given \in Activity
  /\ stage = "found" => /\ given \in Activity
                        /\ made.events = events_s(given.masks, given.gaps)

(* The events are those of the activity that was given. *)
LEMMA EventsInvHolds == Spec => []EventsInv
<1>1. Init => EventsInv
  BY DEF Init, EventsInv
<1>2. EventsInv /\ [Next]_vars => EventsInv'
  <2> SUFFICES ASSUME EventsInv, [Next]_vars PROVE EventsInv'
    OBVIOUS
  <2>1. CASE FindEvents
    BY <2>1 DEF FindEvents, EventsInv
  <2>2. CASE SliceToRuns
    BY <2>2 DEF SliceToRuns, EventsInv
  <2>3. CASE InferTiming
    BY <2>3 DEF InferTiming, EventsInv
  <2>4. CASE RunAll
    BY <2>4 DEF RunAll, EventsInv
  <2>5. CASE Align
    BY <2>5 DEF Align, EventsInv
  <2>6. CASE Search_checksum
    BY <2>6 DEF Search_checksum, EventsInv
  <2>7. CASE UNCHANGED vars
    BY <2>7 DEF vars, EventsInv
  <2> QED BY <2>1, <2>2, <2>3, <2>4, <2>5, <2>6, <2>7 DEF Next
<1> QED BY <1>1, <1>2, PTL DEF Spec

(* Whatever the masks and the gaps of the channels, no event of analyze()   *)
(* contains a place where a channel lost samples, and no two events share a *)
(* sample (analyze.py, _events_s).                                          *)
THEOREM EventsKeepClearOfGapsAlways == Spec => []EventsKeepClearOfGaps
<1>1. EventsInv => EventsKeepClearOfGaps
  <2> SUFFICES ASSUME EventsInv, stage = "found",
                      NEW e \in made.events
               PROVE  /\ \A g \in AllGaps : g <= e[1] \/ g >= e[2]
                      /\ \A f \in made.events :
                           e = f \/ e[2] <= f[1] \/ f[2] <= e[1]
    BY DEF EventsKeepClearOfGaps
  <2>1. given \in Activity /\ e \in events_s(given.masks, given.gaps)
          /\ made.events = events_s(given.masks, given.gaps)
    BY DEF EventsInv
  <2>2. /\ Clear(e, GapsOf(given.gaps))
        /\ \A f \in made.events : e = f \/ Disjoint(e, f)
    BY <2>1, EventsAreClear
  <2> QED BY <2>2 DEF Clear, Disjoint, GapsOf, AllGaps
<1> QED BY <1>1, EventsInvHolds, PTL

(* Whatever the masks and the gaps, activity on a channel that is longer    *)
(* than the least length between two gaps is in one event, whole            *)
(* (analyze.py, _events_s; dsp.py, find_events).                            *)
THEOREM ActivityIsReportedAlways == Spec => []ActivityIsReported
<1>1. EventsInv => ActivityIsReported
  <2> SUFFICES ASSUME EventsInv, stage = "found",
                      NEW c \in DOMAIN given.masks,
                      NEW s \in Stretches(given.masks[c]),
                      s[2] - s[1] >= MinLen,
                      NEW p \in Cut(s, AllGaps), p[2] - p[1] > MinLen
               PROVE  \E e \in made.events : e[1] <= p[1] /\ p[2] <= e[2]
    BY DEF ActivityIsReported
  <2>1. given \in Activity
          /\ made.events = events_s(given.masks, given.gaps)
    BY DEF EventsInv
  <2>2. p \in Cut(s, GapsOf(given.gaps))
    BY DEF AllGaps, GapsOf
  <2>3. \E e \in events_s(given.masks, given.gaps) : Within(p, e)
    BY <2>1, <2>2, StretchesAreFound
  <2> QED BY <2>1, <2>3 DEF Within
<1> QED BY <1>1, EventsInvHolds, PTL

-----------------------------------------------------------------------------
(* Slicing a signal. *)

(* The greatest of a set of numbers that has one at all and is bounded.     *)
LEMMA MaxOfSome ==
  ASSUME NEW S, S \subseteq Int, NEW x \in S,
         NEW b \in Int, \A y \in S : y <= b
  PROVE  Max(S) \in S /\ \A y \in S : y <= Max(S)
<1>1. PICK m \in S : m <= b /\ \A y \in S : y <= b => y <= m
  BY GreatestUpTo
<1>2. m \in S /\ \A y \in S : m >= y
  <2> SUFFICES ASSUME NEW y \in S PROVE m >= y
    OBVIOUS
  <2>1. y <= m /\ y \in Int /\ m \in Int
    BY <1>1
  <2> QED BY <2>1
<1>3. Max(S) \in S /\ \A y \in S : Max(S) >= y
  BY <1>2 DEF Max
<1>4. Max(S) \in Int
  BY <1>3
<1> QED
  <2> SUFFICES ASSUME NEW y \in S PROVE y <= Max(S)
    BY <1>3
  <2>1. Max(S) >= y /\ y \in Int
    BY <1>3
  <2> QED BY <1>4, <2>1

(* The least of a set of numbers that has one at all and is bounded. *)
LEMMA MinOfSome ==
  ASSUME NEW S, S \subseteq Int, NEW x \in S,
         NEW b \in Int, \A y \in S : b <= y
  PROVE  Min(S) \in S /\ \A y \in S : Min(S) <= y
<1>0. x >= b
  <2>1. b <= x /\ x \in Int
    OBVIOUS
  <2> QED BY <2>1
<1>1. PICK m \in S : m >= b /\ \A y \in S : y >= b => y >= m
  BY <1>0, LeastFrom
<1>2. m \in S /\ \A y \in S : m <= y
  <2> SUFFICES ASSUME NEW y \in S PROVE m <= y
    OBVIOUS
  <2>1. y \in Int /\ b <= y /\ m \in Int
    OBVIOUS
  <2>2. y >= b
    BY <2>1
  <2>3. y >= m
    BY <1>1, <2>2
  <2> QED BY <2>1, <2>3
<1> QED BY <1>2 DEF Min

(* Numbers neither of which is less than the other. *)
LEMMA SameNumber ==
  ASSUME NEW a \in Int, NEW b \in Int, a <= b, b <= a PROVE a = b
OBVIOUS

(* The decisive samples are among the samples, and are not on the threshold.*)
LEMMA DecisiveAre ==
  ASSUME NEW dev \in Seq(Int), NEW h \in Nat
  PROVE  /\ Decisive(dev, h) \subseteq 1..Len(dev) /\ Len(dev) \in Nat
         /\ \A i \in Decisive(dev, h) : dev[i] \in Int /\ dev[i] # 0
<1>1. DOMAIN dev = 1..Len(dev) /\ Len(dev) \in Nat
      /\ \A i \in 1..Len(dev) : dev[i] \in Int
  OBVIOUS
<1>2. \A x \in Int : magnitude(x) > h => x # 0
  BY DEF magnitude
<1> QED BY <1>1, <1>2 DEF Decisive

(* The sample whose level sample i has. *)
LastDecisive(D, i) == Max({j \in D : j <= i} \cup {Min(D)})

(* It is the last decisive one so far, or else the first of all. *)
LEMMA LastDecisiveIs ==
  ASSUME NEW n \in Nat, NEW D, D \subseteq 1..n, D # {}, NEW i \in Int
  PROVE  /\ (\E j \in D : j <= i)
              => /\ LastDecisive(D, i) \in D /\ LastDecisive(D, i) <= i
                 /\ \A j \in D : j <= i => j <= LastDecisive(D, i)
         /\ ~(\E j \in D : j <= i) => LastDecisive(D, i) = Min(D)
         /\ Min(D) \in D /\ \A j \in D : Min(D) <= j
<1> DEFINE m == Min(D)
<1>0. PICK x \in D : TRUE
  OBVIOUS
<1>1. m \in D /\ \A j \in D : m <= j
  <2>1. D \subseteq Int /\ 1 \in Int /\ \A j \in D : 1 <= j
    OBVIOUS
  <2> QED BY <1>0, <2>1, MinOfSome
<1> HIDE DEF m
<1>2. m \in Int /\ D \subseteq Int
  BY <1>1
<1>3. LastDecisive(D, i) = Max({j \in D : j <= i} \cup {m})
  BY DEF LastDecisive, m
<1>4. ASSUME NEW j0 \in D, j0 <= i
      PROVE  /\ LastDecisive(D, i) \in D /\ LastDecisive(D, i) <= i
             /\ \A j \in D : j <= i => j <= LastDecisive(D, i)
  <2> DEFINE S == {j \in D : j <= i}
  <2>1. m <= i
    <3>1. m <= j0 /\ j0 \in Int
      BY <1>1, <1>2
    <3> QED BY <1>2, <1>4, <3>1
  <2>2. S \cup {m} = S
    BY <1>1, <2>1
  <2>3. S \subseteq Int /\ j0 \in S /\ \A y \in S : y <= i
    BY <1>2, <1>4
  <2>4. Max(S) \in S /\ \A y \in S : y <= Max(S)
    <3> HIDE DEF S
    <3> QED BY <2>3, MaxOfSome
  <2>5. LastDecisive(D, i) = Max(S)
    BY <1>3, <2>2
  <2> QED BY <2>4, <2>5
<1>5. ASSUME ~(\E j \in D : j <= i) PROVE LastDecisive(D, i) = m
  <2>1. {j \in D : j <= i} \cup {m} = {m, m}
    BY <1>5
  <2>2. Max({m, m}) = m
    BY <1>2, MaxOfTwo
  <2> QED BY <1>3, <2>1, <2>2
<1>6. m = Min(D)
  BY DEF m
<1> QED BY <1>1, <1>4, <1>5, <1>6

(* The bus changes its level at sample c, as its last decisive sample, i,   *)
(* and c say.                                                               *)
Turns(dev, h, i, c) ==
  /\ i \in Decisive(dev, h) /\ c \in Decisive(dev, h) /\ i < c
  /\ \A l \in (i + 1)..(c - 1) : l \notin Decisive(dev, h)
  /\ (dev[i] > 0) # (dev[c] > 0)

(* schmitt: every sample has the level of that decisive sample. *)
LEMMA SchmittIs ==
  ASSUME NEW dev \in Seq(Int), NEW h \in Nat
  PROVE  /\ DOMAIN schmitt(dev, h) = 1..Len(dev)
         /\ \A i \in 1..Len(dev) :
              IF Decisive(dev, h) = {}
              THEN schmitt(dev, h)[i] = (Total(dev) > 0)
              ELSE schmitt(dev, h)[i]
                     = (dev[LastDecisive(Decisive(dev, h), i)] > 0)
<1>1. DOMAIN dev = 1..Len(dev)
  OBVIOUS
<1> DEFINE D == Decisive(dev, h)
           t == Total(dev) > 0
           s == [i \in DOMAIN dev |->
                   IF D = {} THEN t ELSE dev[LastDecisive(D, i)] > 0]
<1>2. schmitt(dev, h) = s
  BY DEF schmitt, LastDecisive
<1> HIDE DEF D, t
<1>3. /\ DOMAIN s = 1..Len(dev)
      /\ \A i \in 1..Len(dev) :
           s[i] = IF D = {} THEN t ELSE dev[LastDecisive(D, i)] > 0
  BY <1>1
<1> HIDE DEF s
<1> QED BY <1>2, <1>3 DEF D, t

(* A decisive sample has its own level. *)
LEMMA DecisiveLevel ==
  ASSUME NEW dev \in Seq(Int), NEW h \in Nat, NEW i \in Decisive(dev, h)
  PROVE  schmitt(dev, h)[i] = (dev[i] > 0)
<1> DEFINE D == Decisive(dev, h)
           l == LastDecisive(D, i)
<1>1. D \subseteq 1..Len(dev) /\ Len(dev) \in Nat /\ i \in D /\ D # {}
  BY DecisiveAre
<1>2. i \in Int /\ i <= i /\ D \subseteq Int
  BY <1>1
<1> HIDE DEF D
<1>3. l \in D /\ l <= i /\ i <= l
  BY <1>1, <1>2, LastDecisiveIs
<1> HIDE DEF l
<1>4. l = i
  BY <1>2, <1>3
<1> QED BY <1>1, <1>4, SchmittIs DEF D, l

(* The comparator changes its level where the decisive samples do, and      *)
(* nowhere else.                                                            *)
LEMMA ChangesAreTurns ==
  ASSUME NEW dev \in Seq(Int), NEW h \in Nat, NEW c \in 2..Len(dev)
  PROVE  schmitt(dev, h)[c] # schmitt(dev, h)[c - 1]
           <=> \E i \in Decisive(dev, h) : Turns(dev, h, i, c)
<1> DEFINE D == Decisive(dev, h)
           d == schmitt(dev, h)
           n == Len(dev)
<1>1. D \subseteq 1..n /\ n \in Nat
  BY DecisiveAre
<1>2. c \in 1..n /\ c - 1 \in 1..n /\ c \in Int /\ c - 1 \in Int
  BY <1>1
<1> HIDE DEF n
<1>0. \A x \in D : x \in Int
  BY <1>1
<1>3. CASE D = {}
  <2>1. d[c] = (Total(dev) > 0) /\ d[c - 1] = (Total(dev) > 0)
    BY <1>2, <1>3, SchmittIs DEF n
  <2> QED BY <1>3, <2>1
<1>4. CASE D # {}
  <2> DEFINE L(i) == LastDecisive(D, i)
  <2>1. \A i \in 1..n : d[i] = (dev[L(i)] > 0)
    BY <1>4, SchmittIs DEF n
  <2> HIDE DEF D, d
  <2>2. /\ \A i \in Int : (\E j \in D : j <= i)
             => L(i) \in D /\ L(i) <= i /\ \A j \in D : j <= i => j <= L(i)
        /\ \A i \in Int : ~(\E j \in D : j <= i) => L(i) = Min(D)
        /\ Min(D) \in D /\ \A j \in D : Min(D) <= j
    <3>1. 0 \in Int
      OBVIOUS
    <3> QED BY <1>1, <1>4, <3>1, LastDecisiveIs
  <2> HIDE DEF L
  <2>3. CASE c \notin D
    <3>1. \A j \in D : j <= c <=> j <= c - 1
      BY <1>1, <1>2, <2>3
    <3>2. L(c) = L(c - 1)
      <4>1. CASE \E j \in D : j <= c
        <5>1. L(c) \in D /\ L(c) <= c /\ \A j \in D : j <= c => j <= L(c)
          BY <1>2, <2>2, <4>1
        <5>2. /\ L(c - 1) \in D /\ L(c - 1) <= c - 1
              /\ \A j \in D : j <= c - 1 => j <= L(c - 1)
          BY <1>2, <2>2, <3>1, <4>1
        <5>3. L(c) <= L(c - 1) /\ L(c - 1) <= L(c)
          BY <3>1, <5>1, <5>2
        <5>4. L(c) \in Int /\ L(c - 1) \in Int
          BY <1>0, <5>1, <5>2
        <5> QED BY <5>3, <5>4, SameNumber
      <4>2. CASE ~(\E j \in D : j <= c)
        <5>1. ~(\E j \in D : j <= c - 1)
          BY <3>1, <4>2
        <5> QED BY <1>2, <2>2, <4>2, <5>1
      <4> QED BY <4>1, <4>2
    <3>3. d[c] = d[c - 1]
      BY <1>2, <2>1, <3>2
    <3> QED BY <2>3, <3>3 DEF Turns, D, d
  <2>4. CASE c \in D
    <3>1. L(c) = c
      <4>1. L(c) <= c /\ c <= L(c) /\ L(c) \in D
        <5>1. c <= c
          BY <1>2
        <5> QED BY <1>2, <2>2, <2>4, <5>1
      <4>2. L(c) \in Int
        BY <1>0, <4>1
      <4> QED BY <1>2, <4>1, <4>2, SameNumber
    <3>2. d[c] = (dev[c] > 0)
      BY <1>2, <2>1, <3>1
    <3>3. CASE \E j \in D : j <= c - 1
      <4> DEFINE i == L(c - 1)
      <4>1. i \in D /\ i <= c - 1 /\ \A j \in D : j <= c - 1 => j <= i
        BY <1>2, <2>2, <3>3
      <4>2. d[c - 1] = (dev[i] > 0)
        BY <1>2, <2>1
      <4> HIDE DEF i
      <4>3. i \in Int /\ i < c
        BY <1>1, <1>2, <4>1
      <4>4. \A l \in (i + 1)..(c - 1) : l \notin D
        <5> SUFFICES ASSUME NEW l \in (i + 1)..(c - 1), l \in D PROVE FALSE
          OBVIOUS
        <5>1. l \in Int /\ l <= c - 1 /\ l > i
          BY <1>2, <4>3
        <5>2. l <= i
          BY <4>1, <5>1
        <5> QED BY <4>3, <5>1, <5>2
      <4>5. ASSUME NEW j \in D, Turns(dev, h, j, c) PROVE j = i
        <5>1. j \in Int /\ j < c /\ \A l \in (j + 1)..(c - 1) : l \notin D
          BY <1>1, <4>5 DEF Turns, D
        <5>2. j <= i
          BY <1>2, <4>1, <5>1
        <5>3. ~(j < i)
          BY <1>2, <4>1, <4>3, <5>1
        <5> QED BY <4>3, <5>1, <5>2, <5>3
      <4>6. Turns(dev, h, i, c) <=> (dev[i] > 0) # (dev[c] > 0)
        BY <2>4, <4>1, <4>3, <4>4 DEF Turns, D
      <4>7. d[c] # d[c - 1] <=> (dev[i] > 0) # (dev[c] > 0)
        BY <3>2, <4>2
      <4> QED BY <4>1, <4>5, <4>6, <4>7 DEF D, d
    <3>4. CASE ~(\E j \in D : j <= c - 1)
      <4>1. Min(D) = c
        <5>1. Min(D) \in Int /\ Min(D) <= c /\ ~(Min(D) <= c - 1)
          BY <1>0, <2>2, <2>4, <3>4
        <5>2. \A x \in Int : ~(x <= c - 1) => c <= x
          BY <1>2
        <5>3. c <= Min(D)
          BY <5>1, <5>2
        <5> QED BY <1>2, <5>1, <5>3, SameNumber
      <4>2. L(c - 1) = c
        BY <1>2, <2>2, <3>4, <4>1
      <4>3. d[c] = d[c - 1]
        BY <1>2, <2>1, <3>1, <4>2
      <4>4. \A j \in D : ~(j < c)
        BY <1>1, <1>2, <3>4
      <4> QED BY <4>3, <4>4 DEF Turns, D, d
    <3> QED BY <3>3, <3>4
  <2> QED BY <2>3, <2>4
<1> QED BY <1>3, <1>4

(* The quotient of two numbers. *)
LEMMA Quotient ==
  ASSUME NEW x \in Nat, NEW w \in Nat, w > 0
  PROVE  /\ x \div w \in Nat /\ w * (x \div w) <= x
         /\ x < w * (x \div w) + w
<1>1. x \div w \in Int /\ w * (x \div w) <= x /\ x < w * (x \div w) + w
  BY Z3
<1>2. \A q \in Int : x < w * q + w => q >= 0
  <2> SUFFICES ASSUME NEW q \in Int, x < w * q + w, q <= -1 PROVE FALSE
    OBVIOUS
  <2>1. w * q + w <= 0
    BY Z3
  <2> QED BY <2>1
<1> QED BY <1>1, <1>2

(* Multiples of a number are numbers, and grow with the factor. *)
LEMMA Products ==
  ASSUME NEW w \in Nat, NEW p \in Int, NEW q \in Int
  PROVE  /\ w * p \in Int /\ w * (p + 1) = w * p + w
         /\ p <= q => w * p <= w * q
<1>1. w * p \in Int /\ w * (p + 1) = w * p + w
  BY Z3
<1>2. ASSUME p <= q PROVE w * p <= w * q
  BY <1>2, Z3
<1> QED BY <1>1, <1>2

(* The part of a step at which a line from a to b meets the threshold.      *)
LEMMA PartOfStep ==
  ASSUME NEW g \in Nat, NEW a \in Nat, NEW b \in Nat, a + b > 0
  PROVE  /\ (g * a) \div (a + b) \in 0..g
         /\ a > 0 /\ g >= a + b => (g * a) \div (a + b) >= 1
<1> DEFINE w == a + b
           q == (g * a) \div w
<1>1. g * a \in Nat /\ g * a <= g * w /\ w \in Nat /\ w > 0
  <2>1. g * a <= g * w
    BY Products
  <2>2. g * a \in Nat
    BY Z3
  <2> QED BY <2>1, <2>2
<1>2. q \in Nat /\ w * q <= g * a /\ g * a < w * q + w
  <2> DEFINE x == g * a
  <2> HIDE DEF x, w
  <2> QED BY <1>1, Quotient DEF x
<1> HIDE DEF q
<1>3. q <= g
  <2> SUFFICES ASSUME q >= g + 1 PROVE FALSE
    BY <1>2
  <2>1. w * (g + 1) <= w * q
    BY <1>1, <1>2, Products
  <2>2. w * (g + 1) = w * g + w /\ w * g \in Int
    BY <1>1, Products
  <2>3. w * g = g * w
    BY <1>1, Z3
  <2> HIDE DEF w
  <2>4. g * a \in Int /\ w * q \in Int /\ g * w \in Int
    BY <1>1, <1>2, Products
  <2> QED BY <1>1, <1>2, <2>1, <2>2, <2>3, <2>4
<1>4. ASSUME a > 0, g >= w PROVE q >= 1
  <2> SUFFICES ASSUME q = 0 PROVE FALSE
    BY <1>2
  <2>1. w * q = 0
    BY <1>1
  <2>2. g * 1 <= g * a /\ g * 1 = g
    BY <1>4, Products
  <2> HIDE DEF w
  <2>3. g * a \in Int
    BY <1>1
  <2> QED BY <1>1, <1>2, <1>4, <2>1, <2>2, <2>3
<1> QED BY <1>2, <1>3, <1>4 DEF q

(* Signs and products. *)
LEMMA SignProduct ==
  ASSUME NEW a \in Int, NEW b \in Int
  PROVE  /\ (a > 0) # (b > 0) => a * b <= 0
         /\ a * b <= 0 => magnitude(a - b) = magnitude(a) + magnitude(b)
<1>1. ASSUME (a > 0) # (b > 0) PROVE a * b <= 0
  <2>1. CASE a > 0
    <3>1. b <= 0
      BY <1>1, <2>1
    <3> QED BY <2>1, <3>1, Z3
  <2>2. CASE ~(a > 0)
    <3>1. b > 0 /\ a <= 0
      BY <1>1, <2>2
    <3> QED BY <3>1, Z3
  <2> QED BY <2>1, <2>2
<1>2. ASSUME a * b <= 0 PROVE magnitude(a - b) = magnitude(a) + magnitude(b)
  <2>1. ~(a > 0 /\ b > 0) /\ ~(a < 0 /\ b < 0)
    <3>1. ASSUME a > 0, b > 0 PROVE FALSE
      BY <1>2, <3>1, Z3
    <3>2. ASSUME a < 0, b < 0 PROVE FALSE
      BY <1>2, <3>2, Z3
    <3> QED BY <3>1, <3>2
  <2> QED BY <2>1 DEF magnitude
<1> QED BY <1>1, <1>2

(* Between two samples on opposite sides the signal meets the threshold.    *)
LEMMA MeetsThreshold ==
  ASSUME NEW dev \in Seq(Int), NEW i \in 1..Len(dev), NEW c \in 1..Len(dev),
         i < c, (dev[i] > 0) # (dev[c] > 0)
  PROVE  \E j \in (i + 1)..c : dev[j - 1] * dev[j] <= 0
<1> DEFINE S == {j \in (i + 1)..c : (dev[j] > 0) # (dev[i] > 0)}
<1>1. Len(dev) \in Nat /\ \A j \in 1..Len(dev) : dev[j] \in Int
  OBVIOUS
<1>2. i \in Nat /\ c \in Nat /\ i >= 1 /\ c <= Len(dev)
  BY <1>1
<1>3. S \subseteq Nat /\ c \in S
  <2>1. (i + 1)..c \subseteq Nat /\ c \in (i + 1)..c
    BY <1>2
  <2> QED BY <2>1
<1>4. PICK j \in S : \A m \in S : j <= m
  <2> HIDE DEF S
  <2> QED BY <1>3, LeastIn
<1>5. /\ j \in (i + 1)..c /\ (dev[j] > 0) # (dev[i] > 0)
      /\ j \in 1..Len(dev) /\ j - 1 \in 1..Len(dev)
  BY <1>2, <1>1
<1>6. (dev[j - 1] > 0) = (dev[i] > 0)
  <2>1. CASE j - 1 = i
    BY <2>1
  <2>2. CASE j - 1 # i
    <3>1. j - 1 \in (i + 1)..c /\ ~(j <= j - 1)
      BY <1>2, <1>5, <2>2
    <3>2. j - 1 \notin S
      <4> HIDE DEF S
      <4> QED BY <1>4, <3>1
    <3> QED BY <3>1, <3>2
  <2> QED BY <2>1, <2>2
<1>7. dev[j - 1] * dev[j] <= 0
  BY <1>1, <1>5, <1>6, SignProduct
<1> QED BY <1>5, <1>7

(* Grid is fine enough for this signal. *)
Fine(dev) ==
  \A i \in 2..Len(dev) :
    Crosses(dev[i - 1], dev[i]) => Grid % magnitude(dev[i - 1] - dev[i]) = 0

(* The crossing that Edge takes. *)
LatestCrossing(dev, c) ==
  Max({i \in Max({2, c - Search})..c :
         i = Max({2, c - Search}) \/ dev[i - 1] * dev[i] <= 0})

(* The search for the crossing stays between the decisive samples of a turn. *)
LEMMA CrossingInTurn ==
  ASSUME NEW dev \in Seq(Int), NEW h \in Nat, NEW i \in 1..Len(dev),
         NEW c \in 1..Len(dev), Turns(dev, h, i, c)
  PROVE  LatestCrossing(dev, c) \in (i + 1)..c
<1> DEFINE L == Max({2, c - Search})
           K == {k \in L..c : k = L \/ dev[k - 1] * dev[k] <= 0}
<1>1. i \in Nat /\ c \in Nat /\ i >= 1 /\ i < c /\ Search \in Nat
  BY SlicingAssumption DEF Turns
<1>2. L \in Int /\ L >= 2 /\ L <= c
  <2>1. L = IF 2 >= c - Search THEN 2 ELSE c - Search
    BY <1>1, MaxOfTwo
  <2> QED BY <1>1, <2>1
<1> HIDE DEF L
<1>3. K \subseteq Int /\ L \in K /\ \A k \in K : k <= c
  BY <1>1, <1>2
<1>4. Max(K) \in K /\ \A k \in K : k <= Max(K)
  <2> HIDE DEF K
  <2>1. c \in Int
    BY <1>1
  <2> QED BY <1>3, <2>1, MaxOfSome
<1>5. \E k \in K : k >= i + 1
  <2>1. CASE L >= i + 1
    BY <1>3, <2>1
  <2>2. CASE L <= i
    <3>1. (dev[i] > 0) # (dev[c] > 0)
      BY DEF Turns
    <3>2. PICK j \in (i + 1)..c : dev[j - 1] * dev[j] <= 0
      BY <1>1, <3>1, MeetsThreshold
    <3>3. j \in L..c /\ j >= i + 1
      BY <1>1, <1>2, <2>2
    <3> QED BY <3>2, <3>3
  <2> QED BY <1>1, <1>2, <2>1, <2>2
<1>6. Max(K) \in L..c
  BY <1>4
<1>7. LatestCrossing(dev, c) = Max(K)
  BY DEF LatestCrossing, L
<1> DEFINE m == Max(K)
<1>8. m \in Int /\ m <= c
  BY <1>1, <1>2, <1>6
<1>9. \E k \in K : k >= i + 1 /\ k <= m
  BY <1>4, <1>5
<1>10. \A k \in K : k \in Int
  BY <1>3
<1> HIDE DEF m, K
<1>11. m >= i + 1
  BY <1>1, <1>8, <1>9, <1>10
<1> QED BY <1>1, <1>7, <1>8, <1>11 DEF m

(* The edge of a change lies behind the last sample that says the old level *)
(* and no later than the first that says the new one.                       *)
LEMMA EdgeInTurn ==
  ASSUME NEW dev \in Seq(Int), Fine(dev), NEW h \in Nat, NEW i, NEW c,
         Turns(dev, h, i, c)
  PROVE  /\ Edge(dev, c) \in Int /\ i * Grid < Edge(dev, c)
         /\ Edge(dev, c) <= c * Grid
<1>1. /\ i \in 1..Len(dev) /\ c \in 1..Len(dev) /\ i < c
      /\ Len(dev) \in Nat /\ dev[i] \in Int /\ dev[i] # 0
  BY DecisiveAre DEF Turns
<1> DEFINE k == LatestCrossing(dev, c)
           a == dev[k - 1]
           b == dev[k]
           q == (Grid * magnitude(a)) \div (magnitude(a) + magnitude(b))
<1>2. k \in (i + 1)..c
  BY <1>1, CrossingInTurn
<1>3. Edge(dev, c) = IF Crosses(a, b) THEN (k - 1) * Grid + q ELSE c * Grid
  BY DEF Edge, LatestCrossing
<1> HIDE DEF k
<1>4. /\ i \in Nat /\ c \in Nat /\ k \in Nat /\ i < k /\ k <= c
      /\ k \in 2..Len(dev) /\ k - 1 \in 1..Len(dev) /\ k \in 1..Len(dev)
  BY <1>1, <1>2
<1>5. a \in Int /\ b \in Int
  BY <1>4
<1>6. Grid \in Nat /\ Grid > 0
  BY SlicingAssumption
<1>7. /\ Grid * i = i * Grid /\ Grid * c = c * Grid
      /\ Grid * k = k * Grid /\ Grid * (k - 1) = (k - 1) * Grid
  BY <1>4, <1>6, Z3
<1>8. /\ Grid * (i + 1) = Grid * i + Grid /\ Grid * (i + 1) <= Grid * k
      /\ Grid * k <= Grid * c /\ Grid * k = Grid * (k - 1) + Grid
      /\ Grid * i \in Int /\ Grid * k \in Int /\ Grid * c \in Int
      /\ Grid * (k - 1) \in Int
  <2>1. i + 1 <= k /\ i + 1 \in Int /\ k - 1 \in Int /\ (k - 1) + 1 = k
    BY <1>4
  <2> QED BY <1>4, <1>6, <2>1, Products
<1>9. CASE ~Crosses(a, b)
  <2>1. Edge(dev, c) = Grid * c
    BY <1>3, <1>7, <1>9
  <2>2. Grid * i < Grid * c
    BY <1>6, <1>8
  <2> QED BY <1>7, <1>8, <2>1, <2>2
<1>10. CASE Crosses(a, b)
  <2>1. a * b <= 0 /\ a # b
    BY <1>10 DEF Crosses
  <2>2. /\ magnitude(a) \in Nat /\ magnitude(b) \in Nat
        /\ magnitude(a) + magnitude(b) > 0
        /\ magnitude(a - b) = magnitude(a) + magnitude(b)
        /\ a # 0 => magnitude(a) > 0
    <3>1. magnitude(a - b) = magnitude(a) + magnitude(b)
      BY <1>5, <2>1, SignProduct
    <3> QED BY <1>5, <2>1, <3>1, SMTT(40) DEF magnitude
  <2>3. q \in 0..Grid
    BY <1>6, <2>2, PartOfStep
  <2>4. a # 0 => q >= 1
    <3> DEFINE w == magnitude(a) + magnitude(b)
    <3>1. Grid % w = 0
      BY <1>4, <1>10, <2>2 DEF Fine
    <3>2. w \in Nat /\ w > 0
      BY <2>2
    <3>3. Grid >= w
      <4> HIDE DEF w
      <4> QED BY <1>6, <3>1, <3>2
    <3> QED BY <1>6, <2>2, <3>3, PartOfStep
  <2> HIDE DEF q
  <2>5. Edge(dev, c) = Grid * (k - 1) + q
    BY <1>3, <1>7, <1>10
  <2>6. Grid * i < Grid * (k - 1) + q
    <3>1. CASE k - 1 = i
      BY <1>1, <1>8, <2>3, <2>4, <3>1
    <3>2. CASE k - 1 # i
      <4>1. i + 1 <= k - 1 /\ i + 1 \in Int /\ k - 1 \in Int
        BY <1>4, <3>2
      <4>2. Grid * (i + 1) <= Grid * (k - 1)
        BY <1>6, <4>1, Products
      <4> QED BY <1>6, <1>8, <2>3, <4>2
    <3> QED BY <3>1, <3>2
  <2>7. Grid * (k - 1) + q <= Grid * c
    BY <1>6, <1>8, <2>3
  <2>8. Grid * (k - 1) + q \in Int
    BY <1>6, <1>8, <2>3
  <2> QED BY <1>7, <2>5, <2>6, <2>7, <2>8
<1> QED BY <1>9, <1>10

(* One sample of the scan for changes, chg being the function built so far. *)
ChangeStep(d, chg, k) ==
  IF k < 2 THEN <<>>
  ELSE IF d[k] # d[k - 1] THEN Append(chg[k - 1], k)
  ELSE chg[k - 1]

(* chg has scanned the first n samples. *)
Scans(d, chg, n) == chg = [k \in 0..n |-> ChangeStep(d, chg, k)]

(* There is a function that the recursion of slice_to_runs describes.       *)
LEMMA ScanExists ==
  ASSUME NEW d, NEW n \in Nat
  PROVE  \E chg : Scans(d, chg, n)
<1> DEFINE Bad == {m \in Nat : ~ \E chg : Scans(d, chg, m)}
<1> SUFFICES ASSUME n \in Bad PROVE FALSE
  OBVIOUS
<1>1. PICK m \in Bad : \A k \in Bad : m <= k
  <2>1. Bad \subseteq Nat /\ Bad # {}
    OBVIOUS
  <2> HIDE DEF Bad
  <2> QED BY <2>1, LeastIn
<1>2. m \in Nat /\ ~ \E chg : Scans(d, chg, m)
  OBVIOUS
<1>3. CASE m = 0
  <2> DEFINE chg == [k \in 0..0 |-> <<>>]
  <2>1. Scans(d, chg, 0)
    BY DEF Scans, ChangeStep
  <2> QED BY <1>2, <1>3, <2>1
<1>4. CASE m # 0
  <2>1. m - 1 \in Nat /\ m - 1 \notin Bad
    BY <1>1, <1>2, <1>4
  <2>2. PICK old : Scans(d, old, m - 1)
    BY <2>1
  <2> DEFINE chg == [k \in 0..m |-> IF k < m THEN old[k]
                                    ELSE ChangeStep(d, old, m)]
  <2>3. \A k \in 0..m : chg[k] = ChangeStep(d, chg, k)
    <3> SUFFICES ASSUME NEW k \in 0..m
                 PROVE  chg[k] = ChangeStep(d, chg, k)
      OBVIOUS
    <3>1. ~(k < 2) => k - 1 \in 0..m /\ k - 1 < m
      BY <1>2
    <3>2. ~(k < 2) => chg[k - 1] = old[k - 1]
      BY <3>1
    <3>3. ChangeStep(d, old, k) = ChangeStep(d, chg, k)
      <4> HIDE DEF chg
      <4> QED BY <3>2 DEF ChangeStep
    <3>4. k < m => k \in 0..(m - 1)
      BY <1>2
    <3>5. k < m => old[k] = ChangeStep(d, old, k)
      BY <2>2, <3>4 DEF Scans
    <3>6. ~(k < m) => k = m
      BY <1>2
    <3> QED BY <3>3, <3>5, <3>6
  <2>4. Scans(d, chg, m)
    BY <2>3 DEF Scans
  <2> QED BY <1>2, <2>4
<1> QED BY <1>3, <1>4

(* Where the level changes among the first n samples. *)
ChangesOf(d, n) == {c \in 2..n : d[c] # d[c - 1]}

Strictly(s) == \A i, j \in 1..Len(s) : i < j => s[i] < s[j]

(* The scan lists the changes, each once and in their order. *)
Lists(s, C) ==
  /\ s \in Seq(Nat) /\ Strictly(s)
  /\ \A i \in 1..Len(s) : s[i] \in C
  /\ \A c \in C : \E i \in 1..Len(s) : s[i] = c

(* A list of a set with a greater number behind it. *)
LEMMA ListsOneMore ==
  ASSUME NEW s, NEW C, Lists(s, C), NEW k \in Nat, \A c \in C : c < k
  PROVE  Lists(Append(s, k), C \cup {k})
<1> DEFINE t == Append(s, k)
           n == Len(s)
<1>1. /\ t \in Seq(Nat) /\ Len(t) = n + 1 /\ n \in Nat /\ t[n + 1] = k
      /\ \A i \in 1..n : t[i] = s[i]
      /\ \A i \in 1..(n + 1) : i \in 1..n \/ i = n + 1
      /\ \A i \in 1..n : i \in 1..(n + 1)
      /\ n + 1 \in 1..(n + 1)
  BY DEF Lists
<1> HIDE DEF t, n
<1>2. \A i \in 1..n : s[i] \in C
  BY DEF Lists, n
<1>3. ASSUME NEW i \in 1..(n + 1), NEW j \in 1..(n + 1), i < j
      PROVE  t[i] < t[j]
  <2>1. i \in 1..n
    BY <1>1, <1>3
  <2>2. CASE j \in 1..n
    BY <1>1, <1>3, <2>1, <2>2 DEF Lists, Strictly, n
  <2>3. CASE j = n + 1
    BY <1>1, <1>2, <2>1, <2>3
  <2> QED BY <1>1, <2>2, <2>3
<1>4. Strictly(t)
  BY <1>1, <1>3 DEF Strictly
<1>5. \A i \in 1..(n + 1) : t[i] \in C \cup {k}
  BY <1>1, <1>2
<1>6. ASSUME NEW c \in C \cup {k} PROVE \E i \in 1..(n + 1) : t[i] = c
  <2>1. CASE c \in C
    <3>1. PICK i \in 1..n : s[i] = c
      BY <2>1 DEF Lists, n
    <3> QED BY <1>1, <3>1
  <2>2. CASE c = k
    BY <1>1, <2>2
  <2> QED BY <2>1, <2>2
<1> QED BY <1>1, <1>4, <1>5, <1>6 DEF Lists, t

(* What the scan has built after n samples lists their changes. *)
LEMMA ScanLists ==
  ASSUME NEW d, NEW n \in Nat, NEW chg, Scans(d, chg, n)
  PROVE  Lists(chg[n], ChangesOf(d, n))
<1> DEFINE Bad == {m \in 0..n : ~Lists(chg[m], ChangesOf(d, m))}
<1> SUFFICES ASSUME n \in Bad PROVE FALSE
  OBVIOUS
<1>1. PICK m \in Bad : \A k \in Bad : m <= k
  <2>1. Bad \subseteq Nat /\ Bad # {}
    OBVIOUS
  <2> HIDE DEF Bad
  <2> QED BY <2>1, LeastIn
<1>2. m \in 0..n /\ ~Lists(chg[m], ChangesOf(d, m)) /\ m \in Nat
  OBVIOUS
<1>3. chg[m] = ChangeStep(d, chg, m)
  BY <1>2 DEF Scans
<1>4. CASE m < 2
  <2>1. chg[m] = <<>>
    BY <1>3, <1>4 DEF ChangeStep
  <2>2. ChangesOf(d, m) = {}
    BY <1>2, <1>4 DEF ChangesOf
  <2>3. Lists(<<>>, {})
    BY DEF Lists, Strictly
  <2> QED BY <1>2, <2>1, <2>2, <2>3
<1>5. CASE ~(m < 2)
  <2>1. m - 1 \in 0..n /\ ~(m <= m - 1) /\ m - 1 \in Nat
    BY <1>2, <1>5
  <2>2. Lists(chg[m - 1], ChangesOf(d, m - 1))
    <3>1. m - 1 \notin Bad
      <4> HIDE DEF Bad
      <4> QED BY <1>1, <2>1
    <3> QED BY <2>1, <3>1
  <2>3. CASE d[m] # d[m - 1]
    <3>1. chg[m] = Append(chg[m - 1], m)
      BY <1>3, <1>5, <2>3 DEF ChangeStep
    <3>2. ChangesOf(d, m) = ChangesOf(d, m - 1) \cup {m}
      BY <1>2, <1>5, <2>3 DEF ChangesOf
    <3>3. \A c \in ChangesOf(d, m - 1) : c < m
      BY <1>2 DEF ChangesOf
    <3> QED BY <1>2, <2>2, <3>1, <3>2, <3>3, ListsOneMore
  <2>4. CASE d[m] = d[m - 1]
    <3>1. chg[m] = chg[m - 1]
      BY <1>3, <1>5, <2>4 DEF ChangeStep
    <3>2. ChangesOf(d, m) = ChangesOf(d, m - 1)
      BY <1>2, <1>5, <2>4 DEF ChangesOf
    <3> QED BY <1>2, <2>2, <3>1, <3>2
  <2> QED BY <2>3, <2>4
<1> QED BY <1>2, <1>4, <1>5

(* A list of a set, each element once, is as long as the set has elements.  *)
LEMMA ListedOnce ==
  ASSUME NEW s, NEW C, Lists(s, C)
  PROVE  Cardinality(C) = Len(s) /\ Len(s) \in Nat
<1> DEFINE n == Len(s)
<1>1. s \in [1..n -> C] /\ n \in Nat
  BY DEF Lists
<1>2. \A i, j \in 1..n : i \in Int /\ j \in Int /\ s[i] \in Int
  BY DEF Lists
<1>3. ASSUME NEW i \in 1..n, NEW j \in 1..n, s[i] = s[j] PROVE i = j
  <2>1. ~(i < j) /\ ~(j < i)
    BY <1>2, <1>3 DEF Lists, Strictly
  <2> QED BY <1>2, <2>1
<1>4. \A c \in C : \E i \in 1..n : s[i] = c
  BY DEF Lists
<1> HIDE DEF n
<1>5. s \in Bijection(1..n, C)
  BY <1>1, <1>3, <1>4 DEF Bijection, Injection, Surjection,
      IsInjective
<1>6. IsFiniteSet(1..n) /\ Cardinality(1..n) = n
  <2>1. Cardinality(1..n) = IF 1 > n THEN 0 ELSE n - 1 + 1
    BY <1>1, FS_Interval
  <2>2. IsFiniteSet(1..n)
    BY <1>1, FS_Interval
  <2> QED BY <1>1, <2>1, <2>2
<1>7. ExistsBijection(1..n, C)
  BY <1>5 DEF ExistsBijection
<1>8. Cardinality(C) = Cardinality(1..n)
  BY <1>6, <1>7, FS_Bijection
<1> QED BY <1>1, <1>6, <1>8 DEF n

(* The runs between changes of the comparator's levels d. *)
RunsOf(dev, d, change) ==
  LET edges  == [n \in DOMAIN change |->
                   Max({Edge(dev, change[m]) : m \in 1..n})]
      starts == <<Grid>> \o edges
      ends   == edges \o <<(Len(dev) + 1) * Grid>>
  IN  [n \in DOMAIN starts |->
         [lvl   |-> d[(<<1>> \o change)[n]],
          start |-> starts[n],
          d     |-> Max({ends[n] - starts[n], 0})]]

(* slice_to_runs with its list of changes named. *)
LEMMA RunsAre ==
  ASSUME NEW dev \in Seq(Int), NEW h
  PROVE  \E chg : /\ Scans(schmitt(dev, h), chg, Len(dev))
                  /\ slice_to_runs(dev, h)
                       = RunsOf(dev, schmitt(dev, h), chg[Len(dev)])
<1> DEFINE chg == CHOOSE f : Scans(schmitt(dev, h), f, Len(dev))
<1>1. Scans(schmitt(dev, h), chg, Len(dev))
  <2>1. Len(dev) \in Nat
    OBVIOUS
  <2> QED BY <2>1, ScanExists, Zenon
<1>2. slice_to_runs(dev, h) = RunsOf(dev, schmitt(dev, h), chg[Len(dev)])
  BY DEF slice_to_runs, RunsOf, Scans, ChangeStep
<1> QED BY <1>1, <1>2

(* A level that does not change stays. *)
LEMMA LevelStays ==
  ASSUME NEW d, NEW a \in Nat, NEW b \in Nat, a <= b,
         \A c \in (a + 1)..b : d[c] = d[c - 1]
  PROVE  d[b] = d[a]
<1> DEFINE Bad == {m \in a..b : d[m] # d[a]}
<1> SUFFICES ASSUME b \in Bad PROVE FALSE
  OBVIOUS
<1>1. PICK m \in Bad : \A k \in Bad : m <= k
  <2>1. Bad \subseteq Nat /\ Bad # {}
    OBVIOUS
  <2> HIDE DEF Bad
  <2> QED BY <2>1, LeastIn
<1>2. m \in a..b /\ d[m] # d[a]
  OBVIOUS
<1>3. m # a /\ m - 1 \in a..b /\ m \in (a + 1)..b /\ ~(m <= m - 1)
  BY <1>2
<1>4. m - 1 \notin Bad
  <2> HIDE DEF Bad
  <2> QED BY <1>1, <1>3
<1> QED BY <1>2, <1>3, <1>4

(* What the changes of a signal are: each has the last decisive sample of   *)
(* the old level before it, and no change lies between the two.             *)
LEMMA ChangeIsTurn ==
  ASSUME NEW dev \in Seq(Int), NEW h \in Nat, NEW c
  PROVE  c \in ChangesOf(schmitt(dev, h), Len(dev))
           <=> \E i \in Decisive(dev, h) : Turns(dev, h, i, c)
<1>1. ASSUME c \in ChangesOf(schmitt(dev, h), Len(dev))
      PROVE  \E i \in Decisive(dev, h) : Turns(dev, h, i, c)
  BY <1>1, ChangesAreTurns DEF ChangesOf
<1>2. ASSUME NEW i \in Decisive(dev, h), Turns(dev, h, i, c)
      PROVE  c \in ChangesOf(schmitt(dev, h), Len(dev))
  <2>1. c \in 2..Len(dev)
    <3>1. c \in 1..Len(dev) /\ i \in 1..Len(dev) /\ i < c /\ Len(dev) \in Nat
      BY <1>2, DecisiveAre DEF Turns
    <3> QED BY <3>1
  <2> QED BY <1>2, <2>1, ChangesAreTurns DEF ChangesOf
<1> QED BY <1>1, <1>2

(* The edges of a signal, one for each change, from left to right, each     *)
(* between the samples it divides.                                          *)
EdgesDivide(dev, h, ch) ==
  /\ \A n \in 1..Len(ch) :
       /\ Edge(dev, ch[n]) \in Int
       /\ Grid < Edge(dev, ch[n])
       /\ Edge(dev, ch[n]) < (Len(dev) + 1) * Grid
       /\ \A i \in Decisive(dev, h) :
            Edge(dev, ch[n]) <= i * Grid <=> ch[n] <= i
  /\ \A m, n \in 1..Len(ch) : m < n => Edge(dev, ch[m]) < Edge(dev, ch[n])

(* The changes of the comparator have such edges. *)
LEMMA EdgesOfChanges ==
  ASSUME NEW dev \in Seq(Int), Fine(dev), NEW h \in Nat, NEW ch,
         Lists(ch, ChangesOf(schmitt(dev, h), Len(dev)))
  PROVE  EdgesDivide(dev, h, ch)
<1> DEFINE N == Len(dev)
           D == Decisive(dev, h)
           E(n) == Edge(dev, ch[n])
<1>1. Grid \in Nat /\ Grid > 0 /\ N \in Nat /\ D \subseteq 1..N
  BY SlicingAssumption, DecisiveAre
<1>2. ASSUME NEW n \in 1..Len(ch)
      PROVE  /\ ch[n] \in D /\ E(n) \in Int
             /\ \E i \in D : /\ i < ch[n] /\ i * Grid < E(n)
                             /\ E(n) <= ch[n] * Grid
                             /\ \A l \in (i + 1)..(ch[n] - 1) : l \notin D
  <2>1. ch[n] \in ChangesOf(schmitt(dev, h), Len(dev))
    BY DEF Lists
  <2>2. PICK i \in D : Turns(dev, h, i, ch[n])
    BY <2>1, ChangeIsTurn
  <2>3. E(n) \in Int /\ i * Grid < E(n) /\ E(n) <= ch[n] * Grid
    BY <2>2, EdgeInTurn
  <2> QED BY <2>2, <2>3 DEF Turns
<1> HIDE DEF N, D, E
<1>3. \A x, y \in Int : /\ x * Grid \in Int
                        /\ x <= y => x * Grid <= y * Grid
                        /\ x < y => x * Grid < y * Grid
  <2> SUFFICES ASSUME NEW x \in Int, NEW y \in Int
               PROVE  /\ x * Grid \in Int
                      /\ x <= y => x * Grid <= y * Grid
                      /\ x < y => x * Grid < y * Grid
    OBVIOUS
  <2>1. x * Grid = Grid * x /\ y * Grid = Grid * y
    BY <1>1, Z3
  <2>2. /\ Grid * x \in Int /\ Grid * y \in Int
        /\ Grid * (x + 1) = Grid * x + Grid
    BY <1>1, Products
  <2>3. x <= y => Grid * x <= Grid * y
    BY <1>1, Products
  <2>4. x < y => Grid * (x + 1) <= Grid * y
    <3>1. x < y => x + 1 <= y
      OBVIOUS
    <3> QED BY <1>1, <3>1, Products
  <2> QED BY <1>1, <2>1, <2>2, <2>3, <2>4
<1>4. \A i \in D : i \in Int /\ 1 <= i /\ i <= N
  BY <1>1
<1>5. ASSUME NEW n \in 1..Len(ch), NEW i \in D
      PROVE  E(n) <= i * Grid <=> ch[n] <= i
  <2>1. PICK p \in D : /\ p < ch[n] /\ p * Grid < E(n)
                       /\ E(n) <= ch[n] * Grid
                       /\ \A l \in (p + 1)..(ch[n] - 1) : l \notin D
    BY <1>2
  <2>2. ch[n] \in D /\ E(n) \in Int
    BY <1>2
  <2>3. /\ i \in Int /\ p \in Int /\ ch[n] \in Int /\ i * Grid \in Int
        /\ p * Grid \in Int /\ ch[n] * Grid \in Int
    BY <1>3, <1>4, <2>2
  <2>4. ASSUME ch[n] <= i PROVE E(n) <= i * Grid
    <3>1. ch[n] * Grid <= i * Grid
      BY <1>3, <2>3, <2>4
    <3> QED BY <2>1, <2>2, <2>3, <3>1
  <2>5. ASSUME ~(ch[n] <= i) PROVE ~(E(n) <= i * Grid)
    <3>1. i <= p
      <4>1. i \notin (p + 1)..(ch[n] - 1)
        BY <2>1
      <4> QED BY <2>3, <2>5, <4>1
    <3>2. i * Grid <= p * Grid
      BY <1>3, <2>3, <3>1
    <3> QED BY <2>1, <2>2, <2>3, <3>2
  <2> QED BY <2>4, <2>5
<1>6. ASSUME NEW n \in 1..Len(ch)
      PROVE  Grid < E(n) /\ E(n) < (N + 1) * Grid
  <2> DEFINE e == E(n)
             c == ch[n]
  <2>1. PICK p \in D : p * Grid < e /\ e <= c * Grid
    BY <1>2
  <2>2. c \in D /\ e \in Int
    BY <1>2
  <2> HIDE DEF e, c
  <2>3. p \in Int /\ c \in Int /\ 1 <= p /\ c <= N /\ 1 \in Int
    BY <1>4, <2>2
  <2>4. c < N + 1 /\ N + 1 \in Int
    BY <1>1, <2>3
  <2>5. 1 * Grid <= p * Grid /\ p * Grid \in Int
    BY <1>3, <2>3
  <2>6. c * Grid < (N + 1) * Grid /\ c * Grid \in Int
        /\ (N + 1) * Grid \in Int
    BY <1>3, <2>3, <2>4
  <2>7. 1 * Grid = Grid /\ Grid \in Int
    BY <1>1
  <2>8. Grid < e
    BY <2>1, <2>2, <2>5, <2>7
  <2>9. e < (N + 1) * Grid
    BY <2>1, <2>2, <2>6
  <2> QED BY <2>8, <2>9 DEF e
<1>7. ASSUME NEW m \in 1..Len(ch), NEW n \in 1..Len(ch), m < n
      PROVE  E(m) < E(n)
  <2>1. ch[m] < ch[n] /\ ch[m] \in D /\ ch[n] \in D
    BY <1>2, <1>7 DEF Lists, Strictly
  <2>2. ch[m] \in Int /\ ch[n] \in Int /\ ch[m] * Grid \in Int
    BY <1>3, <1>4, <2>1
  <2>3. E(m) \in Int /\ E(n) \in Int
    BY <1>2
  <2>4. E(m) <= ch[m] * Grid
    BY <1>2
  <2>5. ~(E(n) <= ch[m] * Grid)
    BY <1>5, <2>1, <2>2
  <2> QED BY <2>2, <2>3, <2>4, <2>5
<1> QED BY <1>2, <1>5, <1>6, <1>7 DEF EdgesDivide, E, D, N

(* A function on the first n numbers is a sequence of that length. *)
LEMMA LengthOf ==
  ASSUME NEW n \in Nat, NEW f, DOMAIN f = 1..n, f = [i \in 1..n |-> f[i]]
  PROVE  Len(f) = n
<1> DEFINE T == {f[i] : i \in 1..n}
<1>1. \A i \in 1..n : f[i] \in T
  OBVIOUS
<1> HIDE DEF T
<1>2. f \in [1..n -> T]
  BY <1>1
<1>3. f \in Seq(T)
  BY <1>2
<1> QED BY <1>2, <1>3

(* The fields of the runs, first to last. *)
LEMMA RunFields ==
  ASSUME NEW dev \in Seq(Int), NEW h \in Nat, NEW d, NEW ch,
         ch \in Seq(Nat), EdgesDivide(dev, h, ch),
         NEW R, R = RunsOf(dev, d, ch)
  PROVE  /\ Len(R) = Len(ch) + 1 /\ DOMAIN R = 1..(Len(ch) + 1)
         /\ R[1].start = Grid
         /\ \A n \in 1..(Len(ch) + 1) :
              /\ R[n].lvl = d[IF n = 1 THEN 1 ELSE ch[n - 1]]
              /\ R[n].start = IF n = 1 THEN Grid ELSE Edge(dev, ch[n - 1])
              /\ R[n].start + R[n].d =
                   IF n = Len(ch) + 1 THEN (Len(dev) + 1) * Grid
                   ELSE Edge(dev, ch[n])
<1> DEFINE K == Len(ch)
           E(n) == Edge(dev, ch[n])
           z == (Len(dev) + 1) * Grid
           edges == [n \in DOMAIN ch |-> Max({Edge(dev, ch[m]) : m \in 1..n})]
           starts == <<Grid>> \o edges
           ends == edges \o <<z>>
           first == <<1>> \o ch
           S(n) == IF n = 1 THEN Grid ELSE E(n - 1)
           F(n) == IF n = K + 1 THEN z ELSE E(n)
<1>1. K \in Nat /\ DOMAIN ch = 1..K /\ Grid \in Nat /\ Grid > 0
  BY SlicingAssumption
<1>2. /\ \A n \in 1..K : E(n) \in Int /\ Grid < E(n) /\ E(n) < z
      /\ \A m, n \in 1..K : m < n => E(m) < E(n)
  BY DEF EdgesDivide
<1>3. z \in Int /\ Grid <= z
  <2> DEFINE l == Len(dev)
  <2>1. l \in Int /\ 0 <= l
    OBVIOUS
  <2> HIDE DEF l
  <2>2. (l + 1) * Grid = Grid * (l + 1)
    BY <1>1, <2>1, Z3
  <2>3. /\ Grid * l \in Int /\ Grid * (l + 1) = Grid * l + Grid
        /\ Grid * 0 <= Grid * l /\ Grid * 0 = 0
    BY <1>1, <2>1, Products
  <2>4. z = (l + 1) * Grid
    BY DEF l
  <2> HIDE DEF z
  <2> QED BY <1>1, <2>2, <2>3, <2>4
<1> HIDE DEF z, E
<1>4. /\ edges \in Seq(Int) /\ Len(edges) = K
      /\ \A n \in 1..K : edges[n] = E(n)
  <2>1. ASSUME NEW n \in 1..K
        PROVE  Max({Edge(dev, ch[m]) : m \in 1..n}) = E(n)
    <3> DEFINE X == {E(m) : m \in 1..n}
               e == E(n)
    <3>1. n \in Nat /\ n \in 1..n /\ \A m \in 1..n : m \in 1..K
      BY <1>1, <2>1
    <3>2. e \in X /\ X \subseteq Int /\ \A y \in X : y <= e /\ y \in Int
      <4>1. e \in X
        BY <3>1
      <4>2. ASSUME NEW m \in 1..n PROVE E(m) \in Int /\ E(m) <= E(n)
        <5>1. m = n \/ m < n
          BY <3>1
        <5>2. \A x \in Int : x <= x
          OBVIOUS
        <5>3. \A x, y \in Int : x < y => x <= y
          OBVIOUS
        <5> QED BY <1>2, <3>1, <5>1, <5>2, <5>3
      <4> QED BY <4>1, <4>2
    <3>3. X = {Edge(dev, ch[m]) : m \in 1..n}
      BY DEF E
    <3> HIDE DEF X, e
    <3>4. e \in Int
      BY <3>2
    <3>5. Max(X) \in X /\ \A y \in X : y <= Max(X)
      BY <3>2, <3>4, MaxOfSome
    <3>6. Max(X) <= e /\ e <= Max(X) /\ Max(X) \in Int
      BY <3>2, <3>5
    <3>7. Max(X) = e
      BY <3>4, <3>6, SameNumber
    <3> QED BY <3>3, <3>7 DEF e
  <2>2. edges = [n \in 1..K |-> E(n)]
    BY <1>1, <2>1
  <2> HIDE DEF edges
  <2>3. \A n \in 1..K : edges[n] = E(n) /\ E(n) \in Int
    BY <1>2, <2>2
  <2>4. edges \in [1..K -> Int]
    BY <2>2, <2>3
  <2> QED BY <1>1, <2>3, <2>4
<1> HIDE DEF edges
<1>5. /\ Len(starts) = K + 1 /\ DOMAIN starts = 1..(K + 1)
      /\ \A n \in 1..(K + 1) :
           starts[n] = IF n = 1 THEN Grid ELSE edges[n - 1]
  BY <1>1, <1>4
<1>6. /\ \A n \in 1..(K + 1) :
           ends[n] = IF n = K + 1 THEN z ELSE edges[n]
  BY <1>1, <1>3, <1>4
<1>7. \A n \in 1..(K + 1) : first[n] = IF n = 1 THEN 1 ELSE ch[n - 1]
  BY <1>1
<1> HIDE DEF starts, ends, first
<1>8. R = [n \in 1..(K + 1) |->
             [lvl |-> d[first[n]], start |-> starts[n],
              d |-> Max({ends[n] - starts[n], 0})]]
  BY <1>5 DEF RunsOf, starts, ends, first, edges, z
<1> HIDE DEF K
<1>9. DOMAIN R = 1..(K + 1) /\ Len(R) = K + 1
  <2>1. R = [n \in 1..(K + 1) |-> R[n]] /\ DOMAIN R = 1..(K + 1)
    BY <1>8
  <2>2. K + 1 \in Nat
    BY <1>1
  <2> QED BY <2>1, <2>2, LengthOf
<1>10. ASSUME NEW n \in 1..(K + 1)
       PROVE  /\ R[n].lvl = d[IF n = 1 THEN 1 ELSE ch[n - 1]]
              /\ R[n].start = S(n) /\ R[n].start + R[n].d = F(n)
  <2> DEFINE s == S(n)
             f == F(n)
  <2>1. R[n].lvl = d[first[n]] /\ R[n].start = starts[n]
        /\ R[n].d = Max({ends[n] - starts[n], 0})
    BY <1>8
  <2>2. /\ n # 1 => n - 1 \in 1..K
        /\ n # K + 1 => n \in 1..K
        /\ n - 1 < n /\ 1 \in 1..(K + 1) /\ n \in Nat
    BY <1>1
  <2>3. starts[n] = s /\ ends[n] = f
    BY <1>4, <1>5, <1>6, <2>2
  <2>4. s \in Int /\ f \in Int
    BY <1>1, <1>2, <1>3, <2>2
  <2>5. s <= f
    <3>1. CASE n = 1 /\ n = K + 1
      BY <1>3, <3>1
    <3>2. CASE n = 1 /\ n # K + 1
      <4>1. s = Grid /\ f = E(n) /\ Grid < E(n)
        BY <1>2, <2>2, <3>2
      <4> HIDE DEF s, f
      <4> QED BY <1>1, <2>4, <4>1
    <3>3. CASE n # 1 /\ n = K + 1
      <4>1. s = E(n - 1) /\ f = z /\ E(n - 1) < z
        BY <1>2, <2>2, <3>3
      <4> HIDE DEF s, f
      <4> QED BY <2>4, <4>1
    <3>4. CASE n # 1 /\ n # K + 1
      <4>1. s = E(n - 1) /\ f = E(n) /\ E(n - 1) < E(n)
        BY <1>2, <2>2, <3>4
      <4> HIDE DEF s, f
      <4> QED BY <2>4, <4>1
    <3> QED BY <3>1, <3>2, <3>3, <3>4
  <2> HIDE DEF s, f
  <2>6. Max({f - s, 0}) = f - s
    <3>1. f - s \in Int /\ f - s >= 0 /\ 0 \in Int
      BY <2>4, <2>5
    <3> QED BY <3>1, MaxOfTwo
  <2>7. R[n].start = s /\ R[n].start + R[n].d = f
    BY <2>1, <2>3, <2>4, <2>6
  <2> QED BY <1>7, <2>1, <2>7 DEF s, f
<1>11. R[1].start = Grid
  <2>1. 1 \in 1..(K + 1)
    BY <1>1
  <2> QED BY <1>10, <2>1
<1> QED BY <1>9, <1>10, <1>11 DEF K, E, z

(* The run that a decisive sample lies in has its level. *)
LEMMA RunHasLevel ==
  ASSUME NEW dev \in Seq(Int), NEW h \in Nat, NEW ch,
         Lists(ch, ChangesOf(schmitt(dev, h), Len(dev))),
         EdgesDivide(dev, h, ch), NEW i \in Decisive(dev, h),
         NEW n \in 1..(Len(ch) + 1),
         n # 1 => Edge(dev, ch[n - 1]) <= i * Grid,
         n # Len(ch) + 1 => i * Grid < Edge(dev, ch[n])
  PROVE  schmitt(dev, h)[IF n = 1 THEN 1 ELSE ch[n - 1]] = (dev[i] > 0)
<1> DEFINE d == schmitt(dev, h)
           K == Len(ch)
           C == ChangesOf(d, Len(dev))
           a == IF n = 1 THEN 1 ELSE ch[n - 1]
<1>1. /\ i \in Nat /\ 1 <= i /\ i <= Len(dev) /\ Len(dev) \in Nat
      /\ d[i] = (dev[i] > 0)
  BY DecisiveAre, DecisiveLevel
<1>2. /\ K \in Nat /\ \A m \in 1..K : ch[m] \in Nat
      /\ \A l, m \in 1..K : l < m => ch[l] < ch[m]
      /\ \A c \in C : \E m \in 1..K : ch[m] = c
      /\ \A m \in 1..K : ch[m] \in C
  BY DEF Lists, Strictly
<1>3. \A m \in 1..K : /\ Edge(dev, ch[m]) \in Int
                      /\ Edge(dev, ch[m]) <= i * Grid <=> ch[m] <= i
  BY DEF EdgesDivide
<1>4. /\ n # 1 => n - 1 \in 1..K
      /\ n # K + 1 => n \in 1..K
      /\ n \in Nat
  BY <1>2
<1>5. a \in Nat /\ 1 <= a /\ a <= i
  <2>1. CASE n = 1
    BY <1>1, <2>1
  <2>2. CASE n # 1
    <3>1. a = ch[n - 1] /\ ch[n - 1] <= i /\ ch[n - 1] \in C
      BY <1>2, <1>3, <1>4, <2>2
    <3>2. a \in 2..Len(dev)
      BY <3>1 DEF ChangesOf
    <3> QED BY <1>1, <3>1, <3>2
  <2> QED BY <2>1, <2>2
<1>6. n # K + 1 => i < ch[n]
  <2> SUFFICES ASSUME n # K + 1, ch[n] <= i PROVE FALSE
    BY <1>1, <1>2, <1>4
  <2>1. /\ n \in 1..K /\ Edge(dev, ch[n]) <= i * Grid
        /\ i * Grid < Edge(dev, ch[n])
    BY <1>3, <1>4
  <2>2. i * Grid \in Int
    <3>1. Grid \in Nat
      BY SlicingAssumption
    <3> QED BY <1>1, <3>1, Z3
  <2>3. Edge(dev, ch[n]) \in Int
    BY <1>3, <2>1
  <2> QED BY <2>1, <2>2, <2>3
<1>7. ASSUME NEW c \in (a + 1)..i PROVE d[c] = d[c - 1]
  <2> SUFFICES ASSUME d[c] # d[c - 1] PROVE FALSE
    OBVIOUS
  <2>1. c \in Nat /\ c > a /\ c <= i
    BY <1>1, <1>5
  <2>2. c \in C
    <3>1. c \in 2..Len(dev)
      BY <1>1, <1>5, <2>1
    <3> QED BY <3>1 DEF ChangesOf
  <2>3. PICK m \in 1..K : ch[m] = c
    BY <1>2, <2>2
  <2> HIDE DEF C, d
  <2>4. m >= n
    <3>1. CASE n = 1
      BY <3>1
    <3>2. CASE n # 1
      <4>1. a = ch[n - 1] /\ n - 1 \in 1..K
        BY <1>4, <3>2
      <4>2. ch[n - 1] < ch[m]
        BY <2>1, <2>3, <4>1
      <4>3. ~(m < n - 1) /\ m # n - 1
        <5>1. ASSUME m < n - 1 PROVE FALSE
          <6>1. ch[m] < ch[n - 1] /\ ch[m] \in Nat /\ ch[n - 1] \in Nat
            BY <1>2, <4>1, <5>1
          <6> QED BY <4>2, <6>1
        <5>2. ch[n - 1] \in Nat
          BY <1>2, <4>1
        <5> QED BY <4>2, <5>1, <5>2
      <4> QED BY <1>4, <4>3
    <3> QED BY <3>1, <3>2
  <2>5. n # K + 1 /\ n \in 1..K
    BY <1>2, <1>4, <2>4
  <2>6. ch[n] <= ch[m]
    <3>1. n = m \/ n < m
      BY <1>4, <2>4
    <3> QED BY <1>2, <2>5, <3>1
  <2>7. i < ch[n] /\ ch[n] \in Nat /\ ch[m] \in Nat
    BY <1>2, <1>6, <2>5
  <2> QED BY <1>1, <2>1, <2>3, <2>6, <2>7
<1> HIDE DEF a, d
<1>8. d[i] = d[a]
  BY <1>1, <1>5, <1>7, LevelStays
<1> QED BY <1>1, <1>8 DEF a, d

(* What the runs of a signal say is what its decisive samples say. *)
Follow(R, dev, h) ==
  LET clear == Decisive(dev, h)
      turns == {j \in clear : \E i \in clear : Turns(dev, h, i, j)}
  IN  /\ Len(R) = Cardinality(turns) + 1
      /\ \A i \in clear, n \in DOMAIN R :
           R[n].start <= i * Grid /\ i * Grid < R[n].start + R[n].d
             => R[n].lvl = (dev[i] > 0)
      /\ R[1].start = Grid
      /\ \A n \in DOMAIN R :
           R[n].start + R[n].d = IF n = Len(R) THEN (Len(dev) + 1) * Grid
                                 ELSE R[n + 1].start

(* So the runs follow the decisive samples. *)
LEMMA SlicedFollow ==
  ASSUME NEW dev \in Seq(Int), Fine(dev), NEW h \in Nat
  PROVE  Follow(slice_to_runs(dev, h), dev, h)
<1> DEFINE d == schmitt(dev, h)
           C == ChangesOf(d, Len(dev))
           R == slice_to_runs(dev, h)
           turns == {j \in Decisive(dev, h) :
                       \E i \in Decisive(dev, h) : Turns(dev, h, i, j)}
<1>1. PICK chg : Scans(d, chg, Len(dev)) /\ R = RunsOf(dev, d, chg[Len(dev)])
  BY RunsAre
<1> DEFINE ch == chg[Len(dev)]
           K == Len(ch)
<1>2. Lists(ch, C)
  <2>1. Len(dev) \in Nat
    OBVIOUS
  <2> HIDE DEF d
  <2> QED BY <1>1, <2>1, ScanLists
<1> HIDE DEF ch
<1>3. EdgesDivide(dev, h, ch) /\ ch \in Seq(Nat)
  BY <1>2, EdgesOfChanges DEF Lists
<1>4. /\ Len(R) = K + 1 /\ DOMAIN R = 1..(K + 1) /\ R[1].start = Grid
      /\ \A n \in 1..(K + 1) :
           /\ R[n].lvl = d[IF n = 1 THEN 1 ELSE ch[n - 1]]
           /\ R[n].start = IF n = 1 THEN Grid ELSE Edge(dev, ch[n - 1])
           /\ R[n].start + R[n].d =
                IF n = K + 1 THEN (Len(dev) + 1) * Grid ELSE Edge(dev, ch[n])
  <2> HIDE DEF d, R
  <2> QED BY <1>1, <1>3, RunFields, SMTT(40) DEF ch
<1>5. C = turns
  <2>1. \A c \in C : c \in turns
    BY ChangeIsTurn DEF Turns
  <2>2. \A c \in turns : c \in C
    BY ChangeIsTurn
  <2> QED BY <2>1, <2>2
<1>6. Cardinality(turns) = K /\ K \in Nat
  BY <1>2, <1>5, ListedOnce
<1> HIDE DEF R, K, turns, C
<1>7. ASSUME NEW i \in Decisive(dev, h), NEW n \in 1..(K + 1),
             R[n].start <= i * Grid, i * Grid < R[n].start + R[n].d
      PROVE  R[n].lvl = (dev[i] > 0)
  <2>1. /\ n # 1 => Edge(dev, ch[n - 1]) <= i * Grid
        /\ n # K + 1 => i * Grid < Edge(dev, ch[n])
        /\ R[n].lvl = d[IF n = 1 THEN 1 ELSE ch[n - 1]]
    BY <1>4, <1>7
  <2> QED BY <1>2, <1>3, <2>1, RunHasLevel DEF K, C
<1>8. ASSUME NEW n \in 1..(K + 1)
      PROVE  R[n].start + R[n].d = IF n = Len(R) THEN (Len(dev) + 1) * Grid
                                   ELSE R[n + 1].start
  <2>1. CASE n = K + 1
    BY <1>4, <2>1
  <2>2. CASE n # K + 1
    <3>1. n + 1 \in 1..(K + 1) /\ n + 1 # 1 /\ (n + 1) - 1 = n
      BY <1>6, <2>2
    <3>2. R[n + 1].start = Edge(dev, ch[n])
      BY <1>4, <3>1
    <3> QED BY <1>4, <2>2, <3>2
  <2> QED BY <2>1, <2>2
<1> QED BY <1>4, <1>6, <1>7, <1>8 DEF Follow, R, turns

(* Where a behaviour is, as far as its signal is concerned. *)
SliceInv ==
  /\ stage = "slice" => given \in Signals
  /\ stage = "sliced" => /\ given \in Signals
                         /\ made.runs = slice_to_runs(given.dev, given.h)

(* The runs are those of the signal that was given. *)
LEMMA SliceInvHolds == Spec => []SliceInv
<1>1. Init => SliceInv
  BY DEF Init, SliceInv
<1>2. SliceInv /\ [Next]_vars => SliceInv'
  <2> SUFFICES ASSUME SliceInv, [Next]_vars PROVE SliceInv'
    OBVIOUS
  <2>1. CASE FindEvents
    BY <2>1 DEF FindEvents, SliceInv
  <2>2. CASE SliceToRuns
    BY <2>2 DEF SliceToRuns, SliceInv
  <2>3. CASE InferTiming
    BY <2>3 DEF InferTiming, SliceInv
  <2>4. CASE RunAll
    BY <2>4 DEF RunAll, SliceInv
  <2>5. CASE Align
    BY <2>5 DEF Align, SliceInv
  <2>6. CASE Search_checksum
    BY <2>6 DEF Search_checksum, SliceInv
  <2>7. CASE UNCHANGED vars
    BY <2>7 DEF vars, SliceInv
  <2> QED BY <2>1, <2>2, <2>3, <2>4, <2>5, <2>6, <2>7 DEF Next
<1> QED BY <1>1, <1>2, PTL DEF Spec

(* Whatever the signal, the hysteresis and the search for a crossing: the   *)
(* runs of slice_to_runs (dsp.py) change their level where the decisive     *)
(* samples do and only there, follow each other without a hole, and every   *)
(* decisive sample is in a run of its own level.                            *)
THEOREM RunsAlwaysFollow == Spec => []RunsFollowDecisiveSamples
<1>1. SliceInv => RunsFollowDecisiveSamples
  <2> SUFFICES ASSUME SliceInv, stage = "sliced"
               PROVE  RunsFollowDecisiveSamples
    BY DEF RunsFollowDecisiveSamples
  <2>1. given \in Signals /\ made.runs = slice_to_runs(given.dev, given.h)
    BY DEF SliceInv
  <2>2. given.dev \in Seq(Int) /\ given.h \in Nat /\ Fine(given.dev)
    BY <2>1, SignalsAssumption DEF Fine
  <2>3. Follow(made.runs, given.dev, given.h)
    BY <2>1, <2>2, SlicedFollow
  <2>4. {j \in Decisive(given.dev, given.h) :
           \E i \in Decisive(given.dev, given.h) :
             /\ i < j /\ (given.dev[i] > 0) # (given.dev[j] > 0)
             /\ \A l \in (i + 1)..(j - 1) :
                  l \notin Decisive(given.dev, given.h)}
        = {j \in Decisive(given.dev, given.h) :
             \E i \in Decisive(given.dev, given.h) :
               Turns(given.dev, given.h, i, j)}
    BY DEF Turns
  <2> QED BY <2>3, <2>4 DEF RunsFollowDecisiveSamples, Follow
<1> QED BY <1>1, SliceInvHolds, PTL

(* The order of the numbers is transitive. *)
LEMMA UpTo ==
  ASSUME NEW a \in Int, NEW b \in Int, NEW c \in Int, a <= b, b <= c
  PROVE  a <= c
OBVIOUS

-----------------------------------------------------------------------------
(* The bits of bytes. *)

(* A byte is a sequence of bits. *)
LEMMA ByteIsSeq ==
  ASSUME NEW b \in Byte
  PROVE  b \in Seq(BOOLEAN) /\ Len(b) = ByteBits
  BY ByteAssumption DEF Byte

(* One step of FlattenSeq, fl being the function built so far. *)
FlatStep(q, fl, i) == IF i = 1 THEN q[i] ELSE fl[i - 1] \o q[i]

(* fl has joined the first n sequences. *)
Joins(q, fl, n) == fl = [i \in 1..n |-> FlatStep(q, fl, i)]

(* There is a function that the recursion of FlattenSeq describes.          *)
LEMMA JoinExists ==
  ASSUME NEW q, NEW n \in Nat
  PROVE  \E fl : Joins(q, fl, n)
<1> DEFINE Bad == {m \in Nat : ~ \E fl : Joins(q, fl, m)}
<1> SUFFICES ASSUME n \in Bad PROVE FALSE
  OBVIOUS
<1>1. PICK m \in Bad : \A k \in Bad : m <= k
  <2>1. Bad \subseteq Nat /\ Bad # {}
    OBVIOUS
  <2> HIDE DEF Bad
  <2> QED BY <2>1, LeastIn
<1>2. m \in Nat /\ ~ \E fl : Joins(q, fl, m)
  OBVIOUS
<1>3. CASE m = 0
  <2> DEFINE fl == [i \in 1..0 |-> <<>>]
  <2>1. Joins(q, fl, 0)
    BY DEF Joins
  <2> QED BY <1>2, <1>3, <2>1
<1>4. CASE m # 0
  <2>1. m - 1 \in Nat /\ m - 1 \notin Bad
    BY <1>1, <1>2, <1>4
  <2>2. PICK old : Joins(q, old, m - 1)
    BY <2>1
  <2> DEFINE fl == [i \in 1..m |-> IF i < m THEN old[i]
                                   ELSE FlatStep(q, old, m)]
  <2>3. \A i \in 1..m : fl[i] = FlatStep(q, fl, i)
    <3> SUFFICES ASSUME NEW i \in 1..m
                 PROVE  fl[i] = FlatStep(q, fl, i)
      OBVIOUS
    <3>1. i # 1 => i - 1 \in 1..m /\ i - 1 < m
      BY <1>2
    <3>2. i # 1 => fl[i - 1] = old[i - 1]
      BY <3>1
    <3>3. FlatStep(q, old, i) = FlatStep(q, fl, i)
      <4> HIDE DEF fl
      <4> QED BY <3>2 DEF FlatStep
    <3>4. i < m => i \in 1..(m - 1)
      BY <1>2
    <3>5. i < m => old[i] = FlatStep(q, old, i)
      BY <2>2, <3>4 DEF Joins
    <3>6. ~(i < m) => i = m
      BY <1>2
    <3> QED BY <3>3, <3>5, <3>6
  <2>4. Joins(q, fl, m)
    BY <2>3 DEF Joins
  <2> QED BY <1>2, <2>4
<1> QED BY <1>3, <1>4

(* bits are those of the first n bytes of q. *)
Holds(bits, q, n) ==
  /\ bits \in Seq(BOOLEAN) /\ Len(bits) = ByteBits * n
  /\ \A k \in 1..n, j \in 1..ByteBits : bits[ByteBits * (k - 1) + j] = q[k][j]

(* One byte more. *)
LEMMA HoldsOneMore ==
  ASSUME NEW q, NEW n \in Nat, NEW bits, Holds(bits, q, n),
         q[n + 1] \in Byte
  PROVE  Holds(bits \o q[n + 1], q, n + 1)
<1> DEFINE B == ByteBits
           b == q[n + 1]
           more == bits \o b
<1>1. B \in Nat /\ B # 0
  BY ByteAssumption
<1>2. bits \in Seq(BOOLEAN) /\ Len(bits) = B * n
  BY DEF Holds
<1>3. b \in Seq(BOOLEAN) /\ Len(b) = B
  BY ByteIsSeq
<1>4. B * n \in Nat /\ B * (n + 1) = B * n + B
  <2>1. B * n \in Int /\ B * (n + 1) = B * n + B
    BY <1>1, Products
  <2>2. B * n \in Nat
    BY <1>2
  <2> QED BY <2>1, <2>2
<1> DEFINE w == B * n
<1>5. /\ more \in Seq(BOOLEAN) /\ Len(more) = w + B
      /\ \A i \in 1..(w + B) :
           more[i] = IF i <= w THEN bits[i] ELSE b[i - w]
  <2> HIDE DEF b, w, B
  <2>1. bits \in Seq(BOOLEAN) /\ Len(bits) = w
    BY <1>2 DEF w
  <2> QED BY <1>3, <2>1, ConcatProperties
<1> HIDE DEF B, more, w
<1>6. ASSUME NEW k \in 1..(n + 1), NEW j \in 1..B
      PROVE  more[B * (k - 1) + j] = q[k][j]
  <2>1. k - 1 \in Int /\ n \in Int /\ k \in Int /\ n - 1 \in Int
    OBVIOUS
  <2> DEFINE x == B * (k - 1)
  <2>2. x \in Int /\ B * (k - 1 + 1) = x + B
    BY <1>1, <2>1, Products
  <2>3. B * 0 <= x /\ B * 0 = 0
    <3>1. 0 <= k - 1
      OBVIOUS
    <3>2. B * 0 = 0
      BY <1>1
    <3> QED BY <1>1, <2>1, <3>1, <3>2, Products
  <2>4. CASE k = n + 1
    <3>1. x = w
      BY <2>4 DEF w
    <3> DEFINE i == w + j
    <3>2. i \in 1..(w + B) /\ ~(i <= w) /\ i - w = j
      BY <1>1, <1>4 DEF w
    <3> HIDE DEF i, b
    <3>3. more[i] = IF i <= w THEN bits[i] ELSE b[i - w]
      BY <1>5, <3>2
    <3>4. more[i] = b[j]
      BY <3>2, <3>3
    <3> QED BY <2>4, <3>1, <3>4 DEF i, b
  <2>5. CASE k # n + 1
    <3>1. k \in 1..n /\ k - 1 + 1 = k /\ k <= n
      BY <2>5
    <3>2. B * k <= w
      BY <1>1, <2>1, <3>1, Products DEF w
    <3>3. B * k = x + B
      BY <2>2, <3>1
    <3>4. w \in Int
      BY <1>4 DEF w
    <3> HIDE DEF x
    <3>5. x + j \in 1..(w + B) /\ x + j <= w
      BY <1>1, <2>2, <2>3, <3>2, <3>3, <3>4
    <3>6. more[x + j] = bits[x + j]
      BY <1>5, <3>5
    <3>7. bits[x + j] = q[k][j]
      BY <3>1 DEF Holds, x, B
    <3> QED BY <3>6, <3>7 DEF x
  <2> QED BY <2>4, <2>5
<1> QED BY <1>4, <1>5, <1>6 DEF Holds, B, more, w

(* The bits of a message are its bytes' bits, one byte behind the other.    *)
LEMMA BitsOfBytes ==
  ASSUME NEW q \in Seq(Byte), Len(q) # 0
  PROVE  Holds(bits_of(q), q, Len(q))
<1> DEFINE N == Len(q)
           fl == CHOOSE f : Joins(q, f, N)
<1>1. N \in Nat \ {0} /\ \A k \in 1..N : q[k] \in Byte
  OBVIOUS
<1>2. Joins(q, fl, N)
  BY <1>1, JoinExists, Zenon
<1>3. bits_of(q) = fl[N]
  BY DEF bits_of, FlattenSeq, Joins, FlatStep
<1> DEFINE Bad == {m \in 1..N : ~Holds(fl[m], q, m)}
<1> HIDE DEF fl, N
<1> SUFFICES ASSUME Bad # {} PROVE FALSE
  <2>1. N \in 1..N
    BY <1>1
  <2>2. Holds(fl[N], q, N)
    BY <2>1
  <2> QED BY <1>3, <2>2 DEF N
<1>4. PICK m \in Bad : \A k \in Bad : m <= k
  <2>1. Bad \subseteq Nat
    OBVIOUS
  <2> HIDE DEF Bad
  <2> QED BY <2>1, LeastIn
<1>5. m \in 1..N /\ ~Holds(fl[m], q, m) /\ m \in Nat
  OBVIOUS
<1>6. fl[m] = FlatStep(q, fl, m)
  BY <1>2, <1>5 DEF Joins
<1>7. CASE m = 1
  <2>1. fl[1] = q[1] /\ q[1] \in Byte
    BY <1>1, <1>5, <1>6, <1>7 DEF FlatStep
  <2>2. q[1] \in Seq(BOOLEAN) /\ Len(q[1]) = ByteBits
    BY <2>1, ByteIsSeq
  <2>3. ByteBits * 1 = ByteBits /\ ByteBits \in Nat
    BY ByteAssumption
  <2>4. \A k \in 1..1, j \in 1..ByteBits :
          k = 1 /\ ByteBits * (k - 1) + j = j
    BY <2>3
  <2>5. Holds(q[1], q, 1)
    BY <2>2, <2>3, <2>4 DEF Holds
  <2> QED BY <1>5, <1>7, <2>1, <2>5
<1>8. CASE m # 1
  <2>1. m - 1 \in 1..N /\ ~(m <= m - 1) /\ m - 1 \in Nat /\ m - 1 + 1 = m
    BY <1>1, <1>5, <1>8
  <2>2. m - 1 \notin Bad
    <3> HIDE DEF Bad
    <3> QED BY <1>4, <2>1
  <2>3. Holds(fl[m - 1], q, m - 1)
    BY <2>1, <2>2
  <2>4. fl[m] = fl[m - 1] \o q[m]
    BY <1>6, <1>8 DEF FlatStep
  <2>5. q[m] \in Byte
    BY <1>1, <1>5
  <2>6. Holds(fl[m - 1] \o q[m], q, m)
    <3> DEFINE n == m - 1
    <3>1. n \in Nat /\ n + 1 = m /\ Holds(fl[n], q, n)
      BY <2>1, <2>3
    <3> HIDE DEF n
    <3>2. q[n + 1] \in Byte
      BY <2>5, <3>1
    <3>3. Holds(fl[n] \o q[n + 1], q, n + 1)
      BY <3>1, <3>2, HoldsOneMore
    <3> QED BY <3>1, <3>3 DEF n
  <2> QED BY <1>5, <2>4, <2>6
<1> QED BY <1>7, <1>8

(* What is left of bits behind the first i. *)
LEMMA FromIs ==
  ASSUME NEW bits \in Seq(BOOLEAN), NEW i \in Nat
  PROVE  /\ From(bits, i) \in Seq(BOOLEAN)
         /\ i <= Len(bits) => Len(From(bits, i)) = Len(bits) - i
         /\ \A j \in 1..(Len(bits) - i) : From(bits, i)[j] = bits[i + j]
<1> DEFINE N == Len(bits)
<1>1. N \in Nat /\ \A j \in 1..N : bits[j] \in BOOLEAN
  OBVIOUS
<1>2. From(bits, i) = SubSeq(bits, 1 + i, N)
  <2>1. ~(i < 0)
    OBVIOUS
  <2> QED BY <2>1 DEF From
<1> HIDE DEF N
<1>3. \A j \in (1 + i)..N : bits[j] \in BOOLEAN
  BY <1>1
<1>4. 1 + i \in Int /\ N \in Int
  BY <1>1
<1>5. /\ SubSeq(bits, 1 + i, N) \in Seq(BOOLEAN)
      /\ Len(SubSeq(bits, 1 + i, N))
           = IF 1 + i <= N THEN N - (1 + i) + 1 ELSE 0
      /\ \A j \in 1..(N - (1 + i) + 1) :
           SubSeq(bits, 1 + i, N)[j] = bits[1 + i + j - 1]
  BY <1>3, <1>4, SubSeqProperties
<1>6. i <= N => (IF 1 + i <= N THEN N - (1 + i) + 1 ELSE 0) = N - i
  BY <1>1
<1>7. ASSUME NEW j \in 1..(N - i) PROVE From(bits, i)[j] = bits[i + j]
  <2>1. j \in 1..(N - (1 + i) + 1) /\ 1 + i + j - 1 = i + j
    BY <1>1
  <2> QED BY <1>2, <1>5, <2>1
<1> QED BY <1>2, <1>5, <1>6, <1>7 DEF N

(* Losing bits twice. *)
LEMMA FromTwice ==
  ASSUME NEW bits \in Seq(BOOLEAN), NEW a \in Nat, NEW b \in Nat,
         a + b <= Len(bits)
  PROVE  From(From(bits, a), b) = From(bits, a + b)
<1> DEFINE N == Len(bits)
           once == From(bits, a)
           twice == From(once, b)
           all == From(bits, a + b)
<1>1. N \in Nat /\ a + b \in Nat /\ a <= N
  OBVIOUS
<1>2. once \in Seq(BOOLEAN) /\ Len(once) = N - a
      /\ \A j \in 1..(N - a) : once[j] = bits[a + j]
  BY <1>1, FromIs
<1>3. all \in Seq(BOOLEAN) /\ Len(all) = N - (a + b)
      /\ \A j \in 1..(N - (a + b)) : all[j] = bits[a + b + j]
  BY <1>1, FromIs
<1> HIDE DEF N, once, all
<1>4. b <= Len(once)
  BY <1>1, <1>2 DEF N
<1>5. twice \in Seq(BOOLEAN) /\ Len(twice) = Len(once) - b
      /\ \A j \in 1..(Len(once) - b) : twice[j] = once[b + j]
  BY <1>2, <1>4, FromIs
<1> HIDE DEF twice
<1>6. Len(twice) = Len(all)
  BY <1>1, <1>2, <1>3, <1>5
<1>7. ASSUME NEW j \in 1..Len(twice) PROVE twice[j] = all[j]
  <2>1. j \in 1..(N - (a + b)) /\ j \in 1..(Len(once) - b)
    BY <1>3, <1>5, <1>6
  <2>2. b + j \in 1..(N - a) /\ a + (b + j) = a + b + j
    BY <1>1, <2>1
  <2> QED BY <1>2, <1>3, <1>5, <2>1, <2>2
<1> QED BY <1>3, <1>5, <1>6, <1>7, SeqEqual DEF twice, once, all

-----------------------------------------------------------------------------
(* Aligning frames. *)

(* Finitely many numbers lie between two. *)
LEMMA BoundsExist ==
  ASSUME NEW n \in Nat, NEW f, \A i \in 1..n : f[i] \in Int
  PROVE  \E lo, hi \in Int : \A i \in 1..n : lo <= f[i] /\ f[i] <= hi
<1> DEFINE Fit(m) == \E lo, hi \in Int :
                       \A i \in 1..m : lo <= f[i] /\ f[i] <= hi
           Bad == {m \in 0..n : ~Fit(m)}
<1> SUFFICES ASSUME n \in Bad PROVE FALSE
  OBVIOUS
<1>1. PICK m \in Bad : \A k \in Bad : m <= k
  <2>1. Bad \subseteq Nat /\ Bad # {}
    <3> HIDE DEF Fit
    <3> QED OBVIOUS
  <2> HIDE DEF Bad
  <2> QED BY <2>1, LeastIn
<1>2. m \in 0..n /\ ~Fit(m)
  OBVIOUS
<1>3. CASE m = 0
  <2>1. Fit(0)
    OBVIOUS
  <2> QED BY <1>2, <1>3, <2>1
<1>4. CASE m # 0
  <2>1. m - 1 \in 0..n /\ ~(m <= m - 1) /\ m \in 1..n /\ m \in Nat
    BY <1>2, <1>4
  <2>2. m - 1 \notin Bad
    <3> HIDE DEF Bad
    <3> QED BY <1>1, <2>1
  <2>3. Fit(m - 1)
    BY <2>1, <2>2
  <2>4. PICK lo \in Int, hi \in Int :
          \A i \in 1..(m - 1) : lo <= f[i] /\ f[i] <= hi
    BY <2>3
  <2> DEFINE x == f[m]
  <2>5. x \in Int
    BY <2>1
  <2> HIDE DEF x
  <2>6. PICK low \in Int : low <= x /\ low <= lo
    <3>1. CASE x < lo
      BY <2>5, <3>1
    <3>2. CASE ~(x < lo)
      <4>1. lo <= x /\ lo <= lo
        BY <2>5, <3>2
      <4> QED BY <4>1
    <3> QED BY <3>1, <3>2
  <2>7. PICK high \in Int : x <= high /\ hi <= high
    <3>1. CASE x > hi
      BY <2>5, <3>1
    <3>2. CASE ~(x > hi)
      <4>1. x <= hi /\ hi <= hi
        BY <2>5, <3>2
      <4> QED BY <4>1
    <3> QED BY <3>1, <3>2
  <2>8. ASSUME NEW i \in 1..m PROVE low <= f[i] /\ f[i] <= high
    <3>1. CASE i = m
      BY <2>6, <2>7, <3>1 DEF x
    <3>2. CASE i # m
      <4>1. i \in 1..(m - 1) /\ i \in 1..n
        BY <2>1, <3>2
      <4>2. PICK y \in Int : y = f[i]
        BY <4>1
      <4>3. lo <= y /\ y <= hi
        BY <2>4, <4>1, <4>2
      <4>4. low <= y /\ y <= high
        <5>1. low <= lo /\ hi <= high
          BY <2>6, <2>7
        <5> QED BY <4>3, <5>1, UpTo
      <4> QED BY <4>2, <4>4
    <3> QED BY <3>1, <3>2
  <2>9. Fit(m)
    BY <2>8
  <2> QED BY <1>2, <2>9
<1> QED BY <1>3, <1>4

(* So they have a greatest and a least. *)
LEMMA ExtremesExist ==
  ASSUME NEW n \in Nat \ {0}, NEW f, \A i \in 1..n : f[i] \in Int
  PROVE  LET S == {f[i] : i \in 1..n}
         IN  /\ Max(S) \in S /\ \A y \in S : y <= Max(S)
             /\ Min(S) \in S /\ \A y \in S : Min(S) <= y
<1> DEFINE S == {f[i] : i \in 1..n}
<1>1. PICK lo \in Int, hi \in Int : \A i \in 1..n : lo <= f[i] /\ f[i] <= hi
  BY BoundsExist
<1>2. S \subseteq Int /\ f[1] \in S /\ \A y \in S : lo <= y /\ y <= hi
  BY <1>1
<1> HIDE DEF S
<1>3. Max(S) \in S /\ \A y \in S : y <= Max(S)
  BY <1>2, MaxOfSome
<1>4. Min(S) \in S /\ \A y \in S : Min(S) <= y
  BY <1>2, MinOfSome
<1> QED BY <1>3, <1>4 DEF S

Frames(fs) ==
  /\ DOMAIN fs = 1..Len(fs) /\ Len(fs) \in Nat
  /\ \A i \in 1..Len(fs) : fs[i].bits \in Seq(BOOLEAN)

(* The reference is one of the frames. *)
LEMMA ReferenceIsFrame ==
  ASSUME NEW fs, Frames(fs), Len(fs) # 0
  PROVE  Reference(fs) \in Seq(BOOLEAN)
<1> DEFINE N == Len(fs)
           f == [i \in 1..N |-> Len(fs[i].bits)]
           S == {f[i] : i \in 1..N}
           longest == {i \in DOMAIN fs : \A j \in DOMAIN fs :
                         Len(fs[j].bits) <= Len(fs[i].bits)}
<1>1. DOMAIN fs = 1..N /\ N \in Nat \ {0}
      /\ \A i \in 1..N : fs[i].bits \in Seq(BOOLEAN) /\ f[i] \in Int
                         /\ f[i] = Len(fs[i].bits)
  BY DEF Frames
<1> HIDE DEF f, N
<1>2. Max(S) \in S /\ \A y \in S : y <= Max(S)
  BY <1>1, ExtremesExist
<1>3. PICK i \in 1..N : Max(S) = f[i]
  BY <1>2
<1>4. \A j \in 1..N : f[j] <= f[i]
  BY <1>2, <1>3
<1>5. i \in longest
  BY <1>1, <1>4
<1>6. longest \subseteq 1..N
  BY <1>1
<1> HIDE DEF longest
<1>7. longest \subseteq Int /\ \A j \in longest : 1 <= j
  BY <1>1, <1>6
<1>8. Min(longest) \in longest
  <2>1. 1 \in Int
    OBVIOUS
  <2> QED BY <1>5, <1>7, <2>1, MinOfSome
<1>9. Reference(fs) = fs[Min(longest)].bits
  BY DEF Reference, longest
<1> QED BY <1>1, <1>6, <1>8, <1>9

(* Where str.find finds a pattern. *)
LEMMA FoundIs ==
  ASSUME NEW bits \in Seq(BOOLEAN), NEW pat, Len(pat) \in Nat,
         NEW pos \in Nat, Found(bits, pat, pos) >= 0
  PROVE  /\ Found(bits, pat, pos) \in Nat
         /\ Found(bits, pat, pos) + Len(pat) <= Len(bits)
         /\ SubSeq(bits, Found(bits, pat, pos) + 1,
                   Found(bits, pat, pos) + Len(pat)) = pat
<1> DEFINE lo == Max({0, pos - MaxShift})
           hi == pos + MaxShift + Len(pat)
           up == Min({hi, Len(bits)}) - Len(pat)
           at == {j \in lo..up : SubSeq(bits, j + 1, j + Len(pat)) = pat}
           p == Found(bits, pat, pos)
<1>1. p = IF at = {} THEN -1 ELSE Min(at)
  BY DEF Found, find
<1>2. at # {} /\ p = Min(at)
  <2> HIDE DEF at, p
  <2>1. at # {}
    <3> SUFFICES ASSUME at = {} PROVE FALSE
      OBVIOUS
    <3>1. p = -1 /\ p >= 0
      BY <1>1 DEF p
    <3> QED BY <3>1
  <2> QED BY <1>1, <2>1
<1>3. MaxShift \in Nat /\ Len(bits) \in Nat
  BY CompareAssumption
<1>4. lo \in Int /\ lo >= 0
  <2>1. lo = IF 0 >= pos - MaxShift THEN 0 ELSE pos - MaxShift
    <3>1. 0 \in Int /\ pos - MaxShift \in Int
      BY <1>3
    <3> QED BY <3>1, MaxOfTwo
  <2> QED BY <1>3, <2>1
<1>5. up \in Int /\ up + Len(pat) <= Len(bits)
  <2>1. hi \in Int
    BY <1>3
  <2> HIDE DEF hi
  <2>2. Min({hi, Len(bits)}) = IF hi <= Len(bits) THEN hi ELSE Len(bits)
    BY <1>3, <2>1, MinOfTwo
  <2> QED BY <1>3, <2>1, <2>2
<1> HIDE DEF lo, up
<1>6. at \subseteq Int /\ \A j \in at : lo <= j /\ j <= up
  BY <1>4, <1>5
<1>7. Min(at) \in at
  <2>1. PICK x \in at : TRUE
    BY <1>2
  <2> HIDE DEF at
  <2> QED BY <1>4, <1>6, <2>1, MinOfSome
<1>8. p \in at
  BY <1>2, <1>7
<1>9. SubSeq(bits, p + 1, p + Len(pat)) = pat
  BY <1>8
<1> HIDE DEF at, p
<1>10. p \in Int /\ lo <= p /\ p <= up
  BY <1>6, <1>8
<1>11. p \in Nat /\ p + Len(pat) <= Len(bits)
  BY <1>3, <1>4, <1>5, <1>10
<1> QED BY <1>9, <1>11 DEF p

(* A share counts the frames that have the pattern.                         *)
LEMMA ShareIs ==
  ASSUME NEW fs, Frames(fs), NEW ref, NEW pos, NEW len
  PROVE  /\ Share(fs, ref, pos, len) \in Nat
         /\ Share(fs, ref, pos, len) <= Len(fs)
         /\ Share(fs, ref, pos, len) = Len(fs)
              => \A i \in DOMAIN fs :
                   Found(fs[i].bits, SubSeq(ref, pos + 1, pos + len), pos) >= 0
<1> DEFINE have == {i \in DOMAIN fs :
              Found(fs[i].bits, SubSeq(ref, pos + 1, pos + len), pos) >= 0}
           N == Len(fs)
<1>1. DOMAIN fs = 1..N /\ N \in Nat
  BY DEF Frames
<1>2. Share(fs, ref, pos, len) = Cardinality(have)
  BY DEF Share
<1>3. have \subseteq DOMAIN fs
  OBVIOUS
<1>4. have = DOMAIN fs
        => \A i \in DOMAIN fs :
             Found(fs[i].bits, SubSeq(ref, pos + 1, pos + len), pos) >= 0
  OBVIOUS
<1> HIDE DEF have, N
<1>5. IsFiniteSet(1..N) /\ Cardinality(1..N) = N
  <2>1. 1 \in Int /\ N \in Int /\ (1 > N => N = 0)
    BY <1>1
  <2>2. IsFiniteSet(1..N) /\ Cardinality(1..N) = IF 1 > N THEN 0 ELSE N - 1 + 1
    BY <2>1, FS_Interval
  <2> QED BY <2>1, <2>2
<1>6. IsFiniteSet(have) /\ Cardinality(have) <= N
      /\ (Cardinality(have) = N => have = 1..N)
  BY <1>1, <1>3, <1>5, FS_Subset
<1>7. Cardinality(have) \in Nat
  BY <1>6, FS_CardinalityType
<1> QED BY <1>1, <1>2, <1>4, <1>6, <1>7 DEF N

(* There is a most common pattern: of the places with the greatest share    *)
(* the first.                                                               *)
LEMMA MostCommonIs ==
  ASSUME NEW fs, Frames(fs), NEW ref, NEW len,
         NEW places, places \subseteq Nat, places # {}
  PROVE  \E pos \in places :
           MostCommon(fs, ref, places, len)
             = [pos |-> pos, pat |-> SubSeq(ref, pos + 1, pos + len)]
<1> DEFINE N == Len(fs)
           share(p) == Share(fs, ref, p, len)
           lack == {N - share(p) : p \in places}
<1>1. N \in Nat
  BY DEF Frames
<1>2. \A p \in places : share(p) \in Nat /\ share(p) <= N
  BY ShareIs
<1> HIDE DEF N, share
<1>3. lack \subseteq Nat /\ lack # {}
  <2>1. ASSUME NEW p \in places PROVE N - share(p) \in Nat
    <3>1. PICK s \in Nat : s = share(p) /\ s <= N
      BY <1>2
    <3>2. N - s \in Nat
      BY <1>1, <3>1
    <3> QED BY <3>1, <3>2
  <2> QED BY <2>1
<1>4. PICK l \in lack : \A m \in lack : l <= m
  <2> HIDE DEF lack
  <2> QED BY <1>3, LeastIn
<1> DEFINE first == {p \in places : N - share(p) = l}
<1>5. first \subseteq Nat /\ first # {}
  OBVIOUS
<1>6. PICK p \in first : \A q \in first : p <= q
  <2> HIDE DEF first
  <2> QED BY <1>5, LeastIn
<1>7. p \in places /\ \A q \in places : share(q) < share(p)
                               \/ (share(q) = share(p) /\ p <= q)
  <2>1. p \in places /\ N - share(p) = l
    OBVIOUS
  <2> SUFFICES ASSUME NEW q \in places
               PROVE  share(q) < share(p) \/ (share(q) = share(p) /\ p <= q)
    BY <2>1
  <2>2. PICK a \in Nat, b \in Nat : a = share(q) /\ b = share(p)
    BY <1>2, <2>1
  <2>3. N - a \in lack
    BY <2>2
  <2>4. N - b <= N - a
    <3> HIDE DEF lack
    <3> QED BY <1>4, <2>1, <2>2, <2>3
  <2>5. a < b \/ a = b
    BY <1>1, <2>2, <2>4
  <2>6. CASE a = b
    <3>1. q \in first
      BY <2>1, <2>2, <2>6
    <3> HIDE DEF first
    <3> QED BY <1>6, <2>2, <2>6, <3>1
  <2> QED BY <2>2, <2>5, <2>6
<1> HIDE DEF lack, first
<1>8. \E x \in places : \A q \in places :
        LET a == Share(fs, ref, q, len)  b == Share(fs, ref, x, len)
        IN  a < b \/ (a = b /\ x <= q)
  BY <1>7 DEF share
<1> DEFINE pos == CHOOSE x \in places : \A q \in places :
                    LET a == Share(fs, ref, q, len)
                        b == Share(fs, ref, x, len)
                    IN  a < b \/ (a = b /\ x <= q)
<1>9. pos \in places
  BY <1>8
<1>10. MostCommon(fs, ref, places, len)
         = [pos |-> pos, pat |-> SubSeq(ref, pos + 1, pos + len)]
  BY DEF MostCommon
<1> HIDE DEF pos
<1> QED BY <1>9, <1>10

(* What find_anchor returns is in the reference, and in nine of ten frames  *)
(* near its place.                                                          *)
LEMMA AnchorIs ==
  ASSUME NEW fs, Frames(fs), NEW ref \in Seq(BOOLEAN),
         find_anchor(fs, ref) # NoAnchor
  PROVE  \E pos \in Nat, len \in Nat \ {0} :
           /\ find_anchor(fs, ref)
                = [pos |-> pos, pat |-> SubSeq(ref, pos + 1, pos + len)]
           /\ pos + len <= Len(ref)
           /\ 10 * Share(fs, ref, pos, len) >= 9 * Len(fs)
<1> DEFINE places(len) == {pos \in 0..Min({MaxShift, Len(ref) - len}) :
                             10 * Share(fs, ref, pos, len) >= 9 * Len(fs)}
           usable == {n \in DOMAIN Lengths : places(Lengths[n]) # {}}
           Longest(len) == MostCommon(fs, ref, places(len), len)
           n == Min(usable)
           len == Lengths[n]
           there == places(len)
<1>1. find_anchor(fs, ref) = IF usable = {} THEN NoAnchor ELSE Longest(len)
  BY DEF find_anchor
<1>2. DOMAIN Lengths \subseteq Nat /\ MaxShift \in Nat /\ Len(ref) \in Nat
      /\ \A m \in DOMAIN Lengths : Lengths[m] \in Nat \ {0}
  BY CompareAssumption
<1>3. usable \subseteq Nat /\ usable \subseteq DOMAIN Lengths
  <2> HIDE DEF places
  <2> QED BY <1>2
<1>4. usable # {}
  <2> HIDE DEF usable, Longest, len
  <2> QED BY <1>1
<1>5. n \in usable
  <2> HIDE DEF usable
  <2>1. PICK m \in usable : \A k \in usable : m <= k
    BY <1>3, <1>4, LeastIn
  <2> QED BY <2>1 DEF Min
<1>6. n \in DOMAIN Lengths /\ there # {}
  <2>1. n \in {m \in DOMAIN Lengths : places(Lengths[m]) # {}}
    BY <1>5
  <2> HIDE DEF places, n
  <2> QED BY <2>1
<1>7. len \in Nat \ {0}
  <2> HIDE DEF n
  <2> QED BY <1>2, <1>6
<1> DEFINE up == Min({MaxShift, Len(ref) - len})
<1>8. there = {pos \in 0..up : 10 * Share(fs, ref, pos, len) >= 9 * Len(fs)}
  OBVIOUS
<1>9. find_anchor(fs, ref) = MostCommon(fs, ref, there, len)
  <2> HIDE DEF usable, len, places
  <2> QED BY <1>1, <1>4
<1> HIDE DEF n, len, usable, Longest, places, there
<1>10. up \in Int /\ up <= Len(ref) - len
  <2>1. MaxShift \in Int /\ Len(ref) - len \in Int
    BY <1>2, <1>7
  <2>2. up = IF MaxShift <= Len(ref) - len THEN MaxShift ELSE Len(ref) - len
    BY <2>1, MinOfTwo
  <2> HIDE DEF up
  <2> QED BY <1>2, <1>7, <2>2
<1> HIDE DEF up
<1>11. there \subseteq Nat
  <2>1. 0..up \subseteq Nat
    BY <1>10
  <2> QED BY <1>8, <2>1
<1>12. PICK pos \in there :
         find_anchor(fs, ref)
           = [pos |-> pos, pat |-> SubSeq(ref, pos + 1, pos + len)]
  <2>1. \E pos \in there :
          MostCommon(fs, ref, there, len)
            = [pos |-> pos, pat |-> SubSeq(ref, pos + 1, pos + len)]
    BY <1>6, <1>11, MostCommonIs, ZenonT(60)
  <2> QED BY <1>9, <2>1
<1>13. pos \in Nat /\ pos <= up
       /\ 10 * Share(fs, ref, pos, len) >= 9 * Len(fs)
  BY <1>8, <1>10
<1>14. pos + len <= Len(ref)
  BY <1>2, <1>7, <1>10, <1>13
<1> QED BY <1>7, <1>12, <1>13, <1>14

(* Nine of ten of fewer than ten frames are all of them.                    *)
LEMMA AllShare ==
  ASSUME NEW fs, Frames(fs), Len(fs) <= 9, NEW ref, NEW pos, NEW len,
         10 * Share(fs, ref, pos, len) >= 9 * Len(fs)
  PROVE  \A i \in DOMAIN fs :
           Found(fs[i].bits, SubSeq(ref, pos + 1, pos + len), pos) >= 0
<1>1. PICK s \in Nat : s = Share(fs, ref, pos, len) /\ s <= Len(fs)
  BY ShareIs
<1>2. Len(fs) \in Nat
  BY DEF Frames
<1>3. 10 * s >= 9 * Len(fs)
  BY <1>1
<1>4. s = Len(fs)
  BY <1>1, <1>2, <1>3
<1> QED BY <1>1, <1>4, ShareIs

(* A column in which every one of at least two frames has the same bit is   *)
(* marked as fixed.                                                         *)
LEMMA FixedColumn ==
  ASSUME NEW aligned, NEW N \in Nat, N >= 2, DOMAIN aligned = 1..N,
         \A i \in 1..N : aligned[i].f.bits \in Seq(BOOLEAN)
                         /\ aligned[i].s \in Int,
         NEW col \in Int, NEW v,
         \A i \in 1..N :
           /\ col - aligned[i].s \in 0..(Len(aligned[i].f.bits) - 1)
           /\ aligned[i].f.bits[col - aligned[i].s + 1] = v
  PROVE  classify_columns(aligned)[col] = "="
<1> DEFINE n(i) == Len(aligned[i].f.bits)
           first == Min({aligned[i].s : i \in DOMAIN aligned})
           end == Max({aligned[i].s + n(i) : i \in DOMAIN aligned})
           has(c) ==
             {i \in DOMAIN aligned : c - aligned[i].s \in 0..(n(i) - 1)}
           bit(i, c) == aligned[i].f.bits[c - aligned[i].s + 1]
           values(S, c) == {bit(i, c) : i \in S}
           labelled(S, l) == {i \in S : aligned[i].f.label = l}
           mark(c) == LET S == has(c)
                      IN  IF Cardinality(S) < 2 THEN " "
                          ELSE IF Cardinality(values(S, c)) = 1 THEN "="
                          ELSE IF \A i \in S : Cardinality(values(
                                    labelled(S, aligned[i].f.label), c)) = 1
                          THEN "L" ELSE "*"
<1>1. classify_columns(aligned) = [c \in first..(end - 1) |-> mark(c)]
  BY DEF classify_columns
<1>2. has(col) = 1..N
  OBVIOUS
<1>3. values(1..N, col) = {v}
  <2>1. \A i \in 1..N : bit(i, col) = v
    OBVIOUS
  <2>2. 1 \in 1..N
    OBVIOUS
  <2> HIDE DEF bit
  <2> QED BY <2>1, <2>2
<1>4. Cardinality({v}) = 1
  BY FS_Singleton
<1>5. ~(Cardinality(1..N) < 2)
  <2>1. 1 \in Int /\ N \in Int /\ ~(1 > N) /\ N - 1 + 1 = N
    OBVIOUS
  <2>2. Cardinality(1..N) = N
    BY <2>1, FS_Interval
  <2> QED BY <2>2
<1>6. mark(col) = "="
  <2> HIDE DEF has, values, labelled
  <2> QED BY <1>2, <1>3, <1>4, <1>5
<1>7. \A i \in 1..N : n(i) \in Nat
  OBVIOUS
<1> HIDE DEF mark
<1>8. first \in Int /\ first <= col
  <2> DEFINE g == [i \in 1..N |-> aligned[i].s]
             S == {g[i] : i \in 1..N}
  <2>1. N \in Nat \ {0} /\ \A i \in 1..N : g[i] \in Int
    OBVIOUS
  <2>2. S = {aligned[i].s : i \in DOMAIN aligned}
    OBVIOUS
  <2>3. g[1] \in S /\ S \subseteq Int
    OBVIOUS
  <2>4. g[1] <= col
    <3>1. 1 \in 1..N
      OBVIOUS
    <3>2. col - aligned[1].s >= 0 /\ aligned[1].s \in Int
      BY <1>7, <3>1
    <3>3. g[1] = aligned[1].s
      BY <3>1
    <3> QED BY <3>2, <3>3
  <2> HIDE DEF g
  <2>5. Min(S) \in S /\ \A y \in S : Min(S) <= y
    BY <2>1, ExtremesExist
  <2> HIDE DEF S
  <2>6. first = Min(S)
    BY <2>2
  <2> HIDE DEF first
  <2>7. first \in Int /\ first <= g[1] /\ g[1] \in Int
    BY <2>3, <2>5, <2>6
  <2> QED BY <2>4, <2>7, UpTo
<1>9. end \in Int /\ col + 1 <= end
  <2> DEFINE g == [i \in 1..N |-> aligned[i].s + n(i)]
             S == {g[i] : i \in 1..N}
  <2>1. N \in Nat \ {0} /\ \A i \in 1..N : g[i] \in Int
    BY <1>7
  <2>2. S = {aligned[i].s + n(i) : i \in DOMAIN aligned}
    OBVIOUS
  <2>3. g[1] \in S /\ S \subseteq Int
    BY <2>1
  <2>4. col + 1 <= g[1]
    <3>1. 1 \in 1..N
      OBVIOUS
    <3>2. col - aligned[1].s <= n(1) - 1 /\ aligned[1].s \in Int
          /\ n(1) \in Nat /\ col - aligned[1].s \in Int
      BY <1>7, <3>1
    <3>3. g[1] = aligned[1].s + n(1)
      BY <3>1
    <3> HIDE DEF n
    <3>4. col + 1 <= aligned[1].s + n(1)
      BY <3>2
    <3> QED BY <3>3, <3>4
  <2> HIDE DEF g
  <2>5. Max(S) \in S /\ \A y \in S : y <= Max(S)
    BY <2>1, ExtremesExist
  <2> HIDE DEF S
  <2>6. end = Max(S)
    BY <2>2
  <2> HIDE DEF end
  <2>7. end \in Int /\ g[1] <= end /\ g[1] \in Int
    BY <2>3, <2>5, <2>6
  <2>8. col + 1 \in Int
    OBVIOUS
  <2> QED BY <2>4, <2>7, <2>8, UpTo
<1>10. col \in first..(end - 1)
  <2> HIDE DEF first, end
  <2> QED BY <1>8, <1>9
<1> HIDE DEF first, end
<1> QED BY <1>1, <1>6, <1>10

(* So frames aligned on it have the pattern in the same columns.            *)
LEMMA AlignedOnAnchor ==
  ASSUME NEW fs, Frames(fs), Len(fs) \in 2..9,
         find_anchor(fs, Reference(fs)) # NoAnchor
  PROVE  LET anchor == find_anchor(fs, Reference(fs))
         IN  \A k \in DOMAIN anchor.pat :
               classify_columns(align(fs))[anchor.pos + k - 1] = "="
<1> DEFINE N == Len(fs)
           ref == Reference(fs)
           anchor == find_anchor(fs, ref)
           aligned == align(fs)
<1>1. N \in Nat /\ N >= 2 /\ N <= 9 /\ N # 0 /\ DOMAIN fs = 1..N
      /\ \A i \in 1..N : fs[i].bits \in Seq(BOOLEAN)
  <2>1. N \in 2..9
    OBVIOUS
  <2>2. DOMAIN fs = 1..N /\ \A i \in 1..N : fs[i].bits \in Seq(BOOLEAN)
    BY DEF Frames
  <2> HIDE DEF N
  <2> QED BY <2>1, <2>2
<1>2. ref \in Seq(BOOLEAN)
  BY <1>1, ReferenceIsFrame
<1>3. aligned
        = [i \in 1..N |-> [f |-> fs[i], s |-> Column(fs[i], ref, anchor)]]
  BY <1>1 DEF align, align_to
<1> HIDE DEF ref, aligned
<1>4. PICK pos \in Nat, len \in Nat \ {0} :
         /\ anchor = [pos |-> pos, pat |-> SubSeq(ref, pos + 1, pos + len)]
         /\ pos + len <= Len(ref)
         /\ 10 * Share(fs, ref, pos, len) >= 9 * Len(fs)
  BY <1>1, <1>2, AnchorIs DEF ref
<1> DEFINE pat == SubSeq(ref, pos + 1, pos + len)
<1>5. Len(pat) = len /\ DOMAIN pat = 1..len
  <2>1. Len(ref) \in Nat
    BY <1>2
  <2>2. 1 <= pos + 1 /\ pos + len - (pos + 1) + 1 = len
        /\ pos + 1 <= pos + len + 1
    OBVIOUS
  <2> QED BY <1>2, <1>4, <2>1, <2>2
<1>6. anchor.pos = pos /\ anchor.pat = pat /\ anchor # NoAnchor
  BY <1>4 DEF ref
<1> HIDE DEF anchor, pat
<1> SUFFICES ASSUME NEW k \in 1..len
             PROVE  classify_columns(aligned)[pos + k - 1] = "="
  BY <1>5, <1>6 DEF anchor, ref, aligned
<1>7. ASSUME NEW i \in 1..N
      PROVE  /\ aligned[i].f.bits = fs[i].bits /\ aligned[i].s \in Int
             /\ pos + k - 1 - aligned[i].s \in 0..(Len(fs[i].bits) - 1)
             /\ fs[i].bits[pos + k - 1 - aligned[i].s + 1] = pat[k]
  <2> DEFINE bits == fs[i].bits
             place == Found(bits, pat, pos)
  <2>1. bits \in Seq(BOOLEAN) /\ Len(bits) \in Nat
    BY <1>1
  <2>2. place >= 0
    BY <1>1, <1>4, AllShare DEF pat
  <2> HIDE DEF bits
  <2>3. place \in Nat /\ place + len <= Len(bits)
        /\ SubSeq(bits, place + 1, place + len) = pat
    BY <1>5, <2>1, <2>2, FoundIs
  <2>4. aligned[i].f = fs[i] /\ aligned[i].s = Column(fs[i], ref, anchor)
    BY <1>3
  <2>5. Column(fs[i], ref, anchor) = pos - place
    BY <1>6, <2>2 DEF Column, Offset, bits
  <2> HIDE DEF place
  <2>6. aligned[i].s = pos - place /\ pos - place \in Int
    BY <2>3, <2>4, <2>5
  <2>7. pos + k - 1 - (pos - place) = place + k - 1
        /\ place + k - 1 \in 0..(Len(bits) - 1)
        /\ place + k - 1 + 1 = place + k
    BY <2>1, <2>3
  <2>8. bits[place + k] = pat[k]
    <3> DEFINE sub == SubSeq(bits, place + 1, place + len)
    <3>1. place + 1 \in Nat /\ place + len \in Nat
          /\ place + len - (place + 1) + 1 = len
      BY <2>3
    <3>2. sub[k] = bits[place + 1 + k - 1]
      BY <2>1, <2>3, <3>1
    <3>3. place + 1 + k - 1 = place + k
      BY <2>3
    <3> QED BY <2>3, <3>2, <3>3
  <2>9. bits[pos + k - 1 - aligned[i].s + 1] = pat[k]
    BY <2>6, <2>7, <2>8
  <2>10. pos + k - 1 - aligned[i].s \in 0..(Len(bits) - 1)
    BY <2>6, <2>7
  <2> QED BY <2>4, <2>6, <2>9, <2>10 DEF bits
<1>8. DOMAIN aligned = 1..N
  BY <1>3
<1>9. \A i \in 1..N :
        /\ aligned[i].f.bits \in Seq(BOOLEAN) /\ aligned[i].s \in Int
        /\ pos + k - 1 - aligned[i].s \in 0..(Len(aligned[i].f.bits) - 1)
        /\ aligned[i].f.bits[pos + k - 1 - aligned[i].s + 1] = pat[k]
  <2> SUFFICES ASSUME NEW i \in 1..N
               PROVE  /\ aligned[i].f.bits \in Seq(BOOLEAN)
                      /\ aligned[i].s \in Int
                      /\ pos + k - 1 - aligned[i].s
                           \in 0..(Len(aligned[i].f.bits) - 1)
                      /\ aligned[i].f.bits[pos + k - 1 - aligned[i].s + 1]
                           = pat[k]
    OBVIOUS
  <2>1. fs[i].bits \in Seq(BOOLEAN)
    BY <1>1
  <2> QED BY <1>7, <2>1, SMTT(40)
<1>10. pos + k - 1 \in Int
  OBVIOUS
<1> DEFINE col == pos + k - 1
           v == pat[k]
<1>11. col \in Int
  BY <1>10
<1> HIDE DEF col, v
<1>12. \A i \in 1..N :
         /\ aligned[i].f.bits \in Seq(BOOLEAN) /\ aligned[i].s \in Int
         /\ col - aligned[i].s \in 0..(Len(aligned[i].f.bits) - 1)
         /\ aligned[i].f.bits[col - aligned[i].s + 1] = v
  BY <1>9, SMTT(40) DEF col, v
<1> HIDE DEF N
<1>13. classify_columns(aligned)[col] = "="
  BY <1>1, <1>8, <1>11, <1>12, FixedColumn, ZenonT(60)
<1> QED BY <1>13 DEF col

(* What is compared are the frames of a recording; the marks are those of   *)
(* the frames as they are aligned, and the report is on what is left when   *)
(* they begin together.                                                     *)
Compares ==
  \E s \in Sessions : given = [sent |-> s, frames |-> FramesOf(s)]

Trimmed(fs) ==
  LET trimmed == trim_common_start(align(fs))
  IN  [i \in DOMAIN trimmed |-> trimmed[i].bits]

CompareInv ==
  /\ stage \in {"align", "search", "searched"} => Compares
  /\ stage \in {"search", "searched"}
       => made.aligned = align(given.frames)
  /\ stage = "search"
       => made.marks = classify_columns(align(given.frames))
  /\ stage = "searched"
       => made.report = checksum_search(Trimmed(given.frames))

(* So it is in every comparison. *)
LEMMA CompareInvHolds == Spec => []CompareInv
<1>1. Init => CompareInv
  BY DEF Init, CompareInv, Compares
<1>2. CompareInv /\ [Next]_vars => CompareInv'
  <2> SUFFICES ASSUME CompareInv, [Next]_vars PROVE CompareInv'
    OBVIOUS
  <2>1. CASE FindEvents
    BY <2>1 DEF FindEvents, CompareInv
  <2>2. CASE SliceToRuns
    BY <2>2 DEF SliceToRuns, CompareInv
  <2>3. CASE InferTiming
    BY <2>3 DEF InferTiming, CompareInv
  <2>4. CASE RunAll
    BY <2>4 DEF RunAll, CompareInv
  <2>5. CASE Align
    <3>1. stage' = "search" /\ given' = given
          /\ made' = [aligned |-> align(given.frames),
                      marks |-> classify_columns(align(given.frames))]
      BY <2>5 DEF Align
    <3>2. Compares /\ Compares' = Compares
      BY <2>5, <3>1 DEF Align, CompareInv, Compares
    <3> QED BY <3>1, <3>2 DEF CompareInv
  <2>6. CASE Search_checksum
    <3>1. stage = "search" /\ stage' = "searched" /\ given' = given
      BY <2>6 DEF Search_checksum
    <3>2. Compares /\ Compares' = Compares
      BY <3>1 DEF CompareInv, Compares
    <3> DEFINE report == checksum_search(Trimmed(given.frames))
    <3>3. made' = [aligned |-> made.aligned, report |-> report]
      BY <2>6, <3>1 DEF Search_checksum, Trimmed, CompareInv
    <3>4. made'.report = report /\ made'.aligned = made.aligned
      BY <3>3
    <3> QED BY <3>1, <3>2, <3>4 DEF CompareInv
  <2>7. CASE UNCHANGED vars
    BY <2>7 DEF vars, CompareInv, Compares
  <2> QED BY <2>1, <2>2, <2>3, <2>4, <2>5, <2>6, <2>7 DEF Next
<1> QED BY <1>1, <1>2, PTL DEF Spec

(* The bytes of a frame before any are lost. *)
Message(s, i) ==
  <<s.sync>> \o s.fields[i] \o <<check(s.check, s.fields[i])>>

(* It is the sync byte, the fields and the checksum. *)
LEMMA MessageIs ==
  ASSUME NEW s \in Sessions, NEW i \in DOMAIN s.fields
  PROVE  LET f == s.fields[i]  n == Len(s.fields[i])
         IN  /\ n \in Nat /\ f \in Seq(Byte)
             /\ Message(s, i) \in Seq(Byte) /\ Len(Message(s, i)) = n + 2
             /\ \A j \in 1..n : Message(s, i)[j + 1] = f[j]
             /\ Message(s, i)[n + 2] = check(s.check, f)
<1> DEFINE f == s.fields[i]
           n == Len(f)
           c == check(s.check, f)
           head == <<s.sync>> \o f
<1>1. s.sync \in Byte /\ f \in Seq(Byte) /\ c \in Byte /\ n \in Nat
  BY SessionsAssumption
<1> HIDE DEF f, n, c
<1>2. head \in Seq(Byte) /\ Len(head) = n + 1
      /\ \A j \in 1..n : head[j + 1] = f[j]
  BY <1>1 DEF n
<1> HIDE DEF head
<1>3. head \o <<c>> \in Seq(Byte) /\ Len(head \o <<c>>) = n + 2
      /\ \A j \in 1..(n + 1) : (head \o <<c>>)[j] = head[j]
      /\ (head \o <<c>>)[n + 2] = c
  BY <1>1, <1>2
<1>4. \A j \in 1..n : j + 1 \in 1..(n + 1)
  BY <1>1
<1>5. Message(s, i) = head \o <<c>>
  BY DEF Message, head, c, f
<1>6. \A j \in 1..n : Message(s, i)[j + 1] = f[j]
  BY <1>2, <1>3, <1>4, <1>5
<1> QED BY <1>1, <1>3, <1>5, <1>6 DEF f, n, c

(* What is compared are frames of bits, as many as there are fields.        *)
LEMMA FramesAreFrames ==
  ASSUME NEW s \in Sessions
  PROVE  /\ Frames(FramesOf(s)) /\ Len(FramesOf(s)) = Len(s.fields)
         /\ DOMAIN s.fields = 1..Len(s.fields)
         /\ \A i \in 1..Len(s.fields) :
              /\ s.cut[i] \in Nat
              /\ FramesOf(s)[i].bits = From(bits_of(Message(s, i)), s.cut[i])
<1> DEFINE N == Len(s.fields)
<1>1. DOMAIN s.fields = 1..N /\ N \in Nat
  BY SessionsAssumption
<1>2. \A i \in 1..N : s.cut[i] \in Nat
  BY <1>1, SessionsAssumption
<1> HIDE DEF N
<1>3. DOMAIN FramesOf(s) = 1..N
      /\ FramesOf(s) = [i \in 1..N |-> FramesOf(s)[i]]
      /\ \A i \in 1..N :
           FramesOf(s)[i].bits = From(bits_of(Message(s, i)), s.cut[i])
  BY <1>1 DEF FramesOf, Message
<1>4. Len(FramesOf(s)) = N
  BY <1>1, <1>3
<1>5. ASSUME NEW i \in 1..N PROVE FramesOf(s)[i].bits \in Seq(BOOLEAN)
  <2>1. Message(s, i) \in Seq(Byte) /\ Len(Message(s, i)) # 0
    BY <1>1, MessageIs
  <2>2. bits_of(Message(s, i)) \in Seq(BOOLEAN)
    BY <2>1, BitsOfBytes DEF Holds
  <2>3. From(bits_of(Message(s, i)), s.cut[i]) \in Seq(BOOLEAN)
    BY <1>2, <2>2, FromIs
  <2> QED BY <1>3, <2>3
<1> QED BY <1>1, <1>2, <1>3, <1>4, <1>5 DEF Frames, N

(* In every comparison of two to nine frames the pattern that find_anchor   *)
(* finds is in the same columns of all the frames, and these are marked as  *)
(* fixed (align, render_table).  Of ten frames one may be without it.       *)
THEOREM AnchorColumnsAreAlwaysFixed ==
  ASSUME \A s \in Sessions : Len(s.fields) \in 2..9
  PROVE  Spec => []AnchorColumnsAreFixed
<1>1. CompareInv => AnchorColumnsAreFixed
  <2> SUFFICES ASSUME CompareInv, stage = "search",
                      find_anchor(given.frames, Reference(given.frames))
                        # NoAnchor
               PROVE  LET anchor == find_anchor(given.frames,
                                                Reference(given.frames))
                      IN  \A k \in DOMAIN anchor.pat :
                            made.marks[anchor.pos + k - 1] = "="
    BY DEF AnchorColumnsAreFixed
  <2>1. made.marks = classify_columns(align(given.frames))
    BY DEF CompareInv
  <2>2. PICK s \in Sessions : given = [sent |-> s, frames |-> FramesOf(s)]
    BY DEF CompareInv, Compares
  <2>3. given.frames = FramesOf(s)
    BY <2>2
  <2>4. Frames(given.frames) /\ Len(given.frames) \in 2..9
    BY <2>3, FramesAreFrames
  <2>5. LET anchor == find_anchor(given.frames, Reference(given.frames))
        IN  \A k \in DOMAIN anchor.pat :
              classify_columns(align(given.frames))[anchor.pos + k - 1] = "="
    BY <2>4, AlignedOnAnchor
  <2> QED BY <2>1, <2>5
<1> QED BY <1>1, CompareInvHolds, PTL

(* What a product is divided by comes out. *)
LEMMA ExactQuotient ==
  ASSUME NEW w \in Nat, w > 0, NEW m \in Nat
  PROVE  (w * m) \div w = m
<1> DEFINE x == w * m
           q == x \div w
<1>1. x \in Nat
  BY Z3
<1> HIDE DEF x
<1>2. q \in Nat /\ w * q <= x /\ x < w * q + w
  BY <1>1, Quotient
<1> HIDE DEF q
<1>3. m \in Int /\ q \in Int /\ w * q \in Int /\ x \in Int
  BY <1>1, <1>2, Products
<1>4. q <= m
  <2> SUFFICES ASSUME m + 1 <= q PROVE FALSE
    BY <1>3
  <2>1. w * (m + 1) <= w * q
    BY <1>3, Products
  <2>2. w * (m + 1) = x + w
    BY <1>3, Products DEF x
  <2> QED BY <1>1, <1>2, <1>3, <2>1, <2>2
<1>5. m <= q
  <2> SUFFICES ASSUME q + 1 <= m PROVE FALSE
    BY <1>3
  <2>1. w * (q + 1) <= x
    BY <1>3, Products DEF x
  <2>2. w * (q + 1) = w * q + w
    BY <1>3, Products
  <2> QED BY <1>1, <1>2, <1>3, <2>1, <2>2
<1> QED BY <1>3, <1>4, <1>5 DEF q, x

(* A frame that has lost no more than its first byte lost none or one.      *)
LEMMA BytesLost ==
  ASSUME NEW lost \in 0..ByteBits
  PROVE  (lost + ByteBits - 1) \div ByteBits = IF lost = 0 THEN 0 ELSE 1
<1> DEFINE B == ByteBits
           x == lost + B - 1
           q == x \div B
<1>1. B \in Nat /\ B > 0 /\ x \in Nat /\ lost \in Nat /\ lost <= B
  BY ByteAssumption
<1>2. q \in Nat /\ B * q <= x /\ x < B * q + B
  <2> HIDE DEF x, B
  <2> QED BY <1>1, Quotient
<1> HIDE DEF q, B
<1>3. B * 0 = 0 /\ B * 1 = B /\ B * 2 = B + B /\ B * q \in Int
  <2>1. B * 0 = 0 /\ B * 1 = B /\ B * 2 = B + B
    BY <1>1
  <2> QED BY <1>1, <1>2, <2>1, Products
<1>4. ~(2 <= q)
  <2> SUFFICES ASSUME 2 <= q PROVE FALSE
    OBVIOUS
  <2>1. 2 \in Int /\ q \in Int
    BY <1>2
  <2>2. B * 2 <= B * q
    BY <1>1, <2>1, Products
  <2> QED BY <1>1, <1>2, <1>3, <2>2
<1>5. CASE lost = 0
  <2>1. ~(1 <= q)
    <3> SUFFICES ASSUME 1 <= q PROVE FALSE
      OBVIOUS
    <3>1. 1 \in Int /\ q \in Int
      BY <1>2
    <3>2. B * 1 <= B * q
      BY <1>1, <3>1, Products
    <3> QED BY <1>1, <1>2, <1>3, <1>5, <3>2
  <2>2. q = 0
    BY <1>2, <2>1
  <2> QED BY <1>5, <2>2 DEF q, B
<1>6. CASE lost # 0
  <2>1. q # 0
    <3> SUFFICES ASSUME q = 0 PROVE FALSE
      OBVIOUS
    <3>1. x < B
      BY <1>1, <1>2, <1>3
    <3> QED BY <1>1, <1>6, <3>1
  <2>2. q = 1
    BY <1>2, <1>4, <2>1
  <2> QED BY <1>6, <2>2 DEF q, B
<1> QED BY <1>5, <1>6

(* A frame has lost its first bits, and o more lead to the next whole byte. *)
CutBefore(q, lost, u, o) ==
  /\ q \in Seq(Byte) /\ Len(q) \in Nat /\ Len(q) >= 2
  /\ lost \in Nat /\ o \in Nat /\ u \in {0, 1}
  /\ lost + o = u * ByteBits

ReadAt(q, lost, u, o, k) ==
  SubSeq(From(bits_of(q), lost), o + ByteBits * (k - 1) + 1, o + ByteBits * k)
    = q[u + k]

(* Its bytes behind the u-th are where they are read.                       *)
LEMMA ByteRead ==
  ASSUME NEW q, NEW lost, NEW u, NEW o, CutBefore(q, lost, u, o)
  PROVE  \A k \in 1..(Len(q) - u) : ReadAt(q, lost, u, o, k)
<1> DEFINE n == Len(q)
<1>0. q \in Seq(Byte) /\ n \in Nat /\ n >= 2 /\ lost \in Nat /\ o \in Nat
      /\ u \in {0, 1} /\ lost + o = u * ByteBits /\ n # 0 /\ n = Len(q)
  BY DEF CutBefore
<1> HIDE DEF n
<1> SUFFICES ASSUME NEW k \in 1..(n - u)
             PROVE  ReadAt(q, lost, u, o, k)
  BY DEF n
<1> USE <1>0
<1> DEFINE B == ByteBits
           whole == bits_of(q)
           r == From(whole, lost)
           x == B * (k - 1)
           b == q[u + k]
           s == SubSeq(r, o + x + 1, o + B * k)
<1>1. B \in Nat /\ B > 0
  BY ByteAssumption
<1>2. whole \in Seq(BOOLEAN) /\ Len(whole) = B * n
      /\ \A i \in 1..n, j \in 1..B : whole[B * (i - 1) + j] = q[i][j]
  BY BitsOfBytes DEF Holds
<1>3. \A j \in 1..(Len(whole) - lost) : r[j] = whole[lost + j]
  <2> HIDE DEF whole
  <2> QED BY <1>2, FromIs
<1>4. u + k \in 1..n /\ u + k <= n /\ k \in Int /\ k - 1 \in Int /\ 0 <= k - 1
      /\ k - 1 + 1 = k /\ n \in Int /\ u + k \in Int /\ 0 \in Int
  OBVIOUS
<1>5. b \in Byte /\ b \in Seq(BOOLEAN) /\ Len(b) = B
  <2>1. b \in Byte
    BY <1>4
  <2> HIDE DEF b
  <2> QED BY <2>1, ByteIsSeq
<1> HIDE DEF whole, r, B, b
<1>6. x \in Int /\ B * k = x + B /\ 0 <= x
  <2>1. x \in Int /\ B * (k - 1 + 1) = x + B
    BY <1>1, <1>4, Products
  <2>2. B * 0 <= x /\ B * 0 = 0
    BY <1>1, <1>4, Products
  <2>3. B * k = x + B
    BY <1>4, <2>1
  <2> HIDE DEF x
  <2> QED BY <2>1, <2>2, <2>3
<1>7. B * (u + k) <= Len(whole) /\ B * (u + k) = u * B + x + B
      /\ B * (u + k - 1) = u * B + x /\ Len(whole) \in Nat
  <2>1. B * (u + k) <= B * n
    BY <1>1, <1>4, Products
  <2>2. B * (u + k) = u * B + B * k /\ B * (u + k - 1) = u * B + B * (k - 1)
    <3>1. CASE u = 0
      BY <1>1, <1>4, <1>6, <3>1
    <3>2. CASE u = 1
      <4>1. B * (k + 1) = B * k + B /\ B * k \in Int
        BY <1>1, <1>4, Products
      <4>2. u * B = B /\ u + k = k + 1 /\ u + k - 1 = k
        BY <1>1, <1>4, <3>2
      <4>3. B * (k + 1) = B + B * k
        BY <1>1, <4>1
      <4>4. B * k = B + B * (k - 1)
        <5> HIDE DEF x
        <5>1. B * k = B + x
          BY <1>1, <1>6
        <5> QED BY <5>1 DEF x
      <4> QED BY <4>2, <4>3, <4>4
    <3> QED BY <3>1, <3>2
  <2>3. B * (u + k) = u * B + (x + B)
    BY <1>6, <2>2
  <2>4. u * B \in Int
    BY <1>1
  <2>5. u * B + (x + B) = u * B + x + B
    <3> HIDE DEF x
    <3> QED BY <1>1, <1>6, <2>4
  <2> QED BY <1>2, <2>1, <2>2, <2>3, <2>5
<1> HIDE DEF x
<1>8. o \in Int /\ lost \in Int /\ u * B \in Int /\ lost + o = u * B
  BY <1>1 DEF B
<1> DEFINE y == u * B
           L == Len(whole)
<1>9. y + x + B <= L /\ L \in Int /\ y \in Int /\ lost + o = y
  BY <1>7, <1>8
<1> HIDE DEF y, L
<1>10. ASSUME NEW j \in 1..B PROVE r[o + x + j] = b[j] /\ b[j] \in BOOLEAN
  <2>1. o + x + j \in 1..(L - lost) /\ lost + (o + x + j) = y + x + j
    BY <1>1, <1>6, <1>8, <1>9
  <2>2. r[o + x + j] = whole[lost + (o + x + j)]
    BY <1>3, <2>1 DEF L
  <2>3. whole[B * (u + k - 1) + j] = q[u + k][j]
    BY <1>2, <1>4
  <2>4. B * (u + k - 1) + j = y + x + j
    BY <1>7 DEF y
  <2>5. b[j] \in BOOLEAN
    BY <1>5
  <2> QED BY <2>1, <2>2, <2>3, <2>4, <2>5 DEF b
<1>11. s \in Seq(BOOLEAN) /\ Len(s) = B /\ \A j \in 1..B : s[j] = b[j]
  <2> DEFINE from == o + x + 1
             to == o + x + B
  <2>1. from \in Int /\ to \in Int /\ from <= to /\ to - from + 1 = B
    BY <1>1, <1>6, <1>8
  <2>2. s = SubSeq(r, from, to)
    <3>1. o + B * k = to
      BY <1>1, <1>6, <1>8
    <3> QED BY <3>1
  <2>3. \A i \in from..to : r[i] \in BOOLEAN
    <3> SUFFICES ASSUME NEW i \in from..to PROVE r[i] \in BOOLEAN
      OBVIOUS
    <3>1. PICK j \in 1..B : i = o + x + j
      <4>1. i - (o + x) \in 1..B /\ i = o + x + (i - (o + x))
        BY <1>1, <1>6, <1>8
      <4> QED BY <4>1
    <3> QED BY <1>10, <3>1
  <2>4. \A j \in 1..B : from + j - 1 = o + x + j
    BY <1>1, <1>6, <1>8
  <2> HIDE DEF from, to, s
  <2>5. /\ s \in Seq(BOOLEAN)
        /\ Len(s) = IF from <= to THEN to - from + 1 ELSE 0
        /\ \A j \in 1..(to - from + 1) : s[j] = r[from + j - 1]
    BY <2>1, <2>2, <2>3, SubSeqProperties
  <2>6. \A j \in 1..B : s[j] = r[o + x + j]
    BY <2>1, <2>4, <2>5
  <2> QED BY <1>10, <2>1, <2>5, <2>6
<1>12. s = b
  <2> HIDE DEF s
  <2> QED BY <1>5, <1>11, SeqEqual
<1> QED BY <1>12 DEF s, b, r, x, B, whole, ReadAt

AllRead(q, lost, u, o) ==
  bytes_of(From(bits_of(q), lost), o, TRUE)
    = [k \in 1..(Len(q) - u) |-> q[u + k]]

(* So all the whole bytes can be read again.                                *)
LEMMA BytesRead ==
  ASSUME NEW q, NEW lost, NEW u, NEW o, CutBefore(q, lost, u, o)
  PROVE  AllRead(q, lost, u, o)
<1> DEFINE n == Len(q)
<1>0. q \in Seq(Byte) /\ n \in Nat /\ n >= 2 /\ lost \in Nat /\ o \in Nat
      /\ u \in {0, 1} /\ lost + o = u * ByteBits /\ n # 0 /\ n = Len(q)
  BY DEF CutBefore
<1> HIDE DEF n
<1> USE <1>0
<1> DEFINE B == ByteBits
           whole == bits_of(q)
           r == From(whole, lost)
<1>1. B \in Nat /\ B > 0
  BY ByteAssumption
<1>2. whole \in Seq(BOOLEAN) /\ Len(whole) = B * n
  BY BitsOfBytes DEF Holds
<1>3. B * n \in Int /\ B * n = B * (n - 1) + B /\ B * (n - 1) \in Int
      /\ B <= B * n
  <2>1. n - 1 \in Int /\ n - 1 + 1 = n /\ 1 \in Int /\ n \in Int /\ 1 <= n
        /\ B * 1 = B
    BY <1>1
  <2>2. B * (n - 1 + 1) = B * (n - 1) + B /\ B * (n - 1) \in Int
    BY <1>1, <2>1, Products
  <2>3. B * 1 <= B * n /\ B * n \in Int
    BY <1>1, <2>1, Products
  <2> QED BY <2>1, <2>2, <2>3
<1>4. lost <= B /\ lost + o = u * B /\ u * B \in Int
  <2>1. u * B = 0 \/ u * B = B
    BY <1>1
  <2> QED BY <1>1, <2>1
<1>5. lost <= Len(whole)
  <2> HIDE DEF whole, B
  <2>1. lost \in Int /\ B \in Int
    BY <1>1
  <2> QED BY <1>2, <1>3, <1>4, <2>1, UpTo
<1>6. Len(r) = B * n - lost
  <2> HIDE DEF whole, B
  <2> QED BY <1>2, <1>5, FromIs
<1>7. Len(r) - o = B * (n - u)
  <2>1. CASE u = 0
    <3>1. lost = 0 /\ o = 0 /\ n - u = n
      BY <1>1, <1>4, <2>1
    <3> HIDE DEF r, B
    <3> QED BY <1>3, <1>6, <3>1
  <2>2. CASE u = 1
    <3>1. lost + o = B /\ n - u = n - 1
      BY <1>1, <1>4, <2>2
    <3> HIDE DEF r, B
    <3> DEFINE z == B * (n - 1)
               y == B * n
    <3>2. y = z + B /\ z \in Int /\ Len(r) = y - lost
      BY <1>3, <1>6
    <3> HIDE DEF z, y
    <3>3. Len(r) - o = z
      BY <1>1, <3>1, <3>2
    <3> QED BY <3>1, <3>3 DEF z
  <2> QED BY <2>1, <2>2
<1>8. (Len(r) - o) \div B = n - u
  <2>1. n - u \in Nat
    OBVIOUS
  <2> HIDE DEF r, B
  <2> QED BY <1>1, <1>7, <2>1, ExactQuotient
<1>9. bytes_of(r, o, TRUE)
        = [k \in 1..(n - u) |->
             SubSeq(r, o + B * (k - 1) + 1, o + B * k)]
  <2> HIDE DEF r
  <2> QED BY <1>8 DEF bytes_of, reflected
<1>10. ASSUME NEW k \in 1..(n - u)
       PROVE  SubSeq(r, o + B * (k - 1) + 1, o + B * k) = q[u + k]
  <2>1. ReadAt(q, lost, u, o, k)
    BY ByteRead DEF n
  <2> QED BY <2>1 DEF ReadAt
<1>11. [k \in 1..(n - u) |-> SubSeq(r, o + B * (k - 1) + 1, o + B * k)]
         = [k \in 1..(n - u) |-> q[u + k]]
  <2> HIDE DEF r, B
  <2> QED BY <1>10
<1> QED BY <1>9, <1>11 DEF n, r, whole, AllRead

-----------------------------------------------------------------------------
(* The columns that align puts frames into are numbers.                     *)

(* A score is a number, and no greater than the frame is long. *)
LEMMA ScoreIs ==
  ASSUME NEW ref \in Seq(BOOLEAN), NEW bits \in Seq(BOOLEAN), NEW s \in Int
  PROVE  /\ correlation(ref, bits, s).score \in Int
         /\ correlation(ref, bits, s).score <= Len(ref)
<1> DEFINE L == Len(ref)
           lo == Max({0, s})
           hi == Min({L, s + Len(bits)})
           cols == lo..(hi - 1)
           same == {i \in cols : ref[i + 1] = bits[i - s + 1]}
           all == Cardinality(cols)
           agree == Cardinality(same)
<1>1. L \in Nat /\ L \in Int /\ s + Len(bits) \in Int /\ 0 \in Int
  OBVIOUS
<1>2. correlation(ref, bits, s).score = 2 * agree - all
  BY DEF correlation
<1>3. lo \in Int /\ 0 <= lo
  <2>1. lo = IF 0 >= s THEN 0 ELSE s
    BY <1>1, MaxOfTwo
  <2> QED BY <2>1
<1> HIDE DEF L
<1>4. hi \in Int /\ hi <= L
  <2>1. hi = IF L <= s + Len(bits) THEN L ELSE s + Len(bits)
    BY <1>1, MinOfTwo
  <2> DEFINE e == s + Len(bits)
  <2> HIDE DEF hi, e
  <2>2. hi = IF L <= e THEN L ELSE e
    BY <2>1 DEF e
  <2>3. e \in Int
    BY <1>1 DEF e
  <2> QED BY <1>1, <2>2, <2>3
<1> HIDE DEF lo, hi
<1>5. cols \subseteq 0..(L - 1)
  BY <1>1, <1>3, <1>4
<1>6. same \subseteq cols
  OBVIOUS
<1> HIDE DEF cols, same
<1>7. IsFiniteSet(0..(L - 1)) /\ Cardinality(0..(L - 1)) = L
  <2>1. 0 \in Int /\ L - 1 \in Int
    BY <1>1
  <2>2. IsFiniteSet(0..(L - 1))
        /\ Cardinality(0..(L - 1)) = IF 0 > L - 1 THEN 0 ELSE L - 1 - 0 + 1
    BY <2>1, FS_Interval
  <2>3. (IF 0 > L - 1 THEN 0 ELSE L - 1 - 0 + 1) = L
    BY <1>1
  <2> QED BY <2>2, <2>3
<1>8. IsFiniteSet(cols) /\ all <= L
  BY <1>5, <1>7, FS_Subset
<1>9. IsFiniteSet(same) /\ agree <= all
  BY <1>6, <1>8, FS_Subset
<1>10. all \in Nat /\ agree \in Nat
  BY <1>8, <1>9, FS_CardinalityType
<1> HIDE DEF all, agree
<1>11. 2 * agree - all \in Int /\ 2 * agree - all <= L
  BY <1>1, <1>8, <1>9, <1>10
<1> QED BY <1>2, <1>11 DEF L

(* The shift with the best score exists. *)
LEMMA BestShiftIs ==
  ASSUME NEW ref \in Seq(BOOLEAN), NEW bits \in Seq(BOOLEAN)
  PROVE  BestShift(ref, bits) \in Int
<1> DEFINE need == Max({MinOverlap, Min({Len(bits), Len(ref)}) \div 2})
           tried == {s \in (-MaxShift)..MaxShift :
                       correlation(ref, bits, s).overlap >= need}
           c == [s \in tried |-> correlation(ref, bits, s).score]
           beats(s, t) == c[s] > c[t]
                          \/ (c[s] = c[t] /\ distance(s) < distance(t))
                          \/ (c[s] = c[t] /\ distance(s) = distance(t)
                                /\ s <= t)
           best == CHOOSE s \in tried : \A t \in tried : beats(s, t)
<1>1. BestShift(ref, bits) = IF tried = {} THEN 0 ELSE best
  BY DEF BestShift
<1>2. MaxShift \in Nat /\ -MaxShift \in Int /\ Len(ref) \in Int
  BY CompareAssumption
<1>3. tried \subseteq Int /\ \A s \in tried : -MaxShift <= s
  <2> HIDE DEF need
  <2> QED BY <1>2
<1>4. \A s \in tried : c[s] \in Int /\ c[s] <= Len(ref)
  <2> SUFFICES ASSUME NEW s \in tried
               PROVE  c[s] \in Int /\ c[s] <= Len(ref)
    OBVIOUS
  <2>1. s \in Int /\ c[s] = correlation(ref, bits, s).score
    BY <1>3
  <2> QED BY <2>1, ScoreIs
<1> HIDE DEF need, tried, c
<1> SUFFICES ASSUME tried # {} PROVE best \in Int
  BY <1>1
<1> DEFINE scores == {c[s] : s \in tried}
           top == Max(scores)
<1>5. top \in scores /\ \A y \in scores : y <= top
  <2>1. PICK s \in tried : TRUE
    OBVIOUS
  <2>2. scores \subseteq Int /\ c[s] \in scores
        /\ \A y \in scores : y <= Len(ref)
    BY <1>4, <2>1
  <2> HIDE DEF scores
  <2> QED BY <1>2, <2>2, MaxOfSome
<1> HIDE DEF top
<1> DEFINE first == {s \in tried : c[s] = top}
           far == {distance(s) : s \in first}
<1>6. far \subseteq Nat /\ far # {}
  <2>1. \A s \in first : distance(s) \in Nat
    BY <1>3 DEF distance
  <2>2. first # {}
    BY <1>5
  <2> HIDE DEF first
  <2> QED BY <2>1, <2>2
<1>7. PICK d \in far : \A y \in far : d <= y
  <2> HIDE DEF far
  <2> QED BY <1>6, LeastIn
<1> DEFINE near == {s \in first : distance(s) = d}
           m == Min(near)
<1>8. m \in near /\ \A y \in near : m <= y
  <2>1. near \subseteq Int /\ \A s \in near : -MaxShift <= s
    BY <1>3
  <2>2. PICK s \in near : TRUE
    <3> HIDE DEF first
    <3> QED BY <1>7
  <2> HIDE DEF near
  <2> QED BY <1>2, <2>1, <2>2, MinOfSome
<1>9. m \in tried /\ c[m] = top /\ distance(m) = d
  <2> HIDE DEF m
  <2> QED BY <1>8
<1> HIDE DEF m
<1>10. ASSUME NEW t \in tried PROVE beats(m, t)
  <2>1. c[t] <= top /\ c[t] \in Int /\ top \in Int
    BY <1>4, <1>5, <1>9
  <2>2. CASE c[t] # top
    <3>1. c[t] < top
      BY <2>1, <2>2
    <3> QED BY <1>9, <2>1, <3>1
  <2>3. CASE c[t] = top
    <3>1. t \in first
      BY <2>3
    <3>2. d <= distance(t) /\ distance(t) \in Nat /\ d \in Nat
      <4>1. distance(t) \in far
        <5> HIDE DEF first
        <5> QED BY <3>1
      <4> HIDE DEF far
      <4> QED BY <1>6, <1>7, <4>1
    <3>3. CASE distance(t) # d
      <4>1. d < distance(t)
        BY <3>2, <3>3
      <4> QED BY <1>9, <2>3, <4>1
    <3>4. CASE distance(t) = d
      <4>1. t \in near
        <5> HIDE DEF first
        <5> QED BY <3>1, <3>4
      <4>2. m <= t
        <5> HIDE DEF near
        <5> QED BY <1>8, <4>1
      <4> QED BY <1>9, <2>3, <3>4, <4>2
    <3> QED BY <3>3, <3>4
  <2> QED BY <2>2, <2>3
<1>11. best \in tried
  <2>1. \E s \in tried : \A t \in tried : beats(s, t)
    <3> HIDE DEF beats
    <3> QED BY <1>9, <1>10
  <2> HIDE DEF beats
  <2> QED BY <2>1
<1> HIDE DEF best
<1> QED BY <1>3, <1>11

(* The column of a frame, on the anchor or by its best shift. *)
LEMMA ColumnIs ==
  ASSUME NEW fs, Frames(fs), NEW ref \in Seq(BOOLEAN), NEW f,
         f.bits \in Seq(BOOLEAN)
  PROVE  Column(f, ref, find_anchor(fs, ref)) \in Int
<1> DEFINE anchor == find_anchor(fs, ref)
           place == Found(f.bits, anchor.pat, anchor.pos)
<1>1. CASE anchor # NoAnchor /\ place >= 0
  <2>1. PICK pos \in Nat, len \in Nat \ {0} :
          /\ anchor = [pos |-> pos, pat |-> SubSeq(ref, pos + 1, pos + len)]
          /\ pos + len <= Len(ref)
    BY <1>1, AnchorIs
  <2> HIDE DEF anchor
  <2>2. anchor.pos = pos /\ anchor.pat = SubSeq(ref, pos + 1, pos + len)
    BY <2>1
  <2>3. Len(anchor.pat) \in Nat
    <3>1. pos + 1 \in Int /\ pos + len \in Int /\ pos + 1 <= pos + len
          /\ pos + len - (pos + 1) + 1 = len /\ Len(ref) \in Nat
      OBVIOUS
    <3>2. \A i \in (pos + 1)..(pos + len) : ref[i] \in BOOLEAN
      BY <2>1, <3>1
    <3>3. Len(anchor.pat)
            = IF pos + 1 <= pos + len THEN pos + len - (pos + 1) + 1 ELSE 0
      BY <2>2, <3>1, <3>2, SubSeqProperties
    <3> QED BY <3>1, <3>3
  <2>4. place \in Nat
    BY <1>1, <2>2, <2>3, FoundIs
  <2>5. Column(f, ref, anchor) = pos - place
    BY <1>1, <2>2 DEF Column, Offset
  <2> HIDE DEF place
  <2> QED BY <2>4, <2>5 DEF anchor
<1>2. CASE ~(anchor # NoAnchor /\ place >= 0)
  <2>1. Column(f, ref, anchor) = BestShift(ref, f.bits)
    <3> HIDE DEF anchor
    <3> QED BY <1>2 DEF Column
  <2> QED BY <2>1, BestShiftIs
<1> QED BY <1>1, <1>2

-----------------------------------------------------------------------------
(* The checksum. *)

(* What fits every frame is reported. *)
Fits_all(bf, N, c, start, o) ==
  \A i \in 1..N :
    /\ Len(bytes_of(bf[i], o, TRUE)) \in Nat
    /\ start + 2 <= Len(bytes_of(bf[i], o, TRUE))
    /\ check(c, MessageOf(bytes_of(bf[i], o, TRUE), start))
         = Last(bytes_of(bf[i], o, TRUE))

(* Such a checksum is among the matches of checksum_search. *)
LEMMA MatchIs ==
  ASSUME NEW bf, NEW N \in Nat \ {0}, DOMAIN bf = 1..N,
         NEW c \in Checks, NEW start \in Nat, NEW o \in 0..(ByteBits - 1),
         Fits_all(bf, N, c, start, o)
  PROVE  [check |-> c, start |-> start, offset |-> o, msb |-> TRUE]
           \in checksum_search(bf).matches
<1> DEFINE bytes(p, msb) == [i \in DOMAIN bf |-> bytes_of(bf[i], p, msb)]
           least(bs) == Min({Len(bs[i]) : i \in DOMAIN bs})
           fits(bs) == {cs \in Checks \X (0..(least(bs) - 2)) :
                          \A i \in DOMAIN bs :
                            check(cs[1], MessageOf(bs[i], cs[2]))
                              = Last(bs[i])}
           tries == (0..(ByteBits - 1)) \X BOOLEAN
           found(t) == {[check |-> cs[1], start |-> cs[2],
                         offset |-> t[1], msb |-> t[2]] :
                          cs \in fits(bytes(t[1], t[2]))}
           bs == bytes(o, TRUE)
<1>1. checksum_search(bf).matches = UNION {found(t) : t \in tries}
  BY DEF checksum_search
<1>2. DOMAIN bs = 1..N /\ \A i \in 1..N : bs[i] = bytes_of(bf[i], o, TRUE)
  OBVIOUS
<1> HIDE DEF bs
<1>3. \A i \in 1..N : Len(bs[i]) \in Nat /\ start + 2 <= Len(bs[i])
                      /\ check(c, MessageOf(bs[i], start)) = Last(bs[i])
  BY <1>2 DEF Fits_all
<1>4. start \in 0..(least(bs) - 2)
  <2> DEFINE g == [i \in 1..N |-> Len(bs[i])]
             S == {g[i] : i \in 1..N}
  <2>1. \A i \in 1..N : g[i] \in Int /\ start + 2 <= g[i]
    BY <1>3
  <2>2. least(bs) = Min(S)
    BY <1>2
  <2> HIDE DEF g, least
  <2>3. Min(S) \in S
    BY <2>1, ExtremesExist
  <2>4. Min(S) \in Int /\ start + 2 <= Min(S)
    <3> DEFINE m == Min(S)
    <3> HIDE DEF m
    <3>1. m \in S
      BY <2>3 DEF m
    <3>2. m \in Int /\ start + 2 <= m
      BY <2>1, <3>1
    <3> QED BY <3>2 DEF m
  <2> HIDE DEF S
  <2> QED BY <2>2, <2>4
<1>5. <<c, start>> \in fits(bs)
  <2> HIDE DEF least
  <2> QED BY <1>2, <1>3, <1>4
<1>6. <<o, TRUE>> \in tries
  OBVIOUS
<1>7. [check |-> c, start |-> start, offset |-> o, msb |-> TRUE]
        \in found(<<o, TRUE>>)
  <2> DEFINE cs == <<c, start>>
  <2>1. cs \in fits(bytes(o, TRUE))
    BY <1>5 DEF bs
  <2>2. cs[1] = c /\ cs[2] = start
    OBVIOUS
  <2>3. \A t : t[1] = o /\ t[2] = TRUE
          => [check |-> cs[1], start |-> cs[2], offset |-> t[1],
              msb |-> t[2]] \in found(t)
    <3> HIDE DEF fits, bytes, cs
    <3> QED BY <2>1
  <2> HIDE DEF found, cs
  <2> QED BY <2>2, <2>3
<1> HIDE DEF found, tries
<1> QED BY <1>1, <1>6, <1>7

(* Frames that begin where they were sent are cut to the same bits.         *)
Together(s, aligned) ==
  \A i, j \in DOMAIN aligned :
    aligned[i].s - s.cut[i] = aligned[j].s - s.cut[j]

(* What trim_common_start leaves of them lacks as much as the worst of them. *)
LEMMA TrimmedIs ==
  ASSUME NEW s \in Sessions, Len(s.fields) # 0,
         \A i \in 1..Len(s.fields) : s.cut[i] <= ByteBits,
         Together(s, align(FramesOf(s)))
  PROVE  /\ Max(ToSet(s.cut)) \in 0..ByteBits
         /\ Trimmed(FramesOf(s))
              = [i \in 1..Len(s.fields) |->
                   From(bits_of(Message(s, i)), Max(ToSet(s.cut)))]
<1> DEFINE N == Len(s.fields)
           fs == FramesOf(s)
           al == align(fs)
           lost == Max(ToSet(s.cut))
           whole(i) == bits_of(Message(s, i))
<1>1. /\ N \in Nat \ {0} /\ DOMAIN s.fields = 1..N /\ DOMAIN s.cut = 1..N
      /\ Frames(fs) /\ Len(fs) = N /\ DOMAIN fs = 1..N
      /\ \A i \in 1..N : s.cut[i] \in Nat
                         /\ fs[i].bits = From(whole(i), s.cut[i])
                         /\ fs[i].bits \in Seq(BOOLEAN)
  <2>1. N \in Nat \ {0} /\ DOMAIN s.cut = 1..N
    BY SessionsAssumption
  <2> HIDE DEF N, fs
  <2>2. Frames(fs) /\ Len(fs) = N /\ DOMAIN s.fields = 1..N
        /\ \A i \in 1..N : s.cut[i] \in Nat
                           /\ fs[i].bits = From(whole(i), s.cut[i])
    BY FramesAreFrames DEF N, fs
  <2>3. DOMAIN fs = 1..N /\ \A i \in 1..N : fs[i].bits \in Seq(BOOLEAN)
    BY <2>2 DEF Frames
  <2> QED BY <2>1, <2>2, <2>3
<1>2. \A i \in 1..N : fs[i] = [label |-> fs[i].label, bits |-> fs[i].bits]
  BY <1>1 DEF FramesOf
<1>3. \A i \in 1..N : s.cut[i] <= ByteBits
  OBVIOUS
<1>4. ASSUME NEW i \in 1..N
      PROVE  whole(i) \in Seq(BOOLEAN) /\ ByteBits <= Len(whole(i))
  <2> DEFINE q == Message(s, i)
             n == Len(q)
  <2>1. q \in Seq(Byte) /\ n \in Nat /\ n >= 1
    BY <1>1, MessageIs
  <2>2. whole(i) \in Seq(BOOLEAN) /\ Len(whole(i)) = ByteBits * n
    BY <2>1, BitsOfBytes DEF Holds
  <2> HIDE DEF n
  <2>3. ByteBits \in Nat /\ 1 \in Int /\ n \in Int /\ 1 <= n
        /\ ByteBits * 1 = ByteBits
    BY <2>1, ByteAssumption
  <2>4. ByteBits * 1 <= ByteBits * n
    BY <2>3, Products
  <2> QED BY <2>2, <2>3, <2>4
<1>5. lost \in ToSet(s.cut) /\ \A y \in ToSet(s.cut) : y <= lost
  <2> DEFINE c == s.cut
             S == {c[i] : i \in 1..N}
  <2>1. \A i \in 1..N : c[i] \in Int
    BY <1>1
  <2>2. Max(S) \in S /\ \A y \in S : y <= Max(S)
    <3> HIDE DEF N, c
    <3> QED BY <1>1, <2>1, ExtremesExist, ZenonT(60)
  <2>3. ToSet(s.cut) = S
    BY <1>1 DEF ToSet
  <2> HIDE DEF S, N
  <2> QED BY <2>2, <2>3
<1>6. PICK top \in 1..N : s.cut[top] = lost
  BY <1>1, <1>5 DEF ToSet
<1>7. \A i \in 1..N : s.cut[i] <= lost
  BY <1>1, <1>5 DEF ToSet
<1> HIDE DEF lost, N, fs, al, whole
<1>8. lost \in Nat /\ lost <= ByteBits
  BY <1>1, <1>3, <1>6
<1>9. DOMAIN al = 1..N
      /\ \A i \in 1..N : al[i].f = fs[i] /\ al[i].s \in Int
  <2> DEFINE ref == Reference(fs)
             anchor == find_anchor(fs, ref)
  <2>1. al = [i \in 1..N |-> [f |-> fs[i], s |-> Column(fs[i], ref, anchor)]]
    BY <1>1 DEF al, align, align_to
  <2>2. ref \in Seq(BOOLEAN)
    BY <1>1, ReferenceIsFrame
  <2> HIDE DEF ref
  <2>3. \A i \in 1..N : Column(fs[i], ref, anchor) \in Int
    BY <1>1, <2>2, ColumnIs
  <2> HIDE DEF anchor
  <2> QED BY <2>1, <2>3
<1>10. PICK o \in Int : \A i \in 1..N : al[i].s = o + s.cut[i]
  <2> DEFINE o == al[top].s - s.cut[top]
  <2>1. o \in Int
    BY <1>1, <1>6, <1>9
  <2>2. ASSUME NEW i \in 1..N PROVE al[i].s = o + s.cut[i]
    <3>1. al[i].s - s.cut[i] = o
      BY <1>6, <1>9 DEF Together, al, fs
    <3>2. al[i].s \in Int /\ s.cut[i] \in Int
      BY <1>1, <1>9
    <3> HIDE DEF o
    <3> QED BY <2>1, <3>1, <3>2
  <2> QED BY <2>1, <2>2
<1>11. Start(al) = o + lost
  <2> DEFINE g == [i \in 1..N |-> al[i].s]
             S == {g[i] : i \in 1..N}
             m == Max(S)
  <2>1. \A i \in 1..N : g[i] \in Int /\ g[i] = o + s.cut[i]
    BY <1>9, <1>10
  <2>2. Start(al) = m
    BY <1>9 DEF Start
  <2> HIDE DEF g
  <2>3. m \in S /\ \A y \in S : y <= m
    BY <1>1, <2>1, ExtremesExist, ZenonT(60)
  <2> HIDE DEF m
  <2>4. PICK k \in 1..N : m = g[k]
    BY <2>3
  <2>5. m = o + s.cut[k] /\ s.cut[k] \in Nat /\ s.cut[k] <= lost
    BY <1>1, <1>7, <2>1, <2>4
  <2>6. o + lost <= m
    <3>1. g[top] \in S /\ g[top] = o + lost
      BY <1>6, <2>1
    <3> HIDE DEF S
    <3> QED BY <2>3, <3>1
  <2>7. m = o + lost
    BY <1>8, <2>5, <2>6
  <2> QED BY <2>2, <2>7
<1>12. Trimmed(fs) = [i \in 1..N |-> From(fs[i].bits, Start(al) - al[i].s)]
  <2> DEFINE d(i) == Start(al) - al[i].s
             trimmed == [i \in 1..N |->
                           [al[i].f EXCEPT !.bits = From(@, d(i))]]
  <2>1. trim_common_start(al) = trimmed
    BY <1>9 DEF trim_common_start
  <2>2. Trimmed(fs) = [i \in DOMAIN trimmed |-> trimmed[i].bits]
    BY <2>1 DEF Trimmed, al
  <2> HIDE DEF d
  <2>3. ASSUME NEW i \in 1..N
        PROVE  trimmed[i].bits = From(fs[i].bits, d(i))
    <3> DEFINE f == fs[i]
    <3>1. trimmed[i] = [f EXCEPT !.bits = From(@, d(i))]
      BY <1>9
    <3>2. "bits" \in DOMAIN f
      <4>1. PICK l, bits : f = [label |-> l, bits |-> bits]
        BY <1>2
      <4> HIDE DEF f
      <4> QED BY <4>1
    <3> HIDE DEF trimmed, f
    <3>3. trimmed[i].bits = From(f.bits, d(i))
      BY <3>1, <3>2
    <3> QED BY <3>3 DEF f
  <2>4. DOMAIN trimmed = 1..N
    OBVIOUS
  <2> HIDE DEF trimmed
  <2> QED BY <2>2, <2>3, <2>4 DEF d
<1>13. ASSUME NEW i \in 1..N
       PROVE  From(fs[i].bits, Start(al) - al[i].s) = From(whole(i), lost)
  <2> DEFINE a == s.cut[i]
             b == Start(al) - al[i].s
  <2>1. a \in Nat /\ a <= lost
    BY <1>1, <1>7
  <2>2. b = lost - a
    <3> DEFINE x == al[i].s
               y == Start(al)
    <3>1. x = o + a /\ y = o + lost /\ b = y - x
      BY <1>10, <1>11
    <3> HIDE DEF b, a, x, y
    <3> QED BY <1>8, <2>1, <3>1
  <2> HIDE DEF a, b
  <2>3. b \in Nat /\ a + b = lost
    BY <1>8, <2>1, <2>2
  <2>4. a + b <= Len(whole(i))
    <3>1. /\ Len(whole(i)) \in Int /\ ByteBits \in Int
          /\ ByteBits <= Len(whole(i))
      <4>1. whole(i) \in Seq(BOOLEAN) /\ ByteBits <= Len(whole(i))
        BY <1>4
      <4> QED BY <4>1, ByteAssumption
    <3> QED BY <1>8, <2>3, <3>1, UpTo
  <2>5. From(From(whole(i), a), b) = From(whole(i), a + b)
    <3>1. whole(i) \in Seq(BOOLEAN)
      BY <1>4
    <3> QED BY <2>1, <2>3, <2>4, <3>1, FromTwice
  <2>6. fs[i].bits = From(whole(i), a)
    BY <1>1 DEF a
  <2> QED BY <2>3, <2>5, <2>6 DEF b
<1>14. Trimmed(fs) = [i \in 1..N |-> From(whole(i), lost)]
  BY <1>12, <1>13
<1> QED BY <1>8, <1>14 DEF lost, N, fs, whole

(* The search finds, over the fields that remain, what the frames were sent *)
(* with, at the first whole byte.                                           *)
LEMMA ChecksumOfFrames ==
  ASSUME NEW s \in Sessions, Len(s.fields) # 0, s.check \in Checks,
         \A i \in 1..Len(s.fields) : Len(s.fields[i]) >= 1,
         NEW lost \in 0..ByteBits, NEW u, u = IF lost = 0 THEN 0 ELSE 1,
         NEW bf, bf = [i \in 1..Len(s.fields) |->
                         From(bits_of(Message(s, i)), lost)]
  PROVE  [check |-> s.check, start |-> 1 - u, offset |-> u * ByteBits - lost,
          msb |-> TRUE] \in checksum_search(bf).matches
<1> DEFINE N == Len(s.fields)
           c == s.check
           o == u * ByteBits - lost
<1>1. ByteBits \in Nat /\ ByteBits > 0
  BY ByteAssumption
<1>2. /\ o \in 0..(ByteBits - 1) /\ o \in Nat /\ lost \in Nat
      /\ u \in {0, 1} /\ lost + o = u * ByteBits /\ 1 - u \in Nat
  <2>1. CASE lost = 0
    BY <1>1, <2>1
  <2>2. CASE lost # 0
    BY <1>1, <2>2
  <2> QED BY <2>1, <2>2
<1>3. N \in Nat \ {0} /\ DOMAIN s.fields = 1..N
  BY SessionsAssumption
<1> HIDE DEF N, o
<1>4. DOMAIN bf = 1..N /\ \A i \in 1..N :
        bf[i] = From(bits_of(Message(s, i)), lost)
  BY DEF N
<1>5. ASSUME NEW i \in 1..N
      PROVE  LET b == bytes_of(bf[i], o, TRUE)
             IN  /\ Len(b) \in Nat /\ 1 - u + 2 <= Len(b)
                 /\ check(c, MessageOf(b, 1 - u)) = Last(b)
  <2> DEFINE q == Message(s, i)
             f == s.fields[i]
             n == Len(f)
             b == bytes_of(bf[i], o, TRUE)
             last == n + 2 - u
  <2>1. /\ n \in Nat /\ n >= 1 /\ f \in Seq(Byte)
        /\ q \in Seq(Byte) /\ Len(q) = n + 2
        /\ \A j \in 1..n : q[j + 1] = f[j]
        /\ q[n + 2] = check(c, f)
    BY <1>3, MessageIs DEF N
  <2> HIDE DEF q, f, n
  <2>2. CutBefore(q, lost, u, o)
    BY <1>2, <2>1 DEF CutBefore
  <2>3. b = [k \in 1..(Len(q) - u) |-> q[u + k]]
    <3>1. bf[i] = From(bits_of(q), lost)
      BY <1>4 DEF q
    <3>2. bytes_of(From(bits_of(q), lost), o, TRUE)
            = [k \in 1..(Len(q) - u) |-> q[u + k]]
      <4>1. AllRead(q, lost, u, o)
        BY <2>2, BytesRead
      <4> QED BY <4>1 DEF AllRead
    <3> QED BY <3>1, <3>2
  <2>4. b = [k \in 1..last |-> q[u + k]] /\ last \in Nat /\ last >= 2
    <3>1. Len(q) - u = last /\ last \in Nat /\ last >= 2
      BY <1>2, <2>1
    <3> HIDE DEF last, b
    <3> QED BY <2>3, <3>1
  <2> HIDE DEF b
  <2>5. Len(b) = last /\ \A k \in 1..last : b[k] = q[u + k]
    BY <2>4
  <2>6. Last(b) = check(c, f)
    <3>1. last \in 1..last /\ u + last = n + 2
      BY <1>2, <2>1, <2>4
    <3>2. Last(b) = b[last]
      BY <2>5 DEF Last
    <3>3. b[last] = q[u + last]
      BY <2>5, <3>1
    <3> QED BY <2>1, <3>1, <3>2, <3>3
  <2>7. MessageOf(b, 1 - u) = f
    <3> DEFINE from == 1 - u + 1
               to == last - 1
               m == SubSeq(b, from, to)
    <3>1. from \in Int /\ to \in Int /\ to - from + 1 = n /\ from <= to
      BY <1>2, <2>1, <2>4
    <3>2. \A k \in from..to : k \in 1..last /\ u + k \in 1..(n + 2)
      BY <1>2, <2>1, <2>4
    <3>3. \A k \in from..to : b[k] \in Byte
      <4> HIDE DEF from, to, last
      <4> QED BY <2>1, <2>5, <3>2
    <3>4. \A j \in 1..n :
            from + j - 1 \in from..to /\ u + (from + j - 1) = j + 1
      BY <1>2, <2>1, <2>4
    <3> HIDE DEF from, to, m
    <3>5. /\ m \in Seq(Byte)
          /\ Len(m) = IF from <= to THEN to - from + 1 ELSE 0
          /\ \A j \in 1..(to - from + 1) : m[j] = b[from + j - 1]
      BY <3>1, <3>3, SubSeqProperties DEF m
    <3>6. Len(m) = n
      BY <3>1, <3>5
    <3>7. ASSUME NEW j \in 1..n PROVE m[j] = f[j]
      <4> DEFINE k == from + j - 1
      <4>1. k \in from..to /\ u + k = j + 1
        BY <3>4
      <4>2. m[j] = b[k]
        BY <3>1, <3>5
      <4> HIDE DEF k, last
      <4>3. b[k] = q[u + k]
        BY <2>5, <3>2, <4>1
      <4>4. q[j + 1] = f[j]
        BY <2>1
      <4> QED BY <4>1, <4>2, <4>3, <4>4
    <3>8. Len(m) = Len(f)
      BY <3>6 DEF n
    <3>9. m = f
      BY <2>1, <3>5, <3>6, <3>7, <3>8, SeqEqual
    <3>10. MessageOf(b, 1 - u) = m
      BY <2>5 DEF MessageOf, m, from, to
    <3> QED BY <3>9, <3>10
  <2>8. Len(b) \in Nat /\ 1 - u + 2 <= Len(b)
    BY <1>2, <2>1, <2>4, <2>5
  <2> QED BY <2>6, <2>7, <2>8 DEF b
<1>6. Fits_all(bf, N, c, 1 - u, o)
  BY <1>5 DEF Fits_all
<1> DEFINE start == 1 - u
<1>7. start \in Nat /\ Fits_all(bf, N, c, start, o)
  BY <1>2, <1>6
<1> HIDE DEF start, c
<1>8. c \in Checks
  BY DEF c
<1>9. [check |-> c, start |-> start, offset |-> o, msb |-> TRUE]
        \in checksum_search(bf).matches
  BY <1>2, <1>3, <1>4, <1>7, <1>8, MatchIs
<1> QED BY <1>9 DEF start, c, o

(* Whatever the recording, the generators tried and the number of frames:   *)
(* where the frames of a session are aligned as they were sent, the search  *)
(* reports the checksum they were sent with, over the fields and at the     *)
(* first whole byte (trim_common_start, checksum_search).  A frame has      *)
(* fields, and has lost no more than its sync byte.                         *)
THEOREM ChecksumIsAlwaysFound ==
  ASSUME \A s \in Sessions :
           /\ Len(s.fields) # 0 /\ s.check \in Checks
           /\ \A i \in 1..Len(s.fields) :
                Len(s.fields[i]) >= 1 /\ s.cut[i] <= ByteBits
  PROVE  Spec => []ChecksumIsFound
<1>1. CompareInv => ChecksumIsFound
  <2> SUFFICES ASSUME CompareInv, stage = "searched",
                      \A i, j \in DOMAIN made.aligned : Origin(i) = Origin(j)
               PROVE  LET lost  == Max(ToSet(given.sent.cut))
                          bytes == (lost + ByteBits - 1) \div ByteBits
                      IN  [check |-> given.sent.check, start |-> 1 - bytes,
                           offset |-> bytes * ByteBits - lost, msb |-> TRUE]
                            \in made.report.matches
    BY DEF ChecksumIsFound
  <2>1. PICK s \in Sessions : given = [sent |-> s, frames |-> FramesOf(s)]
    BY DEF CompareInv, Compares
  <2>2. given.sent = s /\ given.frames = FramesOf(s)
    BY <2>1
  <2>3. /\ made.aligned = align(FramesOf(s))
        /\ made.report = checksum_search(Trimmed(FramesOf(s)))
    BY <2>2 DEF CompareInv
  <2>4. Together(s, align(FramesOf(s)))
    BY <2>2, <2>3 DEF Together, Origin
  <2> DEFINE lost == Max(ToSet(s.cut))
             bytes == (lost + ByteBits - 1) \div ByteBits
             bf == Trimmed(FramesOf(s))
  <2>5. Len(s.fields) # 0 /\ s.check \in Checks
        /\ \A i \in 1..Len(s.fields) :
             Len(s.fields[i]) >= 1 /\ s.cut[i] <= ByteBits
    OBVIOUS
  <2>6. lost \in 0..ByteBits
        /\ bf = [i \in 1..Len(s.fields) |->
                   From(bits_of(Message(s, i)), lost)]
    BY <2>4, <2>5, TrimmedIs
  <2> HIDE DEF lost, bf
  <2>7. bytes = IF lost = 0 THEN 0 ELSE 1
    BY <2>6, BytesLost
  <2> HIDE DEF bytes
  <2>8. [check |-> s.check, start |-> 1 - bytes,
         offset |-> bytes * ByteBits - lost, msb |-> TRUE]
           \in checksum_search(bf).matches
    BY <2>5, <2>6, <2>7, ChecksumOfFrames
  <2> QED BY <2>2, <2>3, <2>8 DEF lost, bytes, bf
<1> QED BY <1>1, CompareInvHolds, PTL
=============================================================================
