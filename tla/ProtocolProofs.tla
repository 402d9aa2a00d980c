--------------------------- MODULE ProtocolProofs ---------------------------
(***************************************************************************)
(* The wire protocol's helpers.  split_words returns the words of one       *)
(* channel, each once and in their order; the conversion pattern has every  *)
(* channel of the set once, and no other.  The induction is over the length *)
(* of a prefix, by way of the smallest prefix for which a claim would fail. *)
(***************************************************************************)
EXTENDS Protocol, FiniteSetTheorems, WellFoundedInduction,
        SequenceTheorems, TLAPS

(* A set of numbers that is not empty has a smallest one. *)
LEMMA Smallest ==
  \A S : S \subseteq Nat /\ S # {} => \E n \in S : \A m \in S : n <= m
<1> SUFFICES ASSUME NEW S, S \subseteq Nat, S # {}
             PROVE  \E n \in S : \A m \in S : n <= m
  OBVIOUS
<1> DEFINE Less == {p \in Nat \X Nat : p[1] < p[2]}
<1>1. IsWellFoundedOn(Less, Nat)
  BY NatLessThanWellFounded DEF OpToRel
<1> HIDE DEF Less
<1>2. \E n \in S : \A m \in S : <<m, n>> \notin Less
  BY <1>1, WFMin
<1>3. \A m, n \in S : <<m, n>> \notin Less => n <= m
  BY DEF Less
<1> QED BY <1>2, <1>3

(* One step of split_words' loop, sel being the function built so far.      *)
SelStep(words, c, sel, k) ==
  IF k = 0 THEN <<>>
  ELSE IF words[k].ch = c THEN Append(sel[k - 1], words[k])
  ELSE sel[k - 1]

(* sel has looked at the first n words. *)
Selects(words, c, sel, n) ==
  sel = [k \in 0..n |-> SelStep(words, c, sel, k)]

(* There is such a function for every n. *)
LEMMA SelExists ==
  ASSUME NEW words, NEW c, NEW n \in Nat
  PROVE  \E sel : Selects(words, c, sel, n)
<1> DEFINE Bad == {m \in Nat : ~ \E sel : Selects(words, c, sel, m)}
<1> SUFFICES ASSUME n \in Bad PROVE FALSE
  OBVIOUS
<1>1. PICK m \in Bad : \A k \in Bad : m <= k
  <2>1. Bad \subseteq Nat /\ Bad # {}
    OBVIOUS
  <2> HIDE DEF Bad
  <2> QED BY <2>1, Smallest
<1>2. m \in Nat /\ ~ \E sel : Selects(words, c, sel, m)
  OBVIOUS
<1>3. CASE m = 0
  <2> DEFINE sel == [k \in 0..0 |-> <<>>]
  <2>1. Selects(words, c, sel, 0)
    BY DEF Selects, SelStep
  <2> QED BY <1>2, <1>3, <2>1
<1>4. CASE m # 0
  <2>1. m - 1 \in Nat /\ m - 1 \notin Bad
    BY <1>1, <1>2, <1>4
  <2>2. PICK old : Selects(words, c, old, m - 1)
    BY <2>1
  <2> DEFINE sel == [k \in 0..m |-> IF k < m THEN old[k]
                                    ELSE SelStep(words, c, old, m)]
  <2>3. \A k \in 0..m : sel[k] = SelStep(words, c, sel, k)
    <3> SUFFICES ASSUME NEW k \in 0..m
                 PROVE  sel[k] = SelStep(words, c, sel, k)
      OBVIOUS
    <3>1. k # 0 => k - 1 \in 0..m /\ k - 1 < m
      BY <1>2
    <3>2. SelStep(words, c, old, k) = SelStep(words, c, sel, k)
      BY <3>1 DEF SelStep
    <3>3. k < m => k \in 0..(m - 1)
      BY <1>2
    <3>4. k < m => old[k] = SelStep(words, c, old, k)
      BY <2>2, <3>3 DEF Selects
    <3>5. ~(k < m) => k = m
      BY <1>2
    <3> QED BY <3>2, <3>4, <3>5
  <2>4. Selects(words, c, sel, m)
    BY <2>3 DEF Selects
  <2> QED BY <1>2, <2>4
<1> QED BY <1>3, <1>4

(* split_words takes the last value of such a function. *)
LEMMA SplitIsSel ==
  ASSUME NEW words \in Seq(Word), NEW c
  PROVE  \E sel : /\ Selects(words, c, sel, Len(words))
                  /\ split_words(words, c) = sel[Len(words)]
<1> DEFINE sel == CHOOSE f : Selects(words, c, f, Len(words))
<1>1. Selects(words, c, sel, Len(words))
  <2>1. Len(words) \in Nat
    OBVIOUS
  <2> QED BY <2>1, SelExists, Zenon
<1>2. split_words(words, c) = sel[Len(words)]
  BY DEF split_words, Selects, SelStep
<1> QED BY <1>1, <1>2

(* s is the words of channel c among the first k, in their order, and pos   *)
(* says where they are.                                                     *)
Picks(words, c, k, s, pos) ==
  /\ s \in Seq(Word)
  /\ pos \in [1..Len(s) -> 1..k]
  /\ \A i \in 1..Len(s) : s[i] = words[pos[i]] /\ s[i].ch = c
  /\ \A i, j \in 1..Len(s) : i < j => pos[i] < pos[j]
  /\ \A m \in 1..k : words[m].ch = c => \E i \in 1..Len(s) : pos[i] = m

(* One word more. *)
LEMMA PickOne ==
  ASSUME NEW words \in Seq(Word), NEW c, NEW k \in 1..Len(words),
         NEW s, NEW pos, Picks(words, c, k - 1, s, pos)
  PROVE  \E t, p : /\ t = IF words[k].ch = c THEN Append(s, words[k]) ELSE s
                   /\ Picks(words, c, k, t, p)
<1> DEFINE n == Len(s)
<1>1. /\ s \in Seq(Word) /\ n \in Nat /\ k \in Nat /\ k >= 1
      /\ words[k] \in Word /\ pos \in [1..n -> 1..(k - 1)]
  BY DEF Picks
<1>2. CASE words[k].ch = c
  <2> DEFINE t == Append(s, words[k])
             p == [i \in 1..(n + 1) |-> IF i <= n THEN pos[i] ELSE k]
  <2>1. /\ t \in Seq(Word) /\ Len(t) = n + 1 /\ t[n + 1] = words[k]
        /\ \A i \in 1..n : t[i] = s[i]
    BY <1>1
  <2> HIDE DEF t
  <2> HIDE DEF n
  <2>2. \A i \in 1..n : i \in 1..(n + 1) /\ p[i] = pos[i]
                          /\ pos[i] \in 1..(k - 1)
    BY <1>1
  <2>3. n + 1 \in 1..(n + 1) /\ p[n + 1] = k
          /\ \A i \in 1..(n + 1) : i \in 1..n \/ i = n + 1
    BY <1>1
  <2>4. p \in [1..(n + 1) -> 1..k]
    <3>1. \A i \in 1..(n + 1) : p[i] \in 1..k
      <4>1. k \in 1..k /\ \A m \in 1..(k - 1) : m \in 1..k
        BY <1>1
      <4> HIDE DEF p
      <4> QED BY <2>2, <2>3, <4>1
    <3> QED BY <3>1
  <2> HIDE DEF p
  <2>5. \A i \in 1..(n + 1) : t[i] = words[p[i]] /\ t[i].ch = c
    BY <1>2, <2>1, <2>2, <2>3 DEF Picks, n
  <2>6. \A i, j \in 1..(n + 1) : i < j => p[i] < p[j]
    <3> SUFFICES ASSUME NEW i \in 1..(n + 1), NEW j \in 1..(n + 1), i < j
                 PROVE  p[i] < p[j]
      OBVIOUS
    <3>1. i \in 1..n
      BY <1>1, <2>3
    <3>2. CASE j \in 1..n
      BY <2>2, <3>1, <3>2 DEF Picks, n
    <3>3. CASE j = n + 1
      BY <1>1, <2>2, <2>3, <3>1, <3>3
    <3> QED BY <2>3, <3>2, <3>3
  <2>7. \A m \in 1..k : words[m].ch = c =>
          \E i \in 1..(n + 1) : p[i] = m
    <3> SUFFICES ASSUME NEW m \in 1..k, words[m].ch = c
                 PROVE  \E i \in 1..(n + 1) : p[i] = m
      OBVIOUS
    <3>1. CASE m = k
      BY <2>3, <3>1
    <3>2. CASE m # k
      <4>1. m \in 1..(k - 1)
        BY <1>1, <3>2
      <4>2. PICK i \in 1..n : pos[i] = m
        BY <4>1 DEF Picks, n
      <4> QED BY <2>2, <4>2
    <3> QED BY <3>1, <3>2
  <2>8. Picks(words, c, k, t, p)
    BY <2>1, <2>4, <2>5, <2>6, <2>7 DEF Picks
  <2> QED BY <1>2, <2>8 DEF t
<1>3. CASE words[k].ch # c
  <2>1. pos \in [1..n -> 1..k]
    BY <1>1
  <2>2. \A m \in 1..k : words[m].ch = c => m \in 1..(k - 1)
    BY <1>1, <1>3
  <2>3. Picks(words, c, k, s, pos)
    BY <1>1, <2>1, <2>2 DEF Picks
  <2> QED BY <1>3, <2>3
<1> QED BY <1>2, <1>3

(* What split_words returns. *)
LEMMA SplitPicks ==
  ASSUME NEW words \in Seq(Word), NEW c
  PROVE  \E pos : Picks(words, c, Len(words), split_words(words, c), pos)
<1> DEFINE n == Len(words)
<1>1. PICK sel : Selects(words, c, sel, n) /\ split_words(words, c) = sel[n]
  BY SplitIsSel
<1>2. n \in Nat
  OBVIOUS
<1> DEFINE Bad == {k \in 0..n : ~ \E pos : Picks(words, c, k, sel[k], pos)}
<1>3. SUFFICES ASSUME Bad # {} PROVE FALSE
  BY <1>1, <1>2
<1>4. PICK k \in Bad : \A m \in Bad : k <= m
  <2>1. Bad \subseteq Nat
    BY <1>2
  <2> HIDE DEF Bad
  <2> QED BY <1>3, <2>1, Smallest
<1>5. k \in 0..n /\ ~ \E pos : Picks(words, c, k, sel[k], pos)
  OBVIOUS
<1>6. sel[k] = SelStep(words, c, sel, k)
  BY <1>1, <1>5 DEF Selects
<1>7. CASE k = 0
  <2>1. sel[0] = <<>>
    BY <1>6, <1>7 DEF SelStep
  <2>2. Picks(words, c, 0, <<>>, <<>>)
    BY DEF Picks
  <2> QED BY <1>5, <1>7, <2>1, <2>2
<1>8. CASE k # 0
  <2>1. k \in 1..n /\ k - 1 \in 0..n /\ k - 1 \notin Bad
    BY <1>2, <1>4, <1>5, <1>8
  <2>2. PICK pos : Picks(words, c, k - 1, sel[k - 1], pos)
    BY <2>1
  <2>3. sel[k] = IF words[k].ch = c THEN Append(sel[k - 1], words[k])
                 ELSE sel[k - 1]
    BY <1>6, <1>8 DEF SelStep
  <2>4. \E t, p : /\ t = IF words[k].ch = c
                         THEN Append(sel[k - 1], words[k]) ELSE sel[k - 1]
                  /\ Picks(words, c, k, t, p)
    BY <2>1, <2>2, PickOne
  <2> QED BY <1>5, <2>3, <2>4
<1> QED BY <1>7, <1>8

-----------------------------------------------------------------------------
(* The conversion pattern of a usable mask is a non-empty list of channels. *)
LEMMA PatternType ==
  ASSUME NEW mask \in (SUBSET Channels) \ {{}}
  PROVE  Pattern(mask) \in Seq(Channels) /\ Len(Pattern(mask)) \in Nat \ {0}
<1> DEFINE on(c) == IF c \in mask THEN <<c>> ELSE <<>>
<1>1. \A c \in Channels : on(c) \in Seq(Channels)
  OBVIOUS
<1>2. PICK c \in Channels : c \in mask
  <2>1. mask # {} /\ mask \subseteq Channels
    OBVIOUS
  <2> QED BY <2>1
<1>3. Len(on(c)) = 1 /\ c \in {0, 1, 2}
  BY <1>2 DEF Channels
<1>4. on(0) \in Seq(Channels) /\ on(1) \in Seq(Channels)
        /\ on(2) \in Seq(Channels)
  BY <1>1 DEF Channels
<1>5. Pattern(mask) = on(0) \o on(1) \o on(2)
  BY DEF Pattern
<1> HIDE DEF on
<1>6. Len(Pattern(mask)) = Len(on(0)) + Len(on(1)) + Len(on(2))
  BY <1>4, <1>5
<1>7. /\ Len(on(0)) \in Nat
      /\ Len(on(1)) \in Nat
      /\ Len(on(2)) \in Nat
  BY <1>4
<1>8. Len(Pattern(mask)) >= 1
  BY <1>3, <1>6, <1>7
<1>9. Pattern(mask) \in Seq(Channels)
  BY <1>4, <1>5
<1> QED BY <1>6, <1>7, <1>8, <1>9

(* Every channel of the mask has one place in the pattern.                  *)
LEMMA PatternTurns ==
  ASSUME NEW mask \in (SUBSET Channels) \ {{}}
  PROVE  /\ Len(Pattern(mask)) \in 1..3
         /\ \A a, b \in 1..Len(Pattern(mask)) :
              Pattern(mask)[a] = Pattern(mask)[b] => a = b
         /\ \A c \in mask : \E a \in 1..Len(Pattern(mask)) :
              Pattern(mask)[a] = c
         /\ \A a \in 1..Len(Pattern(mask)) : Pattern(mask)[a] \in mask
<1> DEFINE on(c) == IF c \in mask THEN <<c>> ELSE <<>>
           x == on(0)
           y == on(1)
           z == on(2)
<1>1. /\ x \in Seq(Int) /\ y \in Seq(Int) /\ z \in Seq(Int)
      /\ Len(x) \in {0, 1} /\ Len(y) \in {0, 1} /\ Len(z) \in {0, 1}
      /\ \A k \in 1..Len(x) : x[k] = 0
      /\ \A k \in 1..Len(y) : y[k] = 1
      /\ \A k \in 1..Len(z) : z[k] = 2
  OBVIOUS
<1>2. Len(Pattern(mask)) >= 1
  BY PatternType
<1>3. Pattern(mask) = (x \o y) \o z
  BY DEF Pattern
<1> HIDE DEF x, y, z, on
<1>4. /\ x \o y \in Seq(Int) /\ Len(x \o y) = Len(x) + Len(y)
      /\ \A k \in 1..(Len(x) + Len(y)) :
           (x \o y)[k] = IF k <= Len(x) THEN x[k] ELSE y[k - Len(x)]
  BY <1>1
<1>5. /\ Len((x \o y) \o z) = Len(x) + Len(y) + Len(z)
      /\ \A k \in 1..(Len(x) + Len(y) + Len(z)) :
           ((x \o y) \o z)[k] = IF k <= Len(x) + Len(y) THEN (x \o y)[k]
                                ELSE z[k - (Len(x) + Len(y))]
  BY <1>1, <1>4
<1>6. \A k \in 1..(Len(x) + Len(y) + Len(z)) :
        Pattern(mask)[k] = IF k <= Len(x) THEN 0
                           ELSE IF k <= Len(x) + Len(y) THEN 1 ELSE 2
  <2> SUFFICES ASSUME NEW k \in 1..(Len(x) + Len(y) + Len(z))
               PROVE  Pattern(mask)[k] = IF k <= Len(x) THEN 0
                           ELSE IF k <= Len(x) + Len(y) THEN 1 ELSE 2
    OBVIOUS
  <2>1. CASE k <= Len(x)
    BY <1>1, <1>3, <1>4, <1>5, <2>1
  <2>2. CASE k > Len(x) /\ k <= Len(x) + Len(y)
    <3>1. k - Len(x) \in 1..Len(y) /\ k \in 1..(Len(x) + Len(y))
      BY <1>1, <2>2
    <3>2. Pattern(mask)[k] = (x \o y)[k] /\ (x \o y)[k] = y[k - Len(x)]
      BY <1>1, <1>3, <1>4, <1>5, <2>2, <3>1
    <3> QED BY <1>1, <2>2, <3>1, <3>2
  <2>3. CASE k > Len(x) + Len(y)
    <3>1. k - (Len(x) + Len(y)) \in 1..Len(z) /\ ~(k <= Len(x))
      BY <1>1, <2>3
    <3>2. Pattern(mask)[k] = z[k - (Len(x) + Len(y))]
      BY <1>1, <1>3, <1>5, <2>3
    <3> QED BY <1>1, <2>3, <3>1, <3>2
  <2> QED BY <1>1, <2>1, <2>2, <2>3
<1>7. /\ Len(x) = IF 0 \in mask THEN 1 ELSE 0
      /\ Len(y) = IF 1 \in mask THEN 1 ELSE 0
      /\ Len(z) = IF 2 \in mask THEN 1 ELSE 0
  BY DEF x, y, z, on
<1>8. \A c \in mask : c = 0 \/ c = 1 \/ c = 2
  BY DEF Channels
<1> DEFINE n == Len(x) + Len(y) + Len(z)
<1>9. ASSUME NEW c \in mask
      PROVE  \E a \in 1..n : Pattern(mask)[a] = c
  <2>1. CASE c = 0
    <3>1. 1 \in 1..n /\ Pattern(mask)[1] = 0
      BY <1>1, <1>6, <1>7, <1>9, <2>1
    <3> QED BY <2>1, <3>1
  <2>2. CASE c = 1
    <3>1. Len(x) + 1 \in 1..n /\ Pattern(mask)[Len(x) + 1] = 1
      BY <1>1, <1>6, <1>7, <1>9, <2>2
    <3> QED BY <2>2, <3>1
  <2>3. CASE c = 2
    <3>1. n \in 1..n /\ Pattern(mask)[n] = 2
      BY <1>1, <1>6, <1>7, <1>9, <2>3
    <3> QED BY <2>3, <3>1
  <2> QED BY <1>8, <2>1, <2>2, <2>3
<1>10. ASSUME NEW a \in 1..n PROVE Pattern(mask)[a] \in mask
  <2>1. CASE a <= Len(x)
    <3>1. Pattern(mask)[a] = 0 /\ Len(x) # 0
      BY <1>1, <1>6, <2>1
    <3> QED BY <1>7, <3>1
  <2>2. CASE ~(a <= Len(x)) /\ a <= Len(x) + Len(y)
    <3>1. Pattern(mask)[a] = 1 /\ Len(y) # 0
      BY <1>1, <1>6, <2>2
    <3> QED BY <1>7, <3>1
  <2>3. CASE ~(a <= Len(x)) /\ ~(a <= Len(x) + Len(y))
    <3>1. Pattern(mask)[a] = 2 /\ Len(z) # 0
      BY <1>1, <1>6, <2>3
    <3> QED BY <1>7, <3>1
  <2> QED BY <2>1, <2>2, <2>3
<1>11. Len(Pattern(mask)) = n
  BY <1>3, <1>5
<1>12. Len(Pattern(mask)) \in 1..3
  BY <1>1, <1>2, <1>11
<1>13. \A a, b \in 1..n : Pattern(mask)[a] = Pattern(mask)[b] => a = b
  <2>1. \A a \in 1..n :
          /\ a <= Len(x) => a = 1
          /\ a > Len(x) /\ a <= Len(x) + Len(y) => a = Len(x) + 1
          /\ a > Len(x) + Len(y) => a = n
    BY <1>1
  <2>2. \A a \in 1..n : a <= Len(x) \/ a <= Len(x) + Len(y)
                          \/ a > Len(x) + Len(y)
    BY <1>1
  <2>3. \A a \in 1..n :
          /\ a <= Len(x) => Pattern(mask)[a] = 0
          /\ ~(a <= Len(x)) /\ a <= Len(x) + Len(y) => Pattern(mask)[a] = 1
          /\ ~(a <= Len(x)) /\ ~(a <= Len(x) + Len(y))
               => Pattern(mask)[a] = 2
    BY <1>6
  <2>4. \A a \in 1..n : /\ a > Len(x) <=> ~(a <= Len(x))
                        /\ a > Len(x) + Len(y) <=> ~(a <= Len(x) + Len(y))
    BY <1>1
  <2> HIDE DEF n
  <2> QED BY <2>1, <2>3, <2>4
<1> HIDE DEF n
<1> QED BY <1>9, <1>10, <1>11, <1>12, <1>13

(* It is as long as the mask has channels.                                  *)
LEMMA PatternLength ==
  ASSUME NEW mask \in (SUBSET Channels) \ {{}}
  PROVE  Len(Pattern(mask)) = Cardinality(mask)
<1> DEFINE P == Pattern(mask)
           n == Len(P)
<1>1. P \in Seq(Channels) /\ n \in 1..3
  BY PatternType, PatternTurns
<1>2. /\ \A a, b \in 1..n : P[a] = P[b] => a = b
      /\ \A c \in mask : \E a \in 1..n : P[a] = c
      /\ \A a \in 1..n : P[a] \in mask
  BY PatternTurns
<1> HIDE DEF P
<1>3. P \in Bijection(1..n, mask)
  <2>1. P \in [1..n -> mask]
    BY <1>1, <1>2
  <2> HIDE DEF n
  <2> QED BY <1>2, <2>1 DEF Bijection, Injection, Surjection,
                         IsInjective
<1>4. ExistsBijection(1..n, mask)
  BY <1>3 DEF ExistsBijection
<1>5. IsFiniteSet(1..n) /\ Cardinality(1..n) = n
  <2>1. 1 \in Int /\ n \in Int
    BY <1>1
  <2> HIDE DEF n
  <2>2. IsFiniteSet(1..n)
          /\ Cardinality(1..n) = IF 1 > n THEN 0 ELSE n - 1 + 1
    BY <2>1, FS_Interval, Zenon
  <2> QED BY <1>1, <2>2
<1>6. Cardinality(mask) = Cardinality(1..n)
  <2> HIDE DEF n
  <2> QED BY <1>4, <1>5, FS_Bijection
<1> QED BY <1>5, <1>6 DEF P
=============================================================================
