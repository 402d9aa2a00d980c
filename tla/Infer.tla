------------------------------- MODULE Infer --------------------------------
(***************************************************************************)
(* host/bustap/infer.py: the time unit of a code and what the code may be,  *)
(* from the durations of its runs alone.                                    *)
(*                                                                          *)
(* Durations are whole time steps.  A median can fall half way between two  *)
(* of them, so centres are counted in half steps; a unit is the quotient    *)
(* n / m of half steps, or NoUnit, and is compared by cross-multiplying.    *)
(* Thresholds keep the source's digits: 100 * x > 35 * y is x > 0.35 * y.   *)
(* Confidences are in hundredths and without their common factor `fit`,     *)
(* except that it may be 0.  Spreads and reasons are left out.              *)
(***************************************************************************)
EXTENDS Runs, FiniteSets, SequencesExt, FiniteSetsExt, TLC

NoUnit == [n |-> 0, m |-> 1]

absv(x) == IF x < 0 THEN -x ELSE x

(* np.round of a / b: to the nearest integer, halves to the even one. *)
RoundDiv(a, b) ==
  LET f == a \div b  r == 2 * (a % b)
  IN  IF r > b \/ (r = b /\ f % 2 = 1) THEN f + 1 ELSE f

SumOver(S, F(_)) == MapThenSumSet(F, S)

(* np.median of sorted values, in half steps. *)
Median2(s) ==
  IF Len(s) % 2 = 1 THEN 2 * s[Len(s) \div 2 + 1]
  ELSE s[Len(s) \div 2] + s[Len(s) \div 2 + 1]

Sorted(s) == SortSeq(s, LAMBDA a, b : a < b)

(* The sorted durations, split where the next is longer by more than a      *)
(* quarter; a small group is minor.                                         *)
cluster_durations(durations) ==
  LET d    == Sorted(SelectSeq(durations, LAMBDA x : x > 0))
      cuts == {i \in 1..(Len(d) - 1) : 4 * d[i + 1] > 5 * d[i]}
      ends == cuts \cup {Len(d)}
      need == Max({2, (3 * Len(d) + 99) \div 100})
      group(e) == SubSeq(d, Max({c \in cuts : c < e} \cup {0}) + 1, e)
  IN  IF d = <<>> THEN {}
      ELSE {[center |-> Median2(group(e)), count |-> Len(group(e)),
             minor |-> Len(group(e)) < need] : e \in ends}

MaxMultiple == 12

(* The unit p / q, of which a centre should be a near-integer multiple. *)
Mult(c, p, q) == RoundDiv(c.center * q, p)
Deviation(c, p, q) == c.center * q - Mult(c, p, q) * p

IsGrid_loose(clusters, p, q) ==
  \A c \in clusters : Mult(c, p, q) \in 1..MaxMultiple
IsGrid(clusters, p, q) ==
  /\ \A c \in clusters : /\ Mult(c, p, q) \in 1..MaxMultiple
                         /\ 100 * absv(Deviation(c, p, q)) < 24 * p
  /\ 10000 * SumOver(clusters, LAMBDA c : c.count * Deviation(c, p, q)
                                            * Deviation(c, p, q))
       < 144 * p * p * SumOver(clusters, LAMBDA c : c.count)

(* The units that fit all the clusters. *)
FitUnits(clusters) ==
  {pq \in {<<c.center, m>> : c \in clusters, m \in 1..MaxMultiple} :
     IsGrid(clusters, pq[1], pq[2])}

(* The largest of them, refined by least squares. *)
Refined(clusters, pq) ==
  LET k(c) == Mult(c, pq[1], pq[2])
  IN  [n |-> SumOver(clusters, LAMBDA c : c.count * c.center * k(c)),
       m |-> SumOver(clusters, LAMBDA c : c.count * k(c) * k(c))]

estimate_unit(clusters) ==
  LET fits == FitUnits(clusters)
  IN  IF fits = {} THEN NoUnit
      ELSE Refined(clusters, CHOOSE a \in fits :
                               \A b \in fits : a[1] * b[2] >= b[1] * a[2])

(* The unit of the short clusters, or else of them all. *)
UnitOf(clusters) ==
  LET near == estimate_unit({c \in clusters :
                \A x \in clusters : 2 * c.center <= 9 * x.center})
  IN  IF near # NoUnit THEN near ELSE estimate_unit(clusters)

(* How many units d lasts, and whether it is too far from that. *)
Units(d, u) == RoundDiv(2 * d * u.m, u.n)
OffBy(d, u) == absv(2 * d * u.m - Units(d, u) * u.n)
OnGrid(d, u) == Units(d, u) >= 1 /\ 100 * OffBy(d, u) < 35 * u.n

(* _regrid: what is on the grid, by how many units it lasts. *)
regrid(ds, u) ==
  {[multiple |-> k,
    center |-> Median2(Sorted(SelectSeq(ds, LAMBDA d :
                         OnGrid(d, u) /\ Units(d, u) = k)))] :
     k \in {Units(ds[i], u) : i \in {j \in DOMAIN ds : OnGrid(ds[j], u)}}}

Hypothesis(encoding, confidence) ==
  [encoding |-> encoding, confidence |-> confidence]

(* _hypotheses *)
hypotheses(unit, fits, act, gap, fixed_period) ==
  LET both == act \cup gap
      pwm_shape == /\ Cardinality(act) = 2 /\ Cardinality(gap) = 2
                   /\ Cardinality({a + g : a \in act, g \in gap}) < 4
      given(cond, encoding, confidence) ==
        IF cond THEN {Hypothesis(encoding, confidence * fits)} ELSE {}
      hs == given(/\ both \subseteq {1, 2}
                  /\ 1 \in act /\ 1 \in gap /\ 2 \in both,
                  "manchester/biphase",
                  IF pwm_shape /\ fixed_period THEN 50 ELSE 85)
            \cup given(pwm_shape, "pwm-constant-period",
                       IF fixed_period THEN 90 ELSE 55)
            \cup given(Cardinality(act) = 2 /\ Cardinality(gap) = 1,
                       "pulse-width", 70)
            \cup given(Cardinality(act) = 1 /\ Cardinality(gap) = 2,
                       "pulse-distance", 70)
            \cup given(\E k \in both : k >= 3, "nrz/uart", 60)
  IN  IF unit = NoUnit THEN {Hypothesis("unclocked", 30)}
      ELSE IF hs = {} THEN {Hypothesis("unclassified", 20 * fits)} ELSE hs

TooFew == [unit |-> NoUnit, active |-> {}, idle |-> {},
           hypotheses |-> {Hypothesis("too few edges", 0)}]

Durations(rs) == [i \in DOMAIN rs |-> rs[i].d]

(* A cell of a separator or sync is none of the data. *)
IsData(r, u) == 2 * r.d * u.m <= MaxMultiple * u.n

(* RMS distance from the grid below 0.12 units. *)
Fits(on, u) ==
  LET mille(r) == (1000 * OffBy(r.d, u)) \div u.n
  IN  SumOver(DOMAIN on, LAMBDA i : mille(on[i]) * mille(on[i]))
        < 14400 * Len(on)

(* How long an active run and the idle one behind it last together ...      *)
PeriodSums(rs, idle, u) ==
  LET P == {i \in 1..(Len(rs) - 1) :
              rs[i].lvl # idle /\ IsData(rs[i], u) /\ IsData(rs[i + 1], u)}
  IN  [i \in P |-> Units(rs[i].d, u) + Units(rs[i + 1].d, u)]

(* ... is the same in nine of ten. *)
OnePeriod(sums) ==
  \E i \in DOMAIN sums :
    10 * Cardinality({j \in DOMAIN sums : sums[j] = sums[i]})
      >= 9 * Cardinality(DOMAIN sums)

(* TimingModel, with its hypotheses. *)
Model(rs, idle, u, active, gaps) ==
  [unit |-> u, active |-> active, idle |-> gaps,
   hypotheses |-> hypotheses(u,
     IF Fits(SelectSeq(rs, LAMBDA r : IsData(r, u) /\ OnGrid(r.d, u)), u)
       THEN 1 ELSE 0,
     {c.multiple : c \in active}, {c.multiple : c \in gaps},
     OnePeriod(PeriodSums(rs, idle, u)))]

(* The clusters of one level that are not minor, separators left out. *)
FirstClusters(rs, level) ==
  LET median == Median2(Sorted(Durations(rs)))
      short  == SelectSeq(rs, LAMBDA r : r.lvl = level /\ r.d <= 3 * median)
  IN  {[lvl |-> level] @@ c :
         c \in {x \in cluster_durations(Durations(short)) : ~x.minor}}

(* With a unit, the durations are put on its grid.                          *)
GridModel(rs, idle, u) ==
  LET grid(level) == regrid(Durations(SelectSeq(rs, LAMBDA r :
                              r.lvl = level /\ IsData(r, u))), u)
  IN  Model(rs, idle, u, grid(~idle), grid(idle))

(* The first and the last run are cut by the window. *)
infer_timing(runs) ==
  LET rs     == SubSeq(runs, 2, Len(runs) - 1)
      idle   == idle_level(runs)
      active == FirstClusters(rs, ~idle)
      gaps   == FirstClusters(rs, idle)
      u      == UnitOf(active \cup gaps)
  IN  IF Len(runs) < 4 THEN TooFew
      ELSE IF u = NoUnit THEN Model(rs, idle, u, active, gaps)
      ELSE GridModel(rs, idle, u)
=============================================================================
