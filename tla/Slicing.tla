------------------------------ MODULE Slicing -------------------------------
(***************************************************************************)
(* From samples to runs and events: host/bustap/dsp.py, with the part of    *)
(* analyze.py and capture.py that keeps events clear of gaps.               *)
(*                                                                          *)
(* A signal is the sequence of its distances `dev` from the middle          *)
(* threshold, fixed or moving, times a common factor; sample i of the       *)
(* source's arrays is element i + 1 here.  An edge between two samples is   *)
(* counted in 1 / Grid of a sample.  Where the detector finds activity (the *)
(* mask of find_events: baseline, noise, thresholds) is an input.           *)
(***************************************************************************)
EXTENDS Runs, FiniteSets, SequencesExt, FiniteSetsExt

CONSTANTS
  Grid,       \* a multiple of every |a - b| of neighbouring samples
  Search,     \* search: how far back a crossing is looked for
  MergeGap,   \* merge_gap
  MinLen,     \* min_len
  Pad         \* pad

ASSUME SlicingAssumption ==
  /\ Grid \in Nat \ {0} /\ Search \in Nat \ {0}
  /\ {MergeGap, MinLen, Pad} \subseteq Nat

magnitude(x) == IF x < 0 THEN -x ELSE x
Total(s) == MapThenSumSet(LAMBDA i : s[i], DOMAIN s)

(* The centred moving average of n samples, edges held, times n.            *)
moving_sum(x, n) ==
  LET left == (n - 1) \div 2
      at(i) == Max({1, Min({i - left, Len(x) - n + 1})})
  IN  [i \in DOMAIN x |-> Total(SubSeq(x, at(i), at(i) + n - 1))]

(* slice_to_runs with a threshold, or with adaptive_window = n (at most as  *)
(* long as x); both give n times the distance.                              *)
Deviation_from(x, threshold) == [i \in DOMAIN x |-> x[i] - threshold]
Deviation_adaptive(x, n) ==
  [i \in DOMAIN x |-> n * x[i] - moving_sum(x, n)[i]]

Decisive(dev, h) == {i \in DOMAIN dev : magnitude(dev[i]) > h}

(* The comparator: each sample has the level of the last decisive one, and  *)
(* those before the first have the level of the first.                      *)
schmitt(dev, h) ==
  LET decisive == Decisive(dev, h)
      last(i)  == Max({j \in decisive : j <= i} \cup {Min(decisive)})
  IN  [i \in DOMAIN dev |-> IF decisive = {} THEN Total(dev) > 0
                            ELSE dev[last(i)] > 0]

(* The signal meets the threshold between two neighbouring samples.         *)
Crosses(a, b) == a * b <= 0 /\ a # b

Edge_earliest(dev, c) ==
  LET k == Min({i \in Max({2, c - Search})..c :
                  i = c \/ dev[i - 1] * dev[i] <= 0})
      a == dev[k - 1]  b == dev[k]
  IN  IF Crosses(a, b)
      THEN (k - 1) * Grid + (Grid * magnitude(a))
                               \div (magnitude(a) + magnitude(b))
      ELSE c * Grid

(* The edge behind the change at sample c: interpolated at the latest       *)
(* crossing among the last few samples, or c where there is none.           *)
Edge(dev, c) ==
  LET k == Max({i \in Max({2, c - Search})..c :
                  i = Max({2, c - Search}) \/ dev[i - 1] * dev[i] <= 0})
      a == dev[k - 1]  b == dev[k]
  IN  IF Crosses(a, b)
      THEN (k - 1) * Grid + (Grid * magnitude(a))
                               \div (magnitude(a) + magnitude(b))
      ELSE c * Grid

(* Runs with the position of their leading edge, and their durations.       *)
slice_to_runs(dev, h) ==
  LET d      == schmitt(dev, h)
      changes[c \in 0..Len(dev)] ==
        IF c < 2 THEN <<>>
        ELSE IF d[c] # d[c - 1] THEN Append(changes[c - 1], c)
        ELSE changes[c - 1]
      change == changes[Len(dev)]
      edges  == [n \in DOMAIN change |->
                   Max({Edge(dev, change[m]) : m \in 1..n})]
      starts == <<Grid>> \o edges
      ends   == edges \o <<(Len(dev) + 1) * Grid>>
  IN  [n \in DOMAIN starts |->
         [lvl   |-> d[(<<1>> \o change)[n]],
          start |-> starts[n],
          d     |-> Max({ends[n] - starts[n], 0})]]

-----------------------------------------------------------------------------
(* Spans are pairs <<a, b>> of samples, b exclusive.                        *)

Sorted_spans(S) ==
  LET lt(p, q) == p[1] < q[1] \/ (p[1] = q[1] /\ p[2] < q[2])
  IN  [n \in 1..Cardinality(S) |->
         CHOOSE p \in S : Cardinality({q \in S : lt(q, p)}) = n - 1]

(* The active stretches of the mask. *)
Stretches(mask) ==
  LET n == Len(mask)
      on(i) == i \in 1..n /\ mask[i]
  IN  {s \in (1..n) \X (2..(n + 1)) :
         /\ s[1] < s[2] /\ ~on(s[1] - 1) /\ ~on(s[2])
         /\ \A i \in s[1]..(s[2] - 1) : on(i)}

(* Sorted spans, those at most `gap` behind the one before joined to it.    *)
Merge_to_last(spans, gap) ==
  LET out[n \in 0..Len(spans)] ==
        IF n = 0 THEN <<>>
        ELSE LET o == out[n - 1]  s == spans[n]
             IN  IF o # <<>> /\ s[1] - Last(o)[2] <= gap
                 THEN Append(Front(o), <<Last(o)[1], s[2]>>)
                 ELSE Append(o, s)
  IN  out[Len(spans)]
Merge_spans(spans, gap) ==
  LET out[n \in 0..Len(spans)] ==
        IF n = 0 THEN <<>>
        ELSE LET o == out[n - 1]  s == spans[n]
             IN  IF o # <<>> /\ s[1] - Last(o)[2] <= gap
                 THEN Append(Front(o),
                             <<Last(o)[1], Max({Last(o)[2], s[2]})>>)
                 ELSE Append(o, s)
  IN  out[Len(spans)]

(* A span cut at the gaps inside it.                                        *)
Cut(span, gaps) ==
  LET bounds == {span[1], span[2]}
                  \cup {g \in gaps : span[1] < g /\ g < span[2]}
  IN  {p \in bounds \X bounds :
         p[1] < p[2] /\ \A c \in bounds : c <= p[1] \/ c >= p[2]}

(* find_events of one channel.                                              *)
find_events(mask, gaps) ==
  LET n == Len(mask)
      merged == Merge_spans(Sorted_spans(Stretches(mask)), MergeGap)
      long(s) == s[2] - s[1] >= Max({1, MinLen})
      padded(s) == <<Max({1, s[1] - Pad}), Min({n + 1, s[2] + Pad})>>
      inside == {g \in gaps : g \in 2..n}
  IN  UNION {{e \in Cut(padded(merged[i]), inside) : long(e)} :
               i \in {j \in DOMAIN merged : long(merged[j])}}

events_s_cut_once(masks, gaps) ==
  ToSet(Merge_spans(Sorted_spans(
    UNION {find_events(masks[c], gaps[c]) : c \in DOMAIN masks}), 0))

(* _events_s: the spans of several channels, merged, and cut again.         *)
events_s(masks, gaps) ==
  LET spans  == UNION {find_events(masks[c], gaps[c]) : c \in DOMAIN masks}
      merged == Merge_spans(Sorted_spans(spans), 0)
      all    == UNION {gaps[c] : c \in DOMAIN gaps}
  IN  UNION {{e \in Cut(merged[i], all) : e[2] - e[1] > MinLen} :
               i \in DOMAIN merged}
=============================================================================
