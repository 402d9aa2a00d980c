------------------------------ MODULE Decoders ------------------------------
(***************************************************************************)
(* host/bustap/decoders.py: every decoder reads the same runs and returns   *)
(* frames of bits with an error count, and run_all ranks them.              *)
(*                                                                          *)
(* A frame's range is a pair <<a, b>> of run numbers, b exclusive.  A unit  *)
(* and the form of thresholds are Infer's.  OffGrid_never and               *)
(* FinalHalf_never are faulty forms: bugs one could make in the definition  *)
(* whose name they continue.                                                *)
(***************************************************************************)
EXTENDS Infer

OFF_GRID == 35
UART_MIN_BYTES == 4

Frame(bits, errors, symbols) ==
  [bits |-> bits, errors |-> errors, symbols |-> symbols]

OffGrid_never(d, u) == 2 * OffBy(d, u) > u.n
(* _quantize: how many of a range's runs are off the grid. *)
OffGrid(d, u) == 100 * OffBy(d, u) > OFF_GRID * u.n
OffCount(runs, ab, u) ==
  Cardinality({i \in ab[1]..(ab[2] - 1) : OffGrid(runs[i].d, u)})

(* The runs that last longer than p / q half steps. *)
Longer(runs, p, q) == {i \in DOMAIN runs : 2 * runs[i].d * q > p}

(* The ranges between delimiters: the long runs, of the idle level unless   *)
(* any_level, and the window's edges.                                       *)
frames(runs, long, any_level) ==
  LET n     == Len(runs)
      delim == {1, n} \cup {i \in long :
                 any_level \/ runs[i].lvl = idle_level(runs)}
      after(a) == Min({b \in delim : b > a})
      starts == SelectSeq([i \in 1..(n - 1) |-> i],
                          LAMBDA a : a \in delim /\ a + 1 \notin delim)
  IN  IF n < 3 THEN <<>>
      ELSE [k \in DOMAIN starts |-> <<starts[k] + 1, after(starts[k])>>]

(* np.repeat(levels[a:b], ...): the level of every unit of a range. *)
Repeat(runs, ab, Times(_)) ==
  FlattenSeq([i \in 1..(ab[2] - ab[1]) |->
    LET r == runs[ab[1] + i - 1] IN [k \in 1..Times(r.d) |-> r.lvl]])

(* A decoder's frames: what Read makes of each range, where it makes any.   *)
Decoded(ranges, Read(_)) ==
  SelectSeq([i \in DOMAIN ranges |-> Read(ranges[i])],
            LAMBDA f : f.symbols > 0)

AtLeastOne(d, u) == Max({Units(d, u), 1})

(* 1 = idle level. *)
decode_nrz(runs, u) ==
  Decoded(frames(runs, Longer(runs, 12 * u.n, u.m), FALSE),
    LAMBDA ab : LET s == Repeat(runs, ab, LAMBDA d : AtLeastOne(d, u))
                IN  Frame([i \in DOMAIN s |-> s[i] = idle_level(runs)],
                          OffCount(runs, ab, u), ab[2] - ab[1]))

(* The data bits of a character, as shown: most significant first.          *)
Data(data) == Reverse(data)

(* Where a character begins at the first mark after idle; what follows the  *)
(* range is idle, which shows the last stop bit.                            *)
decode_uart(runs, u, data_bits, parity) ==
  LET need == 1 + data_bits + (IF parity = "N" THEN 0 ELSE 1) + 1
      Read(ab) ==
        LET s    == Repeat(runs, ab, LAMBDA d : AtLeastOne(d, u))
            mark == [i \in 1..(Len(s) + need) |->
                       i > Len(s) \/ s[i] = idle_level(runs)]
            data(p) == SubSeq(mark, p + 1, p + data_bits)
            odd(p)  == Cardinality({i \in 1..(data_bits + 1) : mark[p + i]})
                         % 2 = 1
            wrong(p) ==
              (IF parity # "N" /\ ((parity = "E") <=> odd(p)) THEN 1 ELSE 0)
              + (IF mark[p + need - 1] THEN 0 ELSE 1)
            begins[p \in Nat] ==
              IF p > Len(s) THEN <<>>
              ELSE IF mark[p] THEN begins[p + 1]
              ELSE <<p>> \o begins[p + need]
            chars == begins[1]
        IN  Frame(FlattenSeq([i \in DOMAIN chars |-> Data(data(chars[i]))]),
                  OffCount(runs, ab, u)
                    + SumOver(DOMAIN chars, LAMBDA i : wrong(chars[i])),
                  Len(chars))
  IN  Decoded(frames(runs, Longer(runs, 12 * u.n, u.m), FALSE), Read)

(* Pairs of halves from the first or the second on; a last one without an   *)
(* edge is idle.                                                            *)
Pairs(s, phase) ==
  [i \in 1..((Len(s) - phase) \div 2) |->
     <<s[2 * i - 1 + phase], s[2 * i + phase]>>]
WithoutIdle(p) == IF p # <<>> /\ Last(p)[1] = Last(p)[2] THEN Front(p) ELSE p
BadPairs(p) == Cardinality({i \in DOMAIN p : p[i][1] = p[i][2]})

(* The reading of a frame with the fewest bad pairs, then the most bits,    *)
(* then the fewest pads in the order tried.                                 *)
BestPairs(reads) ==
  LET tries == {t \in DOMAIN reads : reads[t] # <<>>}
      rank(t) == (IF t[1] THEN 4 ELSE 0) + (IF t[2] THEN 2 ELSE 0) + t[3]
      key(t) == 10000 * BadPairs(reads[t]) - 10 * Len(reads[t]) + rank(t)
  IN  IF tries = {} THEN <<>>
      ELSE reads[CHOOSE t \in tries : \A v \in tries : key(t) <= key(v)]

(* Low then high is a 1. *)
PairFrame(p, off) ==
  Frame([i \in DOMAIN p |-> ~p[i][1] /\ p[i][2]], BadPairs(p) + off, Len(p))

(* A half-bit at the idle level at either end of a frame has merged with    *)
(* the idle bus, so every start and end is read with and without a pad and  *)
(* from either half.                                                        *)
decode_manchester(runs, u) ==
  LET Read(ab) ==
        LET halves == Repeat(runs, ab, LAMBDA d : Min({AtLeastOne(d, u), 2}))
            pad(yes) == IF yes THEN <<idle_level(runs)>> ELSE <<>>
            reads == [t \in BOOLEAN \X BOOLEAN \X {0, 1} |->
                        WithoutIdle(Pairs(pad(t[1]) \o halves \o pad(t[2]),
                                          t[3]))]
        IN  PairFrame(BestPairs(reads), OffCount(runs, ab, u))
  IN  Decoded(frames(runs, Longer(runs, 7 * u.n, 2 * u.m), TRUE), Read)

FinalHalf_never(level, idle) == FALSE
(* The second half of a final 1 has merged with the idle bus. *)
FinalHalf(level, idle) == level # idle

(* Of every symbol the set of its bit, empty where it is neither.           *)
decode_bmc(runs, u) ==
  LET Read(ab) ==
        LET q(i) == Units(runs[i].d, u)
            scan[i \in Nat] ==
              IF i >= ab[2] THEN <<>>
              ELSE IF q(i) = 2 THEN <<{FALSE}>> \o scan[i + 1]
              ELSE IF q(i) = 1 /\ i + 1 < ab[2] /\ q(i + 1) = 1
              THEN <<{TRUE}>> \o scan[i + 2]
              ELSE IF q(i) = 1 /\ i + 1 = ab[2]
                      /\ FinalHalf(runs[i].lvl, idle_level(runs))
              THEN <<{TRUE}>> \o scan[i + 1]
              ELSE <<{}>> \o scan[i + 1]
            read == scan[ab[1]]
            good == SelectSeq(read, LAMBDA x : x # {})
        IN  Frame([i \in DOMAIN good |-> TRUE \in good[i]],
                  OffCount(runs, ab, u) + Len(read) - Len(good), Len(good))
  IN  Decoded(frames(runs, Longer(runs, 5 * u.n, 2 * u.m), TRUE), Read)

(* Pulse width and pulse distance: the runs of one level carry the bits,    *)
(* longer than the geometric mean of the two centres (half steps) = 1.      *)
ByLength(runs, ranges, level, lo, hi) ==
  LET Far(d, c) == 100 * absv(2 * d - c) > OFF_GRID * c
      Read(ab) ==
        LET s == SelectSeq(SubSeq(runs, ab[1], ab[2] - 1),
                           LAMBDA r : r.lvl = level)
        IN  Frame([i \in DOMAIN s |-> 4 * s[i].d * s[i].d > lo * hi],
                  Cardinality({i \in DOMAIN s :
                                 Far(s[i].d, lo) /\ Far(s[i].d, hi)}),
                  Len(s))
  IN  Decoded(ranges, Read)

Centers(clusters) == {c.center : c \in clusters}

decode_pulse_width(runs, model) ==
  LET lo == Min(Centers(model.active))
      hi == Max(Centers(model.active))
      limit == 3 * IF model.idle = {} THEN hi ELSE Max(Centers(model.idle))
  IN  ByLength(runs, frames(runs, Longer(runs, limit, 1), FALSE),
               ~idle_level(runs), lo, hi)

decode_pulse_distance(runs, model) ==
  LET lo == Min(Centers(model.idle))
      hi == Max(Centers(model.idle))
  IN  ByLength(runs, frames(runs, Longer(runs, 5 * hi, 2), FALSE),
               idle_level(runs), lo, hi)

-----------------------------------------------------------------------------
(* DecodeResult, with its prior in hundredths. *)
Result(decoder, family, prior, fs) ==
  [decoder |-> decoder, family |-> family, prior |-> prior, frames |-> fs,
   errors  |-> SumOver(DOMAIN fs, LAMBDA i : fs[i].errors),
   symbols |-> SumOver(DOMAIN fs, LAMBDA i : fs[i].symbols),
   n_bits  |-> SumOver(DOMAIN fs, LAMBDA i : Len(fs[i].bits))]

clean(r) == 100 * r.errors <= Max({r.symbols, 1}) /\ r.n_bits >= 8

FAMILIES ==
  [h \in {"manchester/biphase", "pwm-constant-period", "pulse-width",
          "pulse-distance", "nrz/uart", "unclocked", "unclassified",
          "too few edges"} |->
     CASE h = "manchester/biphase" -> {"manchester", "bmc"}
       [] h \in {"pwm-constant-period", "pulse-width"} -> {"pulse-width"}
       [] h = "pulse-distance" -> {"pulse-distance"}
       [] h = "nrz/uart" -> {"uart", "nrz"}
       [] OTHER -> {}]

support(r, model) ==
  Max({h.confidence : h \in {k \in model.hypotheses :
                               r.family \in FAMILIES[k.encoding]}} \cup {0})

(* Every decoder that applies, in the order the code tries them. *)
Results(runs, model) ==
  LET u == model.unit
      when(cond, rs) == IF cond THEN rs ELSE <<>>
      all == when(u # NoUnit,
               <<Result("manchester", "manchester", 0,
                        decode_manchester(runs, u)),
                 Result("bmc", "bmc", 0, decode_bmc(runs, u)),
                 Result("nrz", "nrz", 5, decode_nrz(runs, u)),
                 Result("uart-8N1", "uart", 0,
                        decode_uart(runs, u, ByteBits, "N")),
                 Result("uart-8E1", "uart", 1,
                        decode_uart(runs, u, ByteBits, "E")),
                 Result("uart-8O1", "uart", 1,
                        decode_uart(runs, u, ByteBits, "O")),
                 Result("uart-9N1", "uart", 2,
                        decode_uart(runs, u, ByteBits + 1, "N"))>>)
             \o when(Cardinality(model.active) = 2,
                  <<Result("pulse-width", "pulse-width", 0,
                           decode_pulse_width(runs, model))>>)
             \o when(Cardinality(model.idle) = 2,
                  <<Result("pulse-distance", "pulse-distance", 0,
                           decode_pulse_distance(runs, model))>>)
  IN  SelectSeq(all, LAMBDA r : r.frames # <<>>)

(* The order of two sort keys, given part by part as pairs. *)
Precedes(keys) ==
  \E k \in DOMAIN keys : /\ keys[k][1] < keys[k][2]
                         /\ \A j \in 1..(k - 1) : keys[j][1] = keys[j][2]

(* Clean first, then fewer errors per symbol, then agreement with the       *)
(* timing, then the simpler code, then fewer bits.                          *)
Before(r, s, model) ==
  LET worse(x) == IF clean(x) THEN 0 ELSE 1
  IN  Precedes(<<<<worse(r), worse(s)>>,
                 <<worse(r) * r.errors * Max({s.symbols, 1}),
                   worse(s) * s.errors * Max({r.symbols, 1})>>,
                 <<-support(r, model), -support(s, model)>>,
                 <<r.prior, s.prior>>, <<r.n_bits, s.n_bits>>>>)

(* What is as clean and as plausible as the first, or told from it by too   *)
(* few bytes.                                                               *)
Ambiguous(top, rest, model) ==
  {r \in rest :
     /\ clean(top) /\ clean(r)
     /\ \/ /\ support(r, model) = support(top, model)
           /\ r.prior = top.prior /\ r.family # top.family
        \/ /\ r.family = "nrz" /\ top.family = "uart"
           /\ top.symbols < UART_MIN_BYTES}

(* The first result in the order, the earlier of equals, with those it is   *)
(* ambiguous with.                                                          *)
Ranked(rs, model) ==
  LET best == CHOOSE i \in DOMAIN rs : \A j \in DOMAIN rs :
                Before(rs[i], rs[j], model)
                \/ (~Before(rs[j], rs[i], model) /\ i <= j)
      With(i) == [top |-> rs[i], ambiguous_with |->
                    Ambiguous(rs[i], {rs[j] : j \in DOMAIN rs \ {i}}, model)]
  IN  [results |-> ToSet(rs), first |-> IF rs = <<>> THEN {} ELSE {With(best)}]

run_all(runs, model) == Ranked(Results(runs, model), model)
=============================================================================
