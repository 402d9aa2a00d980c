------------------------------ MODULE Analysis ------------------------------
(***************************************************************************)
(* The offline tools, a step for each stage: analyze() finds events, slices *)
(* one, infers its timing and runs the decoders; compare aligns the frames  *)
(* and searches for a checksum.  A behaviour is given the input of one      *)
(* stage and goes on from there, so that each stage meets every input of    *)
(* its own, whatever the stage before it is likely to produce.              *)
(***************************************************************************)
EXTENDS Simulate, Decoders, Slicing, Compare

CONSTANTS
  Traffic,    \* simulated captures: a set of [encoding, payload, at, by]
  Repeats,    \* repeats
  GapUnits,   \* gap_s, in units
  Signals,    \* a set of [dev, h]
  Activity,   \* a set of [masks, gaps], by channel
  Sessions    \* recordings to compare: a set of [sync, fields, cut, check]

(* The mask has an entry for each sample; a gap is the index of a sample.   *)
ASSUME ActivityAssumption ==
  \A a \in Activity :
    /\ IsFiniteSet(DOMAIN a.masks)
    /\ \A c \in DOMAIN a.masks : a.masks[c] \in Seq(BOOLEAN)
    /\ DOMAIN a.gaps = DOMAIN a.masks
    /\ \A c \in DOMAIN a.gaps : a.gaps[c] \subseteq Nat

(* Grid is fine enough for the edges between neighbouring samples.          *)
ASSUME SignalsAssumption ==
  \A s \in Signals :
    /\ s.dev \in Seq(Int) /\ s.h \in Nat
    /\ \A i \in 2..Len(s.dev) :
         Crosses(s.dev[i - 1], s.dev[i])
           => Grid % magnitude(s.dev[i - 1] - s.dev[i]) = 0

VARIABLES
  stage,   \* the next operation
  given,   \* what the behaviour began with
  made     \* what the operations have returned

vars == <<stage, given, made>>

(* The runs of a capture whose edge behind run t.at is t.by steps late.     *)
SlicedRuns(t) ==
  LET runs == make_capture(t.encoding, t.payload, Repeats, GapUnits)
  IN  IF t.by = 0 THEN runs
      ELSE [runs EXCEPT ![t.at].d = @ + t.by, ![t.at + 1].d = @ - t.by]

(* Frames: a sync byte, fields and their checksum, of which the first bits  *)
(* are missing.                                                             *)
FramesOf(s) ==
  [i \in DOMAIN s.fields |->
     [label |-> s.fields[i][1],
      bits  |-> From(bits_of(<<s.sync>> \o s.fields[i]
                               \o <<check(s.check, s.fields[i])>>), s.cut[i])]]

(* A checksum is a byte, and so many bits are missing from each frame.      *)
ASSUME SessionsAssumption ==
  \A s \in Sessions :
    /\ s.sync \in Byte
    /\ s.fields \in Seq(Seq(Byte))
    /\ s.cut \in [DOMAIN s.fields -> Nat]
    /\ \A i \in DOMAIN s.fields : check(s.check, s.fields[i]) \in Byte

Init ==
  /\ made = <<>>
  /\ \/ /\ stage = "find events"
        /\ given \in Activity
     \/ /\ stage = "slice"
        /\ given \in Signals
     \/ /\ stage = "infer"
        /\ \E t \in Traffic : given = [sent |-> t, runs |-> SlicedRuns(t)]
     \/ /\ stage = "align"
        /\ \E s \in Sessions : given = [sent |-> s, frames |-> FramesOf(s)]

(* analyze: _events_s *)
FindEvents ==
  /\ stage = "find events"
  /\ stage' = "found"
  /\ made' = [events |-> events_s(given.masks, given.gaps)]
  /\ UNCHANGED given

(* _analyze_span: slice_to_runs *)
SliceToRuns ==
  /\ stage = "slice"
  /\ stage' = "sliced"
  /\ made' = [runs |-> slice_to_runs(given.dev, given.h)]
  /\ UNCHANGED given

(* _analyze_span: infer_timing *)
InferTiming ==
  /\ stage = "infer"
  /\ stage' = "decode"
  /\ made' = [model |-> infer_timing(given.runs)]
  /\ UNCHANGED given

(* _analyze_span: run_all *)
RunAll ==
  /\ stage = "decode"
  /\ stage' = "decoded"
  /\ made' = [decodes |-> run_all(given.runs, made.model)] @@ made
  /\ UNCHANGED given

(* cmd_compare: align and render_table *)
Align ==
  /\ stage = "align"
  /\ stage' = "search"
  /\ LET aligned == align(given.frames)
     IN  made' = [aligned |-> aligned, marks |-> classify_columns(aligned)]
  /\ UNCHANGED given

(* cmd_compare: checksum_search *)
Search_checksum ==
  /\ stage = "search"
  /\ stage' = "searched"
  /\ LET trimmed == trim_common_start(made.aligned)
     IN  made' = [aligned |-> made.aligned,
                  report  |-> checksum_search(
                                [i \in DOMAIN trimmed |-> trimmed[i].bits])]
  /\ UNCHANGED given

Next == FindEvents \/ SliceToRuns \/ InferTiming \/ RunAll \/ Align
        \/ Search_checksum

Spec == Init /\ [][Next]_vars

-----------------------------------------------------------------------------
(* What the properties compare with. *)

Own == [manchester |-> "manchester", bmc |-> "bmc", uart |-> "uart",
        pwm |-> "pulse-width", pdm |-> "pulse-distance", nrz |-> "nrz"]

Sent == bits_of(given.sent.payload)

(* A payload of zeros only, or ones only, is a square wave, in which        *)
(* nothing tells a code's two symbols apart.                                *)
Legible == ToSet(Sent) = BOOLEAN

(* The unit found is within a twentieth of the one sent with. *)
UnitFound ==
  LET u == made.model.unit
  IN  u # NoUnit /\ 20 * magnitude(u.n - 2 * Unit * u.m) <= 2 * Unit * u.m

ToLastFalse(bits) ==
  SubSeq(bits, 1, Max({i \in DOMAIN bits : ~bits[i]} \cup {0}))

(* What of the bits the wire still shows: the end of a frame that is at the *)
(* idle level is part of the idle bus.  An NRZ frame loses the ones at its  *)
(* end (and shows its start bit), and BMC a 0 that the bus spends at rest.  *)
Shown ==
  CASE given.sent.encoding = "nrz" -> ToLastFalse(<<FALSE>> \o Sent)
    [] given.sent.encoding = "bmc" /\ ~Last(Sent)
       /\ Cardinality({i \in DOMAIN Sent : ~Sent[i]}) % 2 = 0 -> Front(Sent)
    [] OTHER -> Sent

OwnReadings ==
  {r \in made.decodes.results : r.family = Own[given.sent.encoding]}

ReadRight(r) ==
  [i \in DOMAIN r.frames |-> r.frames[i].bits] = [i \in 1..Repeats |-> Shown]

(* Whatever the payload, and with any one edge displaced by up to a quarter *)
(* of a unit, one of the readings by the code the frames were sent in has   *)
(* no error and gives their bits, also where a half-bit at the end of a     *)
(* frame has merged with the idle bus (the pads of decode_manchester, the   *)
(* last branch of decode_bmc, the trailing marks of decode_uart).           *)
ReadsWhatWasSent ==
  stage = "decoded" /\ UnitFound /\ Legible
  /\ 4 * magnitude(given.sent.by) <= Unit
    => \E r \in OwnReadings : r.errors = 0 /\ ReadRight(r)

(* An edge displaced by half a unit never yields wrong bits without an      *)
(* error in the codes that are read unit by unit: _quantize, stop bits and  *)
(* pairs leave no misreading that looks clean.                              *)
DisplacedEdgeShows ==
  stage = "decoded" /\ UnitFound /\ Legible
  /\ 2 * magnitude(given.sent.by) = Unit
  /\ given.sent.encoding \in {"manchester", "bmc", "uart", "nrz"}
    => \A r \in OwnReadings : r.errors > 0 \/ ReadRight(r)

(* On undisturbed edges infer_timing finds the greatest common measure of   *)
(* the runs, provided one of them is that short.                            *)
UnitIsCommonMeasure ==
  stage = "decode" /\ given.sent.by = 0
    => LET ds == {given.runs[i].d : i \in 2..(Len(given.runs) - 1)}
                   \ {GapUnits * Unit}
           g == Max({x \in 1..Max(ds) : \A d \in ds : d % x = 0})
           u == made.model.unit
       IN  g \in ds => u # NoUnit /\ u.n = 2 * g * u.m

(* The runs are what the decisive samples say: each is in a run of its own  *)
(* level, there are no more runs than they have changes, and the runs       *)
(* follow each other without a hole.  So neither noise within the           *)
(* hysteresis nor the search for the crossing adds, loses or reorders an    *)
(* edge, and no edge leaves the transition it stands for.                   *)
RunsFollowDecisiveSamples ==
  stage = "sliced"
    => LET R == made.runs
           clear == Decisive(given.dev, given.h)
           high(i) == given.dev[i] > 0
           turns == {j \in clear : \E i \in clear :
                       /\ i < j /\ high(i) # high(j)
                       /\ \A l \in (i + 1)..(j - 1) : l \notin clear}
           within(i, r) == r.start <= i * Grid /\ i * Grid < r.start + r.d
       IN  /\ Len(R) = Cardinality(turns) + 1
           /\ \A i \in clear, n \in DOMAIN R :
                within(i, R[n]) => R[n].lvl = high(i)
           /\ R[1].start = Grid
           /\ \A n \in DOMAIN R :
                R[n].start + R[n].d =
                  IF n = Len(R) THEN (Len(given.dev) + 1) * Grid
                  ELSE R[n + 1].start

AllGaps == UNION {given.gaps[c] : c \in DOMAIN given.gaps}

(* No event contains a place where either channel lost samples, and no two  *)
(* share a sample: "a pulse measured across lost samples has a meaningless  *)
(* width" (analyze.py).                                                     *)
EventsKeepClearOfGaps ==
  stage = "found"
    => /\ \A e \in made.events, g \in AllGaps : g <= e[1] \/ g >= e[2]
       /\ \A e, f \in made.events : e = f \/ e[2] <= f[1] \/ f[2] <= e[1]

(* Activity on either channel is in an event, but for what is no longer     *)
(* than the least length.                                                   *)
ActivityIsReported ==
  stage = "found"
    => \A c \in DOMAIN given.masks : \A s \in Stretches(given.masks[c]) :
         s[2] - s[1] >= MinLen
           => \A p \in Cut(s, AllGaps) :
                p[2] - p[1] > MinLen
                  => \E e \in made.events : e[1] <= p[1] /\ p[2] <= e[2]

(* Where the first bit of the whole frame would be.                         *)
Origin(i) == made.aligned[i].s - given.sent.cut[i]

(* Where find_anchor finds a pattern that the frames have in common, align  *)
(* puts it into the same columns of all of them, and render_table marks     *)
(* these as fixed.                                                          *)
AnchorColumnsAreFixed ==
  stage = "search"
    => LET anchor == find_anchor(given.frames, Reference(given.frames))
       IN  anchor # NoAnchor
             => \A k \in DOMAIN anchor.pat :
                  made.marks[anchor.pos + k - 1] = "="

(* Where the frames are aligned as they were sent, each having lost bits of *)
(* its own at the start, what trim_common_start leaves is enough for        *)
(* checksum_search to find the checksum, over the fields that remain and at *)
(* the offset at which the first whole byte begins.                         *)
ChecksumIsFound ==
  (/\ stage = "searched"
   /\ \A i, j \in DOMAIN made.aligned : Origin(i) = Origin(j))
    => LET lost  == Max(ToSet(given.sent.cut))
           bytes == (lost + ByteBits - 1) \div ByteBits
       IN  [check |-> given.sent.check, start |-> 1 - bytes,
            offset |-> bytes * ByteBits - lost, msb |-> TRUE]
              \in made.report.matches
=============================================================================
