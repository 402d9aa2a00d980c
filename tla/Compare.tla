------------------------------ MODULE Compare -------------------------------
(***************************************************************************)
(* host/bustap/compare.py: frames of several captures side by side.         *)
(*                                                                          *)
(* A frame is a label and a sequence of bits; positions and shifts count    *)
(* from 0 as in the source, so bit i of a frame is element i + 1.  An       *)
(* aligned frame is [f, s]: frame f begins at column s.                     *)
(***************************************************************************)
EXTENDS Runs, FiniteSets, SequencesExt, FiniteSetsExt

CONSTANTS
  MaxShift,     \* max_shift
  Lengths,      \* lengths: of an anchor, in the order they are tried
  MinOverlap,   \* 8, in align
  Polys         \* the generators tried, a set of bytes

ASSUME CompareAssumption ==
  /\ MaxShift \in Nat /\ MinOverlap \in Nat \ {0}
  /\ Lengths \in Seq(Nat \ {0})
  /\ Polys \subseteq Byte

MIN_DISTINCT == 4

distance(x) == IF x < 0 THEN -x ELSE x
(* bits[i:], from the end where i is negative. *)
From(bits, i) ==
  SubSeq(bits, 1 + (IF i < 0 THEN Max({0, Len(bits) + i}) ELSE i), Len(bits))

(* str.find: the first place of pat in bits[lo:hi], or -1. *)
find(bits, pat, lo, hi) ==
  LET at == {j \in lo..(Min({hi, Len(bits)}) - Len(pat)) :
               SubSeq(bits, j + 1, j + Len(pat)) = pat}
  IN  IF at = {} THEN -1 ELSE Min(at)

(* _correlation: agreements minus disagreements, and the overlap. *)
correlation(ref, bits, shift) ==
  LET cols == Max({0, shift})..(Min({Len(ref), shift + Len(bits)}) - 1)
      same == {i \in cols : ref[i + 1] = bits[i - shift + 1]}
  IN  [score   |-> 2 * Cardinality(same) - Cardinality(cols),
       overlap |-> Cardinality(cols)]

(* Where align looks for a pattern that is at pos in the reference. *)
Found(bits, pat, pos) ==
  find(bits, pat, Max({0, pos - MaxShift}), pos + MaxShift + Len(pat))

NoAnchor == [pos |-> -1, pat |-> <<>>]

(* How many frames have the reference's pattern at pos near its place. *)
Share(fs, ref, pos, len) ==
  Cardinality({i \in DOMAIN fs :
                 Found(fs[i].bits, SubSeq(ref, pos + 1, pos + len), pos) >= 0})

(* The most common pattern of that length, the first of equals.             *)
MostCommon(fs, ref, places, len) ==
  LET pos == CHOOSE p \in places : \A q \in places :
               LET a == Share(fs, ref, q, len)  b == Share(fs, ref, p, len)
               IN  a < b \/ (a = b /\ p <= q)
  IN  [pos |-> pos, pat |-> SubSeq(ref, pos + 1, pos + len)]

(* The longest pattern, and of these the most common, that at least 90 % of *)
(* the frames have near its place in the reference.                         *)
find_anchor(fs, ref) ==
  LET places(len) == {pos \in 0..Min({MaxShift, Len(ref) - len}) :
                        10 * Share(fs, ref, pos, len) >= 9 * Len(fs)}
      usable == {n \in DOMAIN Lengths : places(Lengths[n]) # {}}
      Longest(len) == MostCommon(fs, ref, places(len), len)
  IN  IF usable = {} THEN NoAnchor ELSE Longest(Lengths[Min(usable)])

(* The first of the longest frames. *)
Reference(frames) ==
  frames[Min({i \in DOMAIN frames : \A j \in DOMAIN frames :
                Len(frames[j].bits) <= Len(frames[i].bits)})].bits

(* The shift with the best score, then the least, then a negative one.      *)
BestShift(ref, bits) ==
  LET need == Max({MinOverlap, Min({Len(bits), Len(ref)}) \div 2})
      tried == {s \in (-MaxShift)..MaxShift :
                  correlation(ref, bits, s).overlap >= need}
      c == [s \in tried |-> correlation(ref, bits, s).score]
      beats(s, t) == c[s] > c[t]
                     \/ (c[s] = c[t] /\ distance(s) < distance(t))
                     \/ (c[s] = c[t] /\ distance(s) = distance(t) /\ s <= t)
  IN  IF tried = {} THEN 0
      ELSE CHOOSE s \in tried : \A t \in tried : beats(s, t)

Offset_mirrored(place, pos) == place - pos
(* How far a frame with the pattern at place begins behind the reference. *)
Offset(place, pos) == pos - place

(* On the anchor where the frame has it, else by correlation. *)
Column(f, ref, anchor) ==
  LET place == Found(f.bits, anchor.pat, anchor.pos)
  IN  IF anchor # NoAnchor /\ place >= 0 THEN Offset(place, anchor.pos)
      ELSE BestShift(ref, f.bits)

align_to(fs, ref, anchor) ==
  [i \in DOMAIN fs |-> [f |-> fs[i], s |-> Column(fs[i], ref, anchor)]]

align(fs) ==
  LET ref == Reference(fs) IN align_to(fs, ref, find_anchor(fs, ref))

Start_first(aligned) == Min({aligned[i].s : i \in DOMAIN aligned})
(* The first column that every frame has. *)
Start(aligned) == Max({aligned[i].s : i \in DOMAIN aligned})

trim_common_start(aligned) ==
  [i \in DOMAIN aligned |->
     [aligned[i].f EXCEPT !.bits = From(@, Start(aligned) - aligned[i].s)]]

(* The mark of every column from the first to the last of any frame.        *)
classify_columns(aligned) ==
  LET n(i) == Len(aligned[i].f.bits)
      first == Min({aligned[i].s : i \in DOMAIN aligned})
      end == Max({aligned[i].s + n(i) : i \in DOMAIN aligned})
      has(col) == {i \in DOMAIN aligned : col - aligned[i].s \in 0..(n(i) - 1)}
      bit(i, col) == aligned[i].f.bits[col - aligned[i].s + 1]
      values(S, col) == {bit(i, col) : i \in S}
      labelled(S, l) == {i \in S : aligned[i].f.label = l}
  IN  [col \in first..(end - 1) |->
         LET S == has(col)
         IN  IF Cardinality(S) < 2 THEN " "
             ELSE IF Cardinality(values(S, col)) = 1 THEN "="
             ELSE IF \A i \in S : Cardinality(values(
                       labelled(S, aligned[i].f.label), col)) = 1
             THEN "L" ELSE "*"]

-----------------------------------------------------------------------------
(* Bytes and checksums. *)
xor(a, b) == [i \in 1..ByteBits |-> a[i] # b[i]]
Zeros == [i \in 1..ByteBits |-> FALSE]
Ones == [i \in 1..ByteBits |-> TRUE]

value(byte) ==
  MapThenSumSet(LAMBDA i : IF byte[i] THEN 2 ^ (ByteBits - i) ELSE 0,
                1..ByteBits)

(* _reverse8, where asked for. *)
reflected(byte, yes) == IF yes THEN Reverse(byte) ELSE byte

Shift(crc, poly) ==
  IF crc[1] THEN xor(Append(Tail(crc), FALSE), poly)
  ELSE Append(Tail(crc), FALSE)

crc8(data, poly, init, reflect, xorout) ==
  LET bits[crc \in Byte, n \in 0..ByteBits] ==
        IF n = 0 THEN crc ELSE Shift(bits[crc, n - 1], poly)
      after[n \in 0..Len(data)] ==
        IF n = 0 THEN init
        ELSE bits[xor(after[n - 1], reflected(data[n], reflect)), ByteBits]
  IN  xor(reflected(after[Len(data)], reflect), xorout)

(* _checks *)
Crcs == [kind : {"crc8"}, poly : Polys, init : {Zeros, Ones},
         reflect : BOOLEAN, xorout : {Zeros, Ones}]
Checks ==
  {[kind |-> "sum8"], [kind |-> "neg-sum8"], [kind |-> "xor8"]} \cup Crcs

Sum_of(data) == MapThenSumSet(LAMBDA i : value(data[i]), DOMAIN data)
AsByte(v) == CHOOSE b \in Byte : value(b) = v % 2 ^ ByteBits

check(c, data) ==
  CASE c.kind = "sum8"     -> AsByte(Sum_of(data))
    [] c.kind = "neg-sum8" -> AsByte(-Sum_of(data))
    [] c.kind = "xor8"     -> FoldLeft(xor, Zeros, data)
    [] c.kind = "crc8"     -> crc8(data, c.poly, c.init, c.reflect, c.xorout)

bytes_of(bits, offset, msb) ==
  [k \in 1..((Len(bits) - offset) \div ByteBits) |->
     reflected(SubSeq(bits, offset + ByteBits * (k - 1) + 1,
                      offset + ByteBits * k), ~msb)]

MessageOf(bytes, start) == SubSeq(bytes, start + 1, Len(bytes) - 1)

(* What fits the last byte of every frame, over what, from which bit on.    *)
checksum_search(bit_frames) ==
  LET bytes(o, msb) == [i \in DOMAIN bit_frames |->
                          bytes_of(bit_frames[i], o, msb)]
      least(bs) == Min({Len(bs[i]) : i \in DOMAIN bs})
      fits(bs) == {cs \in Checks \X (0..(least(bs) - 2)) :
                     \A i \in DOMAIN bs :
                       check(cs[1], MessageOf(bs[i], cs[2])) = Last(bs[i])}
      tries == (0..(ByteBits - 1)) \X BOOLEAN
      trials == MapThenSumSet(LAMBDA t : Cardinality(Checks)
                  * Max({0, least(bytes(t[1], t[2])) - 1}), tries)
      distinct == Cardinality(ToSet(bit_frames))
      matches == UNION {{[check |-> cs[1], start |-> cs[2],
                          offset |-> t[1], msb |-> t[2]] :
                           cs \in fits(bytes(t[1], t[2]))} : t \in tries}
  IN  [matches |-> matches,
       confirmed |-> /\ matches # {} /\ distinct >= MIN_DISTINCT
                     /\ 100 * trials < 2 ^ (ByteBits * distinct)]
=============================================================================
