------------------------------ MODULE Simulate ------------------------------
(***************************************************************************)
(* Synthetic bus traffic: the frame encoders of host/bustap/simulate.py.    *)
(* TRUE is the bus at rest.                                                 *)
(***************************************************************************)
EXTENDS Runs, SequencesExt

CONSTANT Unit    \* unit_s, in the time steps of the model

ASSUME UnitAssumption == Unit \in Nat \ {0}

Seg(level, units) == [lvl |-> level, d |-> units * Unit]

bits_of(payload) == FlattenSeq(payload)

(* _merge: neighbouring segments of one level become one. *)
merge(segs) ==
  LET out[n \in 0..Len(segs)] ==
        IF n = 0 THEN <<>>
        ELSE LET o == out[n - 1]  s == segs[n]
             IN  IF o # <<>> /\ Last(o).lvl = s.lvl
                 THEN Append(Front(o), [s EXCEPT !.d = @ + Last(o).d])
                 ELSE Append(o, s)
  IN  out[Len(segs)]

Encodings == {"manchester", "bmc", "uart", "pwm", "pdm", "nrz"}

(* IEEE 802.3: a 1 rises in the middle of the bit, a 0 falls. *)
manchester(bits) ==
  FlattenSeq([i \in DOMAIN bits |-> <<Seg(~bits[i], 1), Seg(bits[i], 1)>>])

(* Every bit begins with an edge; a 1 has another in its middle. *)
bmc(bits) ==
  LET out[n \in 0..Len(bits)] ==
        IF n = 0 THEN <<>>
        ELSE LET o == out[n - 1]
                 l == o # <<>> /\ ~Last(o).lvl
             IN  o \o IF bits[n] THEN <<Seg(l, 1), Seg(~l, 1)>>
                      ELSE <<Seg(l, 2)>>
  IN  out[Len(bits)]

(* Start bit, data least significant bit first, stop bit and two of rest. *)
uart(payload) ==
  FlattenSeq([k \in DOMAIN payload |->
    <<Seg(FALSE, 1)>>
      \o [i \in 1..ByteBits |-> Seg(payload[k][ByteBits + 1 - i], 1)]
      \o <<Seg(TRUE, 3)>>])

pwm(bits) ==
  FlattenSeq([i \in DOMAIN bits |->
    <<Seg(FALSE, IF bits[i] THEN 2 ELSE 1),
      Seg(TRUE, IF bits[i] THEN 1 ELSE 2)>>])

pdm(bits) ==
  FlattenSeq([i \in DOMAIN bits |->
    <<Seg(FALSE, 1), Seg(TRUE, IF bits[i] THEN 3 ELSE 1)>>])
  \o <<Seg(FALSE, 1)>>

nrz(bits) == <<Seg(FALSE, 1)>> \o [i \in DOMAIN bits |-> Seg(bits[i], 1)]

(* One frame, without the idle bus around it. *)
frame_segments(encoding, payload) ==
  LET bits == bits_of(payload)
  IN  merge(CASE encoding = "manchester" -> manchester(bits)
              [] encoding = "bmc"        -> bmc(bits)
              [] encoding = "uart"       -> uart(payload)
              [] encoding = "pwm"        -> pwm(bits)
              [] encoding = "pdm"        -> pdm(bits)
              [] encoding = "nrz"        -> nrz(bits))

(* make_capture: the frame a number of times on a resting bus, gap units    *)
(* apart, as the runs a slicer makes of it.                                 *)
make_capture(encoding, payload, repeats, gap) ==
  merge(<<Seg(TRUE, gap)>>
    \o FlattenSeq([r \in 1..repeats |->
         frame_segments(encoding, payload) \o <<Seg(TRUE, gap)>>])
    \o <<Seg(TRUE, gap)>>)
=============================================================================
