-------------------------------- MODULE Runs --------------------------------
(***************************************************************************)
(* What the analysis works on.  A bit is a BOOLEAN, a byte the sequence of  *)
(* its bits, most significant first.  A run of a sliced signal (dsp.Runs),  *)
(* and likewise a segment of a simulated one, is a level and how long it    *)
(* lasts; TRUE is the high level.                                           *)
(***************************************************************************)
EXTENDS Integers, Sequences

CONSTANT ByteBits    \* 8

ASSUME ByteAssumption == ByteBits \in Nat \ {0}

Byte == [1..ByteBits -> BOOLEAN]

(* Runs.idle_level: the window begins at rest. *)
idle_level(runs) == runs[1].lvl
=============================================================================
