-------------------------------- MODULE Track -------------------------------
(***************************************************************************)
(* class Track of host/bustap/record.py: drained Blocks joined into one     *)
(* recording, and Channel.segments of capture.py, which cuts a recorded     *)
(* channel at its gaps.  A track has, for every channel it has heard, the   *)
(* samples, the gap positions relative to the first of them, and that       *)
(* one's absolute position.                                                 *)
(***************************************************************************)
EXTENDS Protocol, SequencesExt

NONE == -1   \* not a key of the dictionary

NewTrack == [raw  |-> [c \in Channels |-> <<>>],
             gaps |-> [c \in Channels |-> <<>>],
             base |-> [c \in Channels |-> NONE]]

(* drain lists a channel in a block once it has ever been received. *)
Listed(blk, c) == blk.start[c] + Len(blk.raw[c]) > 0

Relative_absolute(g, base) == g
Relative(g, base) == g - base

(* The gaps of a block behind those of the track: not in front of the first *)
(* sample, and none twice in a row.                                         *)
JoinGaps(gaps, more, base) ==
  LET joined[n \in 0..Len(more)] ==
        IF n = 0 THEN gaps
        ELSE LET rel == Relative(more[n], base)
                 g   == joined[n - 1]
             IN  IF rel > 0 /\ (g = <<>> \/ Last(g) # rel)
                 THEN Append(g, rel) ELSE g
  IN  joined[Len(more)]

add(track, blk) ==
  LET base == [c \in Channels |->
                 IF track.base[c] = NONE /\ Listed(blk, c)
                 THEN blk.start[c] ELSE track.base[c]]
  IN  [raw  |-> [c \in Channels |-> track.raw[c] \o blk.raw[c]],
       gaps |-> [c \in Channels |->
                   JoinGaps(track.gaps[c], blk.gaps[c], base[c])],
       base |-> base]

(* The stretches <<a, b>> of a channel, b exclusive, counted from 1.        *)
segments(raw, gaps) ==
  LET n == Len(raw)
      starts[k \in 0..Len(gaps)] ==
        IF k = 0 THEN <<1>>
        ELSE IF 0 < gaps[k] /\ gaps[k] < n
             THEN Append(starts[k - 1], gaps[k] + 1)
        ELSE starts[k - 1]
      edges == Append(starts[Len(gaps)], n + 1)
  IN  {<<edges[i], edges[i + 1]>> :
         i \in {j \in 1..(Len(edges) - 1) : edges[j + 1] - edges[j] >= 1}}
=============================================================================
