------------------------------ MODULE Recorder ------------------------------
(***************************************************************************)
(* The recording loops of host/bustap/record.py: record_for and             *)
(* record_gated, with the Track they fill and the ActivityDetector's        *)
(* warm-up and verdict.  Each pass drains one Block from the Receiver.      *)
(*                                                                          *)
(* A block's samples are the epochs they belong to, from absolute position  *)
(* start; one sample lasts one unit of time, so a block's duration is its   *)
(* length.  A drain without samples changes nothing and is left out.  The   *)
(* verdict on a block is free once the baseline is learned.  Ctrl-C may     *)
(* come at any moment.                                                      *)
(***************************************************************************)
EXTENDS Integers, Sequences, SequencesExt

CONSTANTS
  PreS, PostS, MaxS,   \* record_gated's pre_s, post_s, max_s
  WarmupS,             \* the detector's warmup_s
  Count,               \* stop after that many captures; 0 for None
  BlockLens,           \* how many samples a drain may return
  MaxEpoch,            \* bound: epochs of the stream
  MaxBlocks,           \* bound: blocks drained
  Interruptible,       \* may Ctrl-C come?
  NoTrack              \* Python's None, for a Track

Block == [start : Nat, words : Seq(Nat), epoch_changed : BOOLEAN,
          active : BOOLEAN]

ASSUME RecorderAssumption ==
  /\ PreS \in Nat /\ PostS \in Nat \ {0} /\ MaxS \in Nat \ {0}
  /\ WarmupS \in Nat \ {0} /\ Count \in Nat
  /\ BlockLens \subseteq Nat \ {0} /\ Interruptible \in BOOLEAN
  /\ MaxEpoch \in Nat \ {0} /\ MaxBlocks \in Nat
  /\ NoTrack \notin Seq(Block)

VARIABLES
  mode,       \* "gated" or "fixed": which of the two loops runs
  pc,
  blk,        \* the block in hand
  position, epoch,      \* where the stream is, and in which epoch
  warm_s, ready,        \* the detector's warm-up
  ring, ring_s,         \* history kept while nothing happens
  track,                \* the blocks of the recording under way, or NoTrack
  quiet_s, rec_s,
  saved,                \* the captures written
  fed                   \* history: every block the loop is done with

vars == <<mode, pc, blk, position, epoch, warm_s, ready, ring, ring_s, track,
          quiet_s, rec_s, saved, fed>>

NoBlock == [start |-> 0, words |-> <<>>, epoch_changed |-> FALSE,
            active |-> FALSE]

Dur(b) == Len(b.words)
Total(bs) ==
  LET sum[k \in 0..Len(bs)] == IF k = 0 THEN 0 ELSE sum[k - 1] + Dur(bs[k])
  IN  sum[Len(bs)]

Init ==
  /\ mode \in {"gated", "fixed"} /\ pc = "poll" /\ blk = NoBlock
  /\ position = 0 /\ epoch = 1 /\ warm_s = 0 /\ ready = FALSE
  /\ ring = <<>> /\ ring_s = 0
  /\ track = IF mode = "gated" THEN NoTrack ELSE <<>>
  /\ quiet_s = 0 /\ rec_s = 0 /\ saved = <<>> /\ fed = <<>>

(* rx.poll(0.1) and rx.drain(): some samples, the ESP perhaps reconfigured  *)
(* before the (k+1)-th of them.                                             *)
Poll(n, k) ==
  /\ pc = "poll" /\ Len(fed) < MaxBlocks
  /\ k < n => epoch < MaxEpoch
  /\ blk' = [start |-> position, epoch_changed |-> k < n, active |-> FALSE,
             words |-> [i \in 1..n |-> IF i <= k THEN epoch ELSE epoch + 1]]
  /\ position' = position + n
  /\ epoch' = IF k < n THEN epoch + 1 ELSE epoch
  /\ pc' = mode
  /\ UNCHANGED <<mode, warm_s, ready, ring, ring_s, track, quiet_s, rec_s,
                 saved, fed>>

-----------------------------------------------------------------------------
(* record_gated *)

(* det.feed: nothing is active before the baseline is learned.              *)
Feed(active) ==
  /\ active => ready
  /\ warm_s' = IF ready THEN warm_s ELSE warm_s + Dur(blk)
  /\ ready' = (ready \/ warm_s + Dur(blk) >= WarmupS)

Judged(active) == [blk EXCEPT !.active = active]

(* No recording under way: the block joins the ring, ...                    *)
Watch(active) ==
  /\ mode = "gated" /\ pc = "gated" /\ track = NoTrack
  /\ Feed(active)
  /\ blk' = Judged(active)
  /\ ring' = Append(ring, Judged(active))
  /\ ring_s' = ring_s + Dur(blk)
  /\ pc' = "trim"
  /\ UNCHANGED <<mode, position, epoch, track, quiet_s, rec_s, saved, fed>>

Excess_shorter == ring # <<>> /\ ring_s > PreS
(* The ring lasts pre_s without its oldest block. *)
Excess == ring # <<>> /\ ring_s - Dur(Head(ring)) >= PreS

RingLeft_unsubtracted == ring_s
RingLeft == ring_s - Dur(Head(ring))

(* ... loses its oldest ones, ...                                           *)
Trim ==
  /\ pc = "trim" /\ Excess
  /\ ring' = Tail(ring) /\ ring_s' = RingLeft
  /\ UNCHANGED <<mode, pc, blk, position, epoch, warm_s, ready, track,
                 quiet_s, rec_s, saved, fed>>

(* ... and, if the block is active, is the beginning of a recording: ...    *)
Trigger ==
  /\ pc = "trim" /\ ~Excess
  /\ IF blk.active
     THEN track' = <<>> /\ pc' = "join" /\ UNCHANGED fed
     ELSE fed' = Append(fed, blk) /\ pc' = "poll" /\ UNCHANGED track
  /\ UNCHANGED <<mode, blk, position, epoch, warm_s, ready, ring, ring_s,
                 quiet_s, rec_s, saved>>

(* ... its blocks join the recording one by one, ...                        *)
AddHistory ==
  /\ pc = "join" /\ Len(track) < Len(ring)
  /\ track' = Append(track, ring[Len(track) + 1])
  /\ UNCHANGED <<mode, pc, blk, position, epoch, warm_s, ready, ring, ring_s,
                 quiet_s, rec_s, saved, fed>>

RingAfter_kept == ring
(* The ring once a recording took it over. *)
RingAfter == <<>>

(* ... and it starts over.                                                  *)
Record ==
  /\ pc = "join" /\ Len(track) = Len(ring)
  /\ ring' = RingAfter /\ ring_s' = 0 /\ quiet_s' = 0 /\ rec_s' = 0
  /\ fed' = Append(fed, blk)
  /\ pc' = "poll"
  /\ UNCHANGED <<mode, blk, position, epoch, warm_s, ready, track, saved>>

QuietAfter_unreset(active) == quiet_s + Dur(blk)

(* quiet_s after the block in hand. *)
QuietAfter(active) == IF active THEN 0 ELSE quiet_s + Dur(blk)

(* A recording under way takes every block, and ends with quiet, at its     *)
(* longest, or when the ESP's configuration changed.                        *)
Extend(active) ==
  /\ mode = "gated" /\ pc = "gated" /\ track # NoTrack
  /\ Feed(active)
  /\ track' = Append(track, Judged(active))
  /\ fed' = Append(fed, Judged(active))
  /\ rec_s' = rec_s + Dur(blk)
  /\ quiet_s' = QuietAfter(active)
  /\ pc' = IF \/ QuietAfter(active) >= PostS
              \/ rec_s + Dur(blk) >= MaxS
              \/ blk.epoch_changed
           THEN "save" ELSE "poll"
  /\ UNCHANGED <<mode, blk, position, epoch, ring, ring_s, saved>>

(* to_capture, save and saved.append; track = None comes after the log.     *)
Save ==
  /\ pc = "save"
  /\ saved' = Append(saved, [blocks |-> track, interrupted |-> FALSE])
  /\ pc' = "close"
  /\ UNCHANGED <<mode, blk, position, epoch, warm_s, ready, ring, ring_s,
                 track, quiet_s, rec_s, fed>>

Close ==
  /\ pc = "close"
  /\ track' = NoTrack
  /\ pc' = IF Count # 0 /\ Len(saved) >= Count THEN "done" ELSE "poll"
  /\ UNCHANGED <<mode, blk, position, epoch, warm_s, ready, ring, ring_s,
                 quiet_s, rec_s, saved, fed>>

-----------------------------------------------------------------------------
(* record_for *)

Mixes_never(b) == FALSE

(* "ESP configuration changed mid-recording; not mixing sample rates".      *)
Mixes(b) == b.epoch_changed

(* The block joins the recording, or the recording is given up. *)
AddFixed ==
  /\ mode = "fixed" /\ pc = "fixed"
  /\ fed' = Append(fed, blk)
  /\ IF Mixes(blk)
     THEN pc' = "done" /\ UNCHANGED track
     ELSE pc' = "poll" /\ track' = Append(track, blk)
  /\ UNCHANGED <<mode, blk, position, epoch, warm_s, ready, ring, ring_s,
                 quiet_s, rec_s, saved>>

(* The time is up. *)
EndFixed ==
  /\ mode = "fixed" /\ pc = "poll"
  /\ saved' = Append(saved, [blocks |-> track, interrupted |-> FALSE])
  /\ pc' = "done"
  /\ UNCHANGED <<mode, blk, position, epoch, warm_s, ready, ring, ring_s,
                 track, quiet_s, rec_s, fed>>

-----------------------------------------------------------------------------
KeptOnInterrupt_never == FALSE
KeptOnInterrupt == mode = "gated" /\ track # NoTrack

(* KeyboardInterrupt: record_gated saves what it has, record_for nothing.   *)
Interrupt ==
  /\ Interruptible /\ pc # "done"
  /\ saved' = IF KeptOnInterrupt
              THEN Append(saved, [blocks |-> track, interrupted |-> TRUE])
              ELSE saved
  /\ pc' = "done"
  /\ UNCHANGED <<mode, blk, position, epoch, warm_s, ready, ring, ring_s,
                 track, quiet_s, rec_s, fed>>

Next ==
  \/ \E n \in BlockLens : \E k \in 0..n : Poll(n, k)
  \/ \E active \in BOOLEAN : Watch(active)
  \/ Trim
  \/ Trigger
  \/ AddHistory
  \/ Record
  \/ \E active \in BOOLEAN : Extend(active)
  \/ Save
  \/ Close
  \/ AddFixed
  \/ EndFixed
  \/ Interrupt

Spec == Init /\ [][Next]_vars

-----------------------------------------------------------------------------
(* Properties *)

End(b) == b.start + Dur(b)
Span(bs) == IF bs = <<>> THEN 0 ELSE End(Last(bs)) - bs[1].start
IsActive(b) == b.active

(* The recordings of gated mode: written, or under way with its history in. *)
Recordings ==
  [i \in DOMAIN saved |-> saved[i].blocks]
    \o IF track # NoTrack /\ pc \notin {"join", "close", "done"}
       THEN <<track>> ELSE <<>>

Interrupted(n) == n \in DOMAIN saved /\ saved[n].interrupted

(* The type invariant, with what the two durations kept beside the blocks   *)
(* must agree with.                                                         *)
TypeOK ==
  /\ mode \in {"gated", "fixed"}
  /\ pc \in {"poll", "gated", "trim", "join", "fixed", "save", "close", "done"}
  /\ blk \in Block /\ {ring, fed} \subseteq Seq(Block)
  /\ track \in Seq(Block) \cup {NoTrack}
  /\ position \in Nat /\ epoch \in 1..MaxEpoch
  /\ warm_s \in Nat /\ ready \in BOOLEAN
  /\ ring_s \in Nat /\ ring_s = Span(ring)
  /\ quiet_s \in Nat /\ rec_s \in Nat /\ quiet_s <= rec_s
  /\ saved \in Seq([blocks : Seq(Block), interrupted : BOOLEAN])

(* The blocks of a recording follow one another without a hole, which is    *)
(* what Track.add takes for granted when it makes gap positions relative,   *)
(* and one begins after the previous one ends (Ctrl-C may save one twice).  *)
RecordingsTile ==
  mode = "gated" =>
    /\ \A r \in ToSet(Recordings) : \A i \in 1..(Len(r) - 1) :
         End(r[i]) = r[i + 1].start
    /\ \A n \in 2..Len(Recordings) : ~Interrupted(n) =>
         End(Last(Recordings[n - 1])) <= Recordings[n][1].start

(* Activity is never lost: every block the detector found active is in a    *)
(* capture or in the recording under way, also one that comes right after a *)
(* capture was closed ("saves one capture per event", with history before   *)
(* the trigger: record.py:352-353).                                         *)
ActivityIsKept ==
  mode = "gated" =>
    \A b \in ToSet(fed) : b.active =>
      \E r \in ToSet(Recordings) : b \in ToSet(r)

(* Where history in front of recording n may begin: at the stream's start   *)
(* or where the recording before it ended.                                  *)
Earliest(n) == IF n = 1 THEN 0 ELSE End(Last(Recordings[n - 1]))

(* A recording holds pre_s of history up to and including the block that    *)
(* triggered it, unless less exists, and not a block more.  What Ctrl-C cut *)
(* short is left out: it may be a second copy, or its history half added.   *)
HistoryIsKept ==
  mode = "gated" =>
    \A n \in DOMAIN Recordings : ~Interrupted(n) => LET r == Recordings[n] IN
      LET trigger == SelectInSeq(r, IsActive)
          before  == Total(SubSeq(r, 1, trigger))
      IN  /\ trigger # 0
          /\ before >= PreS \/ r[1].start = Earliest(n)
          /\ trigger = 1 \/ before - Dur(r[1]) < PreS

(* What ends a capture: post_s of quiet, max_s since the trigger, or a new  *)
(* epoch ...                                                                *)
Finished(r) ==
  LET trigger == SelectInSeq(r, IsActive)
      active  == SelectLastInSeq(r, IsActive)
      after   == SubSeq(r, trigger + 1, Len(r))
  IN  /\ after # <<>>
      /\ \/ Total(SubSeq(r, active + 1, Len(r))) >= PostS
         \/ Total(after) >= MaxS
         \/ Last(r).epoch_changed

(* ... and it is closed at the first block that does, never earlier and     *)
(* never later, unless Ctrl-C came.                                         *)
EndsOnTime ==
  mode = "gated" =>
    \A n \in DOMAIN saved : ~saved[n].interrupted =>
      LET r == saved[n].blocks IN
        /\ Finished(r)
        /\ \A k \in SelectInSeq(r, IsActive)..(Len(r) - 1) :
             ~Finished(SubSeq(r, 1, k))

(* A capture has one rate (Channel.fs), so its samples are of one epoch:    *)
(* "not mixing sample rates" (record.py:340).                               *)
OneEpoch(bs) ==
  \A i, j \in DOMAIN bs :
    \A k \in DOMAIN bs[i].words, m \in DOMAIN bs[j].words :
      bs[i].words[k] = bs[j].words[m]

FixedIsOneEpoch ==
  mode = "fixed" => \A i \in DOMAIN saved : OneEpoch(saved[i].blocks)
=============================================================================
