------------------------------- MODULE Session ------------------------------
(***************************************************************************)
(* A recording session against the stand-in firmware, as the repository's   *)
(* tests run one: FakeEsp's datagrams reach a Receiver in order, on one     *)
(* machine, and the loop of record_for fills a Track with what it drains.   *)
(***************************************************************************)
EXTENDS FakeEsp, SequencesExt

CONSTANT MaxDrains  \* bound: drains

VARIABLES
  esp_info, stats, rate_hz, n_channels, epoch, next_seq, next_index, last_ovf,
  chunks, total, gaps, epoch_changed, drained,
  drained_gaps,   \* the Receiver's
  arrived,   \* how many datagrams of wire it has handled
  track,     \* the recording, or NoTrack
  drains

Host == INSTANCE Receiver
Recording == INSTANCE Track

hostVars == <<esp_info, stats, rate_hz, n_channels, epoch, next_seq,
              next_index, last_ovf, chunks, total, gaps, epoch_changed,
              drained, drained_gaps>>
sessionVars == <<vars, hostVars, arrived, track, drains>>

NoTrack == <<>>

SessionInit ==
  /\ Init /\ Host!Init
  /\ arrived = 0 /\ track = NoTrack /\ drains = 0

Deliver ==
  /\ arrived < Len(wire)
  /\ Host!Handle(wire[arrived + 1])
  /\ arrived' = arrived + 1
  /\ UNCHANGED <<vars, track, drains>>

(* wait_for_stream is done: what came before is drained and forgotten.      *)
StartRecording ==
  /\ track = NoTrack /\ esp_info # Host!NoInfo /\ stats.packets > 0
  /\ Host!Drain
  /\ track' = Recording!NewTrack
  /\ UNCHANGED <<vars, arrived, drains>>

AddBlock ==
  /\ track # NoTrack /\ drains < MaxDrains
  /\ Host!Drain
  /\ track' = Recording!add(track, Host!Block)
  /\ drains' = drains + 1
  /\ UNCHANGED <<vars, arrived>>

SessionNext ==
  \/ Next /\ UNCHANGED <<hostVars, arrived, track, drains>>
  \/ Deliver
  \/ StartRecording
  \/ AddBlock

SessionSpec == SessionInit /\ [][SessionNext]_sessionVars

-----------------------------------------------------------------------------
(* Properties *)

(* "gaps[i] = k means samples were lost between raw[k-1] and raw[k]"        *)
(* (capture.py:47), in a file whose first sample is anywhere in the stream: *)
(* the segments of a recorded channel are the stretches between two losses, *)
(* no shorter and no longer.                                                *)
SegmentsAreUnbroken ==
  track # NoTrack =>
    \A c \in Channels :
      LET raw   == track.raw[c]
          segs  == Recording!segments(raw, track.gaps[c])
          step  == Cardinality(names)
          whole(k) == raw[k + 1].at = raw[k].at + step
      IN  \A k \in 1..(Len(raw) - 1) :
            whole(k) <=> \E s \in segs : s[1] <= k /\ k + 1 < s[2]

(* On one machine nothing is lost but what was dropped on purpose, and the  *)
(* recorder's count says so, over INFOs, lapsed leases and bursts           *)
(* (record.py:28, fake_esp.py:82).                                          *)
LostIsDropped ==
  arrived > 0 =>
    stats.datagrams_lost =
      Cardinality({s \in dropped : s < wire[arrived].seq})
=============================================================================
