------------------------------ MODULE Receiver ------------------------------
(***************************************************************************)
(* The host's end of the stream: class Receiver of host/bustap/record.py.   *)
(* It validates continuity, demultiplexes the words into channels and hands *)
(* them out in Blocks.  Handle and Drain are its two operations that change *)
(* state; whoever composes it says when datagrams arrive.                   *)
(*                                                                          *)
(* Names are the source's without the leading underscore.  drained and      *)
(* drained_gaps are history: what drain has returned, joined.  The          *)
(* dictionaries keyed by channel are functions: a channel is a key of       *)
(* _total exactly when its total is not 0.                                  *)
(* Names such as Stale_never are faulty forms, as in AdcStream.             *)
(***************************************************************************)
EXTENDS Protocol, SequencesExt

VARIABLES
  esp_info,       \* the last INFO, or NoInfo
  stats,          \* class Stats, less `rejected`
  rate_hz, n_channels, epoch,      \* of the stream, from its first packet
  next_seq, next_index, last_ovf,  \* what the next datagram should carry
  chunks,         \* words not yet drained, per channel
  total,          \* words ever received, per channel
  gaps,           \* gap positions not yet drained, per channel
  epoch_changed,
  drained,        \* history: words handed out, per channel
  drained_gaps    \* history: the gap positions handed out, per channel

vars == <<esp_info, stats, rate_hz, n_channels, epoch, next_seq, next_index,
          last_ovf, chunks, total, gaps, epoch_changed, drained,
          drained_gaps>>

NONE == -1            \* Python's None, for numbers
NoInfo == [rate |-> 0, epoch |-> 0]

Init ==
  /\ esp_info = NoInfo
  /\ stats = [packets |-> 0, samples |-> 0, datagrams_lost |-> 0,
              sample_gaps |-> 0, overflows |-> 0, epoch_changes |-> 0]
  /\ rate_hz = NONE /\ n_channels = NONE /\ epoch = NONE
  /\ next_seq = NONE /\ next_index = NONE /\ last_ovf = NONE
  /\ chunks = [c \in Channels |-> <<>>] /\ total = [c \in Channels |-> 0]
  /\ gaps = [c \in Channels |-> <<>>] /\ epoch_changed = FALSE
  /\ drained = [c \in Channels |-> <<>>]
  /\ drained_gaps = [c \in Channels |-> {}]

(* _mark_gap: here, on every channel already heard, unless it says so.      *)
mark_gap(g) ==
  [c \in Channels |->
     IF total[c] # 0 /\ (g[c] = <<>> \/ Last(g[c]) # total[c])
     THEN Append(g[c], total[c]) ELSE g[c]]

Skipped_unwrapped(seq) ==
  IF next_seq # NONE /\ seq # next_seq THEN seq - next_seq ELSE 0
Skipped_forward(seq) ==
  IF next_seq # NONE /\ seq > next_seq THEN seq - next_seq ELSE 0

(* Sequence numbers skipped before seq, as a uint32. *)
Skipped(seq) ==
  IF next_seq # NONE /\ seq # next_seq THEN Wrap(seq - next_seq) ELSE 0

HandleInfo(d) ==
  /\ d.type = "INFO"
  /\ next_seq' = Wrap(d.seq + 1)
  /\ stats' = [stats EXCEPT !.datagrams_lost = @ + Skipped(d.seq)]
  /\ esp_info' = [rate |-> d.rate_hz, epoch |-> d.epoch]
  /\ UNCHANGED <<rate_hz, n_channels, epoch, next_index, last_ovf, chunks,
                 total, gaps, epoch_changed, drained, drained_gaps>>

Reopens_never(d) == FALSE
Expected_across(d) == next_index
Stale_never(d) == FALSE

(* A SAMPLES datagram opens another epoch than the one being received,      *)
Reopens(d) == epoch # NONE /\ d.epoch # epoch

(* or follows an overflow of the ESP's pool.                                *)
Overflowed(d) == last_ovf # NONE /\ d.overflow_count # last_ovf

(* Where it should start, unless it is the first of its epoch:              *)
Expected(d) == IF d.epoch # epoch THEN NONE ELSE next_index

Stale_unexpected(d) == Expected(d) # NONE /\ d.first_index # Expected(d)
Jumps_far(d) ==
  Expected(d) # NONE /\ d.first_index > Expected(d) + Len(d.words)

(* before that it is a duplicate or came late,                              *)
Stale(d) == Expected(d) # NONE /\ d.first_index < Expected(d)

(* after it samples are missing.                                            *)
Jumps(d) == Expected(d) # NONE /\ d.first_index > Expected(d)

HandleSamples(d) ==
  /\ d.type = "SAMPLES"
  /\ next_seq' = Wrap(d.seq + 1)
  /\ epoch_changed' = (epoch_changed \/ Reopens(d))
  /\ IF d.epoch # epoch
     THEN epoch' = d.epoch /\ rate_hz' = d.rate_hz
            /\ n_channels' = d.n_channels
     ELSE UNCHANGED <<epoch, rate_hz, n_channels>>
  /\ last_ovf' = d.overflow_count
  /\ gaps' = IF Reopens(d) \/ Overflowed(d) \/ Jumps(d)
             THEN mark_gap(gaps) ELSE gaps
  /\ IF Stale(d)
     THEN UNCHANGED <<next_index, chunks, total>>
     ELSE /\ next_index' = d.first_index + Len(d.words)
          /\ chunks' = [c \in Channels |-> chunks[c] \o split_words(d.words, c)]
          /\ total' = [c \in Channels |->
                         total[c] + Len(split_words(d.words, c))]
  /\ stats' =
       [packets        |-> stats.packets + IF Stale(d) THEN 0 ELSE 1,
        samples        |-> stats.samples
                             + IF Stale(d) THEN 0 ELSE Len(d.words),
        datagrams_lost |-> stats.datagrams_lost + Skipped(d.seq),
        sample_gaps    |-> stats.sample_gaps + IF Jumps(d) THEN 1 ELSE 0,
        overflows      |-> stats.overflows
                             + IF Overflowed(d)
                               THEN Wrap(d.overflow_count - last_ovf) ELSE 0,
        epoch_changes  |-> stats.epoch_changes
                             + IF Reopens(d) THEN 1 ELSE 0]
  /\ UNCHANGED <<esp_info, drained, drained_gaps>>

(* _handle: what poll does with a datagram from the ESP it locked on to.    *)
Handle(d) == HandleInfo(d) \/ HandleSamples(d)

(* The absolute position of the first word waiting. *)
BlockStart(c) == total[c] - Len(chunks[c])

(* Everything received since the last drain, as a Block. *)
Block ==
  [raw |-> chunks, gaps |-> gaps, epoch_changed |-> epoch_changed,
   start |-> [c \in Channels |-> BlockStart(c)]]

(* drain returns the Block and begins another. *)
Drain ==
  /\ drained' = [c \in Channels |-> drained[c] \o Block.raw[c]]
  /\ drained_gaps' =
       [c \in Channels |-> drained_gaps[c] \cup ToSet(Block.gaps[c])]
  /\ chunks' = [c \in Channels |-> <<>>]
  /\ gaps' = [c \in Channels |-> <<>>]
  /\ epoch_changed' = FALSE
  /\ UNCHANGED <<esp_info, stats, rate_hz, n_channels, epoch, next_seq,
                 next_index, last_ovf, total>>

-----------------------------------------------------------------------------
(* The stream of a channel, drained or not, and the gap marks in it. *)
Stream(c) == drained[c] \o chunks[c]

Marks(c) == drained_gaps[c] \cup ToSet(gaps[c])

MaybeNat == Nat \cup {NONE}

(* The type invariant, with the one link the dictionaries rely on: a total  *)
(* counts what was handed out and what waits to be.                         *)
TypeOK ==
  /\ esp_info \in [rate : Nat, epoch : Nat]
  /\ stats \in [packets : Nat, samples : Nat, datagrams_lost : Nat,
                sample_gaps : Nat, overflows : Nat, epoch_changes : Nat]
  /\ rate_hz \in MaybeNat /\ n_channels \in MaybeNat /\ epoch \in MaybeNat
  /\ next_seq \in MaybeNat /\ next_index \in MaybeNat
  /\ last_ovf \in MaybeNat
  /\ chunks \in [Channels -> Seq(Word)] /\ total \in [Channels -> Nat]
  /\ gaps \in [Channels -> Seq(Nat)] /\ epoch_changed \in BOOLEAN
  /\ drained \in [Channels -> Seq(Word)]
  /\ drained_gaps \in [Channels -> SUBSET Nat]
  /\ \A c \in Channels : total[c] = Len(Stream(c))
=============================================================================
