------------------------------- MODULE BusTap -------------------------------
(***************************************************************************)
(* The system: the firmware (AdcStream), a UDP network, and the Receiver of *)
(* one host, `me`.  HELLOs are AdcStream's RequestConfig, at any moment: a  *)
(* HELLO that is lost is one that never happens.  In the other direction    *)
(* the network delivers datagrams of `wire`; what it may do to them is a    *)
(* parameter.                                                               *)
(***************************************************************************)
EXTENDS AdcStream, SequencesExt

CONSTANTS
  me,             \* the host whose Receiver is modelled
  Loses,          \* the network may lose a datagram ...
  Reorders,       \* ... deliver it after a later one ...
  Duplicates,     \* ... or twice
  MaxDeliveries,  \* bound: datagrams delivered
  MaxDrains,      \* bound: drains
  MaxReboots      \* bound: power cycles of the ESP

ASSUME NetworkAssumption ==
  /\ me \in Hosts
  /\ {Loses, Reorders, Duplicates} \subseteq BOOLEAN

VARIABLES
  esp_info, stats, rate_hz, n_channels, epoch, next_seq, next_index, last_ovf,
  chunks, total, gaps, epoch_changed, drained,
  drained_gaps,   \* the Receiver's
  delivered,      \* the positions of wire delivered so far, in order
  drains, reboots

Host == INSTANCE Receiver

hostVars == <<esp_info, stats, rate_hz, n_channels, epoch, next_seq,
              next_index, last_ovf, chunks, total, gaps, epoch_changed,
              drained, drained_gaps>>

busVars == <<vars, hostVars, delivered, drains, reboots>>

BusInit ==
  /\ Init /\ Host!Init
  /\ delivered = <<>> /\ drains = 0 /\ reboots = 0

ForMe(i) == i \in DOMAIN wire /\ wire[i].to = me

Arrived == {delivered[k] : k \in DOMAIN delivered}

(* What the network allows: the datagram at position i is next. *)
MayArrive(i) ==
  /\ Len(delivered) < MaxDeliveries
  /\ Duplicates \/ i \notin Arrived
  /\ Reorders \/ \A j \in Arrived : j <= i
  /\ Loses \/ \A j \in 1..(i - 1) : ForMe(j) => j \in Arrived

(* poll receives a datagram and handles it. *)
Deliver(i) ==
  /\ ForMe(i) /\ MayArrive(i)
  /\ Host!Handle(wire[i])
  /\ delivered' = Append(delivered, i)
  /\ UNCHANGED <<vars, drains, reboots>>

DrainBlock ==
  /\ drains < MaxDrains /\ drains' = drains + 1
  /\ Host!Drain
  /\ UNCHANGED <<vars, delivered, reboots>>

(* The ESP loses power and boots again; the ADC misses some instants.       *)
Reboot ==
  /\ reboots < MaxReboots /\ reboots' = reboots + 1
  /\ s_client' = NoHost /\ s_client_seen' = 0
  /\ s_cfg' = BootCfg /\ s_epoch' = 1 /\ s_seq' = 0
  /\ s_pending' = FALSE /\ s_pending_cfg' = BootCfg
  /\ s_overflows' = 0 /\ s_tx_drops' = 0
  /\ cap_pc' = "top" /\ cap_cfg' = BootCfg /\ cap_epoch' = 1
  /\ new_cfg' = BootCfg /\ index' = 0 /\ pkt_first' = 0 /\ pkt' = <<>>
  /\ rd' = <<>> /\ streaming' = NoHost /\ cap_out' = NoDatagram
  /\ main_pc' = "recv" /\ hello' = NoHost /\ reply' = FALSE
  /\ last_info' = 0 /\ main_out' = NoDatagram
  /\ adc_cfg' = BootCfg /\ pool' = <<>> /\ conv' = RestartInstant(conv)
  /\ now' = 1
  /\ UNCHANGED <<frames, hellos, wire, hostVars, delivered, drains>>

BusNext ==
  \/ Next /\ UNCHANGED <<hostVars, delivered, drains, reboots>>
  \/ \E i \in DOMAIN wire : Deliver(i)
  \/ DrainBlock

BusSpec == BusInit /\ [][BusNext]_busVars

(* The same system when the ESP may lose power under a running Receiver. *)
PowerCycleSpec == BusInit /\ [][BusNext \/ Reboot]_busVars

-----------------------------------------------------------------------------
(* Properties *)

HostTypeOK == Host!TypeOK

(* Two consecutive conversions of one channel, with nothing lost between.   *)
Seamless(w, v) ==
  v.cfg = w.cfg /\ v.at - w.at = Len(Pattern(w.cfg.mask))

(* A word sent in the epoch it was converted in, and not found in the pool  *)
(* by a later one (ApplyConfig).                                            *)
Fresh(w) ==
  \E i \in DOMAIN wire :
    wire[i].epoch = w.run /\ w \in ToSet(wire[i].words)

(* The positions in a channel's stream with a word left over in the pool on *)
(* either side: no mark is promised there.                                  *)
Unsure(c) ==
  LET s == Host!Stream(c)
  IN  {k \in 1..(Len(s) - 1) : ~(Fresh(s[k]) /\ Fresh(s[k + 1]))}

(* No packet has arrived after one of a later epoch. *)
EpochsInOrder ==
  \A k, l \in DOMAIN delivered :
    LET d == wire[delivered[k]]
        e == wire[delivered[l]]
    IN  k < l /\ IsSamples(d) /\ IsSamples(e) => d.epoch <= e.epoch

(* "gaps[name] holds indices k where samples were lost between sample k-1   *)
(* and sample k" (record.py:37-39): over everything drained or waiting, a   *)
(* position is marked exactly when its two neighbours are not consecutive   *)
(* conversions of one configuration.                                        *)
GapsAreExact ==
  \A c \in Channels : LET s == Host!Stream(c) IN
    \A k \in 1..(Len(s) - 1) :
      k \in Host!Marks(c) <=> ~Seamless(s[k], s[k + 1])

(* Of which, as long as the pool has not overflowed: where "samples were    *)
(* lost" there is a mark.                                                   *)
HolesAreMarked ==
  s_overflows = 0 =>
    \A c \in Channels : LET s == Host!Stream(c) IN
      \A k \in 1..(Len(s) - 1) :
        ~Seamless(s[k], s[k + 1]) => k \in Host!Marks(c)

(* GapsAreExact as long as the ADC's pool has not overflowed and the epochs *)
(* come in order, but where a word left over in the pool is a neighbour.    *)
GapsAreExactInTransit ==
  s_overflows = 0 /\ EpochsInOrder =>
    \A c \in Channels : LET s == Host!Stream(c) IN
      \A k \in (1..(Len(s) - 1)) \ Unsure(c) :
        k \in Host!Marks(c) <=> ~Seamless(s[k], s[k + 1])

(* The whole system implements GappedStream: what has been received, drained*)
(* or not, only ever grows at its end; a hole is marked in the very step    *)
(* that opens it and a mark is never taken back; and the start positions of *)
(* the blocks that drain hands out tile the stream (record.py:35-43,        *)
(* 177-188).                                                                *)
Promise == INSTANCE GappedStream WITH
  Chans       <- Channels,
  Consecutive <- Seamless,
  stream      <- [c \in Channels |-> Host!Stream(c)],
  marks       <- [c \in Channels |-> Host!Marks(c)],
  handed      <- [c \in Channels |-> Host!BlockStart(c)],
  unsure      <- [c \in Channels |-> Unsure(c)],
  trusted     <- s_overflows = 0 /\ EpochsInOrder

KeepsItsPromise == Promise!Spec

(* Samples come out of the Receiver in the order they were converted, each  *)
(* once, on all channels.                                                   *)
Chronological ==
  \A c \in Channels : LET s == Host!Stream(c) IN
    \A k \in 1..(Len(s) - 1) : s[k].at < s[k + 1].at

(* Only a "duplicate or reordered datagram" (record.py:162) is thrown away: *)
(* every sample of a discarded packet is no newer than the last one kept.   *)
DiscardsOnlyOld ==
  [][\A i \in DOMAIN wire :
       Deliver(i) /\ IsSamples(wire[i]) /\ stats'.packets = stats.packets =>
         \A k \in DOMAIN wire[i].words : \E c \in Channels :
           /\ Host!Stream(c) # <<>>
           /\ wire[i].words[k].at <= Last(Host!Stream(c)).at]_busVars

(* The rate and channel count the host times a block with are those its     *)
(* samples were converted with, unless the block says the epoch changed or  *)
(* the sample was left over in the pool.                                    *)
BlockRateIsRight ==
  ~epoch_changed =>
    \A c \in Channels : \A w \in ToSet(chunks[c]) :
      Fresh(w) =>
        w.cfg.rate = rate_hz /\ popcount8(w.cfg.mask) = n_channels

(* Every datagram that reaches a Receiver over a network that keeps order   *)
(* is there in full: none of its samples is taken for a "duplicate or       *)
(* reordered datagram" (record.py:162) unless it really is one.             *)
ArrivedIsKept ==
  \A i \in Arrived : \A k \in DOMAIN wire[i].words :
    LET w == wire[i].words[k] IN w \in ToSet(Host!Stream(w.ch))

(* The counter of lost datagrams is right modulo 2^32 in the end, in        *)
(* whatever order the datagrams came: skipped and received numbers add up   *)
(* to the span between the first number and the next one expected.          *)
LostAddsUp ==
  delivered # <<>> =>
    Wrap(stats.datagrams_lost + Len(delivered)) =
      Wrap(next_seq - wire[delivered[1]].seq)

(* datagrams_lost counts "sequence gaps (can include lost INFO packets)"    *)
(* (record.py:28): when the network keeps order and everything the ESP ever *)
(* numbered was sent and has arrived, it is 0.                              *)
LostCountsLoss ==
  /\ Len(wire) = s_seq
  /\ \A i \in DOMAIN wire : i \in Arrived
  => stats.datagrams_lost = 0
=============================================================================
