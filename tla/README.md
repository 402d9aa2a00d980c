# TLA+ models of bus_tap

This directory holds the specifications of `bus_tap`: an ESP32 that samples the
wires of an Urmet intercom bus and streams the samples over UDP, and the Python
tools that receive, record and decode them. They model what can go wrong in an
order nobody tried: the two tasks of the firmware, Wi-Fi and the network, the
host that looks for an ESP, the receiver that reconstructs a gapless timeline
from datagrams, and the recording loops that cut captures out of it. They also
model the offline tools, which are pure algorithms: from samples to edges, to a
time unit, to decoded frames, to aligned frames and their checksum.

Names are the source's wherever TLA+ allows it. `PROJECT.json` maps every
definition to the lines it stands for.

## 1. The system

| Component | Source | State | Operations | Correct when |
|---|---|---|---|---|
| Wire protocol | `firmware/.../protocol.h`, `host/bustap/protocol.py` | none | build and parse headers, words, HELLO options | both ends read what the other wrote |
| Capture task and shared state | `firmware/.../adc_stream.c` | client and lease, running configuration, queued configuration, epoch, sequence counter, overflow and drop counters; the task's packet, index and own copy of the configuration | `request_config`, `touch_client`, `get_client`, `build_info`, the loop of `capture_task`, `on_pool_ovf` | an epoch declares one configuration and its samples are of it, `first_index` is a clock, sequence numbers are unique |
| Control loop | `firmware/.../main.c` | last INFO, reply flag | receive a HELLO, queue its options, renew the lease, send INFO | every HELLO is answered, what was asked for is run |
| Wi-Fi link | `firmware/.../wifi.c` | connected bit, the station's link and address | connect, reconnect for ever, wait for an address | the address is waited for, a stream comes back after an outage |
| Receiver | `host/bustap/record.py`, `Receiver` | the ESP it locked on to, the HELLO timer, expected seq and index, epoch, samples and gap marks not drained, totals | `poll`, `_handle`, `_mark_gap`, `drain`, `wait_for_stream` | samples are in order and complete, gaps are marked where they are, one ESP is heard, it is found unless datagrams are lost |
| Recorder | `record.py`, `record_for`, `record_gated`, `Track` | ring of history, track, time counters | watch, trigger, extend, save, Ctrl-C | activity is kept with its history, captures end when they should |
| Activity detector | `record.py`, `ActivityDetector` | warm-up, baseline per channel | `feed` | statistics, no specification to check against |
| Capture files | `host/bustap/capture.py` | a capture's arrays | save, load, `segments` | segments never cross a gap |
| Stand-in firmware | `host/bustap/fake_esp.py` | client and lease, seq, index, clock of the replay | `serve` | a receiver finds its losses and no others |
| Line decoders, simulator | `decoders.py`, `simulate.py` | none | runs to frames; frames to runs | what was encoded is read, a wrong bit never looks clean |
| Event finding and slicing | `dsp.py`, `analyze.py` | none | activity to spans, samples to runs | no event crosses a gap, no edge is added or lost |
| Encoding inference | `infer.py` | none | runs to a time unit and hypotheses | the unit is the runs' common measure |
| Frame comparison | `compare.py` | none | anchors, alignment, column classes, checksum search | common bits share columns, a checksum that is there is found |
| Tone detection | `tones.py` | none | spectra and thresholds | numerical quality |
| Monitor, plots, command line | `record.py:monitor`, `plot.py`, `__main__.py` | none | print and draw | no state |

How they interact. The control loop and the capture task run concurrently and
share the `s_*` variables of `adc_stream.c` under the spinlock `s_lock`; both
number datagrams from one counter and send on one socket, outside the lock.
The ADC driver fills a pool of frames behind the capture task's back and calls
`on_pool_ovf` from an interrupt. The receiver sends a HELLO every second,
which is at once discovery, lease renewal and configuration request, and gets
SAMPLES and INFO datagrams that UDP may lose, reorder or duplicate. The
recorder polls and drains the receiver. The capture it writes is cut at its
gaps into segments, and `analyze` and `compare` work on these.

What is hard here:
- code between two critical sections: the configuration, the ADC and the epoch
  change in four steps, with the control loop reading in between;
- a configuration the driver refuses after it was already published;
- a packet that spans frames, a lease that ends in the middle of it, a
  reconfiguration with a half-full packet and a half-full pool;
- numbering under the lock and sending outside it;
- loss, reordering and duplication of datagrams, 32-bit counters that wrap, and
  an ESP that loses power and starts counting again;
- gap marks that are handed out with one block although the samples they belong
  to come with the next;
- a capture that ends by quiet, by length, by a new epoch or by Ctrl-C, with
  activity right behind it;
- a HELLO that finds the ESP, renews its lease and may be lost, an ESP that
  leaves Wi-Fi and returns, two ESPs that answer the same broadcast;
- gap positions counted from the start of the stream, of a block and of a track;
- a symbol at the idle level that merges into the idle bus, edges displaced by
  noise, codes that eight readings explain equally well;
- frames that lost different numbers of leading bits.

`PROJECT.json` lists each of these as a hazard, at its line, with the
properties that would notice it going wrong.

## 2. Modules

| Module | Models |
|---|---|
| `Protocol` | header records, sample words, configurations, `Wrap` for the 32-bit counters, `split_words` |
| `ProtocolProofs` | what `split_words` returns, and the order the channels are converted in |
| `AdcStream` | the firmware: control loop, capture task, driver, clock; its properties |
| `AdcStreamProofs`, `AdcStreamClock` | theorems about `AdcStream`: types; configuration, order and numbers; the index as a clock, and what the proofs about the whole system need to know of the wire |
| `Receiver` | class `Receiver`: `_handle` and `drain` |
| `GappedStream` | abstract: what a host is promised of a stream, and nothing of how |
| `BusTap` | `AdcStream` and one `Receiver` over a network; shown to implement `GappedStream` |
| `BusTapProofs` | theorems about `BusTap`, the refinement of `GappedStream` among them |
| `Discovery` | Wi-Fi, leases, the HELLO timer, the lock on one ESP, `wait_for_stream` |
| `DiscoveryProofs` | theorems about `Discovery` |
| `Recorder` | `record_for` and `record_gated` |
| `RecorderProofs` | theorems about `Recorder` |
| `Track` | `Track.add` and `Channel.segments` |
| `FakeEsp` | the stand-in firmware's `serve` |
| `Session` | `FakeEsp`, `Receiver` and `Track`: a recording as the tests run one |
| `SessionProofs` | theorems about `Session` |
| `Runs` | bits, bytes and runs, shared by the offline tools |
| `Simulate` | the frame encoders of `simulate.py` |
| `Slicing` | `find_events`, `_events_s`, `schmitt`, `slice_to_runs` |
| `Infer` | `infer_timing` |
| `Decoders` | the seven decoders and `run_all` |
| `Compare` | `align`, `classify_columns`, `checksum_search` |
| `Analysis` | the offline tools, one action per stage, on the inputs of each |
| `AnalysisProofs` | theorems about `Analysis`: events, slicing, comparison |
| `MCAdcStream`, `MCBusTap`, `MCDiscovery`, `MCSession`, `MCAnalysis` | constants' values for TLC |

### AdcStream

One action is the code from one critical section to the next. What a task does
in between touches only its locals, so nothing another task could see is lost
by taking it in one step. `s_rate_hz` and `s_mask` are always read and written
together: they are the record `s_cfg`, and the pending pair is
`s_pending_cfg`. The capture task's locals `rate`, `mask` and `epoch` are
`cap_cfg` and `cap_epoch`. Program counters `main_pc` and `cap_pc` say where
the tasks are:

    control loop   recv -> touch -> client -> snapshot -> number -> send -> recv
    capture task   top -> apply -> (restore ->) start -> read
                   top -> read -> client -> pack <-> number -> send -> pack -> top

A sample word keeps its channel and, instead of the 12 bits of data, the
instant, the configuration and the run of the ADC (`run`, the epoch a start
of the ADC is followed by) it was converted in: `IndexIsTime`, `HeadersSettle`
and the gap properties of `BusTap` compare what the headers claim with where the
samples really come from. The ADC driver is external: frames of
`FrameLen` results, a pool of `PoolFrames`, a frame that does not fit is lost
and counted, a restart begins the pattern anew.

The pool survives a reconfiguration. `adc_stream.c:300-312` calls
`adc_continuous_stop`, `adc_apply` and `adc_continuous_start`; ESP-IDF has
`adc_continuous_flush_pool` for emptying the pool, and nothing calls it. (ESP-IDF
is not part of the repository: that its stop keeps the pool is taken from that
separate function and is the one thing assumed of it here.) So `ApplyConfig`
leaves `pool` alone, and frames converted before the stop are read after the
start, cut into the first packets of the new epoch, under its header. What this
does to the stream is the finding `bus_stale`; how far it can go is
`HeadersSettle`: a pool's worth of words at the beginning of an epoch, never more.

`PackWords` moves every result of a frame. The code would skip results of a
channel without a logical index (`adc_stream.c:336`), which cannot occur:
`s_phys_to_logical` is filled at boot for every usable channel, `adc_apply` puts
no other into the pattern, and results that are older than a reconfiguration
are of usable channels too.

HELLOs are free inputs: any host, at any moment, up to a bound. This covers the
receiver's one-second timer and every loss of a HELLO. `s_seq` and
`s_overflows` run unbounded in the model and are wrapped where a header takes
them (`Wrap`), which is what 32-bit arithmetic yields; `epoch` would wrap after
2^32 reconfigurations and is left unbounded. Left out: `esp_time_us`,
calibration, the INFO's texts, and `build_info`'s refusal of a too small
buffer, which its only caller never gives it.

### Receiver, BusTap and GappedStream

`Receiver` has the fields of the class without their underscores. Python's
`None` is `NONE`, a channel is a key of the dictionary `_total` exactly when
its total is not 0, and `drained` and `drained_gaps`, everything that `drain` has
returned so far, joined per channel, are history. (A variable that keeps the
joined lists can be reasoned about; flattening a list of blocks needs a recursion
in every step.) `BusTap` instantiates it as `Host` and adds the network: a delivery
picks a position of `wire`. `Loses`, `Reorders` and `Duplicates` say which
positions it may pick. `Reboot`, a power cycle of the ESP, puts every firmware
variable back to its initial value and is part of `PowerCycleSpec` only.

`GappedStream` knows neither datagrams nor epochs. Per channel it has a
sequence of samples that only grows at its end, the set of positions where
neighbours are not consecutive conversions, and how much has been handed out.
`BusTap!Promise` maps it: the stream is what was drained and what waits, the
marks are the gap positions of both, and what is handed out is
where the next block starts. `KeepsItsPromise` is its specification as a property of
`BusTap`: a hole must be marked in the very step that opens it, a mark is never
taken back, and a block starts where the one before it ended. The promise has two
limits, and both are the code's:
- `unsure` are the positions next to a sample that a reconfiguration left over in
  the pool (`Unsure`, where a neighbour is not `Fresh`): no mark is promised there,
  because of `bus_stale`. Samples there are still only added and handed out once.
- `trusted` turns `FALSE`, for good, when the pool overflows (because of
  `bus_overflow`) or when a packet arrives after one of a later epoch
  (`EpochsInOrder`). The Receiver recognises an old packet by its index, and one of
  an older epoch has none to compare with: it opens the old epoch again
  (`record.py:148`). From then on samples are still only added, never altered,
  and blocks tile the stream, but no mark is promised.

### Discovery

`AdcStream` begins with Wi-Fi up and `BusTap` with the receiver locked on.
`Discovery` is how they get there, with several ESPs and one host. Time is
counted in the polls of 0.2 s that `wait_for_stream` makes. Timers are counters
that run down (`lease`, `left`) or up to a maximum (`since`), so nothing grows.
A datagram arrives in the poll it was sent for, or is lost: order is
`BusTap`'s subject. What an ESP streams is reduced to who sent it. On the ESP's
side an action is an event of `wifi.c`'s handler, the start of `app_main`'s loop
after the CONNECTED bit, or the handling of a HELLO. On the host's, `PollStarts`
is `_send_hello` and the timer, `Handles` is a datagram of `poll` with the lock
on its address, and `PollReturns` is `wait_for_stream`'s decision. The access
point may refuse or drop a station at any time, and gives it any of its
addresses. Two ESPs never have one address: DHCP's part.

### Recorder

A block's samples are the epochs they belong to and one sample lasts one unit
of time, so times are integers and a capture that mixes epochs is visible.
(When the epoch changes in a block the code measures the whole block with the
new rate; the model does not carry that error.) The detector's verdict is a
free choice once its warm-up is over, which covers every signal. Each turn of
the trimming loop is a step (`Trim`), so the state between two of them is
visible and can be proved about. So is each turn of the loop that joins the
history to a new capture (`Trigger`, `AddHistory`, `Record`): Ctrl-C in the middle of
it saves a capture with a part of its history, or an empty one. `Total`, the time blocks last together, is a
recursive function on the length of a prefix. Ctrl-C (`Interrupt`) may come between any two
actions. `Track.add` is abstracted to the sequence of blocks here; `Track` has
it in full.

### FakeEsp, Track and Session

One action of `FakeEsp` is one pass of `serve`'s loop: a HELLO or none, the INFO
that is due, and the burst of datagrams the replay is behind by, turn by turn of
its inner loop. A word carries
the index it is sent under; `Due` gives the samples due by each instant.
`Session` sends its datagrams to a `Receiver` in order, and joins what is
drained to a `Track` from the first block after `wait_for_stream` on. This is
where positions are converted twice: from the stream to a block, and from the
block to a track whose first sample is anywhere.

### The offline tools

They keep no state, so `Slicing`, `Infer`, `Decoders`, `Compare` and `Simulate`
hold operators only, one per function of the source, with the source's names.
`Analysis` runs them stage by stage. Each stage is given every input of its own
up to a bound, not only what the stage before it produces.

Floating point is replaced by exact arithmetic. Durations are whole time steps,
`Unit` of them to the unit of a code; edges are found to 1/`Grid` of a sample;
a unit is a quotient that is compared by cross-multiplying; a threshold such as
0.35 keeps its digits as `100 * x > 35 * y`. `Slicing` takes the distances of
the samples from the threshold, or computes the moving one, as integers.
Activity, the mask of `find_events`, is an input: the baseline and the noise
estimate behind it are statistics. A byte has `ByteBits` bits, which the code
fixes at 8 and nothing but the size of the inputs depends on.

### Faulty forms

A definition whose name continues another's with an underscore
(`Room_one_more`, `Stale_never`) is a plausible bug in the code the other
models. No action uses it. Put in the place of the real definition it must
make TLC violate the property `PROJECT.json` pairs it with under "mutants",
which shows that the property depends on that code. (Names of the source that
have an underscore of their own, such as `slice_to_runs`, are not meant.)

## 3. Model-checking runs

Bounds are constants named `Max...` and appear in the guards of the inputs they
bound. Deadlock is checked where the system never stops (the firmware and the
bus). `Recorder`, `Discovery` (after its timeout), `Session` (at the end of the
capture) and `Analysis` end by themselves, so their runs say
`CHECK_DEADLOCK FALSE`.

| Run | Question | Result |
|---|---|---|
| `adc_config` | two hosts pull the configuration, the driver refuses one: do configuration, headers and ADC stay in step, is the ADC restarted only when asked, is what is queued applied, and every HELLO answered? (safety and liveness) | holds |
| `adc_lease` | one host repeats a HELLO, its lease ends and is renewed, also while it is not listening: unique numbers, ordered SAMPLES, index as a clock, one reconfiguration, and how far the pool's old frames reach into the new epoch | holds |
| `bus_chaos` | does the system implement `GappedStream` under loss, reordering, duplication and a reconfiguration? what does it discard and count? | holds |
| `bus_epochs` | loss and duplication with a reconfiguration that finds frames in the pool: marks, order, rates, completeness | holds |
| `discovery` | two ESPs, lost datagrams, outages: who is heard, when does the host give up or the lease run out, does the stream come back? (safety and liveness) | holds |
| `rec_loops` | every sequence of blocks, every verdict, Ctrl-C anywhere | holds |
| `session` | a recording against the stand-in firmware: losses and segments | holds |
| `analysis` | every stage of the offline tools on all its small inputs | holds |
| `bus_overflow` | is a gap marked where the pool overflowed? | violated |
| `bus_stale` | is every hole marked when the pool does not overflow? | violated |
| `bus_race` | is `datagrams_lost` 0 when nothing is lost? | violated |
| `bus_reboot` | is everything kept that arrives after a power cycle? | violated |

What the passing runs show:
- `HandleSamples`'s tests on epoch, index and overflow together mark exactly
  the discontinuities of the stream, wherever datagrams are lost, repeated or
  late, as long as the ADC's pool does not overflow and no packet comes after
  one of a later epoch; next to samples that a reconfiguration left over in the pool
  nothing is marked and nothing promised. Late packets of the epoch the Receiver
  is in are thrown away and do no harm.
- Of an epoch, only the first `PoolFrames * FrameLen` words can be of another
  configuration than its header says; all that follow are timed and split right.
- A configuration the driver refuses leaves no trace but a new epoch, and one
  per HELLO that asks for it.
- The ring, trigger and closing rules of gated recording lose no activity, for
  every pattern of verdicts.
- With several ESPs on the network a host hears one. With an ESP that stays on
  Wi-Fi, `wait_for_stream` fails only if a datagram was lost for every HELLO of
  the wait, and a lease runs out only if one was lost for every HELLO it covers;
  after any outage the stream comes back without a restart, provided the ESP
  keeps its address.
- Gap positions survive the conversions from stream to block to track, and the
  losses a receiver counts against the stand-in firmware are those it made.
- Each of the six codes is read back from its encoder, also with an edge
  displaced by a quarter of a unit, for every payload that has ones and zeros
  and whose unit was found; displaced by half, a wrong bit
  comes with an error in the codes that are read unit by unit.
- Events keep clear of gaps on both channels; slicing neither adds nor loses an
  edge; what frames have in common ends up in common columns; and a checksum
  that is there is found from whatever bit the frames begin at.

The violated runs check what a comment or document says and the code does not
do. Each is a finding in `PROJECT.json` with its lines:
- `bus_race`: the control loop numbers an INFO, the capture task numbers and
  sends SAMPLES first, and the receiver adds almost 2^32 to `datagrams_lost`.
- `bus_overflow`: the overflow count reaches the header ahead of the hole, by
  as many frames as wait in the pool, so the mark is early and the hole is not
  marked.
- `bus_stale`: the first packet of epoch 2 holds two conversions of the old
  configuration and one of the new, at consecutive indices, under the new rate and
  channel count. Nothing marks where the one ends and the other begins,
  `overflow_count` is 0, and neither the time that passed between them nor the
  change of rate is visible to the host. Emptying the pool between
  `adc_continuous_stop` and `adc_continuous_start` would close the gap.
- `bus_reboot`: after a power cycle the ESP is in epoch 1 with index 0 again;
  its samples are discarded as duplicates until the index has caught up.

### Why these bounds

- Frames of 2 results and packets of 3 words, or frames of 4 and 3 or 3 and 2:
  packets straddle frames, a frame completes a packet with words to spare, and with
  two channels the first word of a packet is of a different channel from packet to
  packet. In `adc_config`, whose properties do not look into packets, both are 2.
- A pool of 1 or 2 frames: it can be empty, partly full, and overflow, and a
  restart finds it so.
- 3 to 6 frames (2 in `adc_config`, and in `bus_chaos`, where they give three
  packets) give two to four packets, enough for a first packet, one that is lost or
  late, and one behind it; all pairwise properties need no more.
- 1 or 2 HELLOs of 1 or 2 hosts: a request, one that replaces it while it is
  queued or being applied, and a repetition.
- `Lease` 1 or 2 with a clock up to 3 in `AdcStream`: a lease can run out and be
  renewed in the middle of a packet.
- `W32` = 8 or 16: larger than every number that occurs between two datagrams,
  small enough that a difference taken in the wrong direction shows. `session`
  numbers more datagrams and has 64.
- 3 deliveries and 1 drain in `BusTap`: a datagram, a duplicate or a late
  one, and one more, with the drain anywhere between them. In `bus_chaos` a
  packet of epoch 1 can come before, between and after those of epoch 2.
- `discovery`: a HELLO every 2 polls, a lease of 5, a timeout of 6. The ratios
  are not the code's (5, 25 and 50) but the order is: a lease covers two HELLOs
  and part of a third period, the timeout three HELLOs. 3 losses are enough to
  make the host give up and to let a lease of two HELLOs run out, 2 outages for
  both ESPs to leave and return, one of them under another address.
- 7 blocks of 1 or 2 samples in `Recorder` with `PreS` = `PostS` = 2 and
  `MaxS` = 4: warm-up, history that must be trimmed, a full recording, and the
  beginning of another.
- `session`: a capture of 6 samples per channel sent as 4 packets of 3,
  each beginning with the other channel; every 3rd or 4th or no datagram dropped; a lease of 2 in a
  clock of 5 instants, so that it lapses, a burst follows, and the capture
  wraps; two drains.
- `analysis`: `ByteBits` = 4 gives 256 payloads of two bytes for each of six
  codes, 4 of them with every edge displaced; all signals of 6 samples with 5
  distances, and of 5 samples under a moving threshold; all masks of 7 samples
  on one channel with every stretch and gap on the other; 4 frames that lost 0
  to 2 bits each. Longer inputs repeat what these contain: decoders and slicing
  go from run to run with little memory, and an event has two ends.

### Fairness

`adc_config` assumes that each of the two tasks
keeps taking steps (`WF_vars(ControlNext)`, `WF_vars(CaptureNext)`): FreeRTOS
schedules both, and they block only in calls that time out (`recvfrom` after a
second, `adc_continuous_read` after 100 ms). Nothing is assumed of the ADC, the
hosts, the clock or the network: `PendingIsApplied` holds although the ADC may
never deliver a frame. `HelloAnswered` is about the INFO being handed to
`sendto`, since the lease of five seconds cannot run out in the few
instructions between `touch_client` and `get_client`; the run keeps its clock
within a lease.

`discovery` assumes that the host's process and the tasks of each ESP keep
running, that a datagram which is not lost arrives, and that the access point
lets in an ESP that keeps asking (`OnGotIp`). Nothing is assumed of losses and
outages but that they are finitely many, which is their bound. `StreamResumes`
says nothing of an ESP that returns under another address: the host never looks
for another and stays deaf to it.

## 4. Proofs

Checked by TLAPS for every value of the constants and without the bounds of the
runs (the `Max...` constants are any natural numbers): any number of hosts and
ESPs, every option a HELLO can carry, every frame, packet, pool and block size,
every lease and every setting of the recorder. They assume what the `ASSUME`s
of the modules say of the constants: sizes and rates are positive, at least one
channel is usable, `NoHost` is not a host, ESPs share no address, `NoTrack` is
not a sequence of blocks. Of the inputs of `Analysis` they say that masks are
sequences of Booleans and gaps indices of samples, signals sequences of integers,
sessions sequences of bytes with a checksum that is one, and that `Grid` is a
multiple of what an edge between two samples can be a fraction of
(`SignalsAssumption`): the code's edges are floating-point numbers, and this
makes the model's exact. A theorem that needs more says so as a hypothesis.

| Theorem | States | Module |
|---|---|---|
| `TypeCorrect` | `Spec => []TypeOK` | `AdcStreamProofs` |
| `ConfigurationsAgree` | `Spec => []ConfigAgreement` | `AdcStreamProofs` |
| `QueuedIsNew` | `Rejected = {}` implies `Spec => []PendingDiffers` | `AdcStreamProofs` |
| `RestartsAreAskedFor` | `Spec => []OneEpochPerHello` | `AdcStreamProofs` |
| `WishIsGrantedOnce` | `SameWish`, `Wished` and `Rejected` disjoint, imply `Spec => []NoRequeue` | `AdcStreamProofs` |
| `EpochsNameOneConfig` | `Spec => []EpochNamesOneConfig` | `AdcStreamProofs` |
| `SamplesLeaveInOrder` | `Spec => []SamplesInOrder` | `AdcStreamProofs` |
| `SequenceNumbersUnique` | `Spec => []SeqUnique` | `AdcStreamProofs` |
| `HeadersAreRightAfterThePool` | `Spec => []HeadersSettle` | `AdcStreamClock` |
| `FirstIndexIsTime` | `Spec => []IndexIsTime` | `AdcStreamClock` |
| `ReceiverTypeCorrect` | `BusSpec => []HostTypeOK` | `BusTapProofs` |
| `LostNumbersAddUp` | `BusSpec => []LostAddsUp` | `BusTapProofs` |
| `OnlyOldIsDiscarded` | `BusSpec => DiscardsOnlyOld` | `BusTapProofs` |
| `StreamsAreChronological` | `Orderly` implies `BusSpec => []Chronological` | `BusTapProofs` |
| `NothingArrivedIsDropped` | `~Reorders` implies `BusSpec => []ArrivedIsKept` | `BusTapProofs` |
| `BlocksAreTimedRight` | `BusSpec => []BlockRateIsRight` | `BusTapProofs` |
| `GapsAreMarked` | `PktLen >= 3` implies `BusSpec => []GapsAreExactInTransit` | `BusTapProofs` |
| `SystemKeepsItsPromise` | `PktLen >= 3` implies `BusSpec => KeepsItsPromise`, the refinement of `GappedStream` | `BusTapProofs` |
| `OneEspIsHeard` | `Spec => []InfoMatchesSamples` | `DiscoveryProofs` |
| `GivingUpTakesLosses` | `HelloPeriod >= 2` implies `Spec => []TimeoutMeansLoss` | `DiscoveryProofs` |
| `LeaseIsKeptAlive` | `Spec => []LeaseOutlivesLosses` | `DiscoveryProofs` |
| `TypeCorrect` | `Spec => []TypeOK` | `RecorderProofs` |
| `FixedNeverMixes` | `Spec => []FixedIsOneEpoch` | `RecorderProofs` |
| `CapturesHoldTogether` | `PreS # 0` implies `Spec => []RecordingsTile` | `RecorderProofs` |
| `NoActivityIsLost` | `PreS # 0` implies `Spec => []ActivityIsKept` | `RecorderProofs` |
| `HistoryHolds` | `PreS # 0` implies `Spec => []HistoryIsKept` | `RecorderProofs` |
| `CapturesEndOnTime` | `PreS # 0` implies `Spec => []EndsOnTime` | `RecorderProofs` |
| `OnlyDroppedIsLost` | `SessionSpec => [](seq <= W32 => LostIsDropped)` | `SessionProofs` |
| `SegmentsAlwaysUnbroken` | `PktLen >= Cardinality(names)` implies `SessionSpec => []SegmentsAreUnbroken` | `SessionProofs` |
| `EventsKeepClearOfGapsAlways` | `Spec => []EventsKeepClearOfGaps` | `AnalysisProofs` |
| `ActivityIsReportedAlways` | `Spec => []ActivityIsReported` | `AnalysisProofs` |
| `RunsAlwaysFollow` | `Spec => []RunsFollowDecisiveSamples` | `AnalysisProofs` |
| `AnchorColumnsAreAlwaysFixed` | two to nine frames a session imply `Spec => []AnchorColumnsAreFixed` | `AnalysisProofs` |
| `ChecksumIsAlwaysFound` | frames that have fields and lost at most the sync byte imply `Spec => []ChecksumIsFound` | `AnalysisProofs` |

### How they go: the firmware

`AdcStream`'s `TypeOK` is inductive as it stands; the work is in
`PackType`, which shows that the words moved fit the packet. None of the others
is inductive: each relates what has been sent, and says nothing of what is
about to be.
- `ConfigInv` adds what the three configurations are in the middle of a
  reconfiguration: before `ApplyConfig` the ADC still runs the capture task's
  own, and `s_cfg` is already the next one.
- `PendingInv` adds that the capture task never puts a configuration back, which
  is why it needs the driver to refuse nothing: a HELLO that asks for the old
  configuration while a refused one is being applied is queued, and
  `RestoreConfig` then makes what is queued what runs.
- `RestartsAreAskedFor` counts: a HELLO pays for a queued configuration or for
  the reconfiguration under way, never for both.
- `OnceInv`: the one configuration asked for is queued only before it is
  committed, and the boot configuration never comes back.
- `EpochInv` adds that what was sent in the current epoch, and the packet in
  hand, declare the capture task's configuration. It has to exempt the
  state between `ApplyConfig` and `StartEpoch`, where that configuration is the
  next epoch's already.
- `OrderInv` adds where the packet being filled begins (`index - Len(pkt)`),
  that `pkt_first` knows it from the first word on, and that everything sent in
  this epoch ends before it.
- `SeqInv` adds that a number is in one place: not given out, in the hand of
  one task, or on the wire. The two tasks' hands are compared with each other,
  which is where a counter read outside the lock would show.
- `RunInv` numbers the runs of the ADC by `s_epoch`: one configuration each, and
  more than a turn of the pattern between two of them, so that words of different
  runs are never consecutive. A word sent in an epoch is of its run or an earlier one.
- `ClockInv` gives every word of the current epoch, sent, in the packet, in the
  frame in hand or in the pool, its place in the epoch's count (`Placed`). A restart
  begins the count with a pool that holds at most `PoolFrames` frames of earlier
  runs, and with nothing else: the packet is forgotten and no frame is in hand
  (`HandEmpty`). So from `PoolWords` on every word is of the run that goes on
  (`Settled`, which is `HeadersSettle` once it is sent). While the pool has not
  overflowed, words of one run are as far apart in their places as in time
  (`TimedNow`, `TimedApart`), those left over in the pool among themselves too.

### How they go: the whole system

`BusTapProofs` takes from the firmware what is true of its wire (`WireInv`, at
the end of `AdcStreamClock`): packets are full, lie in order of time and of index
within an epoch, are cut at multiples of `PktLen`, every word is the result the
ADC's clock gives at its instant of its run, and a later packet has a later epoch
or index. What the firmware does in a step of the system is a step of `Spec`, so
these hold of `BusSpec` too.
- `FrontInv`: the Receiver's fields are those of one packet that arrived, the
  front (`Foremost`): its epoch, rate and channels, the index behind it, and no
  stream ends before its words. A datagram is kept only if it moves the front.
  This alone gives `OnlyOldIsDiscarded`, for any network.
- `LostInv` counts modulo 2^32, so it needs no order at all.
- `BehindInv`: every stream rises and ends with a word of the front or of a packet
  before it on the wire. This is where order matters. The Receiver recognises an
  old packet by its index, and a packet of an older epoch has no index to
  compare with: it opens the old epoch again. So `StreamsAreChronological` assumes
  `Orderly`, that the network keeps order (`~Reorders`) or that no HELLO asks for
  anything but the boot configuration (`NeverReconfigured`), and
  `NothingArrivedIsDropped` that the network keeps order.
- `BlocksAreTimedRight` needs neither: the Receiver takes rate and channels from a
  packet's header whenever the epoch changes, and a fresh word (`FreshIsRun`) is
  one that its header is right about.
- `GapInv`, while the pool has not overflowed and epochs come in order: between
  fresh words marks and holes are the same, a stream that ends in a fresh word ends
  in the front if its end is not marked, and in an earlier run if it is.
  That a packet next to the front continues every channel is arithmetic on the
  ADC's turn: channels repeat every one, two or three results, and a packet
  holds a whole turn if `PktLen >= 3` (it is 686, `protocol.h:40`). With
  shorter packets a channel could be missing from the front, and a hole in
  it go unmarked.
- `SystemKeepsItsPromise` takes each step of the system: one in the firmware
  changes no stream (whether a sample is fresh is settled when it is sent), but may
  end the trust by an overflow (`ExtendUnmarked`); a datagram that is kept appends
  to the streams and marks exactly what it leaves open, which is `GapInv` before
  and after, or ends the trust by being of an older epoch; a drain hands out.
  Without trust streams still only grow at their ends, which needs no more than types.

What `split_words` returns is proved in `ProtocolProofs`: the words of one
channel, each once, in their order.

### How they go: discovery, recorder, session

- `DiscoveryInv` adds that an ESP that may send has an address, and that
  everything taken in came from the owner of the address locked on to. That
  addresses are nobody else's makes this one ESP.
- `LeaseInv` and `WaitInv` are accounts. A lost datagram pays for one HELLO
  period. A lease is no older than what losses have paid for plus the time since
  the last HELLO; the time spent waiting is no longer than what was paid for,
  or nothing of the answer to this period's HELLO has been lost yet.
  `HelloPeriod >= 2` says that the answer has a poll to arrive in before
  the next HELLO is due (1.0 s against polls of 0.2 s). With a period of one poll
  TLC shows a timeout with one loss fewer.
- `StreamInv` of the recorder: the ring is a chain of blocks that reaches up to
  where the stream is. Its `TypeOK` needs this, because `ring_s`, kept by adding
  and subtracting, is the time the ring spans only if the ring has no holes.
  `Joining` is the state while history joins a capture: the track is a beginning of
  the ring, which is emptied only behind it.
- `Captures` adds the same of the recording under way, that the block which may
  trigger is still the ring's last after the trimming (this is where
  `PreS # 0` is needed: with `--pre 0` the trim removes it), and that what was
  written ends no later than what comes next begins.
- `ActiveKept` follows an active block from the ring to the track to the
  capture. `Close` forgets the track: that it is the last capture written is
  part of `Captures`.
- `HistoryInv`: the ring lasts `pre_s` or reaches back to the last capture, and no
  block of it but the one in hand is active, so that what triggers is the
  first active block of a recording.
- `EndsInv`: `rec_s` and `quiet_s`, kept by adding, are what the recording spans
  from its first and from its latest active block, and it is saved in the very
  turn in which these say so.
- `FixedInv`: the recording of fixed length is of the epoch the stream is in.
- `LossInv` of the session: the wire is in order, what is neither on it nor behind
  its end was dropped, and the Receiver has counted what was dropped before the
  datagram it is at. Each turn of the burst's loop keeps this (`BurstNumbered`). `seq <=
  W32` is no restriction on the stand-in: a number that does not fit the
  header raises an error in `protocol.py:79`.
- `SegmentsAlwaysUnbroken` follows a position from the wire to the file. `Spaced`:
  neighbours on the wire are adjacent, or a dropped datagram is between them.
  Words go out in turns of the channels and a datagram is at least a turn long
  (`PktLen >= Cardinality(names)`), so two neighbours of a channel are a turn
  apart exactly when nothing between them was dropped. `HearInv`: what the
  Receiver has of a channel, drained or not, is its words of the datagrams
  taken, and a position is marked exactly where two of them are not a turn
  apart (`Holes`). `TrackInv`: the track is what was drained since it began, with
  these marks moved to its own indices, whichever block a mark was handed out
  with (`Records`). Last, `segments` cuts at the marks and nowhere else
  (`SegmentsKeepTogether`).

### How they go: the offline tools

The stages of `Analysis` keep no state, so their invariants (`EventsInv`,
`SliceInv`, `CompareInv`) only say what each stage was given and what its
operators returned; the work is in lemmas about these operators.
- Events. `find_events` joins what is active at a distance of `MergeGap` or less
  and pads it; `Sorted_spans` orders the spans of both channels by rank, which
  is shown to be an enumeration; `Merge_spans` is followed span by span: its
  result is in order, disjoint, and around everything that went in. `Cut`
  leaves nothing across a gap. Merging comes first, so a span rejoined there is
  cut again at the gaps of both channels; nothing that is active and longer than
  `MinLen` is lost, because the cut ends at the gap and an activity does not
  contain one.
- Slicing. The comparator's level changes where the decisive samples change
  theirs and nowhere else. The edge of each change is in its turn, that is between the
  last decisive sample of the old level and the first of the new
  (`EdgeInTurn`), however often noise crosses the threshold there. Turns do not
  overlap, so the edges are strictly in order, the code's running maximum changes
  none of them, and every run has a length.
- Anchor. `find_anchor` returns a pattern that at least 90 % of the frames
  contain near its place in the longest one; of up to nine frames that is all
  of them. Each frame is then shifted by where it has the pattern, so the
  pattern's columns hold one value. Of ten frames one may be without it and be
  aligned by its similarity instead, and for them the property is not claimed.
- Checksum. `bits_of` writes byte after byte. What is cut from the front of a frame and
  what `trim_common_start` cuts are one cut, and from the first whole byte on
  `bytes_of` reads the bytes that were sent. So the search, which tries every
  shift and offset, meets the shift at which the checksum is that of the fields
  of all frames. This is stated where the frames are aligned as they were sent:
  where `align` is misled by a pattern similar to itself nothing is promised.

### Hypotheses, and what is out of reach

`PktLen >= 3`, `PktLen >= Cardinality(names)` (a packet has 686 words, a capture
at most three channels) and `HelloPeriod >= 2` hold of the values in the code;
`PreS # 0` holds unless the user says `--pre 0`. `Orderly` and `~Reorders` are the
network's: the code has no defence against a packet that arrives behind a
reconfiguration it was sent before. `SameWish` (every host asks for the
same) is the situation `NoRequeue` is about, two hosts that disagree take turns.
`AnchorColumnsAreAlwaysFixed` is limited to nine frames by the code's own 90 %,
and `ChecksumIsAlwaysFound` to what can be found: a frame that lost a part of
its fields no longer has what its checksum was computed over.

The library's induction theorems take an operator as a parameter, which the
installed provers cannot instantiate. Induction over a sequence is done instead by
its least counterexample: `Smallest`, `SmallestOf` and `LeastIn` say that a
set of numbers that is not empty has a least element, and a claim about a
recursive function is proved by showing that none of its failures is the first.
This covers recursive functions (`split_words`, `Total`, the burst of `FakeEsp`,
`Merge_spans`, the scan of `slice_to_runs`) but not `RECURSIVE` operators, nor the library's
`SelectSeq`, `SortSeq` and `MapThenSumSet` applied to a `LAMBDA`, which the provers
do not open. What is proved about is therefore written without them
(`Sorted_spans`, `segments`).

Left to TLC: `PendingIsApplied`, `HelloAnswered` and `StreamResumes`, which are
liveness under fairness; `UnitIsCommonMeasure`, `ReadsWhatWasSent` and
`DisplacedEdgeShows`, which compare what seven decoders and `infer_timing`
compute by such operators and by recursion over the runs with what an encoder
made of every payload.

## 5. Not modelled

- `measured_rate`: a least-squares fit in floating point.
- The activity detector's statistics, the baselines, noise estimates, filters
  and automatic thresholds of `dsp.py`, the waveforms of `simulate.py`, and all
  of `tones.py`: floating-point numerics without a specification other than the
  code. The models take their results (a verdict, a mask, a distance from the
  threshold) as inputs that are free to be anything.
- Reading and writing of files, of headers as bytes and of INFO as JSON; plots,
  tables, argument parsing: conversions and output.
- The firmware's build settings, which are the constants of `AdcStream`, and the
  hardware directories, which are not programs.

Seen while reading, and not the subject of a run:
- frames left over in the pool are stamped with the time they are read
  (`adc_stream.c:329`) and counted in the new epoch, so that the line
  `measured_rate` fits through indices and times (`record.py:199`) begins beside
  the new run's;
- an INFO built between the commit of a configuration and the new epoch carries
  the new rate with the old epoch (`adc_stream.c:234`, `294`, `314`);
- a HELLO that asks for what runs does not take back a different configuration
  queued before it, although the last HELLO should win (`adc_stream.c:200`,
  `protocol.h:10-13`);
- a HELLO whose configuration the driver refuses restarts the ADC every second
  it is repeated (`adc_stream.c:301-313`);
- an ESP that gets another address from DHCP is not heard again by a host that
  locked on to the old one (`record.py:126`);
- gated recording adds the block in which the epoch changes and never checks
  its ring, where `record_for` refuses (`record.py:339`, `388`);
- Ctrl-C after a capture is written and before `track = None` writes it again
  (`record.py:394`);
- with `--pre 0` the trim removes the triggering block itself (`record.py:378`);
- `--max` bounds a capture after its trigger, not with its history, and the
  triggering block counts as history (`record.py:376`, `391`);
- `FakeEsp.serve` ignores a HELLO's options, although its docstring says it
  honours the channel set (`fake_esp.py:4`), and sends what has become due during
  a lapsed lease in one burst, which the firmware discards;
- `Channel.segments` is used by tests only;
- `int(k / fs * fs)` is `k - 1` for some `k` (`analyze.py:79`; about 6 % of them at
  20 kHz): the window of an event may begin one sample early;
- pulse width and pulse distance accept pulses within 35 % of two centres, so a
  lengthened short pulse is misread without an error;
- where no run is one unit long, `infer_timing` takes the larger of two fitting
  units;
- an NRZ frame loses the ones at its end, and BMC a final 0 the bus spends at
  rest: they are not on the wire;
- an anchor found across a sync pattern that is partly lost or similar to itself
  can misalign frames; `ChecksumIsFound` therefore speaks of frames that were
  aligned as they were sent.

## 6. What is done and what is left

Done: every part of the repository that keeps state or has an exact
specification is in a module and in a run. Every safety property of the firmware,
of the whole system with its refinement of `GappedStream`, of discovery, of the
recorder and of the session is proved, and of the offline tools those of the
events, the slicing and the comparison.

Left, in the order of what it would add:
1. `ReadsWhatWasSent` as theorems about one code at a time, each decoder against
   its encoder, with the runs of a frame as the place a decoder has reached;
2. the recorder against per-channel verdicts of the detector, in which a channel
   that appears late has no baseline.
