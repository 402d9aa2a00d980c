----------------------------- MODULE AdcStream ------------------------------
(***************************************************************************)
(* The firmware bus_tap_capture: the capture task of adc_stream.c, the      *)
(* control loop of main.c that calls into it, and the ADC driver they run   *)
(* on.  The two tasks interleave freely (they are pinned to two cores on    *)
(* dual-core chips) and synchronise only through the spinlock s_lock.  One  *)
(* action is the code from one critical section to the next; what a task    *)
(* computes in between touches only its own locals.                         *)
(*                                                                          *)
(* Names are the source's.  s_rate_hz and s_mask, which the code always     *)
(* reads and writes together, are the record s_cfg; s_pending_rate and      *)
(* s_pending_mask are s_pending_cfg; the capture task's locals rate and     *)
(* mask are cap_cfg, and its local epoch is cap_epoch.                      *)
(*                                                                          *)
(* A name continued by an underscore and a word (Room_one_more) is a faulty *)
(* form of the definition it precedes: no action uses it, and putting it in *)
(* that definition's place must violate a property.                         *)
(***************************************************************************)
EXTENDS Protocol

CONSTANTS
  Hosts,          \* UDP addresses HELLOs come from
  NoHost,         \* "no client"
  HelloOf,        \* [Hosts -> Request]: the options a host's HELLOs carry
  ValidChannels,  \* channels whose GPIO is an ADC1 input (s_ch[i].valid)
  DefaultRate,    \* CONFIG_BUS_TAP_SAMPLE_RATE
  RateLow,        \* SOC_ADC_SAMPLE_FREQ_THRES_LOW
  RateHigh,       \* SOC_ADC_SAMPLE_FREQ_THRES_HIGH
  Rejected,       \* configurations adc_continuous_config refuses
  FrameLen,       \* results in a DMA frame (READ_LEN)
  PoolFrames,     \* frames the driver's pool holds (POOL_LEN / READ_LEN)
  Lease,          \* CLIENT_LEASE_US
  InfoPeriod,     \* the control loop's INFO period, 1000000 us
  MaxHellos,      \* bound: HELLOs received
  MaxFrames,      \* bound: frames converted
  MaxNow          \* bound: the clock

ASSUME HostsAssumption == NoHost \notin Hosts /\ HelloOf \in [Hosts -> Request]
ASSUME ChannelsAssumption == ValidChannels \in (SUBSET Channels) \ {{}}
ASSUME RateAssumption ==
  DefaultRate \in Nat \ {0} /\ RateLow \in Nat \ {0} /\ RateHigh \in Nat
ASSUME SizeAssumption ==
  FrameLen \in Nat \ {0} /\ PoolFrames \in Nat \ {0}
ASSUME TimeAssumption == Lease \in Nat \ {0} /\ InfoPeriod \in Nat
ASSUME BoundAssumption ==
  MaxHellos \in Nat /\ MaxFrames \in Nat /\ MaxNow \in Nat

VARIABLES
  \* shared between the two tasks, under s_lock
  s_client, s_client_seen, s_cfg, s_epoch, s_seq, s_pending, s_pending_cfg,
  \* shared, written without the lock by their only writer
  s_overflows, s_tx_drops,
  \* the capture task and its locals
  cap_pc, cap_cfg, cap_epoch, new_cfg, index, pkt_first, pkt, rd, streaming,
  cap_out,
  \* the control loop and its locals
  main_pc, hello, reply, last_info, main_out,
  \* the ADC driver: its configuration, its pool, the next conversion
  adc_cfg, pool, conv,
  \* the clock, the datagrams handed to the network, and the bounds' counters
  now, wire, hellos, frames

shared  == <<s_client, s_client_seen, s_cfg, s_epoch, s_seq, s_pending,
             s_pending_cfg>>
capture == <<cap_pc, cap_cfg, cap_epoch, new_cfg, index, pkt_first, pkt, rd,
             streaming, cap_out>>
control == <<main_pc, hello, reply, last_info, main_out>>
driver  == <<adc_cfg, pool, conv, frames>>
vars == <<shared, s_overflows, s_tx_drops, capture, control, driver, now,
          wire, hellos>>

-----------------------------------------------------------------------------
(* app_main and adc_stream_start up to the two loops: the first epoch is 1, *)
(* every usable channel is on, and nobody is listening.                     *)

BootCfg == [rate |-> DefaultRate, mask |-> ValidChannels]

NoDatagram == Info(NoHost, 0, BootCfg)

Init ==
  /\ s_client = NoHost /\ s_client_seen = 0
  /\ s_cfg = BootCfg /\ s_epoch = 1 /\ s_seq = 0
  /\ s_pending = FALSE /\ s_pending_cfg = BootCfg
  /\ s_overflows = 0 /\ s_tx_drops = 0
  /\ cap_pc = "top" /\ cap_cfg = BootCfg /\ cap_epoch = 1
  /\ new_cfg = BootCfg /\ index = 0 /\ pkt_first = 0 /\ pkt = <<>>
  /\ rd = <<>> /\ streaming = NoHost /\ cap_out = NoDatagram
  /\ main_pc = "recv" /\ hello = NoHost /\ reply = FALSE
  /\ last_info = 0 /\ main_out = NoDatagram
  /\ adc_cfg = BootCfg /\ pool = <<>> /\ conv = 0 /\ frames = 0
  /\ now = 1 /\ wire = <<>> /\ hellos = 0

(* adc_stream_get_client: the most recent client, while its lease lasts. *)
get_client ==
  IF s_client_seen # 0 /\ now - s_client_seen < Lease
  THEN s_client ELSE NoHost

-----------------------------------------------------------------------------
(* The control loop: HELLO -> request_config, touch_client, INFO.           *)

(* adc_stream_request_config's early returns. *)
ValidRequest(req) ==
  /\ req.rate # 0 => req.rate \in RateLow..RateHigh
  /\ req.mask \subseteq ValidChannels

(* Absent options keep the values running now. *)
Merge(req, cfg) ==
  [rate |-> IF req.rate # 0 THEN req.rate ELSE cfg.rate,
   mask |-> IF req.mask # {} THEN req.mask ELSE cfg.mask]

Changes_always(cfg) == TRUE

(* Only a request that differs from what runs is queued. *)
Changes(cfg) == cfg # s_cfg

(* A HELLO arrives and request_config queues what differs from the running  *)
(* configuration; an invalid request still refreshes the lease below.       *)
RequestConfig(h) ==
  /\ main_pc = "recv" /\ hellos < MaxHellos
  /\ hello' = h /\ reply' = TRUE /\ hellos' = hellos + 1
  /\ LET cfg == Merge(HelloOf[h], s_cfg)
     IN  IF ValidRequest(HelloOf[h]) /\ Changes(cfg)
         THEN s_pending' = TRUE /\ s_pending_cfg' = cfg
         ELSE UNCHANGED <<s_pending, s_pending_cfg>>
  /\ main_pc' = "touch"
  /\ UNCHANGED <<s_client, s_client_seen, s_cfg, s_epoch, s_seq, s_overflows,
                 s_tx_drops, capture, last_info, main_out, driver, now, wire>>

(* recvfrom times out after a second, or yields something else. *)
RecvNothing ==
  /\ main_pc = "recv"
  /\ reply' = FALSE
  /\ main_pc' = "client"
  /\ UNCHANGED <<shared, s_overflows, s_tx_drops, capture, hello, last_info,
                 main_out, driver, now, wire, hellos>>

TouchClient ==
  /\ main_pc = "touch"
  /\ s_client' = hello /\ s_client_seen' = now
  /\ main_pc' = "client"
  /\ UNCHANGED <<s_cfg, s_epoch, s_seq, s_pending, s_pending_cfg, s_overflows,
                 s_tx_drops, capture, hello, reply, last_info, main_out,
                 driver, now, wire, hellos>>

InfoDue_periodic ==
  get_client # NoHost /\ now - last_info > InfoPeriod

(* Lines 91-93: is an INFO due, and to whom? *)
InfoDue ==
  get_client # NoHost /\ (reply \/ now - last_info > InfoPeriod)

DecideInfo ==
  /\ main_pc = "client"
  /\ IF InfoDue
     THEN /\ main_pc' = "snapshot" /\ last_info' = now
          /\ main_out' = [main_out EXCEPT !.to = get_client]
     ELSE main_pc' = "recv" /\ UNCHANGED <<last_info, main_out>>
  /\ UNCHANGED <<shared, s_overflows, s_tx_drops, capture, hello, reply,
                 driver, now, wire, hellos>>

(* adc_stream_build_info reads the configuration in one critical section ... *)
SnapshotInfo ==
  /\ main_pc = "snapshot"
  /\ main_out' = Info(main_out.to, s_epoch, s_cfg)
  /\ main_pc' = "number"
  /\ UNCHANGED <<shared, s_overflows, s_tx_drops, capture, hello, reply,
                 last_info, driver, now, wire, hellos>>

NumberInfo_shared ==
  /\ main_pc = "number"
  /\ main_out' = [main_out EXCEPT !.seq = Wrap(s_seq),
                                  !.overflow_count = Wrap(s_overflows)]
  /\ main_pc' = "send"
  /\ UNCHANGED <<shared, s_overflows, s_tx_drops, capture, hello, reply,
                 last_info, driver, now, wire, hellos>>

(* ... and takes the sequence number in a later one. *)
NumberInfo ==
  /\ main_pc = "number"
  /\ s_seq' = s_seq + 1
  /\ main_out' = [main_out EXCEPT !.seq = Wrap(s_seq),
                                  !.overflow_count = Wrap(s_overflows)]
  /\ main_pc' = "send"
  /\ UNCHANGED <<s_client, s_client_seen, s_cfg, s_epoch, s_pending,
                 s_pending_cfg, s_overflows, s_tx_drops, capture, hello,
                 reply, last_info, driver, now, wire, hellos>>

(* sendto's result is ignored: the datagram may never leave. *)
SendInfo(ok) ==
  /\ main_pc = "send"
  /\ wire' = IF ok THEN Append(wire, main_out) ELSE wire
  /\ main_pc' = "recv"
  /\ UNCHANGED <<shared, s_overflows, s_tx_drops, capture, hello, reply,
                 last_info, main_out, driver, now, hellos>>

ControlNext ==
  \/ \E h \in Hosts : RequestConfig(h)
  \/ RecvNothing
  \/ TouchClient
  \/ DecideInfo
  \/ SnapshotInfo
  \/ NumberInfo
  \/ \E ok \in BOOLEAN : SendInfo(ok)

-----------------------------------------------------------------------------
(* The capture task: apply a queued configuration, read a frame, cut the    *)
(* words into packets, number and send them.                                *)

TakePending_uncommitted ==
  /\ cap_pc = "top"
  /\ IF s_pending
     THEN s_pending' = FALSE /\ new_cfg' = s_pending_cfg /\ cap_pc' = "apply"
     ELSE cap_pc' = "read" /\ UNCHANGED <<s_pending, new_cfg>>
  /\ UNCHANGED <<s_client, s_client_seen, s_cfg, s_epoch, s_seq,
                 s_pending_cfg, s_overflows, s_tx_drops, cap_cfg, cap_epoch,
                 index, pkt_first, pkt, rd, streaming, cap_out, control,
                 driver, now, wire, hellos>>

TakePending_kept ==
  /\ cap_pc = "top"
  /\ IF s_pending
     THEN s_cfg' = s_pending_cfg /\ new_cfg' = s_pending_cfg
            /\ cap_pc' = "apply"
     ELSE cap_pc' = "read" /\ UNCHANGED <<s_cfg, new_cfg>>
  /\ UNCHANGED <<s_client, s_client_seen, s_epoch, s_seq, s_pending,
                 s_pending_cfg, s_overflows, s_tx_drops, cap_cfg, cap_epoch,
                 index, pkt_first, pkt, rd, streaming, cap_out, control,
                 driver, now, wire, hellos>>

(* Lines 287-297: commit the intent. *)
TakePending ==
  /\ cap_pc = "top"
  /\ IF s_pending
     THEN /\ s_pending' = FALSE /\ s_cfg' = s_pending_cfg
          /\ new_cfg' = s_pending_cfg /\ cap_pc' = "apply"
     ELSE cap_pc' = "read" /\ UNCHANGED <<s_pending, s_cfg, new_cfg>>
  /\ UNCHANGED <<s_client, s_client_seen, s_epoch, s_seq, s_pending_cfg,
                 s_overflows, s_tx_drops, cap_cfg, cap_epoch, index,
                 pkt_first, pkt, rd, streaming, cap_out, control, driver, now,
                 wire, hellos>>

(* adc_continuous_stop, then adc_apply.  Neither empties the pool (that is  *)
(* adc_continuous_flush_pool, which nothing calls): frames converted before *)
(* the stop are still there to be read after the restart.                   *)
ApplyConfig ==
  /\ cap_pc = "apply"
  /\ IF new_cfg \in Rejected
     THEN cap_pc' = "restore" /\ UNCHANGED <<adc_cfg, cap_cfg>>
     ELSE cap_pc' = "start" /\ adc_cfg' = new_cfg /\ cap_cfg' = new_cfg
  /\ UNCHANGED <<shared, s_overflows, s_tx_drops, cap_epoch, new_cfg, index,
                 pkt_first, pkt, rd, streaming, cap_out, control, pool, conv,
                 frames, now, wire, hellos>>

RestoreConfig_adc_only ==
  /\ cap_pc = "restore"
  /\ adc_cfg' = cap_cfg
  /\ cap_pc' = "start"
  /\ UNCHANGED <<shared, s_overflows, s_tx_drops, cap_cfg, cap_epoch, new_cfg,
                 index, pkt_first, pkt, rd, streaming, cap_out, control, pool,
                 conv, frames, now, wire, hellos>>

(* The driver refused: lines 303-307 put the previous configuration back. *)
RestoreConfig ==
  /\ cap_pc = "restore"
  /\ adc_cfg' = cap_cfg /\ s_cfg' = cap_cfg
  /\ cap_pc' = "start"
  /\ UNCHANGED <<s_client, s_client_seen, s_epoch, s_seq, s_pending,
                 s_pending_cfg, s_overflows, s_tx_drops, cap_cfg, cap_epoch,
                 new_cfg, index, pkt_first, pkt, rd, streaming, cap_out,
                 control, pool, conv, frames, now, wire, hellos>>

(* The pattern starts over, and some instants went by unconverted. *)
RestartInstant(t) == 6 * (t \div 6 + 2)

NextEpoch_same == s_epoch
Leftover_kept == pkt

(* A restart has a new epoch and begins with an empty packet. *)
NextEpoch == s_epoch + 1
Leftover == <<>>

(* adc_continuous_start, and a new epoch whether or not the ADC changed. *)
StartEpoch ==
  /\ cap_pc = "start"
  /\ conv' = RestartInstant(conv)
  /\ s_epoch' = NextEpoch /\ cap_epoch' = NextEpoch
  /\ index' = 0 /\ pkt' = Leftover
  /\ cap_pc' = "read"
  /\ UNCHANGED <<s_client, s_client_seen, s_cfg, s_seq, s_pending,
                 s_pending_cfg, s_overflows, s_tx_drops, cap_cfg, new_cfg,
                 pkt_first, rd, streaming, cap_out, control, adc_cfg, pool,
                 frames, now, wire, hellos>>

(* adc_continuous_read hands over the pool's oldest frame ... *)
ReadFrame ==
  /\ cap_pc = "read" /\ pool # <<>>
  /\ rd' = Head(pool) /\ pool' = Tail(pool)
  /\ cap_pc' = "client"
  /\ UNCHANGED <<shared, s_overflows, s_tx_drops, cap_cfg, cap_epoch, new_cfg,
                 index, pkt_first, pkt, streaming, cap_out, control, adc_cfg,
                 conv, frames, now, wire, hellos>>

ReadNothing_retry ==
  /\ cap_pc = "read"
  /\ UNCHANGED vars

(* ... or gives up after 100 ms, or fails: back to the pending check. *)
ReadNothing ==
  /\ cap_pc = "read"
  /\ cap_pc' = "top"
  /\ UNCHANGED <<shared, s_overflows, s_tx_drops, cap_cfg, cap_epoch, new_cfg,
                 index, pkt_first, pkt, rd, streaming, cap_out, control,
                 driver, now, wire, hellos>>

(* The client is looked up once for the whole frame. *)
GetClient ==
  /\ cap_pc = "client"
  /\ streaming' = get_client
  /\ cap_pc' = "pack"
  /\ UNCHANGED <<shared, s_overflows, s_tx_drops, cap_cfg, cap_epoch, new_cfg,
                 index, pkt_first, pkt, rd, cap_out, control, driver, now,
                 wire, hellos>>

Room_one_more == PktLen + 1 - Len(pkt)

(* How many words of the frame the packet still takes. *)
Room == PktLen - Len(pkt)
Moved == IF Len(rd) < Room THEN Len(rd) ELSE Room

FirstIndex_latest == index
NextIndex_streamed == IF streaming = NoHost THEN index ELSE index + Moved

(* pkt_first and index once the words have moved. *)
FirstIndex == IF pkt = <<>> THEN index ELSE pkt_first
NextIndex == index + Moved

(* Words move from the frame to the packet, which remembers the index of    *)
(* its first word; a full packet nobody listens to is dropped unnumbered.   *)
PackWords ==
  /\ cap_pc = "pack" /\ rd # <<>>
  /\ pkt_first' = FirstIndex /\ index' = NextIndex
  /\ rd' = SubSeq(rd, Moved + 1, Len(rd))
  /\ LET filled == pkt \o SubSeq(rd, 1, Moved)
         full   == Len(rd) >= Room
     IN  /\ pkt' = IF full /\ streaming = NoHost THEN <<>> ELSE filled
         /\ cap_pc' = IF full /\ streaming # NoHost THEN "number" ELSE "pack"
  /\ UNCHANGED <<shared, s_overflows, s_tx_drops, cap_cfg, cap_epoch, new_cfg,
                 streaming, cap_out, control, driver, now, wire, hellos>>

(* The frame is used up: back to the pending check. *)
FrameDone ==
  /\ cap_pc = "pack" /\ rd = <<>>
  /\ cap_pc' = "top"
  /\ UNCHANGED <<shared, s_overflows, s_tx_drops, cap_cfg, cap_epoch, new_cfg,
                 index, pkt_first, pkt, rd, streaming, cap_out, control,
                 driver, now, wire, hellos>>

(* next_seq, and the header around it. *)
NumberSamples ==
  /\ cap_pc = "number"
  /\ s_seq' = s_seq + 1
  /\ cap_out' = Samples(streaming, Wrap(s_seq), cap_epoch, pkt_first, cap_cfg,
                        Wrap(s_overflows), pkt)
  /\ cap_pc' = "send"
  /\ UNCHANGED <<s_client, s_client_seen, s_cfg, s_epoch, s_pending,
                 s_pending_cfg, s_overflows, s_tx_drops, cap_cfg, cap_epoch,
                 new_cfg, index, pkt_first, pkt, rd, streaming, control,
                 driver, now, wire, hellos>>

(* sendto; a failure leaves a hole in the sequence numbers. *)
SendSamples(ok) ==
  /\ cap_pc = "send"
  /\ IF ok THEN wire' = Append(wire, cap_out) /\ UNCHANGED s_tx_drops
           ELSE s_tx_drops' = s_tx_drops + 1 /\ UNCHANGED wire
  /\ pkt' = <<>>
  /\ cap_pc' = "pack"
  /\ UNCHANGED <<shared, s_overflows, cap_cfg, cap_epoch, new_cfg, index,
                 pkt_first, rd, streaming, cap_out, control, driver, now,
                 hellos>>

CaptureNext ==
  \/ TakePending
  \/ ApplyConfig
  \/ RestoreConfig
  \/ StartEpoch
  \/ ReadFrame
  \/ ReadNothing
  \/ GetClient
  \/ PackWords
  \/ FrameDone
  \/ NumberSamples
  \/ \E ok \in BOOLEAN : SendSamples(ok)

-----------------------------------------------------------------------------
(* The driver (ESP-IDF, outside the repository) and time.                   *)

(* What the ADC converts at instant t of a run.  Every result is of a       *)
(* channel it was configured for, so s_phys_to_logical knows it (line 336). *)
Result(cfg, run, t) ==
  [ch |-> Pattern(cfg.mask)[1 + (t % Len(Pattern(cfg.mask)))],
   at |-> t, cfg |-> cfg, run |-> run]

Frame(cfg, run, from) ==
  [k \in 1..FrameLen |-> Result(cfg, run, from + k - 1)]

(* A frame is converted.  When the pool is full it is lost and on_pool_ovf  *)
(* counts it.  The ADC is stopped from ApplyConfig to StartEpoch, so that   *)
(* while it runs s_epoch tells its runs apart.                              *)
ConvertFrame ==
  /\ frames < MaxFrames /\ cap_pc \notin {"restore", "start"}
  /\ frames' = frames + 1
  /\ conv' = conv + FrameLen
  /\ IF Len(pool) < PoolFrames
     THEN /\ pool' = Append(pool, Frame(adc_cfg, s_epoch, conv))
          /\ UNCHANGED s_overflows
     ELSE s_overflows' = s_overflows + 1 /\ UNCHANGED pool
  /\ UNCHANGED <<shared, s_tx_drops, capture, control, adc_cfg, now, wire,
                 hellos>>

Tick ==
  /\ now < MaxNow
  /\ now' = now + 1
  /\ UNCHANGED <<shared, s_overflows, s_tx_drops, capture, control, driver,
                 wire, hellos>>

Next == ControlNext \/ CaptureNext \/ ConvertFrame \/ Tick

Spec == Init /\ [][Next]_vars

(* Both tasks are scheduled by FreeRTOS and block only in calls with a      *)
(* timeout, so each keeps taking steps.                                     *)
FairSpec == Spec /\ WF_vars(ControlNext) /\ WF_vars(CaptureNext)

-----------------------------------------------------------------------------
(* Properties *)

(* The type invariant: every variable and task local keeps its range.       *)
TypeOK ==
  /\ s_client \in Hosts \cup {NoHost} /\ s_client_seen \in Nat
  /\ s_cfg \in Config /\ s_epoch \in Nat /\ s_seq \in Nat
  /\ s_pending \in BOOLEAN /\ s_pending_cfg \in Config
  /\ s_overflows \in Nat /\ s_tx_drops \in Nat
  /\ cap_pc \in {"top", "apply", "restore", "start", "read", "client", "pack",
                 "number", "send"}
  /\ cap_cfg \in Config /\ cap_epoch \in Nat /\ new_cfg \in Config
  /\ index \in Nat /\ pkt_first \in Nat
  /\ pkt \in Seq(Word) /\ Len(pkt) <= PktLen
  /\ rd \in Seq(Word)
  /\ streaming \in Hosts \cup {NoHost}
  /\ cap_out \in Datagram(Hosts \cup {NoHost})
  /\ main_pc \in {"recv", "touch", "client", "snapshot", "number", "send"}
  /\ hello \in Hosts \cup {NoHost} /\ reply \in BOOLEAN /\ last_info \in Nat
  /\ main_out \in Datagram(Hosts \cup {NoHost})
  /\ adc_cfg \in Config
  /\ pool \in Seq(Seq(Word)) /\ Len(pool) <= PoolFrames
  /\ conv \in Nat /\ frames \in Nat /\ hellos \in Nat /\ now \in Nat
  /\ wire \in Seq(Datagram(Hosts \cup {NoHost}))

IsSamples(d) == d.type = "SAMPLES"

(* Outside a reconfiguration the shared configuration (what INFO reports    *)
(* and HELLOs are compared with), the capture task's own (what SAMPLES      *)
(* headers carry) and the ADC's are one and the same, and so are the epochs.*)
(* Lines 287-319 write them in four separate steps, two of them only when   *)
(* the driver refuses.                                                      *)
ConfigAgreement ==
  /\ cap_epoch = s_epoch
  /\ cap_pc \notin {"apply", "restore", "start"} =>
       s_cfg = cap_cfg /\ adc_cfg = cap_cfg

(* An epoch has one rate and one number of channels: the host reads both    *)
(* from the first SAMPLES of an epoch only (record.py:148-153).             *)
EpochNamesOneConfig ==
  \A i, j \in DOMAIN wire :
    IsSamples(wire[i]) /\ IsSamples(wire[j]) /\ wire[i].epoch = wire[j].epoch
      => /\ wire[i].rate_hz = wire[j].rate_hz
         /\ wire[i].n_channels = wire[j].n_channels

(* No two datagrams of either task share a sequence number before the       *)
(* counter wraps: next_seq is called by both tasks.                         *)
SeqUnique ==
  s_seq <= W32 =>
    \A i, j \in DOMAIN wire : i # j => wire[i].seq # wire[j].seq

(* SAMPLES leave in the order they were cut: a later one is of a later      *)
(* epoch, or of the same and starts no earlier than the other ends.         *)
SamplesInOrder ==
  \A i, j \in DOMAIN wire :
    i < j /\ IsSamples(wire[i]) /\ IsSamples(wire[j]) =>
      \/ wire[i].epoch < wire[j].epoch
      \/ /\ wire[i].epoch = wire[j].epoch
         /\ wire[i].first_index + Len(wire[i].words) <= wire[j].first_index

(* While the pool never overflowed, index distance is time distance within  *)
(* an epoch, streamed or not in between, for conversions of one run of the  *)
(* ADC: the host finds its gaps, measures the rate and times every pulse by *)
(* first_index (protocol.h:22-24).  Frames of the run before, which the     *)
(* restart finds in the pool, are counted too: the index goes on from them  *)
(* to the new run's as if no time had passed.                               *)
IndexIsTime ==
  s_overflows = 0 =>
    \A i, j \in DOMAIN wire : wire[i].epoch = wire[j].epoch =>
      \A k \in DOMAIN wire[i].words, l \in DOMAIN wire[j].words :
        LET w == wire[i].words[k]
            v == wire[j].words[l]
        IN  w.run = v.run =>
              v.at - w.at =
                (wire[j].first_index + l) - (wire[i].first_index + k)

(* The index at which a word went out. *)
IndexOf(d, k) == d.first_index + k - 1

(* What the restart finds in the pool comes first in the new epoch: beyond  *)
(* a pool's worth of words, every word was converted in the configuration   *)
(* its header declares, and in the run of the ADC the epoch stands for.  A  *)
(* half-filled packet never survives into another epoch (line 318).         *)
HeadersSettle ==
  \A i \in DOMAIN wire : \A k \in DOMAIN wire[i].words :
    IndexOf(wire[i], k) >= PoolFrames * FrameLen =>
      LET w == wire[i].words[k]
      IN  /\ w.run = wire[i].epoch
          /\ w.cfg.rate = wire[i].rate_hz
          /\ popcount8(w.cfg.mask) = wire[i].n_channels

(* "Commit the intent now so a HELLO arriving mid-reconfigure is not        *)
(* re-queued" (adc_stream.c:292): with one host, whose HELLOs all ask the   *)
(* same of an ADC that accepts it, the ADC is reconfigured once at most.    *)
NoRequeue == s_epoch <= 2

(* A host repeats its HELLO every second, also when the driver refuses what *)
(* it asks for, and a refusal is not remembered: still the ADC is stopped,  *)
(* and a new epoch begun, at most once for every HELLO.                     *)
OneEpochPerHello == s_epoch <= 1 + hellos

(* A queued configuration differs from the running one for as long as it    *)
(* is queued, so the ADC is never stopped for nothing ("applied if they     *)
(* differ from the running configuration", protocol.h:11-13): as long as    *)
(* the driver refuses nothing, since RestoreConfig may put back what is     *)
(* queued by then.                                                          *)
PendingDiffers == s_pending => s_pending_cfg # s_cfg

(* What was queued is applied, or replaced by a later request: the capture  *)
(* task comes around to the check whether or not the ADC delivers.  For     *)
(* configurations the driver accepts.                                       *)
PendingIsApplied ==
  \A cfg \in {Merge(HelloOf[h], BootCfg) : h \in Hosts} \ Rejected :
    (s_pending /\ s_pending_cfg = cfg)
      ~> (adc_cfg = cfg \/ s_pending_cfg # cfg)

(* Every HELLO is answered with an INFO to its sender even when it comes    *)
(* in the middle of another host's lease ("lets the host discover this ESP",*)
(* main.c:87), provided sendto does not fail.                               *)
HelloAnswered ==
  \A h \in Hosts :
    (main_pc = "touch" /\ hello = h)
      ~> (main_pc = "send" /\ main_out.to = h)
=============================================================================
