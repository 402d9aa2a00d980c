-------------------------- MODULE AdcStreamProofs ---------------------------
(***************************************************************************)
(* What AdcStream guarantees for every number of hosts, every option a      *)
(* HELLO can carry, every size of frame, packet and pool, and without the   *)
(* bounds of the runs.                                                      *)
(***************************************************************************)
EXTENDS AdcStream, ProtocolProofs

(* A mask has a number of channels. *)
LEMMA PopcountNat ==
  ASSUME NEW mask \in SUBSET Channels
  PROVE  popcount8(mask) \in Nat
<1>1. IsFiniteSet(Channels)
  <2>1. 0 \in Int /\ 2 \in Int
    OBVIOUS
  <2>2. IsFiniteSet(0..2)
    BY <2>1, FS_Interval, Zenon
  <2> QED BY <2>2 DEF Channels
<1>2. IsFiniteSet(mask)
  BY <1>1, FS_Subset
<1> QED BY <1>2, FS_CardinalityType DEF popcount8

(* A conversion yields a word: the pattern's turn, at an instant.           *)
LEMMA ResultType ==
  ASSUME NEW cfg \in Config, NEW run \in Nat, NEW t \in Nat
  PROVE  Result(cfg, run, t) \in Word
<1> DEFINE n == Len(Pattern(cfg.mask))
<1>1. cfg.mask \in (SUBSET Channels) \ {{}}
  BY DEF Config
<1>2. Pattern(cfg.mask) \in Seq(Channels) /\ n \in Nat \ {0}
  BY <1>1, PatternType
<1>3. 1 + (t % n) \in 1..n
  <2> HIDE DEF n
  <2> QED BY <1>2
<1>4. Pattern(cfg.mask)[1 + (t % n)] \in Channels
  BY <1>2, <1>3, ElementOfSeq
<1> QED BY <1>4 DEF Result, Word

(* A frame is a list of as many words as it has room for.                   *)
LEMMA FrameType ==
  ASSUME NEW cfg \in Config, NEW run \in Nat, NEW from \in Nat
  PROVE  /\ Frame(cfg, run, from) \in Seq(Word)
         /\ Len(Frame(cfg, run, from)) = FrameLen
<1>1. \A k \in 1..FrameLen : Result(cfg, run, from + k - 1) \in Word
  BY ResultType, SizeAssumption
<1> QED BY <1>1, SizeAssumption DEF Frame

(* A request merged into a configuration is a configuration.                *)
LEMMA MergeType ==
  ASSUME NEW req \in Request, NEW cfg \in Config
  PROVE  Merge(req, cfg) \in Config
<1>1. cfg.rate \in Nat \ {0} /\ cfg.mask \in (SUBSET Channels) \ {{}}
  BY DEF Config
<1>2. req.rate \in Nat /\ req.mask \in SUBSET Channels
  BY DEF Request
<1>3. (IF req.rate # 0 THEN req.rate ELSE cfg.rate) \in Nat \ {0}
  BY <1>1, <1>2
<1>4. (IF req.mask # {} THEN req.mask ELSE cfg.mask)
        \in (SUBSET Channels) \ {{}}
  BY <1>1, <1>2
<1> QED BY <1>3, <1>4 DEF Merge, Config

(* The configuration after power-up.                                        *)
LEMMA BootType == BootCfg \in Config
BY ChannelsAssumption, RateAssumption DEF BootCfg, Config

(* The datagrams the two tasks build are datagrams.                         *)
LEMMA InfoType ==
  ASSUME NEW to \in Hosts \cup {NoHost}, NEW epoch \in Nat, NEW cfg \in Config
  PROVE  Info(to, epoch, cfg) \in Datagram(Hosts \cup {NoHost})
BY PopcountNat DEF Info, Datagram, Config

(* A header field is a number.                                              *)
LEMMA WrapNat ==
  ASSUME NEW n \in Nat
  PROVE  Wrap(n) \in Nat
BY W32Assumption DEF Wrap

(* See InfoType.                                                            *)
LEMMA SamplesType ==
  ASSUME NEW to \in Hosts \cup {NoHost}, NEW seq \in Nat, NEW epoch \in Nat,
         NEW first \in Nat, NEW cfg \in Config, NEW ovf \in Nat,
         NEW words \in Seq(Word)
  PROVE  Samples(to, seq, epoch, first, cfg, ovf, words)
           \in Datagram(Hosts \cup {NoHost})
BY PopcountNat DEF Samples, Datagram, Config

(* The empty packet is a packet.                                            *)
LEMMA EmptyPacket == <<>> \in Seq(Word) /\ Len(<<>>) = 0 /\ 0 <= PktLen
BY PktLenAssumption

(* Moving words from the frame to the packet keeps both well-typed, and the *)
(* packet within its size.                                                  *)
LEMMA PackType ==
  ASSUME TypeOK, PackWords
  PROVE  /\ Moved \in Nat /\ Moved <= Len(rd)
         /\ index' \in Nat /\ rd' \in Seq(Word)
         /\ pkt' \in Seq(Word) /\ Len(pkt') <= PktLen
<1>1. pkt \in Seq(Word) /\ Len(pkt) <= PktLen /\ rd \in Seq(Word)
        /\ index \in Nat
  BY DEF TypeOK
<1>2. Len(pkt) \in Nat /\ Len(rd) \in Nat
  BY <1>1
<1>3. Room \in Nat /\ Room = PktLen - Len(pkt)
  BY <1>1, <1>2, PktLenAssumption DEF Room
<1>4. Moved \in Nat /\ Moved <= Len(rd) /\ Moved <= Room
  BY <1>2, <1>3 DEF Moved
<1> DEFINE m == Moved
<1>5. SubSeq(rd, 1, m) \in Seq(Word) /\ Len(SubSeq(rd, 1, m)) = m
        /\ SubSeq(rd, m + 1, Len(rd)) \in Seq(Word)
  <2> HIDE DEF m
  <2>1. m \in Nat /\ m <= Len(rd)
    BY <1>4 DEF m
  <2> QED BY <1>1, <1>2, <2>1
<1> DEFINE filled == pkt \o SubSeq(rd, 1, m)
<1>6. filled \in Seq(Word) /\ Len(filled) = Len(pkt) + m
  BY <1>1, <1>5
<1>7. Len(filled) <= PktLen
  BY <1>2, <1>3, <1>4, <1>6, PktLenAssumption
<1>8. pkt' = filled \/ pkt' = <<>>
  BY DEF PackWords
<1>9. pkt' \in Seq(Word) /\ Len(pkt') <= PktLen
  <2> HIDE DEF filled
  <2>1. CASE pkt' = filled
    BY <1>6, <1>7, <2>1
  <2>2. CASE pkt' = <<>>
    BY <2>2, EmptyPacket
  <2> QED BY <1>8, <2>1, <2>2
<1>10. index' = index + m /\ rd' = SubSeq(rd, m + 1, Len(rd))
  BY DEF PackWords, NextIndex
<1> QED BY <1>1, <1>4, <1>5, <1>9, <1>10

-----------------------------------------------------------------------------
(* After boot every variable has its type.                                  *)
LEMMA InitType == Init => TypeOK
<1> SUFFICES ASSUME Init PROVE TypeOK
  OBVIOUS
<1>1. BootCfg \in Config
  BY BootType
<1>2. NoDatagram \in Datagram(Hosts \cup {NoHost})
  BY <1>1, InfoType DEF NoDatagram
<1>3. <<>> \in Seq(Seq(Word)) /\ <<>> \in Seq(Datagram(Hosts \cup {NoHost}))
        /\ Len(<<>>) <= PoolFrames
  BY SizeAssumption
<1> QED BY <1>1, <1>2, <1>3, EmptyPacket DEF Init, TypeOK

(* Every step keeps it.                                                     *)
LEMMA StepType == TypeOK /\ [Next]_vars => TypeOK'
<1> SUFFICES ASSUME TypeOK, [Next]_vars PROVE TypeOK'
  OBVIOUS
<1> USE DEF TypeOK, shared, capture, control, driver
<1> get_client \in Hosts \cup {NoHost}
  BY DEF get_client
<1>1. ASSUME NEW h \in Hosts, RequestConfig(h) PROVE TypeOK'
  <2>1. Merge(HelloOf[h], s_cfg) \in Config
    BY HostsAssumption, MergeType
  <2>2. s_pending' \in BOOLEAN /\ s_pending_cfg' \in Config
    <3>1. CASE ValidRequest(HelloOf[h]) /\ Changes(Merge(HelloOf[h], s_cfg))
      BY <1>1, <2>1, <3>1 DEF RequestConfig
    <3>2. CASE ~(ValidRequest(HelloOf[h]) /\ Changes(Merge(HelloOf[h], s_cfg)))
      BY <1>1, <3>2 DEF RequestConfig
    <3> QED BY <3>1, <3>2
  <2>3. /\ hello' = h /\ reply' = TRUE /\ hellos' = hellos + 1
        /\ main_pc' = "touch"
        /\ UNCHANGED <<s_client, s_client_seen, s_cfg, s_epoch, s_seq,
                       s_overflows, s_tx_drops, capture, last_info, main_out,
                       driver, now, wire>>
    BY <1>1 DEF RequestConfig
  <2> QED BY <2>2, <2>3
<1>2. CASE RecvNothing
  BY <1>2 DEF RecvNothing
<1>3. CASE TouchClient
  BY <1>3 DEF TouchClient
<1>4. CASE DecideInfo
  <2>1. [main_out EXCEPT !.to = get_client]
          \in Datagram(Hosts \cup {NoHost})
    BY DEF Datagram
  <2> QED BY <1>4, <2>1 DEF DecideInfo
<1>5. CASE SnapshotInfo
  <2>1. main_out.to \in Hosts \cup {NoHost}
    BY DEF Datagram
  <2>2. Info(main_out.to, s_epoch, s_cfg) \in Datagram(Hosts \cup {NoHost})
    BY <2>1, InfoType
  <2> QED BY <1>5, <2>2 DEF SnapshotInfo
<1>6. CASE NumberInfo
  <2>1. Wrap(s_seq) \in Nat /\ Wrap(s_overflows) \in Nat
    BY WrapNat
  <2>2. [main_out EXCEPT !.seq = Wrap(s_seq),
                         !.overflow_count = Wrap(s_overflows)]
          \in Datagram(Hosts \cup {NoHost})
    BY <2>1 DEF Datagram
  <2> QED BY <1>6, <2>2 DEF NumberInfo
<1>7. ASSUME NEW ok \in BOOLEAN, SendInfo(ok) PROVE TypeOK'
  <2>1. Append(wire, main_out) \in Seq(Datagram(Hosts \cup {NoHost}))
    OBVIOUS
  <2> QED BY <1>7, <2>1 DEF SendInfo
<1>8. CASE TakePending
  BY <1>8 DEF TakePending
<1>9. CASE ApplyConfig
  BY <1>9 DEF ApplyConfig
<1>10. CASE RestoreConfig
  BY <1>10 DEF RestoreConfig
<1>11. CASE StartEpoch
  <2>1. RestartInstant(conv) \in Nat
    BY DEF RestartInstant
  <2> QED BY <1>11, <2>1, EmptyPacket DEF StartEpoch, NextEpoch, Leftover
<1>12. CASE ReadFrame
  <2>1. pool # <<>> => /\ Head(pool) \in Seq(Word)
                       /\ Tail(pool) \in Seq(Seq(Word))
                       /\ Len(Tail(pool)) <= PoolFrames
    BY SizeAssumption
  <2> QED BY <1>12, <2>1 DEF ReadFrame
<1>13. CASE ReadNothing
  BY <1>13 DEF ReadNothing
<1>14. CASE GetClient
  BY <1>14 DEF GetClient
<1>15. CASE PackWords
  BY <1>15, PackType DEF PackWords, FirstIndex
<1>16. CASE FrameDone
  BY <1>16 DEF FrameDone
<1>17. CASE NumberSamples
  <2>1. Wrap(s_seq) \in Nat /\ Wrap(s_overflows) \in Nat
    BY WrapNat
  <2>2. Samples(streaming, Wrap(s_seq), cap_epoch, pkt_first, cap_cfg,
                Wrap(s_overflows), pkt) \in Datagram(Hosts \cup {NoHost})
    BY <2>1, SamplesType
  <2> QED BY <1>17, <2>2 DEF NumberSamples
<1>18. ASSUME NEW ok \in BOOLEAN, SendSamples(ok) PROVE TypeOK'
  <2>1. Append(wire, cap_out) \in Seq(Datagram(Hosts \cup {NoHost}))
    OBVIOUS
  <2>2. wire' \in Seq(Datagram(Hosts \cup {NoHost})) /\ s_tx_drops' \in Nat
    <3>1. CASE ok
      BY <1>18, <2>1, <3>1 DEF SendSamples
    <3>2. CASE ~ok
      BY <1>18, <3>2 DEF SendSamples
    <3> QED BY <3>1, <3>2
  <2>3. /\ pkt' = <<>> /\ cap_pc' = "pack"
        /\ UNCHANGED <<shared, s_overflows, cap_cfg, cap_epoch, new_cfg, index,
                       pkt_first, rd, streaming, cap_out, control, driver,
                       now, hellos>>
    BY <1>18 DEF SendSamples
  <2> QED BY <2>2, <2>3, EmptyPacket
<1>19. CASE ConvertFrame
  <2> DEFINE f == Frame(adc_cfg, s_epoch, conv)
  <2>1. f \in Seq(Word)
    BY FrameType
  <2>2. conv + FrameLen \in Nat
    BY SizeAssumption
  <2>3. Len(pool) < PoolFrames =>
          Append(pool, f) \in Seq(Seq(Word)) /\ Len(Append(pool, f)) <= PoolFrames
    BY <2>1, SizeAssumption
  <2>4. /\ pool' \in Seq(Seq(Word)) /\ Len(pool') <= PoolFrames
        /\ s_overflows' \in Nat
    <3>1. CASE Len(pool) < PoolFrames
      BY <1>19, <2>3, <3>1 DEF ConvertFrame
    <3>2. CASE ~(Len(pool) < PoolFrames)
      BY <1>19, <3>2 DEF ConvertFrame
    <3> QED BY <3>1, <3>2
  <2>5. /\ frames' = frames + 1 /\ conv' = conv + FrameLen
        /\ UNCHANGED <<shared, s_tx_drops, capture, control, adc_cfg, now,
                       wire, hellos>>
    BY <1>19 DEF ConvertFrame
  <2> QED BY <2>2, <2>4, <2>5
<1>20. CASE Tick
  BY <1>20 DEF Tick
<1>21. CASE UNCHANGED vars
  BY <1>21 DEF vars
<1> QED
  BY <1>1, <1>2, <1>3, <1>4, <1>5, <1>6, <1>7, <1>8, <1>9, <1>10, <1>11,
     <1>12, <1>13, <1>14, <1>15, <1>16, <1>17, <1>18, <1>19, <1>20, <1>21
     DEF Next, ControlNext, CaptureNext

(* Every variable of the firmware keeps its type: no packet outgrows        *)
(* BT_MAX_SAMPLES_PER_PKT and the pool never holds more than it has room    *)
(* for, whatever the HELLOs ask.                                            *)
THEOREM TypeCorrect == Spec => []TypeOK
<1>1. Init => TypeOK
  BY InitType
<1>2. TypeOK /\ [Next]_vars => TypeOK'
  BY StepType
<1> QED BY <1>1, <1>2, PTL DEF Spec

-----------------------------------------------------------------------------
(* The safety properties.  Each has an inductive invariant of its own,      *)
(* whose conjuncts are named for what they add: what the capture task has   *)
(* in hand, what it is about to send, what it has sent.                     *)

(* The configuration.                                                       *)

(* ConfigAgreement, and what the three configurations are while they differ:*)
(* from TakePending to ApplyConfig the ADC still runs the capture task's,   *)
(* and s_cfg is already the one about to be applied.                        *)
ConfigInv ==
  /\ ConfigAgreement
  /\ cap_pc = "apply" => s_cfg = new_cfg
  /\ cap_pc \in {"apply", "restore"} => adc_cfg = cap_cfg
  /\ cap_pc = "start" => adc_cfg = cap_cfg /\ s_cfg = cap_cfg

(* Every step of either task keeps ConfigInv. *)
LEMMA ConfigStep == ConfigInv /\ [Next]_vars => ConfigInv'
<1> SUFFICES ASSUME ConfigInv, [Next]_vars PROVE ConfigInv'
  OBVIOUS
<1> USE DEF ConfigInv, ConfigAgreement, shared, capture, control, driver
<1>1. CASE ControlNext
  BY <1>1 DEF ControlNext, RequestConfig, RecvNothing, TouchClient, DecideInfo,
              SnapshotInfo, NumberInfo, SendInfo
<1>2. CASE TakePending
  BY <1>2 DEF TakePending
<1>3. CASE ApplyConfig
  BY <1>3 DEF ApplyConfig
<1>4. CASE RestoreConfig
  BY <1>4 DEF RestoreConfig
<1>5. CASE StartEpoch
  BY <1>5 DEF StartEpoch
<1>6. CASE ReadFrame \/ ReadNothing \/ GetClient \/ FrameDone
  BY <1>6 DEF ReadFrame, ReadNothing, GetClient, FrameDone
<1>7. CASE PackWords \/ NumberSamples
  BY <1>7 DEF PackWords, NumberSamples
<1>8. ASSUME NEW ok \in BOOLEAN, SendSamples(ok) PROVE ConfigInv'
  BY <1>8 DEF SendSamples
<1>9. CASE ConvertFrame \/ Tick
  BY <1>9 DEF ConvertFrame, Tick
<1>10. CASE UNCHANGED vars
  BY <1>10 DEF vars
<1> QED
  BY <1>1, <1>2, <1>3, <1>4, <1>5, <1>6, <1>7, <1>8, <1>9, <1>10
     DEF Next, CaptureNext

(* Outside a reconfiguration, INFO, the SAMPLES headers and the ADC have    *)
(* one and the same configuration, whichever requests the driver refuses    *)
(* and whenever they come (adc_stream.c:287-319).                           *)
THEOREM ConfigurationsAgree == Spec => []ConfigAgreement
<1>1. Init => ConfigInv
  BY DEF Init, ConfigInv, ConfigAgreement
<1>2. ConfigInv => ConfigAgreement
  BY DEF ConfigInv
<1> QED BY <1>1, <1>2, ConfigStep, PTL DEF Spec

(* What is queued differs from what runs, and nothing is ever put back. *)
PendingInv == PendingDiffers /\ cap_pc # "restore"

(* Every step keeps it, RequestConfig because it compares. *)
LEMMA PendingStep ==
  ASSUME Rejected = {}, PendingInv, [Next]_vars
  PROVE  PendingInv'
<1> USE DEF PendingInv, PendingDiffers, shared, capture, control, driver
<1>1. ASSUME NEW h \in Hosts, RequestConfig(h) PROVE PendingInv'
  <2> DEFINE cfg == Merge(HelloOf[h], s_cfg)
  <2>1. s_cfg' = s_cfg /\ cap_pc' = cap_pc
    BY <1>1 DEF RequestConfig
  <2>2. CASE ValidRequest(HelloOf[h]) /\ Changes(cfg)
    <3>1. s_pending_cfg' = cfg /\ cfg # s_cfg
      BY <1>1, <2>2 DEF RequestConfig, Changes
    <3> QED BY <2>1, <3>1
  <2>3. CASE ~(ValidRequest(HelloOf[h]) /\ Changes(cfg))
    <3>1. s_pending' = s_pending /\ s_pending_cfg' = s_pending_cfg
      BY <1>1, <2>3 DEF RequestConfig
    <3> QED BY <2>1, <3>1
  <2> QED BY <2>2, <2>3
<1>2. CASE RecvNothing \/ TouchClient \/ DecideInfo \/ SnapshotInfo
             \/ NumberInfo
  BY <1>2 DEF RecvNothing, TouchClient, DecideInfo, SnapshotInfo, NumberInfo
<1>3. ASSUME NEW ok \in BOOLEAN, SendInfo(ok) \/ SendSamples(ok)
      PROVE  PendingInv'
  BY <1>3 DEF SendInfo, SendSamples
<1>4. CASE TakePending
  BY <1>4 DEF TakePending
<1>5. CASE ApplyConfig
  BY <1>5 DEF ApplyConfig
<1>6. CASE RestoreConfig
  BY <1>6 DEF RestoreConfig
<1>7. CASE StartEpoch \/ ReadFrame \/ ReadNothing \/ GetClient \/ PackWords
             \/ FrameDone \/ NumberSamples
  BY <1>7 DEF StartEpoch, ReadFrame, ReadNothing, GetClient, PackWords,
              FrameDone, NumberSamples
<1>8. CASE ConvertFrame \/ Tick \/ UNCHANGED vars
  BY <1>8 DEF ConvertFrame, Tick, vars
<1> QED
  BY <1>1, <1>2, <1>3, <1>4, <1>5, <1>6, <1>7, <1>8
     DEF Next, ControlNext, CaptureNext

(* If the driver refuses nothing, the ADC is never stopped to be given the  *)
(* configuration it already runs, whatever hosts ask for in whatever order  *)
(* (adc_stream.c:200-205, 286-297).                                         *)
THEOREM QueuedIsNew ==
  ASSUME Rejected = {}
  PROVE  Spec => []PendingDiffers
<1>1. Init => PendingInv
  BY DEF Init, PendingInv, PendingDiffers
<1>2. PendingInv /\ [Next]_vars => PendingInv'
  BY PendingStep
<1>3. PendingInv => PendingDiffers
  BY DEF PendingInv
<1> QED BY <1>1, <1>2, <1>3, PTL DEF Spec

(* What is queued or being applied will cost an epoch each. *)
Queued == IF s_pending THEN 1 ELSE 0
Applying == IF cap_pc \in {"apply", "restore", "start"} THEN 1 ELSE 0

(* OneEpochPerHello, with the epochs still to come. *)
HelloInv ==
  /\ s_epoch \in Nat /\ hellos \in Nat /\ s_pending \in BOOLEAN
  /\ s_epoch + Queued + Applying <= 1 + hellos

(* A HELLO pays for what it queues; TakePending and StartEpoch pass the     *)
(* debt on, and nothing else adds to it.                                    *)
LEMMA HelloStep == HelloInv /\ [Next]_vars => HelloInv'
<1> SUFFICES ASSUME HelloInv, [Next]_vars PROVE HelloInv'
  OBVIOUS
<1> USE DEF HelloInv, Queued, Applying, shared, capture, control, driver
<1>1. ASSUME NEW h \in Hosts, RequestConfig(h) PROVE HelloInv'
  <2>1. s_epoch' = s_epoch /\ hellos' = hellos + 1 /\ cap_pc' = cap_pc
    BY <1>1 DEF RequestConfig
  <2>2. s_pending' \in BOOLEAN
    BY <1>1 DEF RequestConfig
  <2> QED BY <2>1, <2>2
<1>2. CASE TakePending
  <2>1. s_epoch' = s_epoch /\ hellos' = hellos /\ cap_pc = "top"
    BY <1>2 DEF TakePending
  <2>2. CASE s_pending
    <3>1. ~s_pending' /\ cap_pc' = "apply"
      BY <1>2, <2>2 DEF TakePending
    <3>2. /\ Queued = 1 /\ Applying = 0
          /\ Queued' = 0 /\ Applying' = 1
      BY <2>1, <2>2, <3>1
    <3>3. s_pending' \in BOOLEAN
      BY <1>2, <2>2 DEF TakePending
    <3> HIDE DEF Queued, Applying
    <3> QED BY <2>1, <3>2, <3>3
  <2>3. CASE ~s_pending
    <3>1. s_pending' = s_pending /\ cap_pc' = "read"
      BY <1>2, <2>3 DEF TakePending
    <3> QED BY <2>1, <2>3, <3>1
  <2> QED BY <2>2, <2>3
<1>3. CASE ApplyConfig \/ RestoreConfig
  BY <1>3 DEF ApplyConfig, RestoreConfig
<1>4. CASE StartEpoch
  BY <1>4 DEF StartEpoch, NextEpoch
<1>5. CASE RecvNothing \/ TouchClient \/ DecideInfo \/ SnapshotInfo
             \/ NumberInfo
  BY <1>5 DEF RecvNothing, TouchClient, DecideInfo, SnapshotInfo, NumberInfo
<1>6. ASSUME NEW ok \in BOOLEAN, SendInfo(ok) \/ SendSamples(ok)
      PROVE  HelloInv'
  BY <1>6 DEF SendInfo, SendSamples
<1>7. CASE ReadFrame \/ ReadNothing \/ GetClient \/ PackWords \/ FrameDone
             \/ NumberSamples
  BY <1>7 DEF ReadFrame, ReadNothing, GetClient, PackWords, FrameDone,
              NumberSamples
<1>8. CASE ConvertFrame \/ Tick \/ UNCHANGED vars
  BY <1>8 DEF ConvertFrame, Tick, vars
<1> QED
  BY <1>1, <1>2, <1>3, <1>4, <1>5, <1>6, <1>7, <1>8
     DEF Next, ControlNext, CaptureNext

(* However often a host repeats a HELLO, and whether or not the driver      *)
(* takes the configuration it asks for, the ADC is restarted at most once   *)
(* for each (adc_stream.c:286-319).                                         *)
THEOREM RestartsAreAskedFor == Spec => []OneEpochPerHello
<1>1. Init => HelloInv
  <2> SUFFICES ASSUME Init PROVE HelloInv
    OBVIOUS
  <2>1. /\ s_epoch = 1 /\ hellos = 0
        /\ ~s_pending /\ s_pending \in BOOLEAN /\ cap_pc = "top"
    BY DEF Init
  <2>2. Queued = 0 /\ Applying = 0
    BY <2>1 DEF Queued, Applying
  <2> QED BY <2>1, <2>2 DEF HelloInv
<1>2. HelloInv => OneEpochPerHello
  BY DEF HelloInv, OneEpochPerHello, Queued, Applying
<1> QED BY <1>1, <1>2, HelloStep, PTL DEF Spec

-----------------------------------------------------------------------------
(* The network's end: what an action may do to wire.                        *)

(* A datagram appended to wire is its last element, and nothing else moved. *)
LEMMA AppendWire ==
  ASSUME TypeOK, NEW d \in Datagram(Hosts \cup {NoHost}),
         wire' = Append(wire, d)
  PROVE  \A i \in DOMAIN wire' :
           \/ i \in DOMAIN wire /\ wire'[i] = wire[i]
           \/ i = Len(wire) + 1 /\ i \notin DOMAIN wire /\ wire'[i] = d
<1>1. wire \in Seq(Datagram(Hosts \cup {NoHost}))
  BY DEF TypeOK
<1>2. DOMAIN wire = 1..Len(wire) /\ Len(wire) \in Nat
  BY <1>1
<1>3. /\ DOMAIN wire' = 1..(Len(wire) + 1)
      /\ \A i \in 1..Len(wire) : wire'[i] = wire[i]
      /\ wire'[Len(wire) + 1] = d
  BY <1>1
<1> QED BY <1>2, <1>3

(* The control loop only ever sends INFO. *)
InfoInv == main_out.type = "INFO"

(* No step of the control loop makes main_out anything but an INFO. *)
LEMMA InfoStep == TypeOK /\ InfoInv /\ [Next]_vars => InfoInv'
<1> SUFFICES ASSUME TypeOK, InfoInv, [Next]_vars PROVE InfoInv'
  OBVIOUS
<1> USE DEF InfoInv, shared, capture, control, driver
<1>1. main_out \in Datagram(Hosts \cup {NoHost})
  BY DEF TypeOK
<1>2. CASE DecideInfo
  <2>1. [main_out EXCEPT !.to = get_client].type = "INFO"
    BY <1>1 DEF Datagram
  <2> QED BY <1>2, <2>1 DEF DecideInfo
<1>3. CASE SnapshotInfo
  BY <1>3 DEF SnapshotInfo, Info
<1>4. CASE NumberInfo
  <2>1. [main_out EXCEPT !.seq = Wrap(s_seq),
                         !.overflow_count = Wrap(s_overflows)].type = "INFO"
    BY <1>1 DEF Datagram
  <2> QED BY <1>4, <2>1 DEF NumberInfo
<1>5. ASSUME NEW h \in Hosts, RequestConfig(h) PROVE InfoInv'
  BY <1>5 DEF RequestConfig
<1>6. CASE RecvNothing \/ TouchClient
  BY <1>6 DEF RecvNothing, TouchClient
<1>7. ASSUME NEW ok \in BOOLEAN, SendInfo(ok) PROVE InfoInv'
  BY <1>7 DEF SendInfo
<1>8. CASE CaptureNext
  BY <1>8 DEF CaptureNext, TakePending, ApplyConfig, RestoreConfig, StartEpoch,
              ReadFrame, ReadNothing, GetClient, PackWords, FrameDone,
              NumberSamples, SendSamples
<1>9. CASE ConvertFrame \/ Tick \/ UNCHANGED vars
  BY <1>9 DEF ConvertFrame, Tick, vars
<1> QED
  BY <1>2, <1>3, <1>4, <1>5, <1>6, <1>7, <1>8, <1>9 DEF Next, ControlNext

-----------------------------------------------------------------------------
(* Epochs.                                                                  *)

(* A datagram of the current epoch carries the configuration cfg. *)
Declares(d, epoch, cfg) ==
  /\ d.epoch <= epoch
  /\ d.epoch = epoch => d.rate_hz = cfg.rate
                          /\ d.n_channels = popcount8(cfg.mask)

(* SAMPLES on the wire are of an earlier epoch or declare the capture       *)
(* task's configuration.  Between ApplyConfig and StartEpoch that is the    *)
(* next epoch's, of which nothing can be on the wire yet.                   *)
SentDeclares ==
  \A i \in DOMAIN wire : IsSamples(wire[i]) =>
    /\ wire[i].epoch <= s_epoch
    /\ cap_pc # "start" => Declares(wire[i], s_epoch, cap_cfg)

(* So does the packet about to be sent, and it is of the current epoch. *)
HandDeclares ==
  cap_pc = "send" =>
    /\ cap_out.epoch = s_epoch /\ Declares(cap_out, s_epoch, cap_cfg)

(* The inductive invariant for EpochNamesOneConfig. *)
EpochInv == SentDeclares /\ HandDeclares /\ EpochNamesOneConfig

(* Every step keeps what an epoch has declared. *)
LEMMA EpochStep ==
  TypeOK /\ ConfigInv /\ InfoInv /\ EpochInv /\ [Next]_vars => EpochInv'
<1> SUFFICES ASSUME TypeOK, ConfigInv, InfoInv, EpochInv, [Next]_vars
             PROVE  EpochInv'
  OBVIOUS
<1> USE DEF EpochInv, SentDeclares, HandDeclares, EpochNamesOneConfig,
            Declares, IsSamples, shared, capture, control, driver
<1>1. ASSUME NEW h \in Hosts, RequestConfig(h) PROVE EpochInv'
  BY <1>1 DEF RequestConfig
<1>2. CASE RecvNothing \/ TouchClient \/ DecideInfo \/ SnapshotInfo
             \/ NumberInfo
  BY <1>2 DEF RecvNothing, TouchClient, DecideInfo, SnapshotInfo, NumberInfo
<1>3. ASSUME NEW ok \in BOOLEAN, SendInfo(ok) PROVE EpochInv'
  <2>1. UNCHANGED <<s_epoch, cap_pc, cap_cfg, cap_out>>
    BY <1>3 DEF SendInfo
  <2>2. CASE wire' = Append(wire, main_out)
    <3>1. \A i \in DOMAIN wire' : IsSamples(wire'[i]) =>
            i \in DOMAIN wire /\ wire'[i] = wire[i]
      BY <2>2, AppendWire DEF TypeOK, InfoInv
    <3> QED BY <2>1, <3>1
  <2>3. CASE wire' = wire
    BY <2>1, <2>3
  <2> QED BY <1>3, <2>2, <2>3 DEF SendInfo
<1>4. CASE TakePending
  BY <1>4 DEF TakePending
<1>5. CASE ApplyConfig
  BY <1>5 DEF ApplyConfig
<1>6. CASE RestoreConfig
  BY <1>6 DEF RestoreConfig
<1>7. CASE StartEpoch
  <2>1. s_epoch' = s_epoch + 1 /\ s_epoch \in Nat /\ cap_pc' = "read"
          /\ wire' = wire
    BY <1>7 DEF StartEpoch, NextEpoch, TypeOK
  <2>2. \A i \in DOMAIN wire : IsSamples(wire[i]) =>
          wire[i].epoch \in Nat /\ wire[i].epoch < s_epoch'
    <3>1. \A i \in DOMAIN wire : wire[i] \in Datagram(Hosts \cup {NoHost})
      BY DEF TypeOK
    <3>2. \A i \in DOMAIN wire : wire[i].epoch \in Nat
      BY <3>1 DEF Datagram
    <3> QED BY <2>1, <3>2
  <2> QED BY <2>1, <2>2
<1>8. CASE ReadFrame \/ ReadNothing \/ GetClient \/ FrameDone
  BY <1>8 DEF ReadFrame, ReadNothing, GetClient, FrameDone
<1>9. CASE PackWords
  BY <1>9 DEF PackWords
<1>10. CASE NumberSamples
  <2>1. cap_out'.epoch = s_epoch /\ cap_out'.rate_hz = cap_cfg.rate
          /\ cap_out'.n_channels = popcount8(cap_cfg.mask)
    BY <1>10 DEF NumberSamples, Samples, ConfigInv, ConfigAgreement
  <2>2. UNCHANGED <<s_epoch, cap_cfg, wire>> /\ cap_pc = "number"
          /\ cap_pc' = "send" /\ s_epoch \in Nat
    BY <1>10 DEF NumberSamples, TypeOK
  <2> QED BY <2>1, <2>2
<1>11. ASSUME NEW ok \in BOOLEAN, SendSamples(ok) PROVE EpochInv'
  <2>1. UNCHANGED <<s_epoch, cap_cfg>> /\ cap_pc = "send" /\ cap_pc' = "pack"
    BY <1>11 DEF SendSamples
  <2>2. CASE wire' = Append(wire, cap_out)
    <3>1. cap_out \in Datagram(Hosts \cup {NoHost})
      BY DEF TypeOK
    <3>2. \A i \in DOMAIN wire' :
            \/ i \in DOMAIN wire /\ wire'[i] = wire[i]
            \/ wire'[i] = cap_out
      BY <2>2, <3>1, AppendWire
    <3>3. \A i \in DOMAIN wire' : IsSamples(wire'[i]) =>
            wire'[i].epoch <= s_epoch /\ Declares(wire'[i], s_epoch, cap_cfg)
      BY <2>1, <3>2
    <3>4. EpochNamesOneConfig'
      BY <2>1, <3>2
    <3> QED BY <2>1, <3>3, <3>4
  <2>3. CASE wire' = wire
    BY <2>1, <2>3
  <2> QED BY <1>11, <2>2, <2>3 DEF SendSamples
<1>12. CASE ConvertFrame \/ Tick \/ UNCHANGED vars
  BY <1>12 DEF ConvertFrame, Tick, vars
<1> QED
  BY <1>1, <1>2, <1>3, <1>4, <1>5, <1>6, <1>7, <1>8, <1>9, <1>10, <1>11, <1>12
     DEF Next, ControlNext, CaptureNext

(* All SAMPLES of an epoch carry one rate and one number of channels, which *)
(* is why the receiver may read them from the first (record.py:148-153).    *)
THEOREM EpochsNameOneConfig == Spec => []EpochNamesOneConfig
<1>1. Init => ConfigInv /\ InfoInv /\ EpochInv
  BY DEF Init, ConfigInv, ConfigAgreement, InfoInv, NoDatagram, Info,
         EpochInv, SentDeclares, HandDeclares, EpochNamesOneConfig
<1>2. TypeOK /\ ConfigInv /\ InfoInv /\ EpochInv /\ [Next]_vars
        => (TypeOK /\ ConfigInv /\ InfoInv /\ EpochInv)'
  BY StepType, ConfigStep, InfoStep, EpochStep
<1>3. EpochInv => EpochNamesOneConfig
  BY DEF EpochInv
<1> QED BY <1>1, <1>2, <1>3, InitType, PTL DEF Spec

-----------------------------------------------------------------------------
(* The order of samples.                                                    *)

(* Where the packet being filled begins: at index, less what it holds.      *)
PacketStart == index - Len(pkt)

(* The packet knows where it begins, from its first word on. *)
FirstKnown ==
  /\ PacketStart \in Nat
  /\ pkt # <<>> \/ cap_pc \in {"number", "send"} => pkt_first = PacketStart

(* The packet about to be sent is the one just filled. *)
HandIsPacket ==
  cap_pc = "send" =>
    /\ cap_out.words = pkt /\ cap_out.first_index = pkt_first
    /\ cap_out.epoch = s_epoch

(* Every SAMPLES sent is of an earlier epoch or ends before it. *)
SentBefore ==
  \A i \in DOMAIN wire : IsSamples(wire[i]) =>
    \/ wire[i].epoch < s_epoch
    \/ /\ wire[i].epoch = s_epoch
       /\ wire[i].first_index + Len(wire[i].words) <= PacketStart

(* The inductive invariant for SamplesInOrder. *)
OrderInv == FirstKnown /\ HandIsPacket /\ SentBefore /\ SamplesInOrder

(* Cutting words off the frame: index runs on, and the packet either takes  *)
(* them and begins where it did, or is dropped.                             *)
LEMMA PackMoves ==
  ASSUME TypeOK, PackWords
  PROVE  /\ index' = index + Moved /\ Moved \in Nat
         /\ \/ Len(pkt') = Len(pkt) + Moved
            \/ pkt' = <<>> /\ cap_pc' = "pack"
<1>1. pkt \in Seq(Word) /\ rd \in Seq(Word) /\ Len(pkt) <= PktLen
  BY DEF TypeOK
<1>2. Moved \in Nat /\ Moved <= Len(rd)
  BY PackType
<1>3. index' = index + Moved
  BY DEF PackWords, NextIndex
<1> DEFINE m == Moved
<1>4. SubSeq(rd, 1, m) \in Seq(Word) /\ Len(SubSeq(rd, 1, m)) = m
  <2> HIDE DEF m
  <2>1. m \in Nat /\ m <= Len(rd)
    BY <1>2 DEF m
  <2> QED BY <1>1, <2>1
<1>5. Len(pkt \o SubSeq(rd, 1, m)) = Len(pkt) + m
  BY <1>1, <1>4
<1>6. \/ pkt' = pkt \o SubSeq(rd, 1, m)
      \/ pkt' = <<>> /\ cap_pc' = "pack"
  BY DEF PackWords
<1> QED BY <1>2, <1>3, <1>5, <1>6

(* Every step keeps SAMPLES in order. *)
LEMMA OrderStep ==
  TypeOK /\ ConfigInv /\ InfoInv /\ OrderInv /\ [Next]_vars => OrderInv'
<1> SUFFICES ASSUME TypeOK, ConfigInv, InfoInv, OrderInv, [Next]_vars
             PROVE  OrderInv'
  OBVIOUS
<1> USE DEF OrderInv, PacketStart, FirstKnown, HandIsPacket, SentBefore,
            SamplesInOrder, IsSamples, shared, capture, control, driver
<1>1. /\ index \in Nat /\ s_epoch \in Nat
      /\ Len(pkt) \in Nat /\ pkt \in Seq(Word)
  BY DEF TypeOK
<1>2. \A i \in DOMAIN wire :
        /\ wire[i].epoch \in Nat /\ wire[i].first_index \in Nat
        /\ Len(wire[i].words) \in Nat
  <2>1. \A i \in DOMAIN wire : wire[i] \in Datagram(Hosts \cup {NoHost})
    BY DEF TypeOK
  <2> QED BY <2>1 DEF Datagram
<1>3. ASSUME NEW h \in Hosts, RequestConfig(h) PROVE OrderInv'
  BY <1>3 DEF RequestConfig
<1>4. CASE RecvNothing \/ TouchClient \/ DecideInfo \/ SnapshotInfo
             \/ NumberInfo
  BY <1>4 DEF RecvNothing, TouchClient, DecideInfo, SnapshotInfo, NumberInfo
<1>5. ASSUME NEW ok \in BOOLEAN, SendInfo(ok) PROVE OrderInv'
  <2>1. UNCHANGED <<s_epoch, cap_pc, cap_out, index, pkt, pkt_first>>
    BY <1>5 DEF SendInfo
  <2>2. CASE wire' = Append(wire, main_out)
    <3>1. \A i \in DOMAIN wire' : IsSamples(wire'[i]) =>
            i \in DOMAIN wire /\ wire'[i] = wire[i]
      BY <2>2, AppendWire DEF TypeOK, InfoInv
    <3> QED BY <2>1, <3>1
  <2>3. CASE wire' = wire
    BY <2>1, <2>3
  <2> QED BY <1>5, <2>2, <2>3 DEF SendInfo
<1>6. CASE TakePending \/ ApplyConfig \/ RestoreConfig
  BY <1>6 DEF TakePending, ApplyConfig, RestoreConfig
<1>7. CASE StartEpoch
  <2>1. /\ s_epoch' = s_epoch + 1 /\ index' = 0 /\ pkt' = <<>>
        /\ cap_pc' = "read" /\ wire' = wire
    BY <1>7 DEF StartEpoch, NextEpoch, Leftover
  <2>2. \A i \in DOMAIN wire : IsSamples(wire[i]) => wire[i].epoch < s_epoch'
    BY <1>1, <1>2, <2>1
  <2> QED BY <2>1, <2>2
<1>8. CASE ReadFrame \/ ReadNothing \/ GetClient \/ FrameDone
  BY <1>8 DEF ReadFrame, ReadNothing, GetClient, FrameDone
<1>9. CASE PackWords
  <2>1. UNCHANGED <<s_epoch, wire, cap_out>> /\ cap_pc' \in {"number", "pack"}
          /\ pkt_first' = FirstIndex /\ cap_pc = "pack"
    BY <1>9 DEF PackWords
  <2>2. PacketStart' \in Nat /\ PacketStart' >= PacketStart
    BY <1>1, <1>9, PackMoves
  <2>3. FirstKnown'
    BY <1>1, <1>9, <2>1, <2>2, PackMoves DEF FirstIndex
  <2> QED BY <1>1, <1>2, <2>1, <2>2, <2>3
<1>10. CASE NumberSamples
  <2>1. cap_out'.words = pkt /\ cap_out'.first_index = pkt_first
          /\ cap_out'.epoch = s_epoch
    BY <1>10 DEF NumberSamples, Samples, ConfigInv, ConfigAgreement
  <2>2. UNCHANGED <<s_epoch, wire, pkt, pkt_first, index>>
          /\ cap_pc = "number" /\ cap_pc' = "send"
    BY <1>10 DEF NumberSamples
  <2> QED BY <2>1, <2>2
<1>11. ASSUME NEW ok \in BOOLEAN, SendSamples(ok) PROVE OrderInv'
  <2>1. UNCHANGED <<s_epoch, index, pkt_first>> /\ pkt' = <<>>
          /\ cap_pc = "send" /\ cap_pc' = "pack"
    BY <1>11 DEF SendSamples
  <2>2. PacketStart' = index /\ index >= PacketStart
    BY <1>1, <2>1
  <2>3. CASE wire' = Append(wire, cap_out)
    <3>1. cap_out \in Datagram(Hosts \cup {NoHost})
      BY DEF TypeOK
    <3>2. \A i \in DOMAIN wire' :
            \/ i \in DOMAIN wire /\ wire'[i] = wire[i]
            \/ i = Len(wire) + 1 /\ wire'[i] = cap_out
      BY <2>3, <3>1, AppendWire
    <3>3. cap_out.first_index + Len(cap_out.words) = index
            /\ cap_out.epoch = s_epoch
      BY <1>1, <2>1
    <3>4. SentBefore'
      BY <1>1, <1>2, <2>1, <2>2, <3>2, <3>3
    <3>5. SamplesInOrder'
      <4> SUFFICES ASSUME NEW i \in DOMAIN wire', NEW j \in DOMAIN wire', i < j,
                          IsSamples(wire'[i]), IsSamples(wire'[j])
                   PROVE  \/ wire'[i].epoch < wire'[j].epoch
                          \/ /\ wire'[i].epoch = wire'[j].epoch
                             /\ wire'[i].first_index + Len(wire'[i].words)
                                  <= wire'[j].first_index
        OBVIOUS
      <4>1. DOMAIN wire' = 1..(Len(wire) + 1) /\ DOMAIN wire = 1..Len(wire)
              /\ Len(wire) \in Nat
        BY <2>3, <3>1 DEF TypeOK
      <4>2. i \in DOMAIN wire /\ wire'[i] = wire[i]
        BY <3>2, <4>1
      <4>3. CASE j \in DOMAIN wire /\ wire'[j] = wire[j]
        BY <4>2, <4>3
      <4>4. CASE wire'[j] = cap_out
        <5>1. cap_out.first_index = PacketStart
          BY <2>1
        <5> QED BY <3>3, <4>2, <4>4, <5>1
      <4> QED BY <3>2, <4>3, <4>4
    <3> QED BY <1>1, <2>1, <2>2, <3>4, <3>5
  <2>4. CASE wire' = wire
    BY <1>1, <1>2, <2>1, <2>2, <2>4
  <2> QED BY <1>11, <2>3, <2>4 DEF SendSamples
<1>12. CASE ConvertFrame \/ Tick \/ UNCHANGED vars
  BY <1>12 DEF ConvertFrame, Tick, vars
<1> QED
  BY <1>3, <1>4, <1>5, <1>6, <1>7, <1>8, <1>9, <1>10, <1>11, <1>12
     DEF Next, ControlNext, CaptureNext

(* SAMPLES leave the ESP in the order their samples were converted, never   *)
(* overlapping, through failed sends, unlistened stretches and              *)
(* reconfigurations with a packet half full (adc_stream.c:316-368).         *)
THEOREM SamplesLeaveInOrder == Spec => []SamplesInOrder
<1>1. Init => ConfigInv /\ InfoInv /\ OrderInv
  BY DEF Init, ConfigInv, ConfigAgreement, InfoInv, NoDatagram, Info,
         OrderInv, PacketStart, FirstKnown, HandIsPacket, SentBefore,
         SamplesInOrder
<1>2. TypeOK /\ ConfigInv /\ InfoInv /\ OrderInv /\ [Next]_vars
        => (TypeOK /\ ConfigInv /\ InfoInv /\ OrderInv)'
  BY StepType, ConfigStep, InfoStep, OrderStep
<1>3. OrderInv => SamplesInOrder
  BY DEF OrderInv
<1> QED BY <1>1, <1>2, <1>3, InitType, PTL DEF Spec

-----------------------------------------------------------------------------
(* Sequence numbers.  Until the counter wraps, a number is in at most one   *)
(* place: on the wire, in the hand of one task, or not given out yet.       *)

(* d's number is taken, and not by a datagram on the wire. *)
GivenOut(d) == d.seq < s_seq /\ \A i \in DOMAIN wire : wire[i].seq # d.seq

(* The numbers of datagrams about to be sent, and of those sent. *)
InHand ==
  /\ main_pc = "send" => GivenOut(main_out)
  /\ cap_pc = "send" => GivenOut(cap_out)
  /\ main_pc = "send" /\ cap_pc = "send" => main_out.seq # cap_out.seq

OnWire ==
  /\ \A i \in DOMAIN wire : wire[i].seq < s_seq
  /\ \A i, j \in DOMAIN wire : i # j => wire[i].seq # wire[j].seq

(* The inductive invariant for SeqUnique. *)
SeqInv == s_seq <= W32 => InHand /\ OnWire

(* Below W32 a header carries the counter itself. *)
LEMMA WrapIdentity ==
  ASSUME NEW n \in Nat, n < W32
  PROVE  Wrap(n) = n
BY W32Assumption DEF Wrap

(* Every step keeps a number in one place: NumberInfo and NumberSamples     *)
(* take one, the sends move it.                                             *)
LEMMA SeqStep == TypeOK /\ SeqInv /\ [Next]_vars => SeqInv'
<1> SUFFICES ASSUME TypeOK, SeqInv, [Next]_vars, s_seq' <= W32
             PROVE  InHand' /\ OnWire'
  BY DEF SeqInv
<1> USE DEF InHand, OnWire, GivenOut, shared, capture, control, driver
<1>1. s_seq \in Nat /\ \A i \in DOMAIN wire : wire[i].seq \in Nat
  <2>1. \A i \in DOMAIN wire : wire[i] \in Datagram(Hosts \cup {NoHost})
    BY DEF TypeOK
  <2> QED BY <2>1 DEF TypeOK, Datagram
<1>2. main_out.seq \in Nat /\ cap_out.seq \in Nat
  BY DEF TypeOK, Datagram
<1>3. W32 \in Nat
  BY W32Assumption
<1>4. s_seq' = s_seq => InHand /\ OnWire
  BY DEF SeqInv
<1>5. s_seq' = s_seq + 1 => InHand /\ OnWire /\ Wrap(s_seq) = s_seq
  BY <1>1, <1>3, WrapIdentity DEF SeqInv
<1>6. ASSUME NEW h \in Hosts, RequestConfig(h) PROVE InHand' /\ OnWire'
  BY <1>4, <1>6 DEF RequestConfig
<1>7. CASE RecvNothing \/ TouchClient \/ DecideInfo \/ SnapshotInfo
  <2>1. UNCHANGED <<s_seq, cap_pc, cap_out, wire>> /\ main_pc' # "send"
    BY <1>7 DEF RecvNothing, TouchClient, DecideInfo, SnapshotInfo
  <2> QED BY <1>4, <2>1
<1>8. CASE NumberInfo
  <2>1. /\ s_seq' = s_seq + 1 /\ main_pc' = "send"
        /\ UNCHANGED <<cap_pc, cap_out, wire>>
    BY <1>8 DEF NumberInfo
  <2>2. main_out'.seq = s_seq
    <3>1. main_out \in Datagram(Hosts \cup {NoHost})
      BY DEF TypeOK
    <3>2. [main_out EXCEPT !.seq = Wrap(s_seq),
                           !.overflow_count = Wrap(s_overflows)].seq
            = Wrap(s_seq)
      BY <3>1 DEF Datagram
    <3> QED BY <1>5, <1>8, <2>1, <3>2 DEF NumberInfo
  <2> QED BY <1>1, <1>2, <1>5, <2>1, <2>2
<1>9. ASSUME NEW ok \in BOOLEAN, SendInfo(ok) PROVE InHand' /\ OnWire'
  <2>1. UNCHANGED <<s_seq, cap_pc, cap_out>> /\ main_pc = "send"
          /\ main_pc' = "recv"
    BY <1>9 DEF SendInfo
  <2>2. CASE wire' = Append(wire, main_out)
    <3>1. main_out \in Datagram(Hosts \cup {NoHost})
      BY DEF TypeOK
    <3>2. \A i \in DOMAIN wire' :
            \/ i \in DOMAIN wire /\ wire'[i] = wire[i]
            \/ i = Len(wire) + 1 /\ wire'[i] = main_out
      BY <2>2, <3>1, AppendWire
    <3> QED BY <1>1, <1>2, <1>4, <2>1, <3>2
  <2>3. CASE wire' = wire
    BY <1>4, <2>1, <2>3
  <2> QED BY <1>9, <2>2, <2>3 DEF SendInfo
<1>10. CASE TakePending \/ ApplyConfig \/ RestoreConfig \/ StartEpoch
  BY <1>4, <1>10 DEF TakePending, ApplyConfig, RestoreConfig, StartEpoch
<1>11. CASE ReadFrame \/ ReadNothing \/ GetClient \/ FrameDone \/ PackWords
  <2>1. UNCHANGED <<s_seq, main_pc, main_out, cap_out, wire>>
          /\ cap_pc' # "send"
    BY <1>11 DEF ReadFrame, ReadNothing, GetClient, FrameDone, PackWords
  <2> QED BY <1>4, <2>1
<1>12. CASE NumberSamples
  <2>1. /\ s_seq' = s_seq + 1 /\ cap_pc' = "send"
        /\ cap_out'.seq = Wrap(s_seq)
        /\ UNCHANGED <<main_pc, main_out, wire>>
    BY <1>12 DEF NumberSamples, Samples
  <2> QED BY <1>1, <1>2, <1>5, <2>1
<1>13. ASSUME NEW ok \in BOOLEAN, SendSamples(ok) PROVE InHand' /\ OnWire'
  <2>1. UNCHANGED <<s_seq, main_pc, main_out>> /\ cap_pc = "send"
          /\ cap_pc' = "pack"
    BY <1>13 DEF SendSamples
  <2>2. CASE wire' = Append(wire, cap_out)
    <3>1. cap_out \in Datagram(Hosts \cup {NoHost})
      BY DEF TypeOK
    <3>2. \A i \in DOMAIN wire' :
            \/ i \in DOMAIN wire /\ wire'[i] = wire[i]
            \/ i = Len(wire) + 1 /\ wire'[i] = cap_out
      BY <2>2, <3>1, AppendWire
    <3> QED BY <1>1, <1>2, <1>4, <2>1, <3>2
  <2>3. CASE wire' = wire
    BY <1>4, <2>1, <2>3
  <2> QED BY <1>13, <2>2, <2>3 DEF SendSamples
<1>14. CASE ConvertFrame \/ Tick \/ UNCHANGED vars
  BY <1>4, <1>14 DEF ConvertFrame, Tick, vars
<1> QED
  BY <1>6, <1>7, <1>8, <1>9, <1>10, <1>11, <1>12, <1>13, <1>14
     DEF Next, ControlNext, CaptureNext

(* Two tasks draw sequence numbers from one counter and send without the    *)
(* lock, in either order: no number is used twice before the counter wraps  *)
(* (adc_stream.c:88-95).                                                  *)
THEOREM SequenceNumbersUnique == Spec => []SeqUnique
<1>1. Init => SeqInv
  BY DEF Init, SeqInv, InHand, OnWire
<1>2. SeqInv => SeqUnique
  BY DEF SeqInv, OnWire, SeqUnique
<1> QED BY <1>1, <1>2, InitType, StepType, SeqStep, PTL DEF Spec

-----------------------------------------------------------------------------
(* Hosts that all wish the same: what their HELLOs come to is the same      *)
(* whether what ran at boot is running or what they wished already.         *)

SameWish == \A g, h \in Hosts : HelloOf[g] = HelloOf[h]
Wished == {Merge(HelloOf[h], BootCfg) : h \in Hosts}

(* The wish is queued only before it is committed, and the boot             *)
(* configuration never comes back.                                          *)
OnceInv ==
  /\ s_cfg \in {BootCfg} \cup Wished
  /\ s_pending => s_pending_cfg \in Wished /\ s_cfg = BootCfg
                  /\ BootCfg \notin Wished
  /\ s_cfg = BootCfg /\ BootCfg \notin Wished =>
       s_epoch = 1 /\ cap_pc \notin {"apply", "start"}
  /\ cap_pc = "apply" => new_cfg \in Wished
  /\ cap_pc # "restore"
  /\ s_epoch \in {1, 2}
  /\ cap_pc \in {"apply", "start"} => s_epoch = 1 /\ BootCfg \notin Wished

(* All wishes are one, and having it is not a reason to queue it again.     *)
LEMMA OneWish ==
  ASSUME SameWish, NEW h \in Hosts, NEW c \in Wished
  PROVE  /\ Merge(HelloOf[h], BootCfg) = c
         /\ Merge(HelloOf[h], c) = c
<1>1. PICK g \in Hosts : c = Merge(HelloOf[g], BootCfg)
  BY DEF Wished
<1>2. HelloOf[g] = HelloOf[h]
  BY DEF SameWish
<1> QED BY <1>1, <1>2 DEF Merge

(* Every step keeps it, TakePending because it commits the wish. *)
LEMMA OnceStep ==
  ASSUME SameWish, Wished \cap Rejected = {}, OnceInv, [Next]_vars
  PROVE  OnceInv'
<1> USE DEF OnceInv
<1>1. ASSUME UNCHANGED <<s_cfg, s_pending, s_pending_cfg, s_epoch, new_cfg>>,
             cap_pc' \notin {"apply", "restore", "start"}
             \/ UNCHANGED cap_pc
      PROVE  OnceInv'
  BY <1>1
<1>2. ASSUME NEW h \in Hosts, RequestConfig(h) PROVE OnceInv'
  <2>1. UNCHANGED <<s_cfg, s_epoch, new_cfg, cap_pc>>
    BY <1>2 DEF RequestConfig, capture
  <2>2. CASE UNCHANGED <<s_pending, s_pending_cfg>>
    BY <1>1, <2>1, <2>2
  <2>3. CASE ~UNCHANGED <<s_pending, s_pending_cfg>>
    <3> DEFINE cfg == Merge(HelloOf[h], s_cfg)
    <3>1. s_pending' = TRUE /\ s_pending_cfg' = cfg /\ cfg # s_cfg
      BY <1>2, <2>3 DEF RequestConfig, Changes
    <3>2. s_cfg \notin Wished
      BY <3>1, OneWish
    <3>3. s_cfg = BootCfg /\ cfg \in Wished
      BY <3>2 DEF Wished
    <3> HIDE DEF cfg
    <3> QED BY <2>1, <3>1, <3>2, <3>3
  <2> QED BY <2>2, <2>3
<1>3. CASE TakePending
  <2>1. CASE s_pending
    BY <1>3, <2>1 DEF TakePending
  <2>2. CASE ~s_pending
    BY <1>1, <1>3, <2>2 DEF TakePending, shared
  <2> QED BY <2>1, <2>2
<1>4. CASE ApplyConfig
  <2>1. cap_pc = "apply" /\ new_cfg \notin Rejected
    BY <1>4 DEF ApplyConfig
  <2> QED BY <1>4, <2>1 DEF ApplyConfig, shared
<1>5. ~RestoreConfig
  BY DEF RestoreConfig
<1>6. CASE StartEpoch
  BY <1>6 DEF StartEpoch, NextEpoch
<1>7. CASE RecvNothing
  BY <1>1, <1>7 DEF RecvNothing, shared, capture
<1>8. CASE TouchClient
  BY <1>1, <1>8 DEF TouchClient, capture
<1>9. CASE DecideInfo
  BY <1>1, <1>9 DEF DecideInfo, shared, capture
<1>10. CASE SnapshotInfo
  BY <1>1, <1>10 DEF SnapshotInfo, shared, capture
<1>11. CASE NumberInfo
  BY <1>1, <1>11 DEF NumberInfo, capture
<1>12. ASSUME NEW ok \in BOOLEAN, SendInfo(ok) PROVE OnceInv'
  BY <1>1, <1>12 DEF SendInfo, shared, capture
<1>13. CASE ReadFrame
  BY <1>1, <1>13 DEF ReadFrame, shared
<1>14. CASE ReadNothing
  BY <1>1, <1>14 DEF ReadNothing, shared
<1>15. CASE GetClient
  BY <1>1, <1>15 DEF GetClient, shared
<1>16. CASE PackWords
  BY <1>1, <1>16 DEF PackWords, shared
<1>17. CASE FrameDone
  BY <1>1, <1>17 DEF FrameDone, shared
<1>18. CASE NumberSamples
  BY <1>1, <1>18 DEF NumberSamples
<1>19. ASSUME NEW ok \in BOOLEAN, SendSamples(ok) PROVE OnceInv'
  BY <1>1, <1>19 DEF SendSamples, shared
<1>20. CASE ConvertFrame
  BY <1>1, <1>20 DEF ConvertFrame, shared, capture
<1>21. CASE Tick \/ UNCHANGED vars
  BY <1>1, <1>21 DEF Tick, vars, shared, capture
<1> QED
  BY <1>2, <1>3, <1>4, <1>5, <1>6, <1>7, <1>8, <1>9, <1>10, <1>11, <1>12,
     <1>13, <1>14, <1>15, <1>16, <1>17, <1>18, <1>19, <1>20, <1>21
  DEF Next, ControlNext, CaptureNext

(* A HELLO that arrives in the middle of the reconfiguration it asked for   *)
(* is not queued again (adc_stream.c:292): however many hosts repeat the    *)
(* same wish however often, the ADC is reconfigured once at most.           *)
THEOREM WishIsGrantedOnce ==
  ASSUME SameWish, Wished \cap Rejected = {}
  PROVE  Spec => []NoRequeue
<1>1. Init => OnceInv
  BY DEF Init, OnceInv
<1>2. OnceInv /\ [Next]_vars => OnceInv'
  BY OnceStep
<1>3. OnceInv => NoRequeue
  BY DEF OnceInv, NoRequeue
<1> QED BY <1>1, <1>2, <1>3, PTL DEF Spec
=============================================================================
