--------------------------- MODULE AdcStreamClock ---------------------------
(***************************************************************************)
(* What first_index tells (IndexIsTime, HeadersSettle), and what the proofs *)
(* about the whole system (BusTapProofs) need to know of the wire (WireInv).*)
(*                                                                          *)
(* The capture task restarts the ADC without emptying its pool, so an epoch *)
(* begins with frames of the run of the ADC before.  Two invariants carry   *)
(* the proof:                                                               *)
(*   - RunInv: a run of the ADC, which s_epoch numbers while it lasts, has  *)
(*     one configuration, and lies in time after those before, with more    *)
(*     than a turn of the pattern between;                                  *)
(*   - ClockInv: every word of the current epoch, sent or still on its way, *)
(*     has a place in the epoch's count.  The restart finds at most a pool  *)
(*     of words, so from PoolFrames * FrameLen on all are of the epoch's    *)
(*     run; and while the pool has not overflowed, words of one run are as  *)
(*     far apart in their places as in time.                                *)
(***************************************************************************)
EXTENDS AdcStreamProofs

(* An INFO about to be sent has no words. *)
InfoIsEmpty == main_out.words = <<>>

(* The numbers the proofs compute with. *)
LEMMA ClockNumbers ==
  ASSUME TypeOK
  PROVE  /\ conv \in Nat /\ index \in Nat /\ Len(rd) \in Nat
         /\ Len(pkt) \in Nat /\ Len(pool) \in Nat /\ FrameLen \in Nat \ {0}
         /\ s_epoch \in Nat
         /\ \A i \in DOMAIN wire :
              /\ wire[i].first_index \in Nat /\ wire[i].epoch \in Nat
              /\ wire[i].words \in Seq(Word)
<1>1. /\ conv \in Nat /\ index \in Nat /\ Len(rd) \in Nat
      /\ Len(pkt) \in Nat /\ Len(pool) \in Nat /\ FrameLen \in Nat \ {0}
      /\ s_epoch \in Nat
  BY SizeAssumption DEF TypeOK
<1>2. \A i \in DOMAIN wire : wire[i] \in Datagram(Hosts \cup {NoHost})
  BY DEF TypeOK
<1> QED BY <1>1, <1>2 DEF Datagram

-----------------------------------------------------------------------------
(* What is on the wire, and what is on its way there.                       *)

(* The words between the ADC and the wire: in the packet, in the frame in   *)
(* hand, in the pool.                                                       *)
Waiting ==
  {w \in Word : \/ \E k \in DOMAIN pkt : w = pkt[k]
                \/ \E k \in DOMAIN rd : w = rd[k]
                \/ \E n \in DOMAIN pool : \E k \in DOMAIN pool[n] :
                     w = pool[n][k]}

(* Where PackWords puts words: at the end of the packet, in their order,    *)
(* and off the beginning of the frame.                                      *)
LEMMA PackPlaces ==
  ASSUME TypeOK, PackWords
  PROVE  \E m \in 0..Len(rd) :
           /\ Len(rd') = Len(rd) - m /\ index' = index + m
           /\ pkt' # <<>> => Len(pkt') = Len(pkt) + m
           /\ \A k \in DOMAIN rd' : k + m \in DOMAIN rd /\ rd'[k] = rd[k + m]
           /\ \A k \in DOMAIN pkt' :
                \/ k \in DOMAIN pkt /\ pkt'[k] = pkt[k]
                \/ /\ k > Len(pkt) /\ k - Len(pkt) \in 1..m
                   /\ k - Len(pkt) \in DOMAIN rd
                   /\ pkt'[k] = rd[k - Len(pkt)]
<1> DEFINE m == Moved
<1>1. pkt \in Seq(Word) /\ rd \in Seq(Word) /\ Len(pkt) \in Nat
        /\ Len(rd) \in Nat
  BY DEF TypeOK
<1>2. m \in Nat /\ m <= Len(rd)
  BY PackType
<1>3. /\ rd' = SubSeq(rd, m + 1, Len(rd))
      /\ pkt' = pkt \o SubSeq(rd, 1, m) \/ pkt' = <<>>
      /\ index' = index + m /\ (pkt' # <<>> => Len(pkt') = Len(pkt) + m)
  BY PackMoves DEF PackWords
<1> HIDE DEF m
<1>4. /\ Len(rd') = Len(rd) - m
      /\ \A k \in DOMAIN rd' : k + m \in DOMAIN rd /\ rd'[k] = rd[k + m]
  BY <1>1, <1>2, <1>3
<1>5. /\ SubSeq(rd, 1, m) \in Seq(Word) /\ Len(SubSeq(rd, 1, m)) = m
      /\ \A k \in 1..m : k \in DOMAIN rd /\ SubSeq(rd, 1, m)[k] = rd[k]
  BY <1>1, <1>2
<1>6. \A k \in DOMAIN pkt' :
        \/ k \in DOMAIN pkt /\ pkt'[k] = pkt[k]
        \/ /\ k > Len(pkt) /\ k - Len(pkt) \in 1..m
           /\ k - Len(pkt) \in DOMAIN rd
           /\ pkt'[k] = rd[k - Len(pkt)]
  <2>1. CASE pkt' = pkt \o SubSeq(rd, 1, m)
    <3> DEFINE s == SubSeq(rd, 1, m)
    <3>1. /\ s \in Seq(Word) /\ Len(s) = m
          /\ \A k \in 1..m : k \in DOMAIN rd /\ s[k] = rd[k]
      BY <1>5
    <3> HIDE DEF s
    <3>2. pkt' = pkt \o s
      BY <2>1 DEF s
    <3>3. \A k \in DOMAIN pkt' :
            \/ k \in DOMAIN pkt /\ pkt'[k] = pkt[k]
            \/ k > Len(pkt) /\ k - Len(pkt) \in 1..m
                 /\ pkt'[k] = s[k - Len(pkt)]
      BY <1>1, <1>2, <3>1, <3>2
    <3> QED BY <3>1, <3>3
  <2>2. CASE pkt' = <<>>
    BY <2>2
  <2> QED BY <1>3, <2>1, <2>2
<1>7. m \in 0..Len(rd)
  BY <1>1, <1>2
<1> QED BY <1>3, <1>4, <1>6, <1>7

(* A datagram on the wire after a step was there before, or is the INFO or  *)
(* the packet being sent.                                                   *)
LEMMA WireStep ==
  ASSUME TypeOK, InfoInv, HandIsPacket, [Next]_vars
  PROVE  /\ \A i \in DOMAIN wire : i \in DOMAIN wire' /\ wire'[i] = wire[i]
         /\ \A i \in DOMAIN wire' :
              \/ i \in DOMAIN wire /\ wire'[i] = wire[i]
              \/ wire'[i] = main_out /\ ~IsSamples(main_out)
                   /\ i = Len(wire) + 1
              \/ /\ wire'[i] = cap_out /\ i = Len(wire) + 1
                 /\ cap_pc = "send" /\ cap_out.words = pkt /\ pkt' = <<>>
                 /\ cap_out.first_index = pkt_first
                 /\ cap_out.epoch = s_epoch
                 /\ UNCHANGED <<rd, pool, conv, index, s_epoch, cap_cfg,
                                s_overflows>>
<1> USE DEF shared, capture, control, driver
<1>1. wire \in Seq(Datagram(Hosts \cup {NoHost}))
        /\ main_out \in Datagram(Hosts \cup {NoHost})
        /\ cap_out \in Datagram(Hosts \cup {NoHost})
  BY DEF TypeOK
<1>2. CASE wire' = wire
  BY <1>2
<1>3. ASSUME NEW d \in Datagram(Hosts \cup {NoHost}), wire' = Append(wire, d)
      PROVE  \A i \in DOMAIN wire : i \in DOMAIN wire' /\ wire'[i] = wire[i]
  BY <1>1, <1>3
<1>4. ASSUME NEW ok \in BOOLEAN, SendInfo(ok), wire' = Append(wire, main_out)
      PROVE  \A i \in DOMAIN wire' :
               \/ i \in DOMAIN wire /\ wire'[i] = wire[i]
               \/ wire'[i] = main_out /\ ~IsSamples(main_out)
                    /\ i = Len(wire) + 1
  BY <1>1, <1>4, AppendWire DEF InfoInv, IsSamples
<1>5. ASSUME NEW ok \in BOOLEAN, SendSamples(ok), wire' = Append(wire, cap_out)
      PROVE  \A i \in DOMAIN wire' :
               \/ i \in DOMAIN wire /\ wire'[i] = wire[i]
               \/ /\ wire'[i] = cap_out /\ i = Len(wire) + 1
                  /\ cap_pc = "send" /\ cap_out.words = pkt /\ pkt' = <<>>
                  /\ cap_out.first_index = pkt_first
                  /\ cap_out.epoch = s_epoch
                  /\ UNCHANGED <<rd, pool, conv, index, s_epoch, cap_cfg,
                                 s_overflows>>
  <2>1. /\ cap_pc = "send" /\ pkt' = <<>>
        /\ UNCHANGED <<rd, pool, conv, index, s_epoch, cap_cfg, s_overflows>>
    BY <1>5 DEF SendSamples
  <2>2. \A i \in DOMAIN wire' :
          \/ i \in DOMAIN wire /\ wire'[i] = wire[i]
          \/ i = Len(wire) + 1 /\ wire'[i] = cap_out
    BY <1>1, <1>5, AppendWire
  <2> QED BY <2>1, <2>2 DEF HandIsPacket
<1>6. \/ wire' = wire
      \/ \E ok \in BOOLEAN : SendInfo(ok) /\ wire' = Append(wire, main_out)
      \/ \E ok \in BOOLEAN : SendSamples(ok) /\ wire' = Append(wire, cap_out)
  <2>1. ASSUME NEW h \in Hosts, RequestConfig(h) PROVE wire' = wire
    BY <2>1 DEF RequestConfig
  <2>2. CASE RecvNothing \/ TouchClient \/ DecideInfo \/ SnapshotInfo
               \/ NumberInfo
    BY <2>2 DEF RecvNothing, TouchClient, DecideInfo, SnapshotInfo, NumberInfo
  <2>3. ASSUME NEW ok \in BOOLEAN, SendInfo(ok)
        PROVE  wire' = wire \/ wire' = Append(wire, main_out)
    BY <2>3 DEF SendInfo
  <2>4. CASE TakePending \/ ApplyConfig \/ RestoreConfig \/ StartEpoch
               \/ ReadFrame \/ ReadNothing
    BY <2>4 DEF TakePending, ApplyConfig, RestoreConfig, StartEpoch, ReadFrame,
                ReadNothing
  <2>5. CASE GetClient \/ PackWords \/ FrameDone \/ NumberSamples
    BY <2>5 DEF GetClient, PackWords, FrameDone, NumberSamples
  <2>6. ASSUME NEW ok \in BOOLEAN, SendSamples(ok)
        PROVE  wire' = wire \/ wire' = Append(wire, cap_out)
    BY <2>6 DEF SendSamples
  <2>7. CASE ConvertFrame \/ Tick \/ UNCHANGED vars
    BY <2>7 DEF ConvertFrame, Tick, vars
  <2> QED BY <2>1, <2>2, <2>3, <2>4, <2>5, <2>6, <2>7
             DEF Next, ControlNext, CaptureNext
<1> QED BY <1>1, <1>2, <1>3, <1>4, <1>5, <1>6

(* A word waiting after a step waited before, or is converted in that step. *)
LEMMA WaitingStep ==
  ASSUME TypeOK, [Next]_vars
  PROVE  /\ conv' \in Nat /\ conv' >= conv
         /\ \A w \in Waiting' :
              \/ w \in Waiting
              \/ /\ ConvertFrame /\ w.at >= conv /\ w.at < conv'
                 /\ w = Result(adc_cfg, s_epoch, w.at)
<1> USE DEF shared, capture, control, driver
<1>1. pkt \in Seq(Word) /\ rd \in Seq(Word) /\ pool \in Seq(Seq(Word))
        /\ conv \in Nat /\ adc_cfg \in Config /\ s_epoch \in Nat
  BY DEF TypeOK
<1>2. CASE UNCHANGED <<pkt, rd, pool, conv>>
  BY <1>1, <1>2 DEF Waiting
<1>3. ASSUME NEW h \in Hosts, RequestConfig(h)
      PROVE  UNCHANGED <<pkt, rd, pool, conv>>
  BY <1>3 DEF RequestConfig
<1>4. CASE RecvNothing \/ TouchClient \/ DecideInfo \/ SnapshotInfo
             \/ NumberInfo
  BY <1>2, <1>4
     DEF RecvNothing, TouchClient, DecideInfo, SnapshotInfo, NumberInfo
<1>5. ASSUME NEW ok \in BOOLEAN, SendInfo(ok)
      PROVE  UNCHANGED <<pkt, rd, pool, conv>>
  BY <1>5 DEF SendInfo
<1>6. CASE TakePending \/ RestoreConfig \/ ReadNothing \/ GetClient
             \/ FrameDone \/ NumberSamples \/ Tick \/ UNCHANGED vars
  BY <1>2, <1>6 DEF TakePending, RestoreConfig, ReadNothing, GetClient,
                    FrameDone, NumberSamples, Tick, vars
<1>7. CASE ApplyConfig
  BY <1>2, <1>7 DEF ApplyConfig
<1>8. CASE StartEpoch
  <2>1. UNCHANGED <<rd, pool>> /\ pkt' = <<>> /\ conv' = 6 * (conv \div 6 + 2)
    BY <1>8 DEF StartEpoch, Leftover, RestartInstant
  <2>2. conv' \in Nat /\ conv' >= conv
    BY <1>1, <2>1
  <2> QED BY <2>1, <2>2 DEF Waiting
<1>9. CASE ReadFrame
  <2>1. UNCHANGED <<pkt, conv>> /\ pool # <<>>
          /\ rd' = Head(pool) /\ pool' = Tail(pool)
    BY <1>9 DEF ReadFrame
  <2>2. 1 \in DOMAIN pool /\ rd' = pool[1]
    BY <1>1, <2>1
  <2>3. \A n \in DOMAIN pool' : n + 1 \in DOMAIN pool /\ pool'[n] = pool[n + 1]
    BY <1>1, <2>1
  <2> QED BY <1>1, <2>1, <2>2, <2>3 DEF Waiting
<1>10. CASE PackWords
  <2>1. UNCHANGED <<pool, conv>>
    BY <1>10 DEF PackWords
  <2>2. PICK m \in 0..Len(rd) :
          /\ \A k \in DOMAIN rd' : k + m \in DOMAIN rd /\ rd'[k] = rd[k + m]
          /\ \A k \in DOMAIN pkt' :
               \/ k \in DOMAIN pkt /\ pkt'[k] = pkt[k]
               \/ /\ k - Len(pkt) \in DOMAIN rd
                  /\ pkt'[k] = rd[k - Len(pkt)]
    BY <1>10, PackPlaces
  <2> QED BY <1>1, <2>1, <2>2 DEF Waiting
<1>11. ASSUME NEW ok \in BOOLEAN, SendSamples(ok)
       PROVE  UNCHANGED <<rd, pool, conv>> /\ pkt' = <<>>
  BY <1>11 DEF SendSamples
<1>12. CASE UNCHANGED <<rd, pool, conv>> /\ pkt' = <<>>
  BY <1>1, <1>12 DEF Waiting
<1>13. CASE ConvertFrame
  <2> DEFINE f == Frame(adc_cfg, s_epoch, conv)
  <2>1. UNCHANGED <<pkt, rd>> /\ conv' = conv + FrameLen
          /\ (pool' = pool \/ pool' = Append(pool, f))
    BY <1>13 DEF ConvertFrame
  <2>2. f \in Seq(Word) /\ Len(f) = FrameLen
    BY <1>1, FrameType
  <2>3. \A k \in DOMAIN f : /\ k \in 1..FrameLen
                            /\ f[k] = Result(adc_cfg, s_epoch, conv + k - 1)
    BY SizeAssumption DEF Frame
  <2>4. \A t : Result(adc_cfg, s_epoch, t).at = t
    BY DEF Result
  <2> HIDE DEF f
  <2>5. \A w \in Waiting' : w \in Waiting \/ \E k \in DOMAIN f : w = f[k]
    <3>1. CASE pool' = pool
      BY <2>1, <3>1 DEF Waiting
    <3>2. CASE pool' = Append(pool, f)
      <4>1. \A n \in DOMAIN pool' :
              (n \in DOMAIN pool /\ pool'[n] = pool[n]) \/ pool'[n] = f
        BY <1>1, <2>2, <3>2
      <4> QED BY <2>1, <4>1 DEF Waiting
    <3> QED BY <2>1, <3>1, <3>2
  <2>6. FrameLen \in Nat \ {0} /\ conv' \in Nat
    BY <1>1, <2>1, SizeAssumption
  <2>7. \A k \in DOMAIN f :
          /\ f[k].at >= conv /\ f[k].at < conv'
          /\ f[k] = Result(adc_cfg, s_epoch, f[k].at)
    BY <1>1, <2>1, <2>3, <2>4, <2>6
  <2> QED BY <1>1, <1>13, <2>1, <2>5, <2>6, <2>7
<1> QED
  BY <1>2, <1>3, <1>4, <1>5, <1>6, <1>7, <1>8, <1>9, <1>10, <1>11, <1>12, <1>13
     DEF Next, ControlNext, CaptureNext

(* A result of the ADC: its channel is the one whose turn it was.           *)
Genuine(w) == w = Result(w.cfg, w.run, w.at)

(* Whatever waits or was sent came from the ADC some time ago, and an INFO  *)
(* carries no words.                                                        *)
SourceInv ==
  /\ InfoIsEmpty
  /\ cap_pc = "send" => IsSamples(cap_out)
  /\ \A w \in Waiting : Genuine(w) /\ w.at < conv
  /\ \A i \in DOMAIN wire : ~IsSamples(wire[i]) => wire[i].words = <<>>
  /\ \A i \in DOMAIN wire : \A k \in DOMAIN wire[i].words :
       Genuine(wire[i].words[k]) /\ wire[i].words[k].at < conv

(* No word changes on its way. *)
LEMMA SourceStep ==
  ASSUME TypeOK, InfoInv, OrderInv, SourceInv, [Next]_vars
  PROVE  SourceInv'
<1>1. main_out \in Datagram(Hosts \cup {NoHost}) /\ pkt \in Seq(Word)
        /\ conv \in Nat /\ adc_cfg \in Config /\ s_epoch \in Nat
  BY DEF TypeOK
<1>2. InfoIsEmpty'
  <2> USE DEF SourceInv, InfoIsEmpty, shared, capture, control, driver
  <2>1. CASE UNCHANGED main_out
    BY <2>1
  <2>2. CASE DecideInfo
    <3>1. [main_out EXCEPT !.to = get_client].words = <<>>
      BY <1>1 DEF Datagram
    <3> QED BY <2>2, <3>1 DEF DecideInfo
  <2>3. CASE SnapshotInfo
    BY <2>3 DEF SnapshotInfo, Info
  <2>4. CASE NumberInfo
    <3>1. [main_out EXCEPT !.seq = Wrap(s_seq),
                           !.overflow_count = Wrap(s_overflows)].words = <<>>
      BY <1>1 DEF Datagram
    <3> QED BY <2>4, <3>1 DEF NumberInfo
  <2>5. ASSUME NEW h \in Hosts, RequestConfig(h) PROVE UNCHANGED main_out
    BY <2>5 DEF RequestConfig
  <2>6. ASSUME NEW ok \in BOOLEAN, SendInfo(ok) PROVE UNCHANGED main_out
    BY <2>6 DEF SendInfo
  <2>7. CASE CaptureNext
    BY <2>7 DEF CaptureNext, TakePending, ApplyConfig, RestoreConfig,
                StartEpoch, ReadFrame, ReadNothing, GetClient, PackWords,
                FrameDone, NumberSamples, SendSamples
  <2>8. CASE RecvNothing \/ TouchClient \/ ConvertFrame \/ Tick
               \/ UNCHANGED vars
    BY <2>8 DEF RecvNothing, TouchClient, ConvertFrame, Tick, vars
  <2> QED BY <2>1, <2>2, <2>3, <2>4, <2>5, <2>6, <2>7, <2>8
             DEF Next, ControlNext
<1>3. \A w \in Waiting' : Genuine(w) /\ w.at < conv'
  <2> SUFFICES ASSUME NEW w \in Waiting' PROVE Genuine(w) /\ w.at < conv'
    OBVIOUS
  <2>1. w \in Word /\ conv' \in Nat /\ conv' >= conv
    BY WaitingStep DEF Waiting
  <2>2. w.at \in Nat
    BY <2>1 DEF Word
  <2>3. CASE w \in Waiting
    BY <1>1, <2>1, <2>2, <2>3 DEF SourceInv
  <2>4. CASE w.at < conv' /\ w = Result(adc_cfg, s_epoch, w.at)
    <3>1. w.cfg = adc_cfg /\ w.run = s_epoch
      BY <2>4 DEF Result
    <3> QED BY <2>4, <3>1 DEF Genuine
  <2> QED BY <2>3, <2>4, WaitingStep
<1>4. \A i \in DOMAIN wire' :
        \/ i \in DOMAIN wire /\ wire'[i] = wire[i]
        \/ wire'[i] = main_out
        \/ wire'[i] = cap_out /\ cap_out.words = pkt /\ cap_pc = "send"
  BY WireStep DEF OrderInv
<1>5. \A i \in DOMAIN wire' : ~IsSamples(wire'[i]) => wire'[i].words = <<>>
  BY <1>4 DEF SourceInv, InfoIsEmpty
<1>6. \A k \in DOMAIN pkt : pkt[k] \in Waiting
  BY <1>1 DEF Waiting
<1>7. \A w : w.at < conv /\ w \in Word => w.at < conv'
  <2>1. conv' \in Nat /\ conv' >= conv
    BY WaitingStep
  <2> QED BY <1>1, <2>1 DEF Word
<1>8. \A i \in DOMAIN wire : \A k \in DOMAIN wire[i].words :
        wire[i].words[k] \in Word
  BY ClockNumbers
<1>9. ASSUME NEW i \in DOMAIN wire', NEW k \in DOMAIN wire'[i].words
      PROVE  Genuine(wire'[i].words[k]) /\ wire'[i].words[k].at < conv'
  <2>1. CASE i \in DOMAIN wire /\ wire'[i] = wire[i]
    BY <1>7, <1>8, <1>9, <2>1 DEF SourceInv
  <2>2. CASE wire'[i] = main_out
    BY <1>9, <2>2 DEF SourceInv, InfoIsEmpty
  <2>3. CASE wire'[i] = cap_out /\ cap_out.words = pkt
    <3>1. wire'[i].words[k] \in Waiting /\ wire'[i].words[k] \in Word
      BY <1>6, <1>9, <2>3 DEF Waiting
    <3> QED BY <1>7, <3>1 DEF SourceInv
  <2> QED BY <1>4, <2>1, <2>2, <2>3
<1>10. cap_pc' = "send" => IsSamples(cap_out')
  <2> USE DEF SourceInv, IsSamples, shared, capture, control, driver
  <2>1. ASSUME NEW h \in Hosts, RequestConfig(h)
        PROVE  UNCHANGED <<cap_pc, cap_out>>
    BY <2>1 DEF RequestConfig
  <2>2. CASE RecvNothing \/ TouchClient \/ DecideInfo \/ SnapshotInfo
               \/ NumberInfo
    BY <2>2 DEF RecvNothing, TouchClient, DecideInfo, SnapshotInfo, NumberInfo
  <2>3. ASSUME NEW ok \in BOOLEAN, SendInfo(ok)
        PROVE  UNCHANGED <<cap_pc, cap_out>>
    BY <2>3 DEF SendInfo
  <2>4. CASE CaptureNext
    BY <2>4 DEF CaptureNext, TakePending, ApplyConfig, RestoreConfig,
                StartEpoch, ReadFrame, ReadNothing, GetClient, PackWords,
                FrameDone, NumberSamples, SendSamples, Samples
  <2>5. CASE ConvertFrame \/ Tick \/ UNCHANGED vars
    BY <2>5 DEF ConvertFrame, Tick, vars
  <2> QED BY <2>1, <2>2, <2>3, <2>4, <2>5 DEF Next, ControlNext
<1> QED BY <1>2, <1>3, <1>5, <1>9, <1>10 DEF SourceInv

-----------------------------------------------------------------------------
(* Time on the wire.                                                        *)

(* Words in the order they were converted, and words later than others.     *)
Rising(words) == \A k, l \in DOMAIN words : k < l => words[k].at < words[l].at

Follows(later, words) ==
  \A k \in DOMAIN words : \A l \in DOMAIN later : words[k].at < later[l].at

(* What waits is in order: packet, frame in hand, the frames of the pool.   *)
WaitingInOrder ==
  /\ Rising(pkt) /\ Rising(rd) /\ Follows(rd, pkt)
  /\ \A n \in DOMAIN pool :
       /\ Rising(pool[n]) /\ Follows(pool[n], pkt) /\ Follows(pool[n], rd)
       /\ \A m \in DOMAIN pool : m < n => Follows(pool[n], pool[m])

(* So is what was sent, and it is older than all that waits.                *)
SentInOrder ==
  \A i \in DOMAIN wire :
    /\ Rising(wire[i].words)
    /\ \A k \in DOMAIN wire[i].words : \A w \in Waiting :
         wire[i].words[k].at < w.at
    /\ \A j \in DOMAIN wire : i < j => Follows(wire[j].words, wire[i].words)

TimeInv == WaitingInOrder /\ SentInOrder

(* A frame is in order, and later than what was converted before.           *)
LEMMA FrameRises ==
  ASSUME NEW cfg \in Config, NEW run \in Nat, NEW t \in Nat
  PROVE  /\ Rising(Frame(cfg, run, t))
         /\ \A l \in DOMAIN Frame(cfg, run, t) : Frame(cfg, run, t)[l].at >= t
<1>1. \A k \in DOMAIN Frame(cfg, run, t) :
        k \in Nat /\ k >= 1 /\ Frame(cfg, run, t)[k].at = t + k - 1
  BY SizeAssumption DEF Frame, Result
<1> QED BY <1>1 DEF Rising

(* The pool is cut at its beginning and grows at its end, frame and packet  *)
(* are cut and joined where they meet.                                      *)
LEMMA WaitingOrderStep ==
  ASSUME TypeOK, SourceInv, WaitingInOrder, [Next]_vars
  PROVE  WaitingInOrder'
<1> USE DEF shared, capture, control, driver
<1>1. pkt \in Seq(Word) /\ rd \in Seq(Word) /\ pool \in Seq(Seq(Word))
        /\ conv \in Nat /\ adc_cfg \in Config /\ s_epoch \in Nat
  BY DEF TypeOK
<1>2. CASE UNCHANGED <<rd, pool>> /\ (pkt' = pkt \/ pkt' = <<>>)
  BY <1>2 DEF WaitingInOrder, Rising, Follows
<1>3. ASSUME NEW h \in Hosts, RequestConfig(h)
      PROVE  UNCHANGED <<pkt, rd, pool>>
  BY <1>3 DEF RequestConfig
<1>4. CASE RecvNothing \/ TouchClient \/ DecideInfo \/ SnapshotInfo
             \/ NumberInfo
  BY <1>2, <1>4
     DEF RecvNothing, TouchClient, DecideInfo, SnapshotInfo, NumberInfo
<1>5. ASSUME NEW ok \in BOOLEAN, SendInfo(ok)
      PROVE  UNCHANGED <<pkt, rd, pool>>
  BY <1>5 DEF SendInfo
<1>6. CASE TakePending \/ RestoreConfig \/ ReadNothing \/ GetClient
             \/ FrameDone \/ NumberSamples \/ Tick \/ UNCHANGED vars
  BY <1>2, <1>6 DEF TakePending, RestoreConfig, ReadNothing, GetClient,
                    FrameDone, NumberSamples, Tick, vars
<1>7. CASE ApplyConfig
  BY <1>2, <1>7 DEF ApplyConfig
<1>8. CASE StartEpoch
  BY <1>2, <1>8 DEF StartEpoch, Leftover
<1>9. CASE ReadFrame
  <2>1. UNCHANGED pkt /\ pool # <<>> /\ rd' = Head(pool) /\ pool' = Tail(pool)
    BY <1>9 DEF ReadFrame
  <2>2. 1 \in DOMAIN pool /\ rd' = pool[1]
    BY <1>1, <2>1
  <2>3. \A n \in DOMAIN pool' :
          n \in Nat /\ n >= 1 /\ n + 1 \in DOMAIN pool /\ pool'[n] = pool[n + 1]
    BY <1>1, <2>1
  <2>4. Rising(pkt') /\ Rising(rd') /\ Follows(rd', pkt')
    BY <2>1, <2>2 DEF WaitingInOrder
  <2>5. ASSUME NEW n \in DOMAIN pool'
        PROVE  /\ Rising(pool'[n]) /\ Follows(pool'[n], pkt')
               /\ Follows(pool'[n], rd')
    BY <2>1, <2>2, <2>3 DEF WaitingInOrder
  <2>6. ASSUME NEW n \in DOMAIN pool', NEW m \in DOMAIN pool', m < n
        PROVE  Follows(pool'[n], pool'[m])
    BY <2>3, <2>6 DEF WaitingInOrder
  <2> QED BY <2>4, <2>5, <2>6 DEF WaitingInOrder
<1>10. CASE PackWords
  <2>1. UNCHANGED pool
    BY <1>10 DEF PackWords
  <2>2. PICK m \in 0..Len(rd) :
          /\ \A k \in DOMAIN rd' : k + m \in DOMAIN rd /\ rd'[k] = rd[k + m]
          /\ \A k \in DOMAIN pkt' :
               \/ k \in DOMAIN pkt /\ pkt'[k] = pkt[k]
               \/ /\ k > Len(pkt) /\ k - Len(pkt) \in 1..m
                  /\ k - Len(pkt) \in DOMAIN rd
                  /\ pkt'[k] = rd[k - Len(pkt)]
    BY <1>10, PackPlaces
  <2>3. DOMAIN rd' \subseteq Nat /\ DOMAIN pkt' \subseteq Nat
          /\ \A k \in DOMAIN rd' : k >= 1
    BY <1>10, PackType
  <2>4. Len(pkt) \in Nat /\ DOMAIN pkt = 1..Len(pkt) /\ m \in Nat
    BY <1>1
  <2>5. Rising(pkt) /\ Rising(rd) /\ Follows(rd, pkt)
    BY DEF WaitingInOrder
  <2>6. Rising(rd')
    BY <2>2, <2>3, <2>4, <2>5 DEF Rising
  <2>7. Rising(pkt')
    <3> SUFFICES ASSUME NEW k \in DOMAIN pkt', NEW l \in DOMAIN pkt', k < l
                 PROVE  pkt'[k].at < pkt'[l].at
      BY DEF Rising
    <3>1. CASE l \in DOMAIN pkt /\ pkt'[l] = pkt[l]
      BY <2>2, <2>3, <2>4, <2>5, <3>1 DEF Rising
    <3>2. CASE /\ l > Len(pkt) /\ l - Len(pkt) \in 1..m
               /\ l - Len(pkt) \in DOMAIN rd /\ pkt'[l] = rd[l - Len(pkt)]
      <4>1. CASE k \in DOMAIN pkt /\ pkt'[k] = pkt[k]
        BY <2>5, <3>2, <4>1 DEF Follows
      <4>2. CASE k - Len(pkt) \in DOMAIN rd /\ pkt'[k] = rd[k - Len(pkt)]
        <5>1. k - Len(pkt) < l - Len(pkt)
          BY <2>3, <2>4
        <5> QED BY <2>5, <3>2, <4>2, <5>1 DEF Rising
      <4> QED BY <2>2, <4>1, <4>2
    <3> QED BY <2>2, <3>1, <3>2
  <2>8. Follows(rd', pkt')
    <3> SUFFICES ASSUME NEW k \in DOMAIN pkt', NEW l \in DOMAIN rd'
                 PROVE  pkt'[k].at < rd'[l].at
      BY DEF Follows
    <3>1. l + m \in DOMAIN rd /\ rd'[l] = rd[l + m]
      BY <2>2
    <3>2. CASE k \in DOMAIN pkt /\ pkt'[k] = pkt[k]
      BY <2>5, <3>1, <3>2 DEF Follows
    <3>3. CASE /\ k - Len(pkt) \in 1..m
               /\ k - Len(pkt) \in DOMAIN rd /\ pkt'[k] = rd[k - Len(pkt)]
      <4>1. k - Len(pkt) < l + m
        BY <2>3, <2>4, <3>3
      <4> QED BY <2>5, <3>1, <3>3, <4>1 DEF Rising
    <3> QED BY <2>2, <3>2, <3>3
  <2>9. \A n \in DOMAIN pool : Follows(pool[n], pkt') /\ Follows(pool[n], rd')
    BY <2>2 DEF WaitingInOrder, Follows
  <2> QED BY <2>1, <2>6, <2>7, <2>8, <2>9 DEF WaitingInOrder
<1>11. ASSUME NEW ok \in BOOLEAN, SendSamples(ok)
       PROVE  UNCHANGED <<rd, pool>> /\ pkt' = <<>>
  BY <1>11 DEF SendSamples
<1>12. CASE ConvertFrame
  <2> DEFINE f == Frame(adc_cfg, s_epoch, conv)
  <2>1. UNCHANGED <<pkt, rd>> /\ (pool' = pool \/ pool' = Append(pool, f))
    BY <1>12 DEF ConvertFrame
  <2>2. f \in Seq(Word) /\ Rising(f) /\ \A l \in DOMAIN f : f[l].at >= conv
    BY <1>1, FrameType, FrameRises
  <2>3. CASE pool' = pool
    BY <1>2, <2>1, <2>3
  <2>4. CASE pool' = Append(pool, f)
    <3> HIDE DEF f
    <3>1. \A n \in DOMAIN pool' :
            \/ n \in DOMAIN pool /\ pool'[n] = pool[n]
            \/ n = Len(pool) + 1 /\ pool'[n] = f
      BY <1>1, <2>2, <2>4
    <3>2. \A w \in Waiting : \A l \in DOMAIN f : w.at < f[l].at
      <4>1. \A l \in DOMAIN f : f[l] \in Word /\ f[l].at >= conv
        BY <2>2
      <4>2. \A w \in Waiting : w \in Word /\ w.at < conv
        BY DEF SourceInv, Waiting
      <4>3. \A w \in Word : w.at \in Nat
        BY DEF Word
      <4> QED BY <1>1, <4>1, <4>2, <4>3
    <3>3. /\ \A k \in DOMAIN pkt : pkt[k] \in Waiting
          /\ \A k \in DOMAIN rd : rd[k] \in Waiting
          /\ \A n \in DOMAIN pool : \A k \in DOMAIN pool[n] :
               pool[n][k] \in Waiting
      BY <1>1 DEF Waiting
    <3>4. Follows(f, pkt) /\ Follows(f, rd)
            /\ \A n \in DOMAIN pool : Follows(f, pool[n])
      BY <3>2, <3>3 DEF Follows
    <3>5. Rising(pkt') /\ Rising(rd') /\ Follows(rd', pkt')
      BY <2>1 DEF WaitingInOrder
    <3>6. ASSUME NEW n \in DOMAIN pool'
          PROVE  /\ Rising(pool'[n]) /\ Follows(pool'[n], pkt')
                 /\ Follows(pool'[n], rd')
      BY <2>1, <2>2, <3>1, <3>4 DEF WaitingInOrder
    <3>7. ASSUME NEW n \in DOMAIN pool', NEW m \in DOMAIN pool', m < n
          PROVE  Follows(pool'[n], pool'[m])
      <4>1. m \in DOMAIN pool /\ pool'[m] = pool[m]
        <5>1. \A k \in DOMAIN pool : k <= Len(pool)
          BY <1>1
        <5>2. DOMAIN pool' = 1..(Len(pool) + 1) /\ Len(pool) \in Nat
          BY <1>1, <2>2, <2>4
        <5> QED BY <3>1, <3>7, <5>1, <5>2
      <4> QED BY <3>1, <3>4, <3>7, <4>1 DEF WaitingInOrder
    <3> QED BY <3>5, <3>6, <3>7 DEF WaitingInOrder
  <2> QED BY <2>1, <2>3, <2>4
<1> QED
  BY <1>2, <1>3, <1>4, <1>5, <1>6, <1>7, <1>8, <1>9, <1>10, <1>11, <1>12
     DEF Next, ControlNext, CaptureNext

(* The packet being sent is later than what was sent, and earlier than all  *)
(* that still waits.                                                        *)
LEMMA SentOrderStep ==
  ASSUME TypeOK, InfoInv, OrderInv, SourceInv, TimeInv, [Next]_vars
  PROVE  SentInOrder'
<1>1. pkt \in Seq(Word) /\ rd \in Seq(Word) /\ pool \in Seq(Seq(Word))
        /\ conv \in Nat /\ Len(wire) \in Nat /\ DOMAIN wire = 1..Len(wire)
  BY DEF TypeOK
<1>2. \A i \in DOMAIN wire' :
        \/ i \in DOMAIN wire /\ wire'[i] = wire[i]
        \/ wire'[i].words = <<>>
        \/ /\ i = Len(wire) + 1 /\ wire'[i].words = pkt /\ pkt' = <<>>
           /\ UNCHANGED <<rd, pool, conv>>
  BY WireStep DEF OrderInv, SourceInv, InfoIsEmpty
<1>3. \A k \in DOMAIN pkt : pkt[k] \in Waiting
  BY <1>1 DEF Waiting
<1>4. \A i \in DOMAIN wire : \A k \in DOMAIN wire[i].words :
        wire[i].words[k] \in Word
  BY ClockNumbers
<1>5. conv' \in Nat /\ conv' >= conv
        /\ \A w \in Waiting' : w \in Word /\ (w \in Waiting \/ w.at >= conv)
  BY WaitingStep DEF Waiting
<1>6. ASSUME NEW i \in DOMAIN wire'
      PROVE  Rising(wire'[i].words)
  <2>1. Rising(pkt) /\ Rising(<<>>)
    BY DEF TimeInv, WaitingInOrder, Rising
  <2> QED BY <1>2, <2>1 DEF TimeInv, SentInOrder
<1>7. ASSUME NEW i \in DOMAIN wire', NEW k \in DOMAIN wire'[i].words,
             NEW w \in Waiting'
      PROVE  wire'[i].words[k].at < w.at
  <2>1. CASE i \in DOMAIN wire /\ wire'[i] = wire[i]
    <3>1. wire[i].words[k].at < conv /\ wire[i].words[k] \in Word
      BY <1>4, <2>1 DEF SourceInv
    <3>2. CASE w \in Waiting
      BY <2>1, <3>2 DEF TimeInv, SentInOrder
    <3>3. CASE w.at >= conv
      BY <1>1, <1>5, <2>1, <3>1, <3>3 DEF Word
    <3> QED BY <1>5, <3>2, <3>3
  <2>2. CASE wire'[i].words = <<>>
    BY <2>2
  <2>3. CASE /\ wire'[i].words = pkt /\ pkt' = <<>>
             /\ UNCHANGED <<rd, pool, conv>>
    <3>1. \/ \E l \in DOMAIN rd : w = rd[l]
          \/ \E n \in DOMAIN pool : \E l \in DOMAIN pool[n] : w = pool[n][l]
      BY <2>3 DEF Waiting
    <3> QED BY <2>3, <3>1 DEF TimeInv, WaitingInOrder, Follows
  <2> QED BY <1>2, <2>1, <2>2, <2>3
<1>8. ASSUME NEW i \in DOMAIN wire', NEW j \in DOMAIN wire', i < j
      PROVE  Follows(wire'[j].words, wire'[i].words)
  <2>1. i \in DOMAIN wire /\ wire'[i] = wire[i]
    <3>1. DOMAIN wire' \subseteq 1..(Len(wire) + 1)
      BY <1>1, WireStep DEF OrderInv
    <3>2. i \in 1..Len(wire)
      BY <1>1, <1>8, <3>1
    <3> QED BY <1>1, <3>2, WireStep DEF OrderInv
  <2>2. CASE j \in DOMAIN wire /\ wire'[j] = wire[j]
    BY <1>8, <2>1, <2>2 DEF TimeInv, SentInOrder
  <2>3. CASE wire'[j].words = <<>>
    BY <2>3 DEF Follows
  <2>4. CASE wire'[j].words = pkt
    BY <1>3, <2>1, <2>4 DEF TimeInv, SentInOrder, Follows
  <2> QED BY <1>2, <2>2, <2>3, <2>4
<1> QED BY <1>6, <1>7, <1>8 DEF SentInOrder

-----------------------------------------------------------------------------
(* Where packets begin.                                                     *)

(* A whole number of packets. *)
IsCut(n) == \E q \in Nat : n = q * PktLen

(* Two cuts are a packet apart or more. *)
LEMMA CutsApart ==
  ASSUME NEW a \in Nat, NEW b \in Nat, IsCut(a), IsCut(b), a < b
  PROVE  a + PktLen <= b
<1>1. PICK p \in Nat : a = p * PktLen
  BY DEF IsCut
<1>2. PICK q \in Nat : b = q * PktLen
  BY DEF IsCut
<1>3. p < q
  <2> SUFFICES ASSUME q <= p PROVE FALSE
    OBVIOUS
  <2>1. PICK r \in Nat : p = q + r
    <3>1. p - q \in Nat /\ p = q + (p - q)
      OBVIOUS
    <3> QED BY <3>1
  <2>2. p * PktLen = q * PktLen + r * PktLen /\ r * PktLen \in Nat
    BY <2>1, PktLenAssumption
  <2> QED BY <1>1, <1>2, <2>2
<1>4. PICK r \in Nat : q = p + 1 + r
  <2>1. q - p - 1 \in Nat /\ q = p + 1 + (q - p - 1)
    BY <1>3
  <2> QED BY <2>1
<1>5. q * PktLen = p * PktLen + PktLen + r * PktLen /\ r * PktLen \in Nat
  BY <1>4, PktLenAssumption
<1> QED BY <1>1, <1>2, <1>5, PktLenAssumption

(* After a packet comes a cut. *)
LEMMA NextCut ==
  ASSUME NEW a \in Nat, IsCut(a)
  PROVE  IsCut(a + PktLen)
<1>1. PICK q \in Nat : a = q * PktLen
  BY DEF IsCut
<1>2. (q + 1) * PktLen = q * PktLen + PktLen /\ q + 1 \in Nat
  BY PktLenAssumption
<1> QED BY <1>1, <1>2 DEF IsCut

(* Only full packets are sent, and an epoch is cut into packets from its    *)
(* beginning, sent or not.                                                  *)
CutInv ==
  /\ IsCut(PacketStart)
  /\ cap_pc \in {"number", "send"} => Len(pkt) = PktLen
  /\ \A i \in DOMAIN wire : IsSamples(wire[i]) =>
       Len(wire[i].words) = PktLen /\ IsCut(wire[i].first_index)

(* Packets are cut full, at multiples of their length, by every step.       *)
LEMMA CutStep ==
  ASSUME TypeOK, InfoInv, OrderInv, CutInv, [Next]_vars
  PROVE  CutInv'
<1> USE DEF shared, capture, control, driver
<1>1. pkt \in Seq(Word) /\ Len(pkt) \in Nat /\ rd \in Seq(Word)
        /\ Len(rd) \in Nat /\ index \in Nat /\ PktLen \in Nat \ {0}
        /\ Len(pkt) <= PktLen
  BY PktLenAssumption DEF TypeOK
<1>2. ASSUME NEW i \in DOMAIN wire', IsSamples(wire'[i])
      PROVE  Len(wire'[i].words) = PktLen /\ IsCut(wire'[i].first_index)
  <2>1. CASE i \in DOMAIN wire /\ wire'[i] = wire[i]
    BY <1>2, <2>1 DEF CutInv
  <2>2. CASE /\ wire'[i] = cap_out /\ cap_pc = "send" /\ cap_out.words = pkt
             /\ cap_out.first_index = pkt_first
    BY <2>2 DEF CutInv, OrderInv, FirstKnown
  <2> QED BY <1>2, <2>1, <2>2, WireStep DEF OrderInv
<1>3. CASE UNCHANGED <<pkt, index>>
            /\ (cap_pc' = cap_pc \/ cap_pc' \notin {"number", "send"})
  BY <1>2, <1>3 DEF CutInv, PacketStart
<1>4. ASSUME NEW h \in Hosts, RequestConfig(h)
      PROVE  UNCHANGED <<pkt, index, cap_pc>>
  BY <1>4 DEF RequestConfig
<1>5. CASE RecvNothing \/ TouchClient \/ DecideInfo \/ SnapshotInfo
             \/ NumberInfo
  BY <1>3, <1>5
     DEF RecvNothing, TouchClient, DecideInfo, SnapshotInfo, NumberInfo
<1>6. ASSUME NEW ok \in BOOLEAN, SendInfo(ok)
      PROVE  UNCHANGED <<pkt, index, cap_pc>>
  BY <1>6 DEF SendInfo
<1>7. CASE TakePending \/ ApplyConfig \/ RestoreConfig \/ ReadFrame
             \/ ReadNothing
  BY <1>3, <1>7 DEF TakePending, ApplyConfig, RestoreConfig, ReadFrame,
                    ReadNothing
<1>8. CASE GetClient \/ FrameDone \/ ConvertFrame \/ Tick \/ UNCHANGED vars
  BY <1>3, <1>8 DEF GetClient, FrameDone, ConvertFrame, Tick, vars
<1>9. CASE StartEpoch
  <2>1. index' = 0 /\ pkt' = <<>> /\ cap_pc' = "read"
    BY <1>9 DEF StartEpoch, Leftover
  <2>2. PacketStart' = 0
    <3>1. Len(pkt') = 0
      BY <2>1, EmptyPacket
    <3>2. 0 - 0 = 0
      OBVIOUS
    <3> QED BY <2>1, <3>1, <3>2 DEF PacketStart
  <2>3. IsCut(0)
    <3>1. 0 \in Nat /\ 0 = 0 * PktLen
      BY <1>1
    <3> QED BY <3>1 DEF IsCut
  <2> QED BY <1>2, <2>1, <2>2, <2>3 DEF CutInv
<1>10. CASE PackWords
  <2> DEFINE m == Moved
  <2>1. m \in Nat /\ m <= Len(rd) /\ index' = index + m
    BY <1>10, PackMoves, PackType
  <2>2. Room = PktLen - Len(pkt) /\ Room \in Nat
    BY <1>1 DEF Room
  <2>3. Len(rd) >= Room => m = Room
    BY <1>1, <2>2 DEF Moved
  <2>4. ~(Len(rd) >= Room) => Len(pkt') = Len(pkt) + m
                                /\ cap_pc' = "pack"
    <3>1. ASSUME ~(Len(rd) >= Room)
          PROVE  pkt' = pkt \o SubSeq(rd, 1, m) /\ cap_pc' = "pack"
      BY <1>10, <3>1 DEF PackWords
    <3> HIDE DEF m
    <3>2. SubSeq(rd, 1, m) \in Seq(Word) /\ Len(SubSeq(rd, 1, m)) = m
      BY <1>1, <2>1
    <3> QED BY <1>1, <3>1, <3>2
  <2>5. Len(rd) >= Room =>
          \/ Len(pkt') = Len(pkt) + m /\ cap_pc' = "number"
          \/ pkt' = <<>> /\ cap_pc' = "pack"
    <3>1. ASSUME Len(rd) >= Room
          PROVE  \/ pkt' = pkt \o SubSeq(rd, 1, m) /\ cap_pc' = "number"
                 \/ pkt' = <<>> /\ cap_pc' = "pack"
      BY <1>10, <3>1 DEF PackWords
    <3> HIDE DEF m
    <3>2. SubSeq(rd, 1, m) \in Seq(Word) /\ Len(SubSeq(rd, 1, m)) = m
      BY <1>1, <2>1
    <3> QED BY <1>1, <3>1, <3>2
  <2> HIDE DEF m
  <2>6. PacketStart \in Nat /\ IsCut(PacketStart)
    BY DEF OrderInv, FirstKnown, CutInv
  <2>7. CASE Len(pkt') = Len(pkt) + m
    <3>1. PacketStart' = PacketStart
      BY <1>1, <2>1, <2>7 DEF PacketStart
    <3>2. cap_pc' = "number" => Len(pkt') = PktLen
      BY <1>1, <2>2, <2>3, <2>4, <2>7
    <3>3. cap_pc' # "send"
      BY <2>4, <2>5
    <3> QED BY <1>2, <2>6, <3>1, <3>2, <3>3 DEF CutInv
  <2>8. CASE Len(rd) >= Room /\ pkt' = <<>> /\ cap_pc' = "pack"
    <3>1. PacketStart' = PacketStart + PktLen
      BY <1>1, <2>1, <2>2, <2>3, <2>8 DEF PacketStart
    <3> QED BY <1>2, <2>6, <2>8, <3>1, NextCut DEF CutInv
  <2> QED BY <2>4, <2>5, <2>7, <2>8
<1>11. CASE NumberSamples
  <2>1. UNCHANGED <<pkt, index>> /\ cap_pc = "number"
    BY <1>11 DEF NumberSamples
  <2> QED BY <1>2, <2>1 DEF CutInv, PacketStart
<1>12. ASSUME NEW ok \in BOOLEAN, SendSamples(ok) PROVE CutInv'
  <2>1. index' = index /\ pkt' = <<>> /\ cap_pc = "send" /\ cap_pc' = "pack"
    BY <1>12 DEF SendSamples
  <2>2. PacketStart' = PacketStart + PktLen
    BY <1>1, <2>1 DEF PacketStart, CutInv
  <2>3. IsCut(PacketStart')
    BY <2>2, NextCut DEF OrderInv, FirstKnown, CutInv
  <2> QED BY <1>2, <2>1, <2>3 DEF CutInv
<1> QED
  BY <1>3, <1>4, <1>5, <1>6, <1>7, <1>8, <1>9, <1>10, <1>11, <1>12
     DEF Next, ControlNext, CaptureNext

-----------------------------------------------------------------------------
(* While the pool has not overflowed, no header says it has.                *)

OverflowInv ==
  s_overflows = 0 =>
    /\ cap_pc = "send" => cap_out.overflow_count = 0
    /\ \A i \in DOMAIN wire : IsSamples(wire[i]) =>
         wire[i].overflow_count = 0

(* No step sends an overflow the pool did not have, or takes one back.      *)
LEMMA OverflowStep ==
  ASSUME TypeOK, InfoInv, OrderInv, OverflowInv, [Next]_vars
  PROVE  /\ OverflowInv'
         /\ s_overflows' = 0 => s_overflows = 0
<1> USE DEF shared, capture, control, driver
<1>1. s_overflows \in Nat
  BY DEF TypeOK
<1>2. s_overflows' = 0 => s_overflows = 0
  <2>1. CASE ControlNext
    BY <2>1 DEF ControlNext, RequestConfig, RecvNothing, TouchClient,
                DecideInfo, SnapshotInfo, NumberInfo, SendInfo
  <2>2. CASE CaptureNext
    BY <2>2 DEF CaptureNext, TakePending, ApplyConfig, RestoreConfig,
                StartEpoch, ReadFrame, ReadNothing, GetClient, PackWords,
                FrameDone, NumberSamples, SendSamples
  <2>3. CASE ConvertFrame
    BY <1>1, <2>3 DEF ConvertFrame
  <2>4. CASE Tick \/ UNCHANGED vars
    BY <2>4 DEF Tick, vars
  <2> QED BY <2>1, <2>2, <2>3, <2>4 DEF Next
<1>3. s_overflows' = 0 /\ cap_pc' = "send" => cap_out'.overflow_count = 0
  <2>1. CASE ControlNext
    BY <1>2, <2>1 DEF ControlNext, RequestConfig, RecvNothing, TouchClient,
                DecideInfo, SnapshotInfo, NumberInfo, SendInfo, OverflowInv
  <2>2. CASE TakePending \/ ApplyConfig \/ RestoreConfig \/ StartEpoch
               \/ ReadFrame
    BY <2>2 DEF TakePending, ApplyConfig, RestoreConfig, StartEpoch, ReadFrame
  <2>3. CASE ReadNothing \/ GetClient \/ PackWords \/ FrameDone
    BY <2>3 DEF ReadNothing, GetClient, PackWords, FrameDone
  <2>4. ASSUME NEW ok \in BOOLEAN, SendSamples(ok) PROVE cap_pc' = "pack"
    BY <2>4 DEF SendSamples
  <2>5. CASE NumberSamples
    <3>1. s_overflows' = s_overflows
            /\ cap_out'.overflow_count = Wrap(s_overflows)
      BY <2>5 DEF NumberSamples, Samples
    <3>2. Wrap(0) = 0
      BY W32Assumption DEF Wrap
    <3> QED BY <3>1, <3>2
  <2>6. CASE ConvertFrame \/ Tick \/ UNCHANGED vars
    BY <1>2, <2>6 DEF ConvertFrame, Tick, vars, OverflowInv
  <2> QED BY <2>1, <2>2, <2>3, <2>4, <2>5, <2>6 DEF Next, CaptureNext
<1>4. ASSUME s_overflows' = 0, NEW i \in DOMAIN wire', IsSamples(wire'[i])
      PROVE  wire'[i].overflow_count = 0
  <2>1. s_overflows = 0
    BY <1>2, <1>4
  <2>2. \/ i \in DOMAIN wire /\ wire'[i] = wire[i]
        \/ wire'[i] = cap_out /\ cap_pc = "send"
    BY <1>4, WireStep DEF OrderInv
  <2> QED BY <1>4, <2>1, <2>2 DEF OverflowInv
<1> QED BY <1>2, <1>3, <1>4 DEF OverflowInv

-----------------------------------------------------------------------------
(* The runs of the ADC.                                                     *)

(* Every word between the ADC and the network's end of the wire. *)
Sent == {w \in Word : \E i \in DOMAIN wire : \E k \in DOMAIN wire[i].words :
                        w = wire[i].words[k]}

Known == Waiting \cup Sent

(* No step makes a known word up: one not known before is converted in that *)
(* step, in the run that goes on and the configuration it has.              *)
LEMMA KnownStep ==
  ASSUME TypeOK, ConfigInv, InfoInv, OrderInv, SourceInv, [Next]_vars
  PROVE  /\ \A w \in Known : w \in Word /\ w.at < conv
         /\ \A w \in Known' :
              \/ w \in Known
              \/ /\ w.at >= conv /\ w.run = s_epoch /\ w.cfg = cap_cfg
                 /\ UNCHANGED <<s_epoch, cap_pc, cap_cfg, wire>>
                 /\ cap_pc \notin {"restore", "start"}
<1>1. pkt \in Seq(Word) /\ adc_cfg \in Config
  BY DEF TypeOK
<1>2. \A w \in Known : w \in Word /\ w.at < conv
  BY DEF Known, Sent, Waiting, SourceInv
<1>3. ASSUME NEW w \in Sent' PROVE w \in Known
  <2>1. PICK i \in DOMAIN wire' : \E k \in DOMAIN wire'[i].words :
               w = wire'[i].words[k]
    BY <1>3 DEF Sent
  <2>2. PICK k \in DOMAIN wire'[i].words : w = wire'[i].words[k]
    BY <2>1
  <2>3. w \in Word
    BY <1>3 DEF Sent
  <2>4. CASE i \in DOMAIN wire /\ wire'[i] = wire[i]
    BY <2>2, <2>3, <2>4 DEF Known, Sent
  <2>5. CASE wire'[i] = main_out
    BY <2>2, <2>5 DEF SourceInv, InfoIsEmpty
  <2>6. CASE wire'[i] = cap_out /\ cap_out.words = pkt
    BY <2>2, <2>3, <2>6 DEF Known, Waiting
  <2> QED BY <2>4, <2>5, <2>6, WireStep DEF OrderInv
<1>4. ASSUME NEW w \in Waiting', w \notin Waiting
      PROVE  /\ w.at >= conv /\ w.run = s_epoch /\ w.cfg = cap_cfg
             /\ UNCHANGED <<s_epoch, cap_pc, cap_cfg, wire>>
             /\ cap_pc \notin {"restore", "start"}
  <2>1. ConvertFrame /\ w.at >= conv /\ w = Result(adc_cfg, s_epoch, w.at)
    BY <1>4, WaitingStep
  <2>2. /\ UNCHANGED <<s_epoch, cap_pc, cap_cfg, wire>>
        /\ cap_pc \notin {"restore", "start"}
    BY <2>1 DEF ConvertFrame, shared, capture
  <2>3. w.cfg = adc_cfg /\ w.run = s_epoch
    BY <2>1 DEF Result
  <2>4. adc_cfg = cap_cfg
    BY <2>2 DEF ConfigInv, ConfigAgreement
  <2> QED BY <2>1, <2>2, <2>3, <2>4
<1> QED BY <1>2, <1>3, <1>4 DEF Known

(* What begins an epoch, and what changes the capture task's configuration. *)
LEMMA EpochMoves ==
  ASSUME [Next]_vars
  PROVE  /\ StartEpoch \/ s_epoch' = s_epoch
         /\ \/ cap_pc' = "start"
            \/ StartEpoch
            \/ cap_pc # "start" /\ cap_cfg' = cap_cfg
<1> USE DEF shared, capture, control, driver
<1>1. CASE ControlNext
  <2>1. UNCHANGED <<s_epoch, cap_pc, cap_cfg>>
    BY <1>1 DEF ControlNext, RequestConfig, RecvNothing, TouchClient,
                DecideInfo, SnapshotInfo, NumberInfo, SendInfo
  <2> QED BY <2>1
<1>2. CASE CaptureNext
  BY <1>2 DEF CaptureNext, TakePending, ApplyConfig, RestoreConfig,
              ReadFrame, ReadNothing, GetClient, PackWords,
              FrameDone, NumberSamples, SendSamples
<1>3. CASE ConvertFrame \/ Tick \/ UNCHANGED vars
  <2>1. UNCHANGED <<s_epoch, cap_pc, cap_cfg>>
    BY <1>3 DEF ConvertFrame, Tick, vars
  <2> QED BY <2>1
<1> QED BY <1>1, <1>2, <1>3 DEF Next

(* A run of the ADC is converted in one configuration, *)
OneConfigPerRun ==
  /\ \A w \in Known : w.run <= s_epoch
  /\ cap_pc # "start" => \A w \in Known : w.run = s_epoch => w.cfg = cap_cfg
  /\ \A w, v \in Known : w.run = v.run => w.cfg = v.cfg

(* and more than a turn of the pattern goes by before the next. *)
RunsApart ==
  /\ \A w \in Known : w.run < s_epoch => w.at + 6 < conv
  /\ \A w, v \in Known : w.run < v.run => w.at + 6 < v.at

(* An epoch's packets have words of its run, in the configuration their     *)
(* headers declare, or of an earlier one.                                   *)
WireRuns ==
  \A i \in DOMAIN wire : IsSamples(wire[i]) =>
    \A k \in DOMAIN wire[i].words :
      LET w == wire[i].words[k]
      IN  /\ w.run <= wire[i].epoch
          /\ w.run = wire[i].epoch =>
               /\ w.cfg.rate = wire[i].rate_hz
               /\ popcount8(w.cfg.mask) = wire[i].n_channels

RunInv == OneConfigPerRun /\ RunsApart /\ WireRuns

(* The ADC is started again, for another run, at least a turn of the        *)
(* pattern after its last conversion.                                       *)
LEMMA RunStep ==
  ASSUME TypeOK, ConfigInv, InfoInv, EpochInv, OrderInv, SourceInv, RunInv,
         [Next]_vars
  PROVE  RunInv'
<1> DEFINE New(w) == /\ w.at >= conv /\ w.run = s_epoch /\ w.cfg = cap_cfg
                     /\ UNCHANGED <<s_epoch, cap_pc, cap_cfg, wire>>
                     /\ cap_pc \notin {"restore", "start"}
<1>1. \A w \in Known : w \in Word /\ w.at < conv
  BY KnownStep
<1>2. \A w \in Known' : w \in Known \/ New(w)
  BY KnownStep
<1>3. \A w \in Known' : w \in Word
  BY DEF Known, Waiting, Sent
<1>4. \A w \in Word : w.at \in Nat /\ w.run \in Nat
  BY DEF Word
<1>5. conv \in Nat /\ conv' \in Nat /\ conv' >= conv /\ s_epoch \in Nat
  BY ClockNumbers, WaitingStep
<1> HIDE DEF New
<1>6. CASE StartEpoch
  <2>1. s_epoch' = s_epoch + 1 /\ conv' = 6 * (conv \div 6 + 2)
          /\ cap_pc = "start"
    BY <1>6 DEF StartEpoch, NextEpoch, RestartInstant
  <2>2. conv + 6 < conv'
    BY <1>5, <2>1
  <2>3. \A w \in Known' : w \in Known
    BY <1>2, <2>1 DEF New
  <2>4. \A w \in Known' : w.run <= s_epoch
    BY <2>3 DEF RunInv, OneConfigPerRun
  <2>5. OneConfigPerRun'
    BY <1>3, <1>4, <1>5, <2>1, <2>3, <2>4 DEF RunInv, OneConfigPerRun
  <2>6. \A w \in Known' : w.at + 6 < conv'
    BY <1>1, <1>3, <1>4, <1>5, <2>2, <2>3
  <2>7. RunsApart'
    BY <2>3, <2>6 DEF RunInv, RunsApart
  <2>8. wire' = wire
    BY <1>6 DEF StartEpoch
  <2> QED BY <2>5, <2>7, <2>8 DEF RunInv, WireRuns
<1>7. CASE ~StartEpoch
  <2>1. s_epoch' = s_epoch
          /\ (cap_pc' # "start" => cap_pc # "start" /\ cap_cfg' = cap_cfg)
    BY <1>7, EpochMoves
  <2>2. \A w \in Known' : New(w) => w.run = s_epoch /\ w.cfg = cap_cfg
                                      /\ w.at >= conv /\ cap_pc # "start"
    BY DEF New
  <2>3. \A w \in Known' : w.run <= s_epoch'
    BY <1>2, <1>3, <1>4, <1>5, <2>1, <2>2 DEF RunInv, OneConfigPerRun
  <2>4. cap_pc' # "start" =>
          \A w \in Known' : w.run = s_epoch' => w.cfg = cap_cfg'
    BY <1>2, <2>1, <2>2 DEF RunInv, OneConfigPerRun
  <2>5. ASSUME NEW w \in Known', NEW v \in Known', w.run = v.run
        PROVE  w.cfg = v.cfg
    BY <1>2, <2>2, <2>5 DEF RunInv, OneConfigPerRun
  <2>6. ASSUME NEW w \in Known', w.run < s_epoch'
        PROVE  w.at + 6 < conv'
    <3>1. w \in Known
      BY <1>2, <1>3, <1>4, <1>5, <2>1, <2>2, <2>6
    <3>2. w.at + 6 < conv
      BY <2>1, <2>6, <3>1 DEF RunInv, RunsApart
    <3> QED BY <1>3, <1>4, <1>5, <3>2
  <2>7. ASSUME NEW w \in Known', NEW v \in Known', w.run < v.run
        PROVE  w.at + 6 < v.at
    <3>1. w.run < s_epoch
      BY <1>3, <1>4, <1>5, <2>1, <2>3, <2>7
    <3>2. w \in Known
      BY <1>2, <1>3, <1>4, <1>5, <2>2, <3>1
    <3>3. CASE v \in Known
      BY <2>7, <3>2, <3>3 DEF RunInv, RunsApart
    <3>4. CASE New(v)
      <4>1. w.at + 6 < conv
        BY <3>1, <3>2 DEF RunInv, RunsApart
      <4> QED BY <1>3, <1>4, <1>5, <2>2, <3>4, <4>1
    <3> QED BY <1>2, <3>3, <3>4
  <2>8. WireRuns'
    <3> SUFFICES ASSUME NEW i \in DOMAIN wire', IsSamples(wire'[i]),
                        NEW k \in DOMAIN wire'[i].words
                 PROVE  LET w == wire'[i].words[k]
                        IN  /\ w.run <= wire'[i].epoch
                            /\ w.run = wire'[i].epoch =>
                                 /\ w.cfg.rate = wire'[i].rate_hz
                                 /\ popcount8(w.cfg.mask) = wire'[i].n_channels
      BY DEF WireRuns, IsSamples
    <3>1. CASE i \in DOMAIN wire /\ wire'[i] = wire[i]
      BY <3>1 DEF RunInv, WireRuns
    <3>2. CASE /\ wire'[i] = cap_out /\ cap_pc = "send" /\ cap_out.words = pkt
               /\ cap_out.epoch = s_epoch
      <4>1. wire'[i].words[k] \in Known
        <5>1. pkt \in Seq(Word)
          BY DEF TypeOK
        <5> QED BY <3>2, <5>1 DEF Known, Waiting
      <4>2. cap_out.rate_hz = cap_cfg.rate
              /\ cap_out.n_channels = popcount8(cap_cfg.mask)
        BY <3>2 DEF EpochInv, HandDeclares, Declares
      <4>3. cap_pc # "start"
        BY <3>2
      <4> QED BY <3>2, <4>1, <4>2, <4>3 DEF RunInv, OneConfigPerRun
    <3> QED BY <3>1, <3>2, WireStep DEF OrderInv
  <2>9. OneConfigPerRun'
    BY <2>3, <2>4, <2>5 DEF OneConfigPerRun
  <2>10. RunsApart'
    BY <2>6, <2>7 DEF RunsApart
  <2> QED BY <2>8, <2>9, <2>10 DEF RunInv
<1> QED BY <1>6, <1>7

-----------------------------------------------------------------------------
(* The epoch's count.                                                       *)

(* The index of the first word of the pool's n-th frame, *)
FrameAt(n) == index + Len(rd) + FrameLen * (n - 1)

(* and the one the next conversion will have. *)
NextPlace == FrameAt(Len(pool) + 1)

(* As many words as the pool holds. *)
PoolWords == PoolFrames * FrameLen

(* The word w has the index p in this epoch: on the wire, in the packet, in *)
(* the frame in hand, in the pool.                                          *)
WentOut(w, p) ==
  \E i \in DOMAIN wire : \E k \in DOMAIN wire[i].words :
    wire[i].epoch = s_epoch /\ w = wire[i].words[k] /\ p = IndexOf(wire[i], k)
InPacket(w, p) == \E k \in DOMAIN pkt : w = pkt[k] /\ p = PacketStart + k - 1
InFrame(w, p) == \E k \in DOMAIN rd : w = rd[k] /\ p = index + k - 1
InPool(w, p) ==
  \E n \in DOMAIN pool : \E k \in DOMAIN pool[n] :
    w = pool[n][k] /\ p = FrameAt(n) + k - 1

Placed(w, p) ==
  WentOut(w, p) \/ InPacket(w, p) \/ InFrame(w, p) \/ InPool(w, p)

(* Between frames the capture task has none in hand. *)
HandEmpty == cap_pc \notin {"client", "pack", "number", "send"} => rd = <<>>

PoolIsFrames == \A n \in DOMAIN pool : Len(pool[n]) = FrameLen

(* The pool holds whole frames, and the hand one only while it is cut up.   *)
LEMMA FramesStep ==
  ASSUME TypeOK, HandEmpty, PoolIsFrames, [Next]_vars
  PROVE  HandEmpty' /\ PoolIsFrames'
<1> USE DEF shared, capture, control, driver
<1>1. pool \in Seq(Seq(Word)) /\ adc_cfg \in Config /\ conv \in Nat
        /\ s_epoch \in Nat
  BY DEF TypeOK
<1>2. HandEmpty'
  <2> USE DEF HandEmpty
  <2>1. CASE ControlNext
    BY <2>1 DEF ControlNext, RequestConfig, RecvNothing, TouchClient,
                DecideInfo, SnapshotInfo, NumberInfo, SendInfo
  <2>2. CASE CaptureNext
    BY <2>2 DEF CaptureNext, TakePending, ApplyConfig, RestoreConfig,
                StartEpoch, ReadFrame, ReadNothing, GetClient, PackWords,
                FrameDone, NumberSamples, SendSamples
  <2>3. CASE ConvertFrame \/ Tick \/ UNCHANGED vars
    BY <2>3 DEF ConvertFrame, Tick, vars
  <2> QED BY <2>1, <2>2, <2>3 DEF Next
<1>3. CASE pool' = pool
  BY <1>2, <1>3 DEF PoolIsFrames
<1>4. CASE pool # <<>> /\ pool' = Tail(pool)
  <2>1. \A n \in DOMAIN pool' :
          n + 1 \in DOMAIN pool /\ pool'[n] = pool[n + 1]
    BY <1>1, <1>4
  <2> QED BY <1>2, <2>1 DEF PoolIsFrames
<1>5. CASE pool' = Append(pool, Frame(adc_cfg, s_epoch, conv))
  <2> DEFINE f == Frame(adc_cfg, s_epoch, conv)
  <2>1. f \in Seq(Word) /\ Len(f) = FrameLen
    BY <1>1, FrameType
  <2> HIDE DEF f
  <2>2. pool' = Append(pool, f)
    BY <1>5 DEF f
  <2>3. \A n \in DOMAIN pool' :
          (n \in DOMAIN pool /\ pool'[n] = pool[n]) \/ pool'[n] = f
    BY <1>1, <2>1, <2>2
  <2> QED BY <1>2, <2>1, <2>3 DEF PoolIsFrames
<1>6. \/ pool' = pool
      \/ pool # <<>> /\ pool' = Tail(pool)
      \/ pool' = Append(pool, Frame(adc_cfg, s_epoch, conv))
  <2>1. CASE ControlNext
    BY <2>1 DEF ControlNext, RequestConfig, RecvNothing, TouchClient,
                DecideInfo, SnapshotInfo, NumberInfo, SendInfo
  <2>2. CASE CaptureNext
    BY <2>2 DEF CaptureNext, TakePending, ApplyConfig, RestoreConfig,
                StartEpoch, ReadFrame, ReadNothing, GetClient, PackWords,
                FrameDone, NumberSamples, SendSamples
  <2>3. CASE ConvertFrame \/ Tick \/ UNCHANGED vars
    BY <2>3 DEF ConvertFrame, Tick, vars
  <2> QED BY <2>1, <2>2, <2>3 DEF Next
<1> QED BY <1>3, <1>4, <1>5, <1>6

(* A place is a number, and what has one is known.                          *)
LEMMA PlacedType ==
  ASSUME TypeOK
  PROVE  /\ NextPlace \in Int
         /\ \A n \in Nat : FrameAt(n) \in Int
                             /\ FrameAt(n + 1) = FrameAt(n) + FrameLen
         /\ \A w, p : Placed(w, p) => w \in Known /\ w \in Word /\ p \in Int
<1>1. pkt \in Seq(Word) /\ rd \in Seq(Word) /\ pool \in Seq(Seq(Word))
  BY DEF TypeOK
<1>2. \A n \in Nat : FrameAt(n) \in Int
                       /\ FrameAt(n + 1) = FrameAt(n) + FrameLen
  <2> SUFFICES ASSUME NEW n \in Nat
               PROVE  FrameAt(n) \in Int
                        /\ FrameAt(n + 1) = FrameAt(n) + FrameLen
    OBVIOUS
  <2>1. FrameLen * (n - 1) \in Int
          /\ FrameLen * ((n + 1) - 1) = FrameLen * (n - 1) + FrameLen
    BY ClockNumbers
  <2> QED BY <2>1, ClockNumbers DEF FrameAt
<1>3. NextPlace \in Int
  BY <1>2, ClockNumbers DEF NextPlace
<1>4. ASSUME NEW w, NEW p, Placed(w, p)
      PROVE  w \in Known /\ w \in Word /\ p \in Int
  <2>1. CASE WentOut(w, p)
    <3>1. PICK i \in DOMAIN wire : \E k \in DOMAIN wire[i].words :
                 w = wire[i].words[k] /\ p = IndexOf(wire[i], k)
      BY <2>1 DEF WentOut
    <3>2. PICK k \in DOMAIN wire[i].words :
                 w = wire[i].words[k] /\ p = IndexOf(wire[i], k)
      BY <3>1
    <3>3. wire[i].words \in Seq(Word) /\ wire[i].first_index \in Nat
      BY ClockNumbers
    <3>4. k \in Nat /\ w \in Word
      BY <3>2, <3>3
    <3> QED BY <3>2, <3>3, <3>4 DEF Known, Sent, IndexOf
  <2>2. CASE InPacket(w, p)
    BY <1>1, <2>2, ClockNumbers DEF InPacket, PacketStart, Known, Waiting
  <2>3. CASE InFrame(w, p)
    BY <1>1, <2>3, ClockNumbers DEF InFrame, Known, Waiting
  <2>4. CASE InPool(w, p)
    <3>1. PICK n \in DOMAIN pool : \E k \in DOMAIN pool[n] :
                 w = pool[n][k] /\ p = FrameAt(n) + k - 1
      BY <2>4 DEF InPool
    <3> PICK k \in DOMAIN pool[n] : w = pool[n][k] /\ p = FrameAt(n) + k - 1
      BY <3>1
    <3>2. n \in Nat /\ pool[n] \in Seq(Word)
      BY <1>1
    <3>3. k \in Nat /\ w \in Word
      BY <3>2
    <3>4. FrameAt(n) \in Int
      BY <1>2, <3>2
    <3> QED BY <3>1, <3>2, <3>3, <3>4 DEF Known, Waiting
  <2> QED BY <1>4, <2>1, <2>2, <2>3, <2>4 DEF Placed
<1> QED BY <1>2, <1>3, <1>4

(* For the state after a step. *)
LEMMA PlaceType == TypeOK => NextPlace \in Int
BY PlacedType

(* See PlaceType. *)
LEMMA WireNumbers ==
  TypeOK => \A i \in DOMAIN wire :
    wire[i].words \in Seq(Word) /\ wire[i].first_index \in Nat
BY ClockNumbers

(* A word converted now is next in the count. *)
Converts(w, p) ==
  ConvertFrame /\ \E k \in 1..FrameLen :
    w.at = conv + k - 1 /\ w.run = s_epoch /\ p = NextPlace + k - 1

(* Within an epoch no word changes its place on its way, and the next place *)
(* moves with the ADC unless the pool overflows.                            *)
LEMMA PlacedStep ==
  ASSUME TypeOK, InfoInv, OrderInv, SourceInv, HandEmpty, PoolIsFrames,
         [Next]_vars, s_epoch' = s_epoch
  PROVE  /\ \A w, p : Placed(w, p)' => Placed(w, p) \/ Converts(w, p)
         /\ s_overflows' = 0 => conv' - conv = NextPlace' - NextPlace
<1> USE DEF shared, capture, control, driver
<1>1. pkt \in Seq(Word) /\ rd \in Seq(Word) /\ pool \in Seq(Seq(Word))
        /\ conv \in Nat /\ adc_cfg \in Config
  BY DEF TypeOK
<1>2. ASSUME NEW w, NEW p, WentOut(w, p)'
      PROVE  \/ WentOut(w, p)
             \/ InPacket(w, p) /\ cap_pc = "send"
  <2>1. PICK i \in DOMAIN wire' : \E k \in DOMAIN wire'[i].words :
               /\ wire'[i].epoch = s_epoch /\ w = wire'[i].words[k]
               /\ p = IndexOf(wire'[i], k)
    BY <1>2 DEF WentOut, IndexOf
  <2>2. PICK k \in DOMAIN wire'[i].words :
               /\ wire'[i].epoch = s_epoch /\ w = wire'[i].words[k]
               /\ p = IndexOf(wire'[i], k)
    BY <2>1
  <2>3. CASE i \in DOMAIN wire /\ wire'[i] = wire[i]
    BY <2>2, <2>3 DEF WentOut
  <2>4. CASE wire'[i] = main_out
    BY <2>2, <2>4 DEF SourceInv, InfoIsEmpty
  <2>5. CASE /\ wire'[i] = cap_out /\ cap_out.words = pkt /\ cap_pc = "send"
             /\ cap_out.first_index = pkt_first
    BY <2>2, <2>5 DEF InPacket, IndexOf, OrderInv, FirstKnown
  <2> QED BY <2>3, <2>4, <2>5, WireStep DEF OrderInv
<1>3. CASE UNCHANGED <<rd, pool, index, conv>> /\ (pkt' = pkt \/ pkt' = <<>>)
  <2>1. /\ NextPlace' = NextPlace /\ conv' = conv
        /\ \A n : FrameAt(n)' = FrameAt(n)
    BY <1>3 DEF NextPlace, FrameAt
  <2>2. conv' - conv = NextPlace' - NextPlace
    BY <1>1, <2>1, PlacedType
  <2>3. \A w, p : InPacket(w, p)' => InPacket(w, p)
    BY <1>3 DEF InPacket, PacketStart
  <2>4. \A w, p : /\ InFrame(w, p)' => InFrame(w, p)
                  /\ InPool(w, p)' => InPool(w, p)
    BY <1>3, <2>1 DEF InFrame, InPool
  <2> QED BY <1>2, <2>2, <2>3, <2>4 DEF Placed
<1>4. CASE ControlNext
  <2>1. UNCHANGED <<rd, pool, index, conv, pkt>>
    BY <1>4 DEF ControlNext, RequestConfig, RecvNothing, TouchClient,
                DecideInfo, SnapshotInfo, NumberInfo, SendInfo
  <2> QED BY <1>3, <2>1
<1>5. CASE TakePending \/ ApplyConfig \/ RestoreConfig \/ ReadNothing
  BY <1>3, <1>5 DEF TakePending, ApplyConfig, RestoreConfig, ReadNothing
<1>6. CASE GetClient \/ FrameDone \/ NumberSamples
  BY <1>3, <1>6 DEF GetClient, FrameDone, NumberSamples
<1>7. ASSUME NEW ok \in BOOLEAN, SendSamples(ok)
      PROVE  UNCHANGED <<rd, pool, index, conv>> /\ pkt' = <<>>
  BY <1>7 DEF SendSamples
<1>8. CASE StartEpoch
  BY <1>8, ClockNumbers DEF StartEpoch, NextEpoch
<1>9. CASE ReadFrame
  <2>1. /\ cap_pc = "read" /\ pool # <<>> /\ rd' = Head(pool)
        /\ pool' = Tail(pool) /\ UNCHANGED <<conv, index, pkt>>
    BY <1>9 DEF ReadFrame
  <2>2. rd = <<>> /\ Len(rd) = 0
    BY <2>1 DEF HandEmpty
  <2>3. /\ Len(pool') = Len(pool) - 1 /\ 1 \in DOMAIN pool
        /\ rd' = pool[1] /\ Len(rd') = FrameLen
        /\ \A n \in DOMAIN pool' :
             n \in Nat /\ n + 1 \in DOMAIN pool /\ pool'[n] = pool[n + 1]
    BY <1>1, <2>1 DEF PoolIsFrames
  <2>4. \A n \in Nat : FrameAt(n)' = FrameAt(n + 1)
    <3> SUFFICES ASSUME NEW n \in Nat PROVE FrameAt(n)' = FrameAt(n + 1)
      OBVIOUS
    <3> DEFINE x == FrameLen * (n - 1)
               y == FrameLen * ((n + 1) - 1)
    <3>1. y = x + FrameLen /\ x \in Int
      BY ClockNumbers
    <3>2. FrameAt(n)' = index + FrameLen + x
      BY <2>1, <2>3 DEF FrameAt
    <3>3. FrameAt(n + 1) = index + 0 + y
      BY <2>2 DEF FrameAt
    <3> HIDE DEF x, y
    <3> QED BY <3>1, <3>2, <3>3, ClockNumbers
  <2>5. NextPlace' = NextPlace
    <3> DEFINE q == Len(pool)
               x == FrameLen * (((q - 1) + 1) - 1)
               y == FrameLen * ((q + 1) - 1)
    <3>1. y = x + FrameLen /\ x \in Int
      <4>1. q \in Nat
        BY ClockNumbers
      <4> HIDE DEF q
      <4> QED BY <4>1, ClockNumbers
    <3>2. NextPlace' = index + FrameLen + x
      BY <2>1, <2>3 DEF NextPlace, FrameAt
    <3>3. NextPlace = index + 0 + y
      BY <2>2 DEF NextPlace, FrameAt
    <3> HIDE DEF x, y
    <3> QED BY <3>1, <3>2, <3>3, ClockNumbers
  <2>6. ASSUME NEW w, NEW p, InFrame(w, p)' PROVE InPool(w, p)
    <3>1. PICK k \in DOMAIN pool[1] : w = pool[1][k] /\ p = index + k - 1
      BY <2>1, <2>3, <2>6 DEF InFrame
    <3>2. FrameAt(1) = index
      <4>1. FrameLen * (1 - 1) = 0
        BY ClockNumbers
      <4> QED BY <2>2, <4>1, ClockNumbers DEF FrameAt
    <3> QED BY <2>3, <3>1, <3>2 DEF InPool
  <2>7. ASSUME NEW w, NEW p, InPool(w, p)' PROVE InPool(w, p)
    <3>1. PICK n \in DOMAIN pool' : \E k \in DOMAIN pool'[n] :
                 w = pool'[n][k] /\ p = FrameAt(n)' + k - 1
      BY <2>7 DEF InPool, FrameAt
    <3> QED BY <2>3, <2>4, <3>1 DEF InPool
  <2>8. \A w, p : InPacket(w, p)' => InPacket(w, p)
    BY <2>1 DEF InPacket, PacketStart
  <2>9. conv' - conv = NextPlace' - NextPlace
    BY <1>1, <2>1, <2>5, PlacedType
  <2> QED BY <1>2, <2>6, <2>7, <2>8, <2>9 DEF Placed
<1>10. CASE PackWords
  <2>1. UNCHANGED <<pool, conv>>
    BY <1>10 DEF PackWords
  <2>2. PICK m \in 0..Len(rd) :
          /\ Len(rd') = Len(rd) - m /\ index' = index + m
          /\ pkt' # <<>> => Len(pkt') = Len(pkt) + m
          /\ \A k \in DOMAIN rd' : k + m \in DOMAIN rd /\ rd'[k] = rd[k + m]
          /\ \A k \in DOMAIN pkt' :
               \/ k \in DOMAIN pkt /\ pkt'[k] = pkt[k]
               \/ /\ k - Len(pkt) \in DOMAIN rd
                  /\ pkt'[k] = rd[k - Len(pkt)]
    BY <1>10, PackPlaces
  <2>3. m \in Nat /\ DOMAIN rd' \subseteq Nat /\ DOMAIN pkt' \subseteq Nat
    BY <1>1, <1>10, <2>2, PackType
  <2>4. index' + Len(rd') = index + Len(rd)
    BY <2>2, <2>3, ClockNumbers
  <2>5. (\A n : FrameAt(n)' = FrameAt(n)) /\ NextPlace' = NextPlace
    BY <2>1, <2>4 DEF FrameAt, NextPlace
  <2>6. \A w, p : InPool(w, p)' => InPool(w, p)
    BY <2>1, <2>5 DEF InPool
  <2>7. ASSUME NEW w, NEW p, InFrame(w, p)' PROVE InFrame(w, p)
    <3>1. PICK k \in DOMAIN rd' : w = rd'[k] /\ p = index' + k - 1
      BY <2>7 DEF InFrame
    <3>2. index' + k - 1 = index + (k + m) - 1
      BY <2>2, <2>3, <3>1, ClockNumbers
    <3> QED BY <2>2, <3>1, <3>2 DEF InFrame
  <2>8. ASSUME NEW w, NEW p, InPacket(w, p)'
        PROVE  InPacket(w, p) \/ InFrame(w, p)
    <3>1. PICK k \in DOMAIN pkt' : w = pkt'[k] /\ p = PacketStart' + k - 1
      BY <2>8 DEF InPacket
    <3>2. Len(pkt') = Len(pkt) + m
      BY <2>2, <3>1
    <3>3. PacketStart' = PacketStart
      BY <2>2, <2>3, <3>2, ClockNumbers DEF PacketStart
    <3>4. PacketStart + k - 1 = index + (k - Len(pkt)) - 1
      BY <2>3, <3>1, ClockNumbers DEF PacketStart
    <3> QED BY <2>2, <3>1, <3>3, <3>4 DEF InPacket, InFrame
  <2>9. conv' - conv = NextPlace' - NextPlace
    BY <1>1, <2>1, <2>5, PlacedType
  <2> QED BY <1>2, <2>6, <2>7, <2>8, <2>9 DEF Placed
<1>11. CASE ConvertFrame
  <2> DEFINE f == Frame(adc_cfg, s_epoch, conv)
  <2>1. /\ UNCHANGED <<pkt, rd, index>> /\ conv' = conv + FrameLen
        /\ \/ pool' = Append(pool, f)
           \/ pool' = pool /\ s_overflows' = s_overflows + 1
    BY <1>11 DEF ConvertFrame
  <2>2. f \in Seq(Word) /\ Len(f) = FrameLen
    BY <1>1, FrameType, ClockNumbers
  <2>3. \A k \in DOMAIN f : /\ k \in 1..FrameLen
                            /\ f[k].at = conv + k - 1 /\ f[k].run = s_epoch
    BY SizeAssumption DEF Frame, Result
  <2> HIDE DEF f
  <2>4. \A n : FrameAt(n)' = FrameAt(n)
    BY <2>1 DEF FrameAt
  <2>5. \A w, p : /\ InPacket(w, p)' => InPacket(w, p)
                  /\ InFrame(w, p)' => InFrame(w, p)
    BY <2>1 DEF InPacket, InFrame, PacketStart
  <2>6. CASE pool' = Append(pool, f)
    <3>1. /\ Len(pool') = Len(pool) + 1
          /\ \A n \in DOMAIN pool' :
               \/ n \in DOMAIN pool /\ pool'[n] = pool[n]
               \/ n = Len(pool) + 1 /\ pool'[n] = f
      BY <1>1, <2>2, <2>6
    <3>2. ASSUME NEW w, NEW p, InPool(w, p)'
          PROVE  InPool(w, p) \/ Converts(w, p)
      <4>1. PICK n \in DOMAIN pool' : \E k \in DOMAIN pool'[n] :
                   w = pool'[n][k] /\ p = FrameAt(n)' + k - 1
        BY <3>2 DEF InPool, FrameAt
      <4> PICK k \in DOMAIN pool'[n] :
                   w = pool'[n][k] /\ p = FrameAt(n)' + k - 1
        BY <4>1
      <4>2. CASE n \in DOMAIN pool /\ pool'[n] = pool[n]
        BY <2>4, <4>1, <4>2 DEF InPool
      <4>3. CASE n = Len(pool) + 1 /\ pool'[n] = f
        <5>1. /\ k \in 1..FrameLen /\ w.at = conv + k - 1 /\ w.run = s_epoch
              /\ p = NextPlace + k - 1
          BY <2>3, <2>4, <4>1, <4>3 DEF NextPlace
        <5> QED BY <1>11, <5>1 DEF Converts
      <4> QED BY <3>1, <4>2, <4>3
    <3>3. conv' - conv = NextPlace' - NextPlace
      <4>1. NextPlace' = FrameAt((Len(pool) + 1) + 1)
        <5>1. NextPlace' = FrameAt(Len(pool') + 1)
          BY <2>1 DEF NextPlace, FrameAt
        <5> QED BY <3>1, <5>1
      <4>2. Len(pool) + 1 \in Nat
        BY ClockNumbers
      <4>3. NextPlace' = NextPlace + FrameLen /\ NextPlace \in Int
        BY <4>1, <4>2, PlacedType DEF NextPlace
      <4> QED BY <1>1, <2>1, <4>3, ClockNumbers
    <3> QED BY <1>2, <2>5, <3>2, <3>3 DEF Placed
  <2>7. CASE pool' = pool /\ s_overflows' = s_overflows + 1
    <3>1. s_overflows' # 0
      BY <2>7 DEF TypeOK
    <3>2. \A w, p : InPool(w, p)' => InPool(w, p)
      BY <2>4, <2>7 DEF InPool
    <3> QED BY <1>2, <2>5, <3>1, <3>2 DEF Placed
  <2> QED BY <2>1, <2>6, <2>7
<1>12. CASE Tick \/ UNCHANGED vars
  BY <1>3, <1>12 DEF Tick, vars
<1> QED
  BY <1>3, <1>4, <1>5, <1>6, <1>7, <1>8, <1>9, <1>10, <1>11, <1>12
     DEF Next, CaptureNext

(* A new epoch counts from the frames the restart finds in the pool: they   *)
(* were converted before, and at most a pool's worth.                       *)
LEMMA RestartPlaces ==
  ASSUME TypeOK, OrderInv, InfoInv, SourceInv, HandEmpty, PoolIsFrames,
         StartEpoch
  PROVE  \A w, p : Placed(w, p)' => Placed(w, p + index) /\ p < PoolWords
<1>1. /\ index' = 0 /\ pkt' = <<>> /\ s_epoch' = s_epoch + 1
      /\ UNCHANGED <<rd, pool, wire>> /\ cap_pc = "start"
  BY DEF StartEpoch, Leftover, NextEpoch
<1>2. rd = <<>> /\ Len(rd) = 0
  BY <1>1 DEF HandEmpty
<1>3. \A i \in DOMAIN wire : IsSamples(wire[i]) => wire[i].epoch # s_epoch'
  BY <1>1, ClockNumbers DEF OrderInv, SentBefore
<1>4. ASSUME NEW w, NEW p, Placed(w, p)'
      PROVE  Placed(w, p + index) /\ p < PoolWords
  <2>1. ~WentOut(w, p)'
    BY <1>1, <1>3 DEF WentOut, SourceInv, IndexOf
  <2>2. InPool(w, p)'
    BY <1>1, <1>2, <1>4, <2>1 DEF Placed, InPacket, InFrame
  <2>3. PICK n \in DOMAIN pool : \E k \in DOMAIN pool[n] :
               w = pool[n][k] /\ p = FrameAt(n)' + k - 1
    BY <1>1, <2>2 DEF InPool, FrameAt
  <2> PICK k \in DOMAIN pool[n] : w = pool[n][k] /\ p = FrameAt(n)' + k - 1
    BY <2>3
  <2>4. /\ n \in Nat \ {0} /\ n <= Len(pool) /\ Len(pool) <= PoolFrames
        /\ k \in Nat /\ k <= FrameLen
    BY <2>3 DEF TypeOK, PoolIsFrames
  <2>5. FrameLen * (n - 1) \in Int /\ FrameLen * (n - 1) + FrameLen <= PoolWords
    <3> DEFINE r == PoolFrames - n
    <3>1. r \in Nat /\ PoolFrames = (n - 1) + 1 + r
      BY <2>4, SizeAssumption, ClockNumbers
    <3> HIDE DEF r
    <3>2. PoolFrames * FrameLen
            = FrameLen * (n - 1) + FrameLen + FrameLen * r
      BY <2>4, <3>1, ClockNumbers, SMTT(30)
    <3>3. FrameLen * r \in Nat /\ FrameLen * (n - 1) \in Int
      BY <2>4, <3>1, ClockNumbers, SMTT(30)
    <3> QED BY <3>2, <3>3, ClockNumbers DEF PoolWords
  <2>6. FrameAt(n)' = FrameLen * (n - 1)
          /\ FrameAt(n) = index + FrameLen * (n - 1)
    BY <1>1, <1>2, <2>5, ClockNumbers DEF FrameAt
  <2>7. p = FrameLen * (n - 1) + k - 1 /\ p + index = FrameAt(n) + k - 1
    <3> DEFINE x == FrameLen * (n - 1)
    <3>1. x \in Int /\ p = x + k - 1 /\ FrameAt(n) = index + x
      BY <2>5, <2>6
    <3> HIDE DEF x
    <3>2. p + index = FrameAt(n) + k - 1
      BY <2>4, <3>1, ClockNumbers
    <3> QED BY <3>1, <3>2 DEF x
  <2>8. InPool(w, p + index)
    BY <2>3, <2>7 DEF InPool
  <2>9. PoolWords \in Int
    BY SizeAssumption DEF PoolWords
  <2> QED BY <2>4, <2>5, <2>7, <2>8, <2>9, ClockNumbers DEF Placed
<1> QED BY <1>4

(* Beyond a pool's worth, only words of the run that goes on. *)
Settled ==
  \A w \in Word, p \in Int : Placed(w, p) /\ p >= PoolWords => w.run = s_epoch

(* Words of the run that goes on are as long ago as their places are before *)
(* the next one's, *)
TimedNow ==
  \A w \in Word, p \in Int :
    Placed(w, p) /\ w.run = s_epoch => conv - w.at = NextPlace - p

(* and words of one run, this one or one before, as far apart. *)
TimedApart ==
  \A w, v \in Word, p, q \in Int :
    Placed(w, p) /\ Placed(v, q) /\ w.run = v.run => v.at - w.at = q - p

(* What Settled says of the epoch that goes on, once it is on the wire.     *)
WireSettles ==
  \A i \in DOMAIN wire : \A k \in DOMAIN wire[i].words :
    IndexOf(wire[i], k) >= PoolWords => wire[i].words[k].run = wire[i].epoch

ClockInv ==
  /\ HandEmpty /\ PoolIsFrames /\ Settled /\ WireSettles
  /\ s_overflows = 0 => TimedNow /\ TimedApart
  /\ IndexIsTime

(* Every step keeps the count, and a restart begins another.                *)
LEMMA CountStep ==
  ASSUME TypeOK, ConfigInv, InfoInv, OrderInv, SourceInv, OverflowInv, RunInv,
         ClockInv, [Next]_vars
  PROVE  Settled' /\ (s_overflows' = 0 => TimedNow' /\ TimedApart')
<1>1. /\ conv \in Nat /\ conv' \in Nat /\ index \in Nat /\ s_epoch \in Nat
      /\ NextPlace \in Int /\ NextPlace' \in Int /\ FrameLen \in Nat
      /\ PoolWords \in Int
  <2>1. NextPlace \in Int
    BY PlacedType
  <2>2. NextPlace' \in Int
    <3>1. TypeOK'
      BY StepType
    <3>2. (TypeOK => NextPlace \in Int)'
      BY PlaceType, PTL
    <3> QED BY <3>1, <3>2
  <2>3. conv' \in Nat
    BY WaitingStep
  <2>4. PoolWords \in Int
    BY SizeAssumption DEF PoolWords
  <2> QED BY <2>1, <2>2, <2>3, <2>4, ClockNumbers
<1>2. \A w \in Word : w.at \in Nat /\ w.run \in Nat
  BY DEF Word
<1>3. HandEmpty /\ PoolIsFrames /\ Settled
        /\ (s_overflows' = 0 => TimedNow /\ TimedApart)
  BY OverflowStep DEF ClockInv
<1>4. CASE s_epoch' = s_epoch
  <2>1. /\ \A w, p : Placed(w, p)' => Placed(w, p) \/ Converts(w, p)
        /\ s_overflows' = 0 => conv' - conv = NextPlace' - NextPlace
    BY <1>3, <1>4, PlacedStep
  <2>2. Settled'
    BY <1>3, <1>4, <2>1 DEF Settled, Converts
  <2>3. ASSUME s_overflows' = 0, NEW w \in Word, NEW p \in Int,
               Placed(w, p)', w.run = s_epoch
        PROVE  conv' - w.at = NextPlace' - p
    <3>1. CASE Placed(w, p)
      <4>1. conv - w.at = NextPlace - p
        BY <1>3, <2>3, <3>1 DEF TimedNow
      <4>2. w.at \in Int /\ conv' - conv = NextPlace' - NextPlace
        BY <1>2, <2>1, <2>3
      <4> QED BY <1>1, <4>1, <4>2
    <3>2. CASE Converts(w, p)
      <4>1. PICK k \in 1..FrameLen :
                   w.at = conv + k - 1 /\ p = NextPlace + k - 1
        BY <3>2 DEF Converts
      <4>2. k \in Nat
        BY <1>1
      <4>3. conv' - conv = NextPlace' - NextPlace
        BY <2>1, <2>3
      <4> QED BY <1>1, <4>1, <4>2, <4>3
    <3> QED BY <2>1, <2>3, <3>1, <3>2
  <2>4. s_overflows' = 0 => TimedNow'
    BY <1>4, <2>3 DEF TimedNow
  <2>5. ASSUME s_overflows' = 0,
               NEW w \in Word, NEW v \in Word, NEW p \in Int, NEW q \in Int,
               Placed(w, p)', Placed(v, q)', w.run = v.run
        PROVE  v.at - w.at = q - p
    <3>1. CASE Placed(w, p) /\ Placed(v, q)
      BY <1>3, <2>5, <3>1 DEF TimedApart
    <3>2. CASE w.run = s_epoch
      <4>1. conv' - w.at = NextPlace' - p
        BY <2>3, <2>5, <3>2
      <4>2. conv' - v.at = NextPlace' - q
        BY <2>3, <2>5, <3>2
      <4> QED BY <1>1, <1>2, <4>1, <4>2
    <3> QED BY <2>1, <2>5, <3>1, <3>2 DEF Converts
  <2>6. s_overflows' = 0 => TimedApart'
    BY <2>5 DEF TimedApart
  <2> QED BY <2>2, <2>4, <2>6
<1>5. CASE StartEpoch
  <2>1. \A w, p : Placed(w, p)' => Placed(w, p + index) /\ p < PoolWords
    BY <1>3, <1>5, RestartPlaces
  <2>2. s_epoch' = s_epoch + 1
    BY <1>5 DEF StartEpoch, NextEpoch
  <2>3. Settled'
    BY <1>1, <2>1 DEF Settled, PoolWords
  <2>4. \A w \in Word, p \in Int : Placed(w, p)' => w.run # s_epoch'
    <3> SUFFICES ASSUME NEW w \in Word, NEW p \in Int, Placed(w, p)'
                 PROVE  w.run # s_epoch'
      OBVIOUS
    <3>1. w \in Known
      BY <2>1, PlacedType
    <3>2. w.run <= s_epoch
      BY <3>1 DEF RunInv, OneConfigPerRun
    <3> QED BY <1>1, <1>2, <2>2, <3>2
  <2>5. TimedNow'
    BY <2>4 DEF TimedNow
  <2>6. ASSUME s_overflows' = 0,
               NEW w \in Word, NEW v \in Word, NEW p \in Int, NEW q \in Int,
               Placed(w, p)', Placed(v, q)', w.run = v.run
        PROVE  v.at - w.at = q - p
    <3>1. Placed(w, p + index) /\ Placed(v, q + index)
      BY <2>1, <2>6
    <3>2. p + index \in Int /\ q + index \in Int
      BY <1>1
    <3>3. v.at - w.at = (q + index) - (p + index)
      BY <1>3, <2>6, <3>1, <3>2 DEF TimedApart
    <3> QED BY <1>1, <3>3
  <2>7. s_overflows' = 0 => TimedApart'
    BY <2>6 DEF TimedApart
  <2> QED BY <2>3, <2>5, <2>7
<1> QED BY <1>4, <1>5, EpochMoves

(* What has left says of the epoch what the count says, and nothing new     *)
(* leaves for an epoch that is over.                                        *)
LEMMA ClockStep ==
  ASSUME TypeOK, ConfigInv, InfoInv, OrderInv, SourceInv, OverflowInv, RunInv,
         ClockInv, [Next]_vars
  PROVE  ClockInv'
<1>1. /\ HandEmpty' /\ PoolIsFrames'
      /\ Settled' /\ (s_overflows' = 0 => TimedNow' /\ TimedApart')
  BY FramesStep, CountStep DEF ClockInv
<1>2. ASSUME NEW i \in DOMAIN wire', wire'[i].epoch # s_epoch',
             wire'[i].words # <<>>
      PROVE  i \in DOMAIN wire /\ wire'[i] = wire[i]
  <2>1. CASE wire'[i] = main_out
    BY <1>2, <2>1 DEF SourceInv, InfoIsEmpty
  <2>2. CASE wire'[i] = cap_out /\ cap_out.epoch = s_epoch /\ s_epoch' = s_epoch
    BY <1>2, <2>2
  <2> QED BY <2>1, <2>2, WireStep DEF OrderInv
<1>3. TypeOK'
  BY StepType
<1>4. (TypeOK => \A i \in DOMAIN wire :
         wire[i].words \in Seq(Word) /\ wire[i].first_index \in Nat)'
  BY WireNumbers, PTL
<1>5. \A i \in DOMAIN wire' : \A k \in DOMAIN wire'[i].words :
        wire'[i].epoch = s_epoch' =>
          /\ Placed(wire[i].words[k], IndexOf(wire[i], k))'
          /\ wire'[i].words[k] \in Word /\ IndexOf(wire'[i], k) \in Int
  <2> SUFFICES ASSUME NEW i \in DOMAIN wire', NEW k \in DOMAIN wire'[i].words,
                      wire'[i].epoch = s_epoch'
               PROVE  /\ Placed(wire[i].words[k], IndexOf(wire[i], k))'
                      /\ wire'[i].words[k] \in Word
                      /\ IndexOf(wire'[i], k) \in Int
    OBVIOUS
  <2>1. Placed(wire[i].words[k], IndexOf(wire[i], k))'
    BY DEF Placed, WentOut, IndexOf
  <2>2. wire'[i].words \in Seq(Word) /\ wire'[i].first_index \in Nat
    BY <1>3, <1>4
  <2> QED BY <2>1, <2>2 DEF IndexOf
<1>6. WireSettles'
  <2> SUFFICES ASSUME NEW i \in DOMAIN wire', NEW k \in DOMAIN wire'[i].words,
                      IndexOf(wire'[i], k) >= PoolWords
               PROVE  wire'[i].words[k].run = wire'[i].epoch
    BY DEF WireSettles, IndexOf, PoolWords
  <2>1. CASE wire'[i].epoch = s_epoch'
    BY <1>1, <1>5, <2>1 DEF Settled, PoolWords
  <2>2. CASE wire'[i].epoch # s_epoch'
    <3>1. i \in DOMAIN wire /\ wire'[i] = wire[i]
      BY <1>2, <2>2
    <3> QED BY <3>1 DEF ClockInv, WireSettles
  <2> QED BY <2>1, <2>2
<1>7. IndexIsTime'
  <2> SUFFICES ASSUME s_overflows' = 0,
                      NEW i \in DOMAIN wire', NEW j \in DOMAIN wire',
                      wire'[i].epoch = wire'[j].epoch,
                      NEW k \in DOMAIN wire'[i].words,
                      NEW l \in DOMAIN wire'[j].words,
                      wire'[i].words[k].run = wire'[j].words[l].run
               PROVE  wire'[j].words[l].at - wire'[i].words[k].at
                        = (wire'[j].first_index + l)
                            - (wire'[i].first_index + k)
    BY DEF IndexIsTime
  <2>1. CASE wire'[i].epoch = s_epoch'
    <3>1. wire'[j].words[l].at - wire'[i].words[k].at
            = IndexOf(wire'[j], l) - IndexOf(wire'[i], k)
      <4>1. \A w, v \in Word, p, q \in Int :
              Placed(w, p)' /\ Placed(v, q)' /\ w.run = v.run =>
                v.at - w.at = q - p
        BY <1>1 DEF TimedApart
      <4>2. /\ Placed(wire[i].words[k], IndexOf(wire[i], k))'
            /\ Placed(wire[j].words[l], IndexOf(wire[j], l))'
            /\ wire'[i].words[k] \in Word /\ IndexOf(wire'[i], k) \in Int
            /\ wire'[j].words[l] \in Word /\ IndexOf(wire'[j], l) \in Int
        BY <1>5, <2>1
      <4> QED BY <4>1, <4>2 DEF IndexOf
    <3>2. /\ wire'[i].first_index \in Nat /\ wire'[j].first_index \in Nat
          /\ wire'[i].words \in Seq(Word) /\ wire'[j].words \in Seq(Word)
      BY <1>3, <1>4
    <3>3. k \in Nat /\ l \in Nat
      BY <3>2
    <3>4. IndexOf(wire'[j], l) - IndexOf(wire'[i], k)
            = (wire'[j].first_index + l) - (wire'[i].first_index + k)
      <4> DEFINE f == wire'[i].first_index
                 g == wire'[j].first_index
      <4>1. f \in Nat /\ g \in Nat
        BY <3>2
      <4> HIDE DEF f, g
      <4>2. (g + l - 1) - (f + k - 1) = (g + l) - (f + k)
        BY <3>3, <4>1
      <4> QED BY <4>2 DEF f, g, IndexOf
    <3> QED BY <3>1, <3>4
  <2>2. CASE wire'[i].epoch # s_epoch'
    <3>1. i \in DOMAIN wire /\ wire'[i] = wire[i]
            /\ j \in DOMAIN wire /\ wire'[j] = wire[j]
      BY <1>2, <2>2
    <3>2. IndexIsTime /\ s_overflows = 0
      BY OverflowStep DEF ClockInv
    <3> QED BY <3>1, <3>2 DEF IndexIsTime
  <2> QED BY <2>1, <2>2
<1> QED BY <1>1, <1>6, <1>7 DEF ClockInv

-----------------------------------------------------------------------------
(* No HELLO asks for anything but what runs from power-up, or for something *)
(* that is accepted.                                                        *)
NeverReconfigured ==
  \A h \in Hosts :
    ValidRequest(HelloOf[h]) => Merge(HelloOf[h], BootCfg) = BootCfg

OneEpochInv ==
  /\ s_cfg = BootCfg /\ ~s_pending /\ s_epoch = 1
  /\ cap_pc \notin {"apply", "restore", "start"}
  /\ \A i \in DOMAIN wire : IsSamples(wire[i]) => wire[i].epoch = 1

(* A request for what runs already sets nothing pending, so it opens no     *)
(* epoch (adc_stream_request_config, adc_stream.c:201-205).                 *)
LEMMA OneEpochStep ==
  ASSUME NeverReconfigured, TypeOK, InfoInv, OrderInv, OneEpochInv, [Next]_vars
  PROVE  OneEpochInv'
<1> USE DEF shared, capture, control, driver
<1>1. \A i \in DOMAIN wire' : IsSamples(wire'[i]) => wire'[i].epoch = 1
  BY WireStep DEF OrderInv, OneEpochInv
<1>2. /\ s_cfg' = BootCfg /\ ~s_pending' /\ s_epoch' = 1
      /\ cap_pc' \notin {"apply", "restore", "start"}
  <2> USE DEF OneEpochInv
  <2>1. ASSUME NEW h \in Hosts, RequestConfig(h)
        PROVE  UNCHANGED <<s_cfg, s_pending, s_epoch, cap_pc>>
    <3>1. ~(ValidRequest(HelloOf[h]) /\ Changes(Merge(HelloOf[h], s_cfg)))
      BY DEF NeverReconfigured, Changes
    <3> QED BY <2>1, <3>1 DEF RequestConfig
  <2>2. CASE RecvNothing \/ TouchClient \/ DecideInfo \/ SnapshotInfo
               \/ NumberInfo
    BY <2>2 DEF RecvNothing, TouchClient, DecideInfo, SnapshotInfo, NumberInfo
  <2>3. ASSUME NEW ok \in BOOLEAN, SendInfo(ok)
        PROVE  UNCHANGED <<s_cfg, s_pending, s_epoch, cap_pc>>
    BY <2>3 DEF SendInfo
  <2>4. CASE CaptureNext
    BY <2>4 DEF CaptureNext, TakePending, ApplyConfig, RestoreConfig,
                StartEpoch, ReadFrame, ReadNothing, GetClient, PackWords,
                FrameDone, NumberSamples, SendSamples
  <2>5. CASE ConvertFrame \/ Tick \/ UNCHANGED vars
    BY <2>5 DEF ConvertFrame, Tick, vars
  <2> QED BY <2>1, <2>2, <2>3, <2>4, <2>5 DEF Next, ControlNext
<1> QED BY <1>1, <1>2 DEF OneEpochInv

-----------------------------------------------------------------------------
(* All of it together.                                                      *)

WireInv ==
  /\ TypeOK /\ ConfigInv /\ InfoInv /\ EpochInv /\ OrderInv
  /\ SourceInv /\ TimeInv /\ CutInv /\ OverflowInv /\ RunInv /\ ClockInv

(* Always, *)
LEMMA WireAlways == Spec => []WireInv
<1>1. Init => WireInv
  <2> SUFFICES ASSUME Init PROVE WireInv
    OBVIOUS
  <2>1. TypeOK
    BY InitType
  <2>2. ConfigInv /\ InfoInv /\ EpochInv /\ OrderInv
    BY DEF Init, ConfigInv, ConfigAgreement, InfoInv, NoDatagram, Info,
           OrderInv, PacketStart, FirstKnown, HandIsPacket, SentBefore,
           SamplesInOrder, EpochInv, SentDeclares, HandDeclares,
           EpochNamesOneConfig
  <2>3. Waiting = {} /\ Known = {}
    BY DEF Init, Waiting, Known, Sent
  <2>4. SourceInv
    BY <2>3 DEF Init, SourceInv, InfoIsEmpty, NoDatagram, Info
  <2>5. TimeInv
    BY <2>3
       DEF Init, TimeInv, WaitingInOrder, SentInOrder, Rising, Follows
  <2>6. PacketStart = 0
    <3>1. index = 0 /\ pkt = <<>>
      BY DEF Init
    <3>2. Len(pkt) = 0 /\ 0 - 0 = 0
      BY <3>1, EmptyPacket
    <3> QED BY <3>1, <3>2 DEF PacketStart
  <2>7. IsCut(0)
    <3>1. 0 \in Nat /\ 0 = 0 * PktLen
      BY PktLenAssumption
    <3> QED BY <3>1 DEF IsCut
  <2>8. CutInv
    BY <2>6, <2>7 DEF Init, CutInv
  <2>9. OverflowInv
    BY DEF Init, OverflowInv
  <2>10. RunInv
    BY <2>3 DEF Init, RunInv, OneConfigPerRun, RunsApart, WireRuns
  <2>11. \A w, p : ~Placed(w, p)
    BY DEF Init, Placed, WentOut, InPacket, InFrame, InPool
  <2>12. HandEmpty /\ PoolIsFrames /\ WireSettles /\ IndexIsTime
    BY DEF Init, HandEmpty, PoolIsFrames, WireSettles, IndexIsTime
  <2>13. ClockInv
    BY <2>11, <2>12 DEF ClockInv, Settled, TimedNow, TimedApart
  <2> QED BY <2>1, <2>2, <2>4, <2>5, <2>8, <2>9, <2>10, <2>13 DEF WireInv
<1>2. WireInv /\ [Next]_vars => WireInv'
  <2> SUFFICES ASSUME WireInv, [Next]_vars PROVE WireInv'
    OBVIOUS
  <2> USE DEF WireInv
  <2>1. TypeOK' /\ ConfigInv' /\ InfoInv' /\ EpochInv' /\ OrderInv'
    BY StepType, ConfigStep, InfoStep, EpochStep, OrderStep
  <2>2. SourceInv' /\ CutInv' /\ OverflowInv' /\ RunInv'
    BY SourceStep, CutStep, OverflowStep, RunStep
  <2>3. TimeInv'
    BY WaitingOrderStep, SentOrderStep DEF TimeInv
  <2>4. ClockInv'
    BY ClockStep
  <2> QED BY <2>1, <2>2, <2>3, <2>4
<1> QED BY <1>1, <1>2, PTL DEF Spec

(* While the pool has not overflowed, first_index is a clock: two samples   *)
(* of an epoch converted in one run of the ADC are as far apart in time as  *)
(* their indices are, through failed sends, stretches nobody listened to,   *)
(* the numbering of both tasks and the frames a restart finds in the pool   *)
(* (adc_stream.c:300-361).                                                  *)
THEOREM FirstIndexIsTime == Spec => []IndexIsTime
<1>1. WireInv => IndexIsTime
  BY DEF WireInv, ClockInv
<1> QED BY <1>1, WireAlways, PTL

(* However often the ADC is reconfigured, refused or not, and with the pool *)
(* as full as it can be when it is stopped: from index PoolFrames * FrameLen*)
(* of an epoch on, all samples were converted after the restart, in the     *)
(* configuration the header declares (adc_stream.c:300-361).                *)
THEOREM HeadersAreRightAfterThePool == Spec => []HeadersSettle
<1>1. WireInv => HeadersSettle
  <2> SUFFICES ASSUME WireInv, NEW i \in DOMAIN wire,
                      NEW k \in DOMAIN wire[i].words,
                      IndexOf(wire[i], k) >= PoolFrames * FrameLen
               PROVE  LET w == wire[i].words[k]
                      IN  /\ w.run = wire[i].epoch
                          /\ w.cfg.rate = wire[i].rate_hz
                          /\ popcount8(w.cfg.mask) = wire[i].n_channels
    BY DEF HeadersSettle
  <2>1. wire[i].words[k].run = wire[i].epoch
    BY DEF WireInv, ClockInv, WireSettles, PoolWords
  <2>2. IsSamples(wire[i])
    BY DEF WireInv, SourceInv
  <2> QED BY <2>1, <2>2 DEF WireInv, RunInv, WireRuns
<1> QED BY <1>1, WireAlways, PTL

(* And when no HELLO changes anything, there is one epoch. *)
LEMMA OneEpochAlways ==
  ASSUME NeverReconfigured
  PROVE  Spec => []OneEpochInv
<1>1. Init => OneEpochInv
  BY DEF Init, OneEpochInv
<1>2. WireInv /\ OneEpochInv /\ [Next]_vars => OneEpochInv'
  BY OneEpochStep DEF WireInv
<1> QED BY <1>1, <1>2, WireAlways, PTL DEF Spec
=============================================================================
